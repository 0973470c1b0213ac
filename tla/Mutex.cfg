SPECIFICATION FairSpec
CONSTANTS
  Tasks = {t1, t2, t3}
  NoTask = NoTask
  UP = TRUE
  LockModes = {"interruptible"}
  SentSignals = {"signal"}
INVARIANTS
  OwnerExact
  NoLostWakeup
PROPERTIES
  LockReturns
