SPECIFICATION Spec
CONSTANTS
  Tasks = {t1, t2, t3}
  NoTask = NoTask
  UP = TRUE
  READERS = READERS
  MAX_READERS_WAKEUP = 2
INVARIANTS
  CountExact
  NoLostWakeup
PROPERTIES
  HandoffHolds
