SPECIFICATION FairSpec
CONSTANTS
  Tasks = {t1, t2}
  Idle = idle
  Heads = {h1, h2, h3}
INVARIANTS
  GracePeriod
  SynchronizeIsGracePeriod
  BarrierOrder
PROPERTIES
  CallbackInvoked
