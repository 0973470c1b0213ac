SPECIFICATION ScriptSpec
CONSTANTS
  t1 = t1
  t2 = t2
  t3 = t3
  Tasks = {t1, t2, t3}
  NoTask = NoTask
  UP = FALSE
  READERS = READERS
  MAX_READERS_WAKEUP = 2
INVARIANTS
  NoLostWakeup
CHECK_DEADLOCK FALSE
