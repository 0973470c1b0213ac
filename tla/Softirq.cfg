SPECIFICATION FairSpec
CONSTANTS
  Vecs = {1, 6}
  TASKLET_SOFTIRQ = 6
  Tasklets = {k1, k2}
  None = None
  MAX_SOFTIRQ_RESTART = 2
  MaxBh = 2
  MaxDisable = 1
INVARIANTS
  PreemptCountExact
  BhExclusion
  TaskletOnce
PROPERTIES
  TaskletRuns
