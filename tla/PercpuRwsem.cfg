SPECIFICATION FairSpec
CONSTANTS
  Tasks = {r, b, w}
  Readers = {r, b}
  Writers = {b, w}
  NCpus = 2
  Width = 5
  NoTask = NoTask
  MaxCalls = 2
INVARIANTS
  NoFastReader
  Exclusion
  NoLostWakeup
PROPERTIES
  Settles
