SPECIFICATION Spec
CONSTANTS
  Tasks = {t1, t2, t3}
  Nodes = {n1, n2}
  Nil = Nil
SYMMETRY KlistSymmetry
INVARIANTS
  RefExact IterationComplete ObjectHeld NoLostWakeup
PROPERTIES
  RemoveReturnsUnlinked
