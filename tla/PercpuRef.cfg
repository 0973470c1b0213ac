SPECIFICATION Spec
CONSTANTS
  Users = {u1, u2}
  CPUs = {c1}
  Ops = {"get", "tryget_live"}
  BIAS = 16
  MaxHeld = 2
SYMMETRY RefSymmetry
INVARIANTS
  ReleaseExact PercpuSafe CountExact
PROPERTIES
  ConfirmedAfterSwitch
