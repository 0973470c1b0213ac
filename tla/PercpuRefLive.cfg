SPECIFICATION FairSpec
CONSTANTS
  Users = {u1}
  CPUs = {c1}
  Ops = {"tryget_live"}
  BIAS = 16
  MaxHeld = 2
PROPERTIES
  KillReleases OperationsReturn
