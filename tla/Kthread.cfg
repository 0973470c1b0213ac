SPECIFICATION FairSpec
CONSTANTS
  Creators = {c1, c2}
  Infos = {r1, r2}
  None = None
INVARIANTS
  CreateInfoExact
  StartsOnlyIfAsked
  ParkHolds
PROPERTIES
  CallsReturn
