CONSTANTS
  i1 = i1
  i2 = i2
  i3 = i3
  v1 = v1
  v2 = v2
  Inputs = {i1, i2, i3}
  Versions = {v1, v2}
  None = None
  Partial = Partial
  MaxFaults = 4
SPECIFICATION FairSpec
INVARIANTS TypeOK UpWithItsInput IniVouches NeedlessBuilds
PROPERTY ComesUp
