CONSTANTS
  Requests = {r1, r2, r3}
  OverrideLimit = Unset
  OverrideWindow = 1
  DefaultLimit = 3
  DefaultWindow = 2
  Faults = {"drop"}
  MaxCount = 9
  Unset = Unset
SPECIFICATION RateFairSpec
PROPERTIES
  AlwaysRecovers
