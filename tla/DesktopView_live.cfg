SPECIFICATION FairSpec
CONSTANTS
  s1 = s1
  s2 = s2
  Session = {s1,s2}
  Nowhere = Nowhere
  Self = Self
  Other = Other
  Nobody = Nobody
  MaxSerial = 2
  MaxKeys = 1
  MaxTaps = 0
  MaxLosses = 1
  MaxMoves = 1
  MaxGen = 6
PROPERTIES
  GateEmpties
  LossIsNoticed
CHECK_DEADLOCK FALSE
