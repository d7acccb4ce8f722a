SPECIFICATION Spec
CONSTANTS
  s1 = s1
  s2 = s2
  Session = {s1,s2}
  Nowhere = Nowhere
  Self = Self
  Other = Other
  Nobody = Nobody
  MaxSerial = 2
  MaxKeys = 2
  MaxTaps = 1
  MaxLosses = 1
  MaxMoves = 0
  MaxGen = 2
SYMMETRY MCSessions
INVARIANTS
  RightSession
  KeysInOrder
CHECK_DEADLOCK FALSE
