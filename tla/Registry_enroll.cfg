SPECIFICATION FairSpec
CONSTANTS
  Process = {p1, p2}
  Name = {n1, n2}
  Device = {d1}
  Grants = {{g1}}
  Missing = Missing
  Identity = {i1, i2}
  MaxPeers = 2
  MaxAttempts = 1
  Torn = Torn
  MaxCuts = 1
  Nobody = Nobody
INVARIANTS
  NothingLeftBehind
PROPERTIES
  ImplementsPeerBook
  InvitationCloses
CHECK_DEADLOCK FALSE
