SPECIFICATION FairSpec
CONSTANTS
  Name = {n1, n2}
  Device = {d1}
  Grants <- MCGrants
  MaxPeers = 2
  Missing = Missing
  Conn = {c1, c2}
  MaxConn = 2
  Asked <- MCAsked
  HasTerminal = TRUE
  HasHub = TRUE
  AttachOnly = {"local"}
  View = view
INVARIANTS
  RevokedIsRefused
  DoneOnce
  AnswersAreTrue
PROPERTIES
  
  ConnectionEnds
CHECK_DEADLOCK FALSE
