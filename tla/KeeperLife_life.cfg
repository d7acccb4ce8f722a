SPECIFICATION LifeFairSpec
CONSTANTS
  Client = {c1, c2, c3}
  MaxClients = 2
  Stoppable = TRUE
  DirMayGo = TRUE
INVARIANTS
  SlotsMatchThreads
  
PROPERTIES
  KeeperLeaves
CHECK_DEADLOCK FALSE
