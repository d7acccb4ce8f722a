SPECIFICATION FairSpec
CONSTANTS
  Subscriber = {s1}
  Poller = {}
  Capacity = 1
  MaxMarks = 2
  Limit = 1
  ReadSize = 2
  MaxOutput = 2
  MaxResizes = 1
  Grid = {small, large}
  Nobody = Nobody
INVARIANTS
  NoSilentLoss
PROPERTIES
  OutputArrives
  ResizeCompletes
CHECK_DEADLOCK FALSE
