SPECIFICATION Spec
CONSTANTS
  Subscriber = {}
  Poller = {p1}
  Capacity = 3
  MaxMarks = 2
  Limit = 2
  ReadSize = 2
  MaxOutput = 4
  MaxResizes = 3
  Grid = {small, large}
  Nobody = Nobody
INVARIANTS
  FramesAreHonest
  ExitedAnswerIsLast
CHECK_DEADLOCK FALSE
