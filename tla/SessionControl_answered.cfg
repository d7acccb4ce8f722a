SPECIFICATION FairSpec
CONSTANTS
  a = a
  b = b
  t1 = t1
  t2 = t2
  t3 = t3
  v1 = v1
  k1 = k1
  k2 = k2
  Data <- MCData
  Weight <- MCWeight
  MaxGeneration = 1
  MaxSequence = 2
  DedupWindow = 2
  DedupBytes = 2
  Ticket = {}
  NoTicket = NoTicket
  Thread = {t1, t2}
  View = {}
  Parts = 2
  NoView = NoView
  Nobody = Nobody
  NoJob = NoJob
INVARIANTS
  AckedIsWritten
PROPERTIES
  InputsAnswered
CHECK_DEADLOCK FALSE
