SPECIFICATION Spec
CONSTANTS
  a = a
  b = b
  t1 = t1
  t2 = t2
  t3 = t3
  v1 = v1
  k1 = k1
  k2 = k2
  Data <- MCOneDatum
  Weight <- MCUnitWeight
  MaxGeneration = 2
  MaxSequence = 2
  DedupWindow = 1
  DedupBytes = 2
  Ticket = {k1}
  NoTicket = NoTicket
  Thread = {t1, t2}
  View = {v1}
  Parts = 2
  NoView = NoView
  Nobody = Nobody
  NoJob = NoJob
SYMMETRY MCThreads
INVARIANTS
  InputsInOrder
  NothingAfterFailure
  TicketOfHolder
PROPERTIES
  ImplementsService
CHECK_DEADLOCK FALSE
