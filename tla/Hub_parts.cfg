SPECIFICATION HubSpec
CONSTANTS
  Hub = {h1, h2}
  Secret = {s1, s2}
  Value = {v1, v2}
  NoValue = NoValue
  MaxSecrets = 2
  MaxAudit = 4
  MaxVaultCuts = 2
  Unlocked = Unlocked
  ItermRequest = {r1, r2}
  NoRequest = NoRequest
  ChannelSize = 2
  ChannelNotes = 1
  MaxNotes = 1
  MaxOutput = 2
  Pull = {k1, k2}
  NoPull = NoPull
  MaxLog = 4
  MaxEvents = 1
  MaxScan = 2
  TailBytes = 3
  Writer = {w1, w2}
  Content = {c1, c2}
  NoFile = NoFile
  Poller = {l1, l2}
  MaxLeft = 2
  Pid = {p1}
  MaxStart = 2
  MaxClock = 2
  MaxPoints = 1
  MaxAge = 1
INVARIANTS
  DisclosedIsAudited
  AcknowledgedIsKept
  AnswerIsOwn
  ExitIsRungLast
  CallsShownOnce
  LabelsAreWhole
  LabelsAreOwn
PROPERTIES
  DoorbellEnds
  CollectorEnds
CHECK_DEADLOCK FALSE
