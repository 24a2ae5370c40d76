SPECIFICATION Spec
CONSTANTS
  e1 = e1
  e2 = e2
  a = a
  b = b
  z = z
  s1 = s1
  s2 = s2
  c1 = c1
  NoProcess = NoProcess
  Server = {s1, s2}
  Command = {c1}
  Event = {e1}
  Content = {a, b}
  Invalid = {}
  Occurred <- MCOccurred
  Rank <- MCRank
  Steady = TRUE
  CommandMode = {"incremental"}
  Overlap = 1
  Fallback = 1
  Second = 1
  PageSize = 2
  Lag = 0
  SessionLoss = FALSE
  Stuck = TRUE
  MaxStranded = 1
  MaxClock = 2
  MaxRuns = 3
  MaxPublished = 2
INVARIANTS TypeOK SerialRuns
PROPERTIES LedgerKept HistoryKept
CHECK_DEADLOCK FALSE
