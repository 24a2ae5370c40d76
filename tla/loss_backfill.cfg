SPECIFICATION Spec
CONSTANTS
  e1 = e1
  e2 = e2
  a = a
  b = b
  z = z
  s1 = s1
  s2 = s2
  c1 = c1
  NoProcess = NoProcess
  Server = {}
  Command = {c1}
  Event = {e1}
  Content = {a, b}
  Invalid = {}
  Occurred <- MCOccurred
  Rank <- MCRank
  Steady = TRUE
  CommandMode = {"incremental", "backfill"}
  Overlap = 1
  Fallback = 1
  Second = 1
  PageSize = 1
  Lag = 0
  SessionLoss = FALSE
  Stuck = FALSE
  MaxStranded = 0
  MaxClock = 4
  MaxRuns = 3
  MaxPublished = 2
INVARIANTS NoRevisionLost

CHECK_DEADLOCK FALSE
