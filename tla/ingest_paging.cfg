SPECIFICATION Spec
CONSTANTS
  e1 = e1
  e2 = e2
  a = a
  b = b
  z = z
  s1 = s1
  s2 = s2
  c1 = c1
  NoProcess = NoProcess
  Server = {s1}
  Command = {}
  Event = {e1, e2}
  Content = {a, b, z}
  Invalid = {z}
  Occurred <- MCOccurred
  Rank <- MCRank
  Steady = TRUE
  CommandMode = {}
  Overlap = 2
  Fallback = 1
  Second = 1
  PageSize = 1
  Lag = 1
  SessionLoss = FALSE
  Stuck = FALSE
  MaxStranded = 0
  MaxClock = 2
  MaxRuns = 2
  MaxPublished = 3
INVARIANTS NoRevisionLost CoverageHonest
CHECK_DEADLOCK FALSE
