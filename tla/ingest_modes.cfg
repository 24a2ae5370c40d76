SPECIFICATION Spec
CONSTANTS
  e1 = e1
  e2 = e2
  a = a
  b = b
  z = z
  s1 = s1
  s2 = s2
  c1 = c1
  NoProcess = NoProcess
  Server = {}
  Command = {c1}
  Event = {e2}
  Content = {b}
  Invalid = {}
  Occurred <- MCOccurred
  Rank <- MCRank
  Steady = TRUE
  CommandMode = {"incremental", "backfill", "manual"}
  Overlap = 1
  Fallback = 1
  Second = 2
  PageSize = 2
  Lag = 0
  SessionLoss = TRUE
  Stuck = FALSE
  MaxStranded = 0
  MaxClock = 3
  MaxRuns = 2
  MaxPublished = 2
INVARIANTS CoverageHonest
PROPERTIES AnchorNeverRegresses
CHECK_DEADLOCK FALSE
