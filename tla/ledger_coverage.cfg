SPECIFICATION CoverageSpec
CONSTANTS
  w1 = w1
  w2 = w2
  Modes = {"manual"}
  MaxClock = 3
  MaxRuns = 3
  Event = {w1, w2}
  Occurred <- MCOccurred
  Limit = 1
  Disabling = TRUE
  AnswersMaxClock = 2
  AnswersMaxRuns = 2
INVARIANTS GapsExact KindExact LongGapsFound StaleSinceDelivery
PROPERTIES CoverageKept CompleteAccountsForAll NoneMeansUncollected
CHECK_DEADLOCK FALSE
