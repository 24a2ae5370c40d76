SPECIFICATION ReadsSpec
CONSTANTS
  e1 = e1
  e2 = e2
  x = x
  Event = {e1, e2}
  Distance = {1, 2, 3}
  Radius = 2
  Limit = 1
  SlowCommits = FALSE
  MaxClock = 3
  MaxRows = 4
  Key = {1, 2}
  Content = {x}
  PageSize = 2
  MaxObservations = 3
  MaxAsked = 2
SYMMETRY Symmetric
INVARIANTS PinnedWalkExact NothingOmitted RepeatsAreRevisions SameAnswer AllIsCurrent
CHECK_DEADLOCK FALSE
