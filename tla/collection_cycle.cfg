SPECIFICATION AllSpec
CONSTANTS
  e1 = e1
  weak = weak
  absurd = absurd
  nowhere = nowhere
  Event = {e1}
  Measure = {weak, absurd, nowhere}
  Implausible = {absurd}
  Misplaced = {nowhere}
  Tolerance = 0
  LateAfter = 1
  MaxClock = 3
  MaxReceived = 3
  MaxAttempts = 3
  Listings <- SmallListings
  PageSize = 0
  MaxEventsPerRequest = 2
  Handler = {"r1", "r2"}
  User = {"r1", "r2", "lock", "statement"}
  PoolSize = 2
INVARIANTS QuietIsSaid WholeWindow NothingLeftTaken NoFakeRevision NothingHides
PROPERTIES CycleEnds LockComesFree
CHECK_DEADLOCK FALSE
