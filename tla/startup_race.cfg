SPECIFICATION Spec
CONSTANTS
  Server = {"s1", "s2"}
  Volume = {"empty", "legacy"}
  Together = TRUE
  MaxStarts = 2
  MaxOutages = 0
INVARIANTS HealthHonest
CHECK_DEADLOCK FALSE
