SPECIFICATION Spec
CONSTANTS
  Server = {"s1", "s2"}
  Volume = {"empty", "legacy", "v0.1"}
  Together = FALSE
  MaxStarts = 3
  MaxOutages = 1
INVARIANTS NeverRefused
PROPERTIES DataKept StartEnds ContractKept
CHECK_DEADLOCK FALSE
