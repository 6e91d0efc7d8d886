CONSTANTS
  HoldModulus = 16
  MaxVectors = 3
  MaxHolds = 1
  MaxCount = 2
  Stages = 1
SPECIFICATION Spec
INVARIANT Safe
PROPERTY Contract
CHECK_DEADLOCK FALSE
