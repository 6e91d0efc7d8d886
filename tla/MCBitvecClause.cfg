CONSTANTS
  LITERAL_MAX = 1000
  ArgsRightToLeft = TRUE
  NumInputs = 4
  StartVectors <- Starts
  Numbers = {1}
  MaxVectors = 2
  MaxWidth = 7
  MaxClauses = 1
SPECIFICATION Spec
INVARIANT ClauseExact
CHECK_DEADLOCK FALSE
