CONSTANTS
  LITERAL_MAX = 1000
  ArgsRightToLeft = TRUE
  NumInputs = 4
  StartVectors <- Starts
  Numbers = {0, 1, 3, 5}
  MaxVectors = 3
  MaxWidth = 7
  MaxClauses = 1
  Answers <- Opposite
  ReadVectors <- Readers
  MaxReadVars = 40
SPECIFICATION ReadSpec
INVARIANTS ReturnsWord ClauseRequired GetsWord
CHECK_DEADLOCK FALSE
