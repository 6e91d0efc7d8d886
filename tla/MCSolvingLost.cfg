CONSTANTS
  MaxVar = 1
  Clauses = {}
  Queries <- AskNot
  Fanins <- SetOne
  Constraints <- SetOne
  MaxInputs = 1
  MaxOutputs = 1
  MaxAssumptions = 1
  MaxVector = 1
SPECIFICATION SolvingSpec
INVARIANTS SatAnswersRight
