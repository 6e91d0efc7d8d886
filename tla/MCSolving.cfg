CONSTANTS
  MaxVar = 4
  Clauses = {}
  Queries <- AskThese
  Fanins <- BuildOn
  Constraints <- SetThese
  MaxInputs = 2
  MaxOutputs = 1
  MaxAssumptions = 1
  MaxVector = 1
SPECIFICATION SolvingSpec
INVARIANTS UnsatAnswers SatAnswers ConesTranslated AssignmentSolves
