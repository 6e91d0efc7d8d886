CONSTANTS
  MaxVar = 3
  Clauses = {}
  Queries <- AssumeThese
  Fanins <- OneGate
  Constraints <- SetBoth
  MaxInputs = 2
  MaxOutputs = 2
  MaxAssumptions = 2
  MaxVector = 2
SPECIFICATION SolvingSpec
INVARIANTS StacksMatch CallsRestore UnsatRight SatRight
