CONSTANTS
  MaxVar = 6
  Inputs <- ScriptInputs
  Scripts <- SearchScripts
  Queries = {1, 2, 3}
  Offers <- NextOf
  MaxClauses = 8
  MaxAssumptions = 2
  MaxSolves = 2
  MaxRestarts = 1
SPECIFICATION Spec
CONSTRAINT InOrder
CHECK_DEADLOCK FALSE
INVARIANTS TypeOK TrailJustified LevelsMatch CanResolve FactsReady LearnedSound
PROPERTIES LevelZeroKept ServiceSpec
