CONSTANTS
  MaxVar = 2
  Inputs <- Small
  Scripts = {}
  Queries <- SomeQueries
  Offers <- AnyInput
  MaxClauses = 3
  MaxAssumptions = 2
  MaxSolves = 2
  MaxRestarts = 0
SPECIFICATION Spec
CHECK_DEADLOCK FALSE
INVARIANTS WatchesMatch NothingPending HeapCovers AssumptionsHeld SatRight UnsatRight
PROPERTIES InterfaceSpec
