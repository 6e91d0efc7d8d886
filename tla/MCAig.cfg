CONSTANTS
  LITERAL_MAX = 9
  ArgsRightToLeft = TRUE
  MaxVar = 4
  MaxInputs = 3
  MaxDemands = 2
  MaxDemandVar = 3
  MaxDemandInputs = 2
SPECIFICATION Spec
INVARIANTS TypeOK Acyclic Strashed InputsDecide OpsMean SelectMeans DemandsRecorded
