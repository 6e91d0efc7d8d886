CONSTANTS
  w1 = w1
  w2 = w2
  Worlds <- TwoWorlds
  NumAddr = 2
  Values = {1, 2}
  Words <- OneWord
  MaxMem = 3
  MaxStores = 2
SPECIFICATION Spec
INVARIANTS LoadMeans NoDangling Reclaimed RoundTrip RbwLocal
SYMMETRY Swaps
