CONSTANTS
  main = main
  a = a
  b = b
  c = c
  LeafMax = 5
  InterMax = 4
  MaxKey = 19
  Val = {0, 1}
  Thread <- RootThreads
  Main = main
  Workload <- SiblingRace
SPECIFICATION Spec
INVARIANTS
  DistinctCheck
