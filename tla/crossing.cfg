CONSTANTS
  main = main
  a = a
  b = b
  c = c
  LeafMax = 2
  InterMax = 4
  MaxKey = 20
  Val = {0, 1}
  Thread <- RootThreads
  Main = main
  Workload <- Crossing
SPECIFICATION Spec
INVARIANTS
  FencesPartition
  SeparatorsMeetFences
  NeverPastKey
  OnlyReservedKeyAborts
PROPERTIES
  Linearizable
