CONSTANTS
  main = main
  a = a
  b = b
  c = c
  LeafMax = 2
  InterMax = 4
  MaxKey = 18
  Val = {0, 1}
  Thread <- RootThreads
  Main = main
  Workload <- TallRace
SPECIFICATION Spec
INVARIANTS
  SeparatorAtRightLevel
  NoOrphanPage
  AssertionsHold
