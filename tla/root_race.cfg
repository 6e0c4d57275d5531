CONSTANTS
  main = main
  a = a
  b = b
  c = c
  LeafMax = 2
  InterMax = 4
  MaxKey = 9
  Val = {0, 1}
  Thread <- RootThreads
  Main = main
  Workload <- RootRace
SPECIFICATION FairSpec
INVARIANTS
  TypeOK
  LatchesExclude
  RootCoversTop
  NoOrphanPage
PROPERTIES
  Linearizable
  PagesOnlySplit
  Termination
