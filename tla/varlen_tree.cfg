CONSTANTS
  a = a
  b = b
  c = c
  PageSize = 94
  HeaderSize = 14
  SlotSize = 1
  EntryHeader = 4
  Align = 2
  Thread = {a, b, c}
  Key <- Keys
  Val = {0, 1}
  Encode <- EncodeFolded
  Workload <- Rounds
SPECIFICATION Spec
INVARIANTS
  AssertionsHold
  PrefixesShared
  FencesPartition
  SeparatorsMeetFences
  HeapClearOfSlots
  HeapAccounted
PROPERTIES
  Linearizable
