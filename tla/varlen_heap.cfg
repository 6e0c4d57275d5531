CONSTANTS
  PageSize = 32
  HeaderSize = 2
  SlotSize = 2
  EntryHeader = 2
  Align = 2
  MaxLen = 2
SPECIFICATION Spec
INVARIANTS
  PartsDisjoint
  PartsInHeap
PROPERTIES
  MovesUp
  LaidOutAfresh
