CONSTANTS
  LeafMax = 5
  InterMax = 5
  MaxKey = 6
  Arrays <- MCArrays
SPECIFICATION FairSpec
INVARIANT
  SearchCorrect
PROPERTY
  Returns
