CONSTANTS
  Writer = {w1, w2}
  Reader = {r1}
  Words = 2
  MaxTries = 2
  Rounds = 2
SPECIFICATION FairSpec
INVARIANTS
  TypeOK
  WriterAlone
  UnlockMatchesLock
  NoTornRead
  FreshRead
PROPERTY
  Termination
