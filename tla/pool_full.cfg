CONSTANTS
  Thread = {t1, t2, t3}
  PageCount = 3
  Limit = 3
  Reserves = 2
  Counter = 4
  PageBytes = 2
  Offsets = 10
SPECIFICATION Spec
INVARIANT ReservedInPool
