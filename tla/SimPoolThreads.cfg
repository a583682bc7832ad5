SPECIFICATION FairPoolSpec
CONSTANTS
  Threads = {t1, t2, t3}
  PoolSize = 64
  Sizes = {0, 1, 20}
INVARIANTS NoOverlap Frontier InPool
PROPERTY MallocReturns
