\* The dict without iterators: growth, shrinking and rehash, and the map it implements.
CONSTANTS
  k1 = k1  k2 = k2  k3 = k3  k4 = k4  v1 = v1  v2 = v2  i1 = i1  i2 = i2
  Keys = {k1, k2, k3, k4}
  Vals = {v1, v2}
  Hash <- HashFour
  InitialSize = 1
  TableSizes <- PowersOfTwo
  ExpandSizes = {1, 5}
  ForceRatio = 1
  MinFill = 30
  RehashBatch = 2
  MaxBatches = 2
  Iters = {}
  NULL = NULL
  Freed = Freed
SPECIFICATION Spec
INVARIANTS
  TypeOK
  Consistency
  RehashScanStops
  EveryEntryFound
  ChainsAreLists
PROPERTY
  ImplementsMap
VIEW WithoutRet
