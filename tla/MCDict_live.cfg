\* A rehash ends although iterations delay it.
CONSTANTS
  k1 = k1  k2 = k2  k3 = k3  k4 = k4  v1 = v1  v2 = v2
  i1 = i1  i2 = i2
  Keys = {k1, k2}
  Vals = {v1}
  Hash <- HashTwo
  InitialSize = 1
  TableSizes <- PowersOfTwo
  ExpandSizes = {5}
  ForceRatio = 1
  MinFill = 30
  RehashBatch = 2
  MaxBatches = 1
  Iters = {i1}
  NULL = NULL
  Freed = Freed
SPECIFICATION FairSpec
PROPERTIES
  RehashEnds
