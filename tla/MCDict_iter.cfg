\* Two iterators, safe or unsafe, whose iterations overlap, among insertions,
\* deletions and a rehash of three keys.
CONSTANTS
  k1 = k1  k2 = k2  k3 = k3  k4 = k4  v1 = v1  v2 = v2
  i1 = i1  i2 = i2
  Keys = {k1, k2, k3}
  Vals = {v1}
  Hash <- HashThree
  InitialSize = 1
  TableSizes <- PowersOfTwo
  ExpandSizes = {3}
  ForceRatio = 1
  MinFill = 30
  RehashBatch = 2
  MaxBatches = 1
  Iters = {i1, i2}
  NULL = NULL
  Freed = Freed
SPECIFICATION Spec
INVARIANTS
  IteratorsCounted
  IterationComplete
PROPERTIES
  IterationNeverRepeats
  NoFreedEntryReturned
VIEW WithoutRet
SYMMETRY IterSymmetry
