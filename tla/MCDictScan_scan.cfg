\* Scans of a dict whose tables grow and shrink.
CONSTANTS
  k1 = k1  k2 = k2  k3 = k3  v1 = v1
  Keys = {k1, k2, k3}
  Vals = {v1}
  Hash <- HashThree
  InitialSize = 1
  TableSizes <- PowersOfTwo
  ExpandSizes = {5}
  ForceRatio = 1
  MinFill = 30
  RehashBatch = 2
  MaxBatches = 1
  Iters = {}
  Width = 4
  NULL = NULL
  Freed = Freed
SPECIFICATION ScanSpec
INVARIANTS
  ScanComplete
PROPERTIES
  ScanAdvances
  ScanNeverRepeats
VIEW ScanView
