\* A list of up to four nodes and an iterator.
CONSTANTS
  Nodes = {n1, n2, n3, n4}
  Vals = {v1, v2}
  NULL = NULL
SPECIFICATION Spec
INVARIANTS
  WellLinked
  PositionsAgree
  IterationComplete
PROPERTIES
  ImplementsSequence
VIEW ListView
