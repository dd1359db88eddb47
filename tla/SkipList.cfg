\* The links, ranks and ranges of a skip list of three nodes and three levels.
CONSTANTS
  Objs = {1, 2, 3}
  Scores = {1, 2, 3}
  MaxLevel = 3
  Header = Header
  NULL = NULL
SPECIFICATION Spec
INVARIANTS
  TypeOK
  WellLinked
  RanksAreRight
  RangesAreRight
PROPERTIES
  ImplementsOrderedSet
VIEW ListView
