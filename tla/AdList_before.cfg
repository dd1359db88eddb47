\* Insertions before a node.
CONSTANTS
  Nodes = {n1, n2, n3}
  Vals = {v1}
  NULL = NULL
SPECIFICATION BeforeSpec
PROPERTIES
  InsertedBefore
VIEW ListView
