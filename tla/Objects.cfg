\* Objects of all types over ziplists and intsets that are upgraded, saturate
\* their counters, cascade and are converted.
CONSTANTS
  Types = {"set", "list", "hash", "zset"}
  UINT16_MAX = 3
  NULL = NULL
  Radix = 4
  Garbage = 1
  SetValues <- SetOfAll
  set_max_intset_entries = 4
  ListValues <- ListOfAll
  list_max_ziplist_entries = 3
  list_max_ziplist_value = 300
  MaxLength = 4
  HashFields <- Fields
  HashValues <- FieldValues
  hash_max_ziplist_entries = 2
  hash_max_ziplist_value = 300
  Objs = {1, 2, 3, 4}
  Scores = {1, 20}
  MemberOf <- Members
SPECIFICATION Spec
INVARIANTS
  ZiplistsWellFormed
  IntsetsSorted
  IterationComplete
  ZSetRangesAgree
PROPERTIES
  ImplementsSet
  ImplementsList
  ImplementsHash
  ImplementsZSet
VIEW ObjectView
