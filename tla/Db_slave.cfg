\* dbRandomKey on a slave all of whose keys have expired.
CONSTANTS
  Keys = {k1, k2}
  Objs = {o1, o2}
  DbNum = 1
  MaxTime = 1
  NULL = NULL
  Unread = Unread
SPECIFICATION FairSpec
PROPERTIES
  RandomKeyAnswers
