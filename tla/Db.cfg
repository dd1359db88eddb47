\* Two keys that expire, two objects, scripts, loading and replication.
CONSTANTS
  Keys = {k1, k2}
  Objs = {o1,o2}
  DbNum = 1
  MaxTime = 1
  NULL = NULL
  Unread = Unread
SPECIFICATION FairSpec
INVARIANTS
  TypeOK
  ExpiresHaveKeys
  NoAssertionFails
  RefsCounted
PROPERTIES
  UnsharedIsPrivate
  KeysLeaveInTime
  ScriptReadsAgree
  RandomKeyUnexpired
  RandomKeyReturns
