------------------------------ MODULE Objects ------------------------------
(***************************************************************************)
(* One object of any of the four types, with every call on it.             *)
(***************************************************************************)
EXTENDS SetType, ListType, HashType, ZSetType

\* The null pointer is no string and no collection of strings.
ASSUME ObjectsAssumption ==
  /\ NULL \notin Value \cup Seq(Value)
  /\ \A S \in SUBSET SetValues : S # NULL
  /\ \A S \in SUBSET (HashFields \X HashValues) : S # NULL

Create ==
  \/ type = "set" /\ SetTypeCreate
  \/ type = "list" /\ CreateZiplistObject
  \/ type = "hash" /\ CreateHashObject
  \/ type = "zset" /\ CreateZsetObject

Init == type \in Types /\ Create /\ it = NULL /\ due = NULL /\ ret = <<>>

Calls == SetNext \/ ListNext \/ HashNext \/ ZSetNext

\* No entry of a ziplist has lost bytes.
Intact == encoding = "ziplist" => \A k \in DOMAIN ptr.entries : ptr.entries[k].val # Damaged

\* Without the insertion that __ziplistInsert spoils.
Next == Calls /\ Intact'

Spec == Init /\ [][Next]_vars

OverrunSpec == Init /\ [][Calls]_vars

\* What decides the behaviour of every call.
ObjectView == <<type, encoding, ptr, it, due>>

----------------------------------------------------------------------------
\* Properties.

\* Header and entries of a ziplist agree after every call: each prevlen is the
\* length of the entry before it, also after an insertion or a deletion has
\* changed the width of one field after the other.
ZiplistsWellFormed == encoding = "ziplist" => WellFormedZiplist(ptr)

\* The integers of an intset are in ascending order and fill the block, also
\* after an upgrade in place, with what was negative before the others.
IntsetsSorted == encoding = "intset" => WellFormedIntset(ptr)

\* An iteration returns what was in the object when it began, each element
\* once; in a list in order, also while elements it has returned are deleted.  No
\* iteration begins at the tail of an emptied linked list (TailUsable).
IterationComplete ==
  /\ it # NULL => due # NULL
  /\ it # NULL /\ it.end => due = (IF type = "list" THEN <<>> ELSE {})

ThisSet == INSTANCE ValueSet WITH
  elements <- IF type = "set" THEN SetElements ELSE {},
  ret <- IF type = "set" THEN ret ELSE <<>>

\* A set object is a set, through the upgrades of its intset and the conversion
\* to a dict: nothing shows which encoding it has.
ImplementsSet == ThisSet!Spec

ThisList == INSTANCE ValueSeq WITH
  items <- IF type = "list" THEN ListItems ELSE <<>>,
  ret <- IF type = "list" THEN ret ELSE <<>>

\* A list object is a sequence of values, for both encodings and in the middle
\* of iterations that delete and insert, as long as nothing reads the tail of an
\* emptied linked list (TailUsable).
ImplementsList == ThisList!Spec

\* What a call on a hash returns, in the terms of a dict: hashTypeSet returns 1
\* for an update, dictReplace for a new key, and hashTypeDelete 1 for a deletion.
HashRet ==
  IF type # "hash" \/ ret = <<>> THEN NULL
  ELSE CASE ret[1] = "set" -> <<"replace", ret[2], ret[3], 1 - ret[4]>>
         [] ret[1] = "delete" -> <<"delete", ret[2], 1 - ret[3]>>
         [] ret[1] = "get" -> <<"fetch", ret[2], ret[3]>>

ThisHash == INSTANCE DictMap WITH
  Keys <- HashFields, Vals <- HashValues,
  map <- IF type = "hash" THEN HashMap ELSE [f \in HashFields |-> NULL],
  ret <- HashRet

\* A hash object is a map: a field is never taken for a value, an update keeps
\* the pairs together, and the conversion in the middle of an update does not
\* show, neither in the values nor in what the call returns.
ImplementsHash == ThisHash!Spec

ThisZSet == INSTANCE OrderedSet WITH
  scoreOf <- IF type = "zset" THEN ZSetScores ELSE [o \in Objs |-> NULL],
  ret <- IF type = "zset" THEN ret ELSE <<>>

\* A sorted set over a ziplist removes exactly the members of a range, counts
\* them, and survives both conversions.
ImplementsZSet == ThisZSet!Spec

\* The pointer to a member, NULL to none.
PtrOf(o) == IF o = NULL THEN NULL ELSE ZzlFind(ptr, o)

\* The first and the last pair of a range, found from either end of the ziplist,
\* are those of the ordered set; ranges of members only where all have one score.
ZSetRangesAgree ==
  type = "zset" /\ encoding = "ziplist" =>
    /\ \A r \in RangeSpec(Scores) :
         /\ ZzlFirstInRange(ptr, r) = PtrOf(ThisZSet!FirstOf(ThisZSet!ByScore(r)))
         /\ ZzlLastInRange(ptr, r) = PtrOf(ThisZSet!LastOf(ThisZSet!ByScore(r)))
    /\ (\A p, q \in MemberPtrs(ptr) : ScoreAt(ptr, p) = ScoreAt(ptr, q)) =>
         \A r \in RangeSpec(Bounds) :
           /\ ZzlFirstInLexRange(ptr, r) = PtrOf(ThisZSet!FirstOf(ThisZSet!ByLex(r)))
           /\ ZzlLastInLexRange(ptr, r) = PtrOf(ThisZSet!LastOf(ThisZSet!ByLex(r)))

\* An insertion leaves all other entries of a ziplist as they were: xmzplist.c:800
\* reckons with a header of the next entry that stays or grows by 4 bytes.
InsertionKeepsOthers ==
  [][encoding = "ziplist" /\ encoding' = "ziplist" /\ Len(ptr'.entries) = Len(ptr.entries) + 1 =>
       \E k \in DOMAIN ptr'.entries : RemoveAt(Values(ptr'), k) = Values(ptr)]_vars
=============================================================================
