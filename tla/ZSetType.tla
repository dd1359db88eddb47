------------------------------ MODULE ZSetType ------------------------------
(***************************************************************************)
(* Sorted sets (xmt_zset.c): a ziplist of members, each followed by its    *)
(* score, in the order of scores and members; or a skip list with a dict,  *)
(* of which the model keeps the score of every member.                     *)
(***************************************************************************)
EXTENDS Object, Ranges

CONSTANTS
  Scores,    \* the scores, integers
  MemberOf   \* the string of every member of Objs

ASSUME ZSetAssumption ==
  /\ IsFiniteSet(Objs) /\ Objs = 1 .. Cardinality(Objs) /\ Scores \subseteq Int
  /\ \A o \in Objs : MemberOf[o] \in Value
  /\ \A o, p \in Objs : MemberOf[o] = MemberOf[p] => o = p

\* createZsetZiplistObject, createZsetObject
CreateZsetObject ==
  \/ encoding = "ziplist" /\ ptr = ZiplistNew
  \/ encoding = "skiplist" /\ ptr = [o \in Objs |-> NULL]

----------------------------------------------------------------------------
\* Walks over the pairs of the ziplist.

\* The pointers to members.
MemberPtrs(zl) == {Offset(zl, k) : k \in {j \in DOMAIN zl.entries : j % 2 = 1}}

\* ziplistGetObject: the member at eptr.
MemberAt(zl, eptr) == CHOOSE o \in Objs : MemberOf[o] = ZiplistGet(zl, eptr)

\* zzlGetScore, of the entry after the member.
ScoreAt(zl, eptr) == ZiplistGet(zl, ZiplistNext(zl, eptr)).n

\* zzlNext and zzlPrev: the member after or before the one at eptr.
ZzlNext(zl, eptr) == ZiplistNext(zl, ZiplistNext(zl, eptr))

ZzlPrev(zl, eptr) ==
  IF ZiplistPrev(zl, eptr) = NULL THEN NULL ELSE ZiplistPrev(zl, ZiplistPrev(zl, eptr))

\* The loop of all searches: from one member to the next, or to the one before,
\* until there is none or it is one of "stops".
Seek(zl, eptr, forward, stops) ==
  LET walk[p \in MemberPtrs(zl) \cup {NULL}] ==
        IF p = NULL \/ p \in stops THEN p
        ELSE walk[IF forward THEN ZzlNext(zl, p) ELSE ZzlPrev(zl, p)]
  IN walk[eptr]

\* zzlFind
ZzlFind(zl, o) ==
  Seek(zl, ZiplistIndex(zl, 0), TRUE, {p \in MemberPtrs(zl) : ZiplistCompare(zl, p, MemberOf[o])})

\* zzlLength
ZzlLength(zl) == ZiplistLen(zl) \div 2

----------------------------------------------------------------------------
\* Ranges.

AboveMin(zl, r) == {p \in MemberPtrs(zl) : GteMin(ScoreAt(zl, p), r)}
BelowMax(zl, r) == {p \in MemberPtrs(zl) : LteMax(ScoreAt(zl, p), r)}

\* zzlLexValueGteMin, zzlLexValueLteMax
LexAboveMin(zl, r) == {p \in MemberPtrs(zl) : LexGteMin(MemberAt(zl, p), r)}
LexBelowMax(zl, r) == {p \in MemberPtrs(zl) : LexLteMax(MemberAt(zl, p), r)}

\* zzlIsInRange: the last score and the first one.
ZzlIsInRange(zl, r) ==
  /\ ~(r.min > r.max \/ (r.min = r.max /\ (r.minex \/ r.maxex)))
  /\ ZiplistIndex(zl, -1) # NULL
  /\ GteMin(ZiplistGet(zl, ZiplistIndex(zl, -1)).n, r)
  /\ LteMax(ZiplistGet(zl, ZiplistIndex(zl, 1)).n, r)

\* zzlIsInLexRange: the last member and the first one.
ZzlIsInLexRange(zl, r) ==
  /\ ~(LexCompare(r.min, r.max) > 1 \/ (r.min = r.max /\ (r.minex \/ r.maxex)))
  /\ ZiplistIndex(zl, -2) # NULL
  /\ ZiplistIndex(zl, -2) \in LexAboveMin(zl, r)
  /\ ZiplistIndex(zl, 0) \in LexBelowMax(zl, r)

ZzlFirstUnchecked(zl, r) ==
  IF ZzlIsInRange(zl, r) THEN Seek(zl, ZiplistIndex(zl, 0), TRUE, AboveMin(zl, r)) ELSE NULL

\* zzlFirstInRange
ZzlFirstInRange(zl, r) ==
  LET eptr == Seek(zl, ZiplistIndex(zl, 0), TRUE, AboveMin(zl, r))
  IN IF ZzlIsInRange(zl, r) /\ eptr \in BelowMax(zl, r) THEN eptr ELSE NULL

\* zzlLastInRange
ZzlLastInRange(zl, r) ==
  LET eptr == Seek(zl, ZiplistIndex(zl, -2), FALSE, BelowMax(zl, r))
  IN IF ZzlIsInRange(zl, r) /\ eptr \in AboveMin(zl, r) THEN eptr ELSE NULL

\* zzlFirstInLexRange
ZzlFirstInLexRange(zl, r) ==
  LET eptr == Seek(zl, ZiplistIndex(zl, 0), TRUE, LexAboveMin(zl, r))
  IN IF ZzlIsInLexRange(zl, r) /\ eptr \in LexBelowMax(zl, r) THEN eptr ELSE NULL

\* zzlLastInLexRange
ZzlLastInLexRange(zl, r) ==
  LET eptr == Seek(zl, ZiplistIndex(zl, -2), FALSE, LexBelowMax(zl, r))
  IN IF ZzlIsInLexRange(zl, r) /\ eptr \in LexAboveMin(zl, r) THEN eptr ELSE NULL

----------------------------------------------------------------------------
\* Changes of the ziplist.

\* zzlInsertAt: in front of the member at eptr, or to the end.
ZzlInsertAt(zl, eptr, o, s) ==
  LET z == ZiplistInsert(zl, eptr, MemberOf[o])
  IN IF eptr = NULL
     THEN ZiplistPush(ZiplistPush(zl, MemberOf[o], ZIPLIST_TAIL), Integer(s), ZIPLIST_TAIL)
     ELSE ZiplistInsert(z, ZiplistNext(z, eptr), Integer(s))

InsertByScore(zl, o, s) ==
  ZzlInsertAt(zl, Seek(zl, ZiplistIndex(zl, 0), TRUE, {p \in MemberPtrs(zl) : ScoreAt(zl, p) > s}), o, s)

\* zzlInsert: in front of the first pair that is greater.
Inserted(zl, o, s) ==
  LET greater == {p \in MemberPtrs(zl) : ScoreAt(zl, p) > s \/ (ScoreAt(zl, p) = s /\ MemberAt(zl, p) > o)}
  IN ZzlInsertAt(zl, Seek(zl, ZiplistIndex(zl, 0), TRUE, greater), o, s)

\* The loop of the removals of ranges: pairs leave from eptr on, as long as they
\* are below the maximum.
RemoveBelow(zl, eptr, below) ==
  LET stop == Seek(zl, eptr, TRUE, MemberPtrs(zl) \ below)
      num == Cardinality({p \in MemberPtrs(zl) : p >= eptr /\ (stop = NULL \/ p < stop)})
      after[i \in 0 .. num] == IF i = 0 THEN zl ELSE DeletedPair(after[i - 1], eptr)
  IN IF eptr = NULL THEN [zl |-> zl, deleted |-> 0] ELSE [zl |-> after[num], deleted |-> num]

\* A call that changes the ziplist.
Store(zl) == type = "zset" /\ encoding = "ziplist" /\ NoIterator /\ Become("ziplist", zl)

\* zzlInsert, of a member that is not in the set.
ZzlInsert(o, s) ==
  /\ encoding = "ziplist" /\ ZzlFind(ptr, o) = NULL
  /\ Store(Inserted(ptr, o, s))
  /\ ret' = <<"insert", o>>

\* zzlFind and zzlDelete, of a member that is in the set.
ZzlDelete(o) ==
  LET eptr == ZzlFind(ptr, o)
  IN /\ encoding = "ziplist" /\ eptr # NULL
     /\ Store(DeletedPair(ptr, eptr))
     /\ ret' = <<"delete", o, ScoreAt(ptr, eptr), 1>>

\* zzlDeleteRangeByScore
ZzlDeleteRangeByScore(r) ==
  LET removed == RemoveBelow(ptr, ZzlFirstInRange(ptr, r), BelowMax(ptr, r))
  IN /\ encoding = "ziplist"
     /\ Store(removed.zl)
     /\ ret' = <<"by score", r, removed.deleted>>

\* zzlDeleteRangeByLex: only for members that have one score.
ZzlDeleteRangeByLex(r) ==
  LET removed == RemoveBelow(ptr, ZzlFirstInLexRange(ptr, r), LexBelowMax(ptr, r))
  IN /\ encoding = "ziplist"
     /\ \A p, q \in MemberPtrs(ptr) : ScoreAt(ptr, p) = ScoreAt(ptr, q)
     /\ Store(removed.zl)
     /\ ret' = <<"by lex", r, removed.deleted>>

\* zzlDeleteRangeByRank returns the length of the range, whatever is removed:
\* the client asks for ranks that exist.
ZzlDeleteRangeByRank(start, end) ==
  LET num == end - start + 1
  IN /\ encoding = "ziplist" /\ start <= end /\ end <= ZzlLength(ptr)
     /\ Store(ZiplistDeleteRange(ptr, 2 * (start - 1), 2 * num))
     /\ ret' = <<"by rank", <<start, end>>, num>>

----------------------------------------------------------------------------
\* Both encodings.

\* The score of every member: in a ziplist, from the pairs in their order.
ZSetScores ==
  IF encoding = "ziplist"
  THEN LET vals == Values(ptr)
           pairs(o) == {k \in DOMAIN vals : k % 2 = 1 /\ vals[k] = MemberOf[o]}
       IN [o \in Objs |-> IF pairs(o) = {} THEN NULL ELSE vals[Min(pairs(o)) + 1].n]
  ELSE ptr

\* zsetLength
ZsetLength ==
  /\ IF encoding = "ziplist" THEN Become("ziplist", Recounted(ptr)) ELSE SameObject
  /\ UNCHANGED <<it, due, ret>>

Precedes(scores, o, p) == scores[o] < scores[p] \/ (scores[o] = scores[p] /\ o < p)

LastNode(scores, nodes) == CHOOSE o \in nodes : \A p \in nodes \ {o} : Precedes(scores, p, o)

\* The loop of zsetConvert along the lowest level: each node goes to the end of
\* what those before it have made.
AsZiplist(scores) ==
  MapThenFoldSet(LAMBDA o, zl : ZzlInsertAt(zl, NULL, o, scores[o]), ZiplistNew,
                 LAMBDA o : o, LAMBDA nodes : LastNode(scores, nodes),
                 {o \in Objs : scores[o] # NULL})

\* The loop of zsetConvert over the pairs, by zzlNext from the first member on:
\* dictAdd keeps the pair that came first if there were two of one member.
AsSkiplist(zl) ==
  LET walk[eptr \in MemberPtrs(zl) \cup {NULL}] ==
        IF eptr = NULL THEN [o \in Objs |-> NULL]
        ELSE [walk[ZzlNext(zl, eptr)] EXCEPT ![MemberAt(zl, eptr)] = ScoreAt(zl, eptr)]
  IN walk[ZiplistIndex(zl, 0)]

\* zsetConvert, in either direction; a ziplist must not be empty.
ZsetConvert ==
  /\ NoIterator /\ UNCHANGED ret
  /\ \/ encoding = "ziplist" /\ ptr.entries # <<>> /\ Become("skiplist", AsSkiplist(ptr))
     \/ encoding = "skiplist" /\ Become("ziplist", AsZiplist(ptr))

ZSetNext ==
  /\ type = "zset"
  /\ \/ \E o \in Objs : ZzlDelete(o) \/ \E s \in Scores : ZzlInsert(o, s)
     \/ \E r \in RangeSpec(Scores) : ZzlDeleteRangeByScore(r)
     \/ \E r \in RangeSpec(Bounds) : ZzlDeleteRangeByLex(r)
     \/ \E start, end \in 1 .. Cardinality(Objs) : ZzlDeleteRangeByRank(start, end)
     \/ ZsetLength \/ ZsetConvert
=============================================================================
