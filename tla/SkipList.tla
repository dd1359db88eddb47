------------------------------ MODULE SkipList ------------------------------
(***************************************************************************)
(* The skip list of xmskiplist.c, the index of a sorted set.               *)
(*                                                                         *)
(* A node is identified with its member object; a member is in the list    *)
(* once (the dict of the sorted set sees to that).  Members are numbered   *)
(* in the order of compareStringObjects, which returns their difference,   *)
(* as memcmp does for strings of one character.  Fields of nodes that are  *)
(* not in the list, or of levels that a node does not have, are NULL or 0. *)
(***************************************************************************)
EXTENDS Ranges, FiniteSetsExt

CONSTANTS
  Scores,    \* the scores
  MaxLevel,  \* ZSKIPLIST_MAXLEVEL
  Header,    \* zsl->header
  NULL       \* the null pointer

ASSUME SkipListAssumption ==
  /\ IsFiniteSet(Objs) /\ Objs = 1 .. Cardinality(Objs)
  /\ Scores \subseteq Int
  /\ MaxLevel \in Nat \ {0}
  /\ Header \notin Objs /\ NULL \notin Objs \cup Scores \cup {Header}

Levels == 0 .. MaxLevel - 1

Nodes == Objs \cup {Header}

VARIABLES
  zsl,   \* the skip list
  dict,  \* the keys of the dict of the sorted set
  ret    \* the last call: its name, its arguments and what it returned

vars == <<zsl, dict, ret>>

\* What decides the behaviour of every call.
ListView == <<zsl, dict>>

----------------------------------------------------------------------------
\* zslCreate
EmptyList ==
  [level |-> 1, length |-> 0, tail |-> NULL,
   score |-> [o \in Objs |-> NULL],
   height |-> [o \in Objs |-> 0],
   forward |-> [i \in Levels |-> [x \in Nodes |-> NULL]],
   span |-> [i \in Levels |-> [x \in Nodes |-> 0]],
   backward |-> [o \in Objs |-> NULL]]

\* The nodes that are linked at the lowest level.
InList(z) == {o \in Objs : z.height[o] > 0}

\* The order of the list: by score, and by member for one score.
Precedes(z, f, s, o) == z.score[f] < s \/ (z.score[f] = s /\ f < o)

\* The walk on level i: it goes on from the node at[1], which is at[2] nodes behind
\* the header, while the next node is there and "ahead" holds of it and of its
\* distance from the header.
Walk(z, ahead, i) ==
  LET walk[at \in Nodes \X Int] ==
        LET f == z.forward[i][at[1]]
            reach == at[2] + z.span[i][at[1]]
        IN IF f # NULL /\ ahead[f][reach] THEN walk[<<f, reach>>] ELSE at
  IN walk

\* The walk from the top level down, common to all functions.  Path[i] is
\* <<update[i], rank[i]>>: the node where level i is left, and the sum of the
\* spans on the way there.
Path(z, ahead) ==
  LET path[i \in Levels] ==
        IF i >= z.level THEN <<Header, 0>>
        ELSE Walk(z, ahead, i)[IF i = z.level - 1 THEN <<Header, 0>> ELSE path[i + 1]]
  IN path

OldSpanStale(z, path, i) == z.span[i][path[i][1]]

\* The span that the new node divides; levels that were unused are initialised.
OldSpan(z, path, i) == IF i < z.level THEN z.span[i][path[i][1]] ELSE z.length

\* zslInsert, for the level h that zslRandomLevel has drawn; the path leads to
\* the place of the new node.
Link(z, path, s, o, h) ==
  LET update(i) == path[i][1]
      gap(i) == path[0][2] - path[i][2]
      next(i) == IF i < z.level THEN z.forward[i][update(i)] ELSE NULL
  IN [level |-> Max({h, z.level}),
      length |-> z.length + 1,
      tail |-> IF next(0) = NULL THEN o ELSE z.tail,
      score |-> [z.score EXCEPT ![o] = s],
      height |-> [z.height EXCEPT ![o] = h],
      forward |-> [i \in Levels |->
        IF i < h THEN [z.forward[i] EXCEPT ![update(i)] = o, ![o] = next(i)] ELSE z.forward[i]],
      span |-> [i \in Levels |->
        IF i < h THEN [z.span[i] EXCEPT ![update(i)] = gap(i) + 1, ![o] = OldSpan(z, path, i) - gap(i)]
        ELSE IF i < z.level THEN [z.span[i] EXCEPT ![update(i)] = @ + 1]
        ELSE z.span[i]],
      backward |-> [x \in Objs |->
        IF x = o THEN IF update(0) = Header THEN NULL ELSE update(0)
        ELSE IF x = next(0) THEN o ELSE z.backward[x]]]

Insert(z, s, o, h) == Link(z, Path(z, [f \in Objs |-> [t \in Int |-> Precedes(z, f, s, o)]]), s, o, h)

\* zsl->tail after x has left.
TailWithout(z, x) == IF z.forward[0][x] = NULL THEN z.backward[x] ELSE z.tail

\* zsl->level goes down while the header points nowhere at the top.
Lowered(z, forward) == Max({1} \cup {i + 1 : i \in {j \in 0 .. z.level - 1 : forward[j][Header] # NULL}})

\* zslDeleteNode and zslFreeNode: x is unlinked behind the nodes of the path.
Unlink(z, path, x) ==
  LET update(i) == path[i][1]
      after == z.forward[0][x]
      forward == [i \in Levels |->
        IF i < z.level /\ z.forward[i][update(i)] = x
        THEN [z.forward[i] EXCEPT ![update(i)] = z.forward[i][x], ![x] = NULL]
        ELSE z.forward[i]]
  IN [level |-> Lowered(z, forward),
      length |-> z.length - 1,
      tail |-> TailWithout(z, x),
      score |-> [z.score EXCEPT ![x] = NULL],
      height |-> [z.height EXCEPT ![x] = 0],
      forward |-> forward,
      span |-> [i \in Levels |->
        IF i >= z.level THEN z.span[i]
        ELSE IF z.forward[i][update(i)] = x
        THEN [z.span[i] EXCEPT ![update(i)] = @ + z.span[i][x] - 1, ![x] = 0]
        ELSE [z.span[i] EXCEPT ![update(i)] = @ - 1]],
      backward |-> [y \in Objs |->
        IF y = x THEN NULL ELSE IF y = after THEN z.backward[x] ELSE z.backward[y]]]

----------------------------------------------------------------------------
\* Ranges.

\* zslIsInRange
IsInRange(z, r) ==
  /\ ~(r.min > r.max \/ (r.min = r.max /\ (r.minex \/ r.maxex)))
  /\ z.tail # NULL /\ GteMin(z.score[z.tail], r)
  /\ z.forward[0][Header] # NULL /\ LteMax(z.score[z.forward[0][Header]], r)

\* zslIsInLexRange
IsInLexRange(z, r) ==
  /\ ~(LexCompare(r.min, r.max) > 1 \/ (r.min = r.max /\ (r.minex \/ r.maxex)))
  /\ z.tail # NULL /\ LexGteMin(z.tail, r)
  /\ z.forward[0][Header] # NULL /\ LexLteMax(z.forward[0][Header], r)

FirstInRangeUnchecked(z, r) ==
  IF IsInRange(z, r)
  THEN z.forward[0][Path(z, [f \in Objs |-> [t \in Int |-> ~GteMin(z.score[f], r)]])[0][1]] ELSE NULL

\* zslFirstInRange: one step further than the last node below the range.
FirstInRange(z, r) ==
  LET x == z.forward[0][Path(z, [f \in Objs |-> [t \in Int |-> ~GteMin(z.score[f], r)]])[0][1]]
  IN IF IsInRange(z, r) /\ LteMax(z.score[x], r) THEN x ELSE NULL

\* zslFirstInLexRange
FirstInLexRange(z, r) ==
  LET x == z.forward[0][Path(z, [f \in Objs |-> [t \in Int |-> ~LexGteMin(f, r)]])[0][1]]
  IN IF IsInLexRange(z, r) /\ LexLteMax(x, r) THEN x ELSE NULL

\* zslLastInRange
LastInRange(z, r) ==
  LET x == Path(z, [f \in Objs |-> [t \in Int |-> LteMax(z.score[f], r)]])[0][1]
  IN IF IsInRange(z, r) /\ GteMin(z.score[x], r) THEN x ELSE NULL

\* zslLastInLexRange
LastInLexRange(z, r) ==
  LET x == Path(z, [f \in Objs |-> [t \in Int |-> LexLteMax(f, r)]])[0][1]
  IN IF IsInLexRange(z, r) /\ LexGteMin(x, r) THEN x ELSE NULL

GetRankBefore(z, s, o) ==
  LET path == Path(z, [f \in Objs |-> [t \in Int |-> Precedes(z, f, s, o)]])
      stops == {i \in 0 .. z.level - 1 : path[i][1] = o}
  IN IF stops = {} THEN 0 ELSE path[Max(stops)][2]

\* zslGetRank: the first level, from the top, that is left at the member; the
\* score only leads the way.
GetRank(z, s, o) ==
  LET path == Path(z, [f \in Objs |-> [t \in Int |-> Precedes(z, f, s, o) \/ (z.score[f] = s /\ f = o)]])
      stops == {i \in 0 .. z.level - 1 : path[i][1] = o}
  IN IF stops = {} THEN 0 ELSE path[Max(stops)][2]

\* zslGetElementByRank
GetElementByRank(z, rank) ==
  LET path == Path(z, [f \in Objs |-> [t \in Int |-> t <= rank]])
      stops == {i \in 0 .. z.level - 1 : path[i][2] = rank}
  IN IF stops = {} THEN NULL ELSE path[Max(stops)][1]

\* The loop of the range removals: the node behind update[0] is unlinked while
\* "within" holds of it and of the number of nodes removed before it.
RemoveFrom(z, path, within) ==
  LET after[n \in 0 .. Cardinality(Objs)] ==
        IF n = 0 THEN z
        ELSE LET before == after[n - 1] IN Unlink(before, path, before.forward[0][path[0][1]])
      goes(n) == LET x == after[n].forward[0][path[0][1]] IN x # NULL /\ within[x][n]
      removed == CHOOSE n \in 0 .. Cardinality(Objs) : ~goes(n) /\ \A j \in 0 .. n - 1 : goes(j)
  IN after[removed]

----------------------------------------------------------------------------
\* The calls that change the list.

Init == zsl = EmptyList /\ dict = {} /\ ret = <<>>

\* The caller has added the member to the dict.
ZslInsert(s, o, h) ==
  /\ o \notin dict
  /\ zsl' = Insert(zsl, s, o, h)
  /\ dict' = dict \cup {o}
  /\ ret' = <<"insert", o>>

\* zslDelete; the caller then removes the member from the dict.
ZslDelete(s, o) ==
  LET path == Path(zsl, [f \in Objs |-> [t \in Int |-> Precedes(zsl, f, s, o)]])
      x == zsl.forward[0][path[0][1]]
      found == x = o /\ zsl.score[x] = s
  IN /\ zsl' = IF found THEN Unlink(zsl, path, x) ELSE zsl
     /\ dict' = IF found THEN dict \ {o} ELSE dict
     /\ ret' = <<"delete", o, s, IF found THEN 1 ELSE 0>>

RemovalFromListOnly(call, range, z) ==
  /\ zsl' = z
  /\ dict' = dict
  /\ ret' = <<call, range, zsl.length - z.length>>

\* The removed nodes leave the dict as well; their number is returned.
Removal(call, range, z) ==
  /\ zsl' = z
  /\ dict' = dict \ (InList(zsl) \ InList(z))
  /\ ret' = <<call, range, zsl.length - z.length>>

\* zslDeleteRangeByScore
DeleteRangeByScore(r) ==
  LET path == Path(zsl, [f \in Objs |-> [t \in Int |-> IF r.minex THEN zsl.score[f] <= r.min ELSE zsl.score[f] < r.min]])
  IN Removal("by score", r, RemoveFrom(zsl, path, [x \in Objs |-> [n \in Nat |-> LteMax(zsl.score[x], r)]]))

\* zslDeleteRangeByLex: only for lists whose members have one score.
DeleteRangeByLex(r) ==
  LET path == Path(zsl, [f \in Objs |-> [t \in Int |-> ~LexGteMin(f, r)]])
  IN /\ \A x, y \in InList(zsl) : zsl.score[x] = zsl.score[y]
     /\ Removal("by lex", r, RemoveFrom(zsl, path, [x \in Objs |-> [n \in Nat |-> LexLteMax(x, r)]]))

\* zslDeleteRangeByRank
DeleteRangeByRank(start, end) ==
  LET path == Path(zsl, [f \in Objs |-> [t \in Int |-> t < start]])
  IN Removal("by rank", <<start, end>>,
             RemoveFrom(zsl, path, [x \in Objs |-> [n \in Nat |-> path[0][2] + 1 + n <= end]]))

Next ==
  \/ \E o \in Objs, s \in Scores : (\E h \in 1 .. MaxLevel : ZslInsert(s, o, h)) \/ ZslDelete(s, o)
  \/ \E r \in RangeSpec(Scores) : DeleteRangeByScore(r)
  \/ \E r \in RangeSpec(Bounds) : DeleteRangeByLex(r)
  \/ \E start, end \in 1 .. Cardinality(Objs) + 1 : DeleteRangeByRank(start, end)

Spec == Init /\ [][Next]_vars

----------------------------------------------------------------------------
\* Properties.

Set == INSTANCE OrderedSet WITH scoreOf <- zsl.score

\* The fields of zskiplist and zskiplistNode; the list and the dict of the sorted
\* set have the same members, also after a removal of ranges from both.
TypeOK ==
  /\ zsl \in [level : 1 .. MaxLevel, length : 0 .. Cardinality(Objs), tail : Objs \cup {NULL},
              score : [Objs -> Scores \cup {NULL}], height : [Objs -> 0 .. MaxLevel],
              forward : [Levels -> [Nodes -> Objs \cup {NULL}]],
              span : [Levels -> [Nodes -> Nat]], backward : [Objs -> Objs \cup {NULL}]]
  /\ dict = InList(zsl) /\ zsl.length = Cardinality(dict)

\* Where a node is in the list; the header is at 0.
At(x) == IF x = Header THEN 0 ELSE Set!RankOf(x)

\* The nodes that level i links.
OnLevel(i) == {o \in Objs : zsl.height[o] > i}

\* Every level is a sorted list of the nodes that are high enough: a forward
\* pointer leads to the next of them.
LevelsAreSorted ==
  \A i \in Levels : \A x \in OnLevel(i) \cup {Header} :
    zsl.forward[i][x] = Set!FirstOf({y \in OnLevel(i) : At(y) > At(x)})

\* A span is the distance to the next node, or to the end of the list: the sums
\* of spans that zslGetRank and zslGetElementByRank form are ranks.
SpansAreDistances ==
  \A i \in 0 .. zsl.level - 1 : \A x \in OnLevel(i) \cup {Header} :
    LET f == zsl.forward[i][x]
    IN zsl.span[i][x] = (IF f = NULL THEN zsl.length ELSE At(f)) - At(x)

\* The backward pointers lead from the tail to the first node.
BackwardMirrorsForward ==
  /\ zsl.tail = Set!LastOf(InList(zsl))
  /\ \A o \in InList(zsl) : zsl.backward[o] = Set!LastOf({y \in InList(zsl) : At(y) < At(o)})

\* level is that of the highest node, so that no walk starts above the list.
LevelIsHighest == zsl.level = Max({1} \cup {zsl.height[o] : o \in InList(zsl)})

\* All pointers and spans of the list, which are redundant and change together.
WellLinked == LevelsAreSorted /\ SpansAreDistances /\ BackwardMirrorsForward /\ LevelIsHighest

\* zslGetRank and zslGetElementByRank are inverse, and agree with the order.
RanksAreRight ==
  /\ \A o \in Objs : o \in InList(zsl) => GetRank(zsl, zsl.score[o], o) = Set!RankOf(o)
  /\ \A o \in Objs, s \in Scores : o \notin InList(zsl) => GetRank(zsl, s, o) = 0
  /\ \A n \in 1 .. Cardinality(Objs) + 1 :
       GetElementByRank(zsl, n) = Set!FirstOf({o \in InList(zsl) : Set!RankOf(o) = n})

\* The first and the last node of a range of scores are those of the set.
ScoreRanges ==
  \A r \in RangeSpec(Scores) :
    /\ FirstInRange(zsl, r) = Set!FirstOf(Set!ByScore(r))
    /\ LastInRange(zsl, r) = Set!LastOf(Set!ByScore(r))

\* Likewise for ranges of members when all have one score.
LexRanges ==
  (\A x, y \in InList(zsl) : zsl.score[x] = zsl.score[y]) =>
    \A r \in RangeSpec(Bounds) :
      /\ FirstInLexRange(zsl, r) = Set!FirstOf(Set!ByLex(r))
      /\ LastInLexRange(zsl, r) = Set!LastOf(Set!ByLex(r))

\* A range query returns NULL exactly when nothing is in the range, although
\* zslIsInLexRange lets some empty ranges through, and never a node outside it.
RangesAreRight == ScoreRanges /\ LexRanges

\* The skip list implements the ordered set.
ImplementsOrderedSet == Set!Spec
=============================================================================
