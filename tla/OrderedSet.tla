----------------------------- MODULE OrderedSet -----------------------------
(***************************************************************************)
(* What the functions of xmskiplist.h promise: members with scores, in the *)
(* order of scores and, for one score, of members; ranks start at 1.       *)
(***************************************************************************)
EXTENDS Integers, FiniteSets

CONSTANTS
  Objs,    \* the members, numbered in the order of compareStringObjects
  Scores,  \* the scores
  NULL     \* no score

VARIABLES
  scoreOf,  \* the score of each member, NULL for those not in the set
  ret       \* the last call: its name, its arguments and what it returned

setVars == <<scoreOf, ret>>

Members == {o \in Objs : scoreOf[o] # NULL}

\* x comes before y.
Below(x, y) == scoreOf[x] < scoreOf[y] \/ (scoreOf[x] = scoreOf[y] /\ x < y)

RankOf(o) == 1 + Cardinality({x \in Members : Below(x, o)})

\* The first and the last of some members, NULL if there are none.
FirstOf(S) == IF S = {} THEN NULL ELSE CHOOSE x \in S : \A y \in S \ {x} : Below(x, y)

LastOf(S) == IF S = {} THEN NULL ELSE CHOOSE x \in S : \A y \in S \ {x} : Below(y, x)

\* Ranges of numbers: minex and maxex exclude the bounds.
InRange(v, r) ==
  /\ IF r.minex THEN v > r.min ELSE v >= r.min
  /\ IF r.maxex THEN v < r.max ELSE v <= r.max

ByScore(r) == {o \in Members : InRange(scoreOf[o], r)}

ByLex(r) == {o \in Members : InRange(o, r)}

ByRank(start, end) == {o \in Members : RankOf(o) \in start .. end}

Init == scoreOf = [o \in Objs |-> NULL] /\ ret = <<>>

Insert(o, s) ==
  /\ ret' = <<"insert", o>>
  /\ o \notin Members
  /\ scoreOf' = [scoreOf EXCEPT ![o] = s]

\* 1 when the member has that score and is removed, 0 otherwise.
Delete(o, s) ==
  \/ /\ ret' = <<"delete", o, s, 1>>
     /\ scoreOf[o] = s
     /\ scoreOf' = [scoreOf EXCEPT ![o] = NULL]
  \/ /\ ret' = <<"delete", o, s, 0>>
     /\ scoreOf[o] # s
     /\ UNCHANGED scoreOf

\* The removal of the members of a range returns how many they were.
Remove(call, inRange) ==
  /\ ret' \in {call} \X (DOMAIN inRange) \X (0 .. Cardinality(Objs))
  /\ LET S == inRange[ret'[2]]
     IN /\ ret'[3] = Cardinality(S)
        /\ scoreOf' = [o \in Objs |-> IF o \in S THEN NULL ELSE scoreOf[o]]

RangeSpec(values) == [min : values, max : values, minex : BOOLEAN, maxex : BOOLEAN]

\* Bounds of a range of members lie among them, below all or above all.
Bounds == Objs \cup {0, Cardinality(Objs) + 1}

Next ==
  \/ \E o \in Objs, s \in Scores : Insert(o, s) \/ Delete(o, s)
  \/ Remove("by score", [r \in RangeSpec(Scores) |-> ByScore(r)])
  \/ Remove("by lex", [r \in RangeSpec(Bounds) |-> ByLex(r)])
  \/ LET ranks == 1 .. Cardinality(Objs) + 1
     IN Remove("by rank", [r \in ranks \X ranks |-> ByRank(r[1], r[2])])

Spec == Init /\ [][Next]_setVars
=============================================================================
