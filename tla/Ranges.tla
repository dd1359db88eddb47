------------------------------- MODULE Ranges -------------------------------
(***************************************************************************)
(* Ranges of scores and of members (zrangespec and zlexrangespec of        *)
(* xmskiplist.h), for the skip list and for the ziplist of a sorted set.   *)
(***************************************************************************)
EXTENDS Integers, FiniteSets

CONSTANT
  Objs  \* the members, numbered in the order of compareStringObjects

RangeSpec(values) == [min : values, max : values, minex : BOOLEAN, maxex : BOOLEAN]

\* shared.minstring and shared.maxstring
MinString == 0
MaxString == Cardinality(Objs) + 1
Bounds == Objs \cup {MinString, MaxString}

LteMaxInclusive(v, r) == v <= r.max

\* zslValueGteMin, zslValueLteMax
GteMin(v, r) == IF r.minex THEN v > r.min ELSE v >= r.min
LteMax(v, r) == IF r.maxex THEN v < r.max ELSE v <= r.max

\* compareStringObjectsForLexRange
LexCompare(a, b) ==
  IF a = b THEN 0
  ELSE IF a = MinString \/ b = MaxString THEN -1
  ELSE IF a = MaxString \/ b = MinString THEN 1
  ELSE a - b

\* zslLexValueGteMin, zslLexValueLteMax
LexGteMin(v, r) == IF r.minex THEN LexCompare(v, r.min) > 0 ELSE LexCompare(v, r.min) >= 0
LexLteMax(v, r) == IF r.maxex THEN LexCompare(v, r.max) < 0 ELSE LexCompare(v, r.max) <= 0
=============================================================================
