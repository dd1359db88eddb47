------------------------------ MODULE SetType ------------------------------
(***************************************************************************)
(* Set objects (xmt_set.c): an intset as long as all elements are integers *)
(* and not too many, otherwise a dict.                                     *)
(***************************************************************************)
EXTENDS Object

CONSTANTS
  SetValues,              \* the values that are put into sets
  set_max_intset_entries  \* server.set_max_intset_entries

\* A string that is an integer is told from others by its number, of 64 bits.
ASSUME SetTypeAssumption ==
  \A v \in SetValues :
    /\ v.num \in BOOLEAN
    /\ v.num => v = Integer(v.n) /\ v.n \in IntMin(ENC_INT64) .. IntMax(ENC_INT64)

\* The elements of an intset as the keys of a dict.
AsKeys(is) == {Integer(n) : n \in Elements(is)}

\* The elements of the set.
SetElements == IF encoding = "intset" THEN AsKeys(ptr) ELSE ptr

\* setTypeCreate, for the first value that is to be added.
SetTypeCreate ==
  \E v \in SetValues :
    IF v.num THEN encoding = "intset" /\ ptr = IntsetNew ELSE encoding = "ht" /\ ptr = {}

\* An intset is converted once an addition has made it too long.
AddedToIntset(r) ==
  IF r.success = 1 /\ r.is.length > set_max_intset_entries
  THEN Become("ht", AsKeys(r.is)) ELSE Become("intset", r.is)

\* setTypeAdd, with the conversion by setTypeConvert.
SetTypeAdd(v) ==
  /\ NoIterator
  /\ \/ /\ encoding = "ht"
        /\ Become("ht", ptr \cup {v})
        /\ ret' = <<"add", v, IF v \in ptr THEN 0 ELSE 1>>
     \/ /\ encoding = "intset" /\ v.num
        /\ AddedToIntset(IntsetAdd(ptr, v.n))
        /\ ret' = <<"add", v, IntsetAdd(ptr, v.n).success>>
     \/ /\ encoding = "intset" /\ ~v.num
        /\ Become("ht", AsKeys(ptr) \cup {v})
        /\ ret' = <<"add", v, 1>>

\* setTypeRemove
SetTypeRemove(v) ==
  /\ NoIterator
  /\ \/ /\ encoding = "ht"
        /\ Become("ht", ptr \ {v})
        /\ ret' = <<"remove", v, IF v \in ptr THEN 1 ELSE 0>>
     \/ /\ encoding = "intset" /\ v.num
        /\ Become("intset", IntsetRemove(ptr, v.n).is)
        /\ ret' = <<"remove", v, IntsetRemove(ptr, v.n).success>>
     \/ /\ encoding = "intset" /\ ~v.num
        /\ SameObject
        /\ ret' = <<"remove", v, 0>>

\* setTypeIsMember
IsMember(v) == IF encoding = "ht" THEN v \in ptr ELSE v.num /\ IntsetFind(ptr, v.n)

SetTypeIsMember(v) ==
  /\ ret' = <<"is member", v, IF IsMember(v) THEN 1 ELSE 0>>
  /\ SameObject /\ UNCHANGED <<it, due>>

\* setTypeSize
SetTypeSize ==
  /\ ret' = <<"size", IF encoding = "intset" THEN ptr.length ELSE Cardinality(ptr)>>
  /\ SameObject /\ UNCHANGED <<it, due>>

\* setTypeRandomElement: the client has looked that the set is not empty.
SetTypeRandomElement ==
  /\ SetElements # {}
  /\ \/ encoding = "ht" /\ \E v \in ptr : ret' = <<"random", v>>
     \/ /\ encoding = "intset"
        /\ \E pos \in 0 .. ptr.length - 1 : ret' = <<"random", Integer(IsGet(ptr, pos))>>
  /\ SameObject /\ UNCHANGED <<it, due>>

\* setTypeInitIterator
SetTypeInitIterator == Iterate([encoding |-> encoding, ii |-> 0, end |-> FALSE], SetElements)

\* setTypeNext returns x, or -1 at the end; the iterator of a dict returns the
\* keys in any order.
SetTypeNext ==
  LET n == IntsetGet(ptr, it.ii, NULL)
      returns(x) == due' = DueInSet(x) /\ it' = [it EXCEPT !.ii = @ + 1]
      ends == UNCHANGED due /\ it' = [it EXCEPT !.ii = @ + 1, !.end = TRUE]
  IN /\ it # NULL /\ ~it.end
     /\ \/ it.encoding = "intset" /\ IF n = NULL THEN ends ELSE returns(Integer(n))
        \/ it.encoding = "ht" /\ IF due = {} THEN ends ELSE \E x \in due : returns(x)
     /\ SameObject /\ UNCHANGED ret

SetNext ==
  /\ type = "set"
  /\ \/ \E v \in SetValues : SetTypeAdd(v) \/ SetTypeRemove(v) \/ SetTypeIsMember(v)
     \/ SetTypeSize \/ SetTypeRandomElement
     \/ SetTypeInitIterator \/ SetTypeNext \/ ReleaseIterator
=============================================================================
