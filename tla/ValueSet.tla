------------------------------ MODULE ValueSet ------------------------------
(***************************************************************************)
(* What the functions of xmt_set.h promise, whatever the encoding: a set.  *)
(***************************************************************************)
EXTENDS Naturals, FiniteSets

CONSTANT SetValues  \* the values that are put into sets

VARIABLES
  elements,  \* the set
  ret        \* the last call: its name, its arguments and what it returned

setVars == <<elements, ret>>

Init == elements = {} /\ ret = <<>>

\* 1 if v is new, 0 if it was there.
Add(v) ==
  /\ ret' = <<"add", v, IF v \in elements THEN 0 ELSE 1>>
  /\ elements' = elements \cup {v}

\* 1 if v was there, 0 if not.
Remove(v) ==
  /\ ret' = <<"remove", v, IF v \in elements THEN 1 ELSE 0>>
  /\ elements' = elements \ {v}

IsMember(v) == ret' = <<"is member", v, IF v \in elements THEN 1 ELSE 0>> /\ UNCHANGED elements

Size == ret' = <<"size", Cardinality(elements)>> /\ UNCHANGED elements

Draw == (\E v \in elements : ret' = <<"random", v>>) /\ UNCHANGED elements

Next ==
  \/ \E v \in SetValues : Add(v) \/ Remove(v) \/ IsMember(v)
  \/ Size
  \/ Draw

Spec == Init /\ [][Next]_setVars
=============================================================================
