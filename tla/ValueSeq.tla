------------------------------ MODULE ValueSeq ------------------------------
(***************************************************************************)
(* What the functions of xmt_list.h promise, whatever the encoding: a list *)
(* is a sequence of values.                                                *)
(***************************************************************************)
EXTENDS Integers, Sequences

CONSTANTS
  ListValues,  \* the values that are put into lists
  NULL         \* no value

VARIABLES
  items,  \* the values, from head to tail
  ret     \* the last call: its name, its arguments and what it returned

seqVars == <<items, ret>>

HEAD == 0
TAIL == 1

Init == items = <<>> /\ ret = <<>>

\* v goes to position i, and what was there and after it moves up.
PutAt(v, i) == items' = SubSeq(items, 1, i - 1) \o <<v>> \o SubSeq(items, i, Len(items))

RemoveAt(i) == items' = SubSeq(items, 1, i - 1) \o SubSeq(items, i + 1, Len(items))

Push(v, where) ==
  /\ ret' = <<"push", v, where>>
  /\ PutAt(v, IF where = HEAD THEN 1 ELSE Len(items) + 1)

\* The value that is taken out, NULL from an empty list.
Pop(where) ==
  LET i == IF where = HEAD THEN 1 ELSE Len(items)
  IN IF items = <<>> THEN ret' = <<"pop", where, NULL>> /\ UNCHANGED items
     ELSE ret' = <<"pop", where, items[i]>> /\ RemoveAt(i)

Length == ret' = <<"length", Len(items)>> /\ UNCHANGED items

\* At the entry i of an iteration: comparison, deletion, and insertion before
\* or after it.
Equal(i, v) == ret' = <<"equal", i, v, items[i] = v>> /\ UNCHANGED items

Delete(i) == ret' = <<"delete", i>> /\ RemoveAt(i)

Insert(i, v, where) ==
  /\ ret' = <<"insert", i, v, where>>
  /\ PutAt(v, IF where = HEAD THEN i ELSE i + 1)

Next ==
  \/ \E v \in ListValues, where \in {HEAD, TAIL} : Push(v, where) \/ \E i \in DOMAIN items : Insert(i, v, where)
  \/ \E where \in {HEAD, TAIL} : Pop(where)
  \/ Length
  \/ \E i \in DOMAIN items : Delete(i) \/ \E v \in ListValues : Equal(i, v)

Spec == Init /\ [][Next]_seqVars
=============================================================================
