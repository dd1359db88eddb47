------------------------------ MODULE NodeSeq -------------------------------
(***************************************************************************)
(* What the functions of xmadlist.h promise: a list is a sequence of       *)
(* nodes, and a call puts a node at one place of it or takes one out.      *)
(***************************************************************************)
EXTENDS Naturals, Sequences

CONSTANT Nodes  \* the nodes that can be allocated

VARIABLES
  items,  \* the nodes of the list, from head to tail
  call    \* the last call that changes the list, and its arguments

seqVars == <<items, call>>

Init == items = <<>> /\ call = <<>>

Fresh(n) == \A i \in DOMAIN items : items[i] # n

\* n goes to position i, and what was there and after it moves up.
Put(n, i) == items' = SubSeq(items, 1, i - 1) \o <<n>> \o SubSeq(items, i, Len(items))

AddHead(n) == call' = <<"add head", n>> /\ Put(n, 1)

AddTail(n) == call' = <<"add tail", n>> /\ Put(n, Len(items) + 1)

InsertBefore(n, o) ==
  /\ call' = <<"insert before", n, o>>
  /\ \E i \in DOMAIN items : items[i] = o /\ Put(n, i)

InsertAfter(n, o) ==
  /\ call' = <<"insert after", n, o>>
  /\ \E i \in DOMAIN items : items[i] = o /\ Put(n, i + 1)

Delete(n) ==
  /\ call' = <<"delete", n>>
  /\ \E i \in DOMAIN items :
       items[i] = n /\ items' = SubSeq(items, 1, i - 1) \o SubSeq(items, i + 1, Len(items))

\* The last node becomes the first.
Rotate ==
  /\ call' = <<"rotate">>
  /\ items' = IF items = <<>> THEN <<>>
              ELSE <<items[Len(items)]>> \o SubSeq(items, 1, Len(items) - 1)

Next ==
  \/ \E n \in Nodes : Fresh(n) /\ (AddHead(n) \/ AddTail(n))
  \/ \E n, o \in Nodes : Fresh(n) /\ (InsertBefore(n, o) \/ InsertAfter(n, o))
  \/ \E n \in Nodes : Delete(n)
  \/ Rotate

Spec == Init /\ [][Next]_seqVars
=============================================================================
