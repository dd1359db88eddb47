------------------------------- MODULE AdList -------------------------------
(***************************************************************************)
(* The doubly linked list of xmadlist.c and its iterator.                  *)
(*                                                                         *)
(* A node is the memory it is allocated in: it can be freed and allocated  *)
(* again, and a pointer to a node that is not in the list dangles.  A C    *)
(* function that changes a list is an operator on list values.             *)
(***************************************************************************)
EXTENDS Integers, Sequences, FiniteSets

CONSTANTS
  Nodes,  \* the nodes that can be allocated at a time
  Vals,   \* the values of nodes
  NULL    \* the null pointer

ASSUME NodesAssumption == IsFiniteSet(Nodes) /\ NULL \notin Nodes \cup Vals

AL_START_HEAD == 0
AL_START_TAIL == 1

VARIABLES
  l,     \* the list
  call,  \* the last call that changes it, and its arguments
  iter   \* the iterator; "given" and "due" are history: the nodes it returned,
         \* and those of the list that it has not returned

vars == <<l, call, iter>>

\* What decides the behaviour of every call.
ListView == <<l, iter>>

----------------------------------------------------------------------------
\* listCreate
EmptyList ==
  [head |-> NULL, tail |-> NULL, len |-> 0,
   prev |-> [n \in Nodes |-> NULL],
   next |-> [n \in Nodes |-> NULL],
   value |-> [n \in Nodes |-> NULL]]

\* The node that "link" leads to from node n after i steps.
Follow(link, n, i) ==
  LET at[j \in Nat] ==
        IF j = 0 THEN n ELSE IF at[j - 1] = NULL THEN NULL ELSE link[at[j - 1]]
  IN at[i]

\* The nodes in the order of the next pointers.
Items(ll) == [i \in 1 .. ll.len |-> Follow(ll.next, ll.head, i - 1)]

InList(ll) == {Items(ll)[i] : i \in 1 .. ll.len} \ {NULL}

\* p->field = n, for a pointer p that may be NULL.
Store(field, p, n) == IF p = NULL THEN field ELSE [field EXCEPT ![p] = n]

\* listAddNodeHead and listAddNodeTail, n being the node that is allocated.
AddHead(ll, n, v) ==
  LET first == ll.len = 0
      next == IF first THEN NULL ELSE ll.head
  IN [head |-> n,
      tail |-> IF first THEN n ELSE ll.tail,
      len |-> ll.len + 1,
      prev |-> [Store(ll.prev, next, n) EXCEPT ![n] = NULL],
      next |-> [ll.next EXCEPT ![n] = next],
      value |-> [ll.value EXCEPT ![n] = v]]

AddTail(ll, n, v) ==
  LET first == ll.len = 0
      prev == IF first THEN NULL ELSE ll.tail
  IN [head |-> IF first THEN n ELSE ll.head,
      tail |-> n,
      len |-> ll.len + 1,
      prev |-> [ll.prev EXCEPT ![n] = prev],
      next |-> [Store(ll.next, prev, n) EXCEPT ![n] = NULL],
      value |-> [ll.value EXCEPT ![n] = v]]

InsertAfterKeepTail(ll, o, n, v) ==
  LET next == ll.next[o]
  IN [ll EXCEPT !.len = @ + 1,
                !.prev = [Store(@, next, n) EXCEPT ![n] = o],
                !.next = [@ EXCEPT ![o] = n, ![n] = next],
                !.value[n] = v]

\* listInsertNode with after # 0
InsertAfter(ll, o, n, v) ==
  LET next == ll.next[o]
  IN [ll EXCEPT !.tail = IF @ = o THEN n ELSE @,
                !.len = @ + 1,
                !.prev = [Store(@, next, n) EXCEPT ![n] = o],
                !.next = [@ EXCEPT ![o] = n, ![n] = next],
                !.value[n] = v]

\* listInsertNode with after = 0: node->prev is read without having been set;
\* p is what the allocated memory holds there.
InsertBefore(ll, o, n, v, p) ==
  [ll EXCEPT !.head = IF @ = o THEN n ELSE @,
             !.len = @ + 1,
             !.prev = [@ EXCEPT ![o] = n, ![n] = p],
             !.next = Store([@ EXCEPT ![n] = o], p, n),
             !.value[n] = v]

\* listDelNode: of the only node head is corrected, and tail is not.
DelNode(ll, n) ==
  LET prev == ll.prev[n]
      next == ll.next[n]
  IN [head |-> IF n = ll.head THEN next ELSE ll.head,
      tail |-> IF n # ll.head /\ n = ll.tail THEN prev ELSE ll.tail,
      len |-> ll.len - 1,
      prev |-> [Store(ll.prev, next, prev) EXCEPT ![n] = NULL],
      next |-> [Store(ll.next, prev, next) EXCEPT ![n] = NULL],
      value |-> [ll.value EXCEPT ![n] = NULL]]

RotatedKeepLast(ll) ==
  IF ll.tail = ll.head THEN ll
  ELSE [ll EXCEPT !.head = ll.tail,
                  !.next = [@ EXCEPT ![ll.prev[ll.tail]] = NULL, ![ll.tail] = ll.head],
                  !.prev = [@ EXCEPT ![ll.tail] = NULL, ![ll.head] = ll.tail]]

\* listRotate
Rotated(ll) ==
  IF ll.tail = ll.head THEN ll
  ELSE [ll EXCEPT !.head = ll.tail,
                  !.tail = ll.prev[ll.tail],
                  !.next = [@ EXCEPT ![ll.prev[ll.tail]] = NULL, ![ll.tail] = ll.head],
                  !.prev = [@ EXCEPT ![ll.tail] = NULL, ![ll.head] = ll.tail]]

IndexFromTail(ll, i) ==
  IF i < 0 THEN Follow(ll.prev, ll.tail, -i) ELSE Follow(ll.next, ll.head, i)

\* listIndex
Index(ll, i) ==
  IF i < 0 THEN Follow(ll.prev, ll.tail, -i - 1) ELSE Follow(ll.next, ll.head, i)

\* listSearchKey with the match method, or without one: the first such value.
SearchKey(ll, key) ==
  LET at == {i \in 1 .. ll.len : ll.value[Items(ll)[i]] = key}
  IN IF at = {} THEN NULL ELSE Items(ll)[CHOOSE i \in at : \A j \in at : i <= j]

\* listDup without failures; the copy of node n is called n as well.
Dup(ll) ==
  LET copy[i \in 0 .. ll.len] ==
        IF i = 0 THEN EmptyList
        ELSE AddTail(copy[i - 1], Items(ll)[i], ll.value[Items(ll)[i]])
  IN copy[ll.len]

----------------------------------------------------------------------------
\* The iterator.

NoIter == [on |-> FALSE, direction |-> AL_START_HEAD, current |-> NULL, next |-> NULL,
           given |-> {}, due |-> {}]

OnwardLate(ll, it) ==
  IF it.current = NULL THEN it.next
  ELSE IF it.direction = AL_START_HEAD THEN ll.next[it.current] ELSE ll.prev[it.current]

\* The node that listNext returns: it was saved by the call before.
Onward(ll, it) == it.next

\* The pointer that it saves for the next call.
AfterNext(ll, it, n) ==
  IF n = NULL THEN NULL
  ELSE IF it.direction = AL_START_HEAD THEN ll.next[n] ELSE ll.prev[n]

----------------------------------------------------------------------------
\* The public calls.

Init == l = EmptyList /\ call = <<>> /\ iter = NoIter

\* No list is changed under an iterator, except that a node it has returned
\* may be deleted.
ListAddNodeHead(n, v) ==
  /\ ~iter.on /\ n \notin InList(l)
  /\ l' = AddHead(l, n, v)
  /\ call' = <<"add head", n>>
  /\ UNCHANGED iter

ListAddNodeTail(n, v) ==
  /\ ~iter.on /\ n \notin InList(l)
  /\ l' = AddTail(l, n, v)
  /\ call' = <<"add tail", n>>
  /\ UNCHANGED iter

ListInsertNode(n, o, v) ==
  /\ ~iter.on /\ n \notin InList(l) /\ o \in InList(l)
  /\ l' = InsertAfter(l, o, n, v)
  /\ call' = <<"insert after", n, o>>
  /\ UNCHANGED iter

ListInsertBefore(n, o, v) ==
  /\ ~iter.on /\ n \notin InList(l) /\ o \in InList(l)
  /\ \E p \in Nodes \cup {NULL} : l' = InsertBefore(l, o, n, v, p)
  /\ call' = <<"insert before", n, o>>
  /\ UNCHANGED iter

ListDelNode(n) ==
  /\ n \in InList(l)
  /\ iter.on => n = iter.current
  /\ l' = DelNode(l, n)
  /\ call' = <<"delete", n>>
  /\ iter' = [iter EXCEPT !.given = @ \ {n}]

\* The tail of a list that has lost its last node is not to be read.
TailUsable == l.len > 0 \/ l.tail = NULL

ListRotate ==
  /\ ~iter.on /\ TailUsable
  /\ l' = Rotated(l)
  /\ call' = <<"rotate">>
  /\ UNCHANGED iter

\* listGetIterator, listRewind, listRewindTail
ListGetIterator(direction) ==
  /\ direction = AL_START_TAIL => TailUsable
  /\ iter' = [on |-> TRUE, direction |-> direction, current |-> NULL,
              next |-> IF direction = AL_START_HEAD THEN l.head ELSE l.tail,
              given |-> {}, due |-> InList(l)]
  /\ UNCHANGED <<l, call>>

\* A client that was given NULL does not call listNext again.
ListNext ==
  LET n == Onward(l, iter)
  IN /\ iter.on
     /\ iter.current # NULL \/ iter.given = {}
     /\ iter' = [iter EXCEPT !.current = n, !.next = AfterNext(l, iter, n),
                             !.given = @ \cup ({n} \ {NULL}), !.due = @ \ {n}]
     /\ UNCHANGED <<l, call>>

ListReleaseIterator ==
  /\ iter.on
  /\ iter' = NoIter
  /\ UNCHANGED <<l, call>>

Next ==
  \/ \E n \in Nodes, v \in Vals :
       \/ ListAddNodeHead(n, v) \/ ListAddNodeTail(n, v)
       \/ \E o \in Nodes : ListInsertNode(n, o, v)
  \/ \E n \in Nodes : ListDelNode(n)
  \/ ListRotate
  \/ \E direction \in {AL_START_HEAD, AL_START_TAIL} : ListGetIterator(direction)
  \/ ListNext
  \/ ListReleaseIterator

Spec == Init /\ [][Next]_vars

\* With insertions before a node.
BeforeNext == Next \/ \E n, o \in Nodes, v \in Vals : ListInsertBefore(n, o, v)

BeforeSpec == Init /\ [][BeforeNext]_vars

----------------------------------------------------------------------------
\* Properties.

\* The types of the fields of list, listNode and listIter; nodes are in the
\* list once.
TypeOK ==
  /\ l \in [head : Nodes \cup {NULL}, tail : Nodes \cup {NULL}, len : 0 .. Cardinality(Nodes),
            prev : [Nodes -> Nodes \cup {NULL}], next : [Nodes -> Nodes \cup {NULL}],
            value : [Nodes -> Vals \cup {NULL}]]
  /\ iter \in [on : BOOLEAN, direction : {AL_START_HEAD, AL_START_TAIL},
               current : Nodes \cup {NULL}, next : Nodes \cup {NULL},
               given : SUBSET Nodes, due : SUBSET Nodes]
  /\ Cardinality(InList(l)) = l.len

\* head, tail, prev and next tell of one and the same order: the list can be
\* walked from either end, and ends where the other walk starts.
WellLinked ==
  /\ TypeOK
  /\ l.len > 0 => l.tail = Items(l)[l.len]
  /\ Follow(l.next, l.head, l.len) = NULL
  /\ \A i \in 1 .. l.len :
       l.prev[Items(l)[i]] = IF i = 1 THEN NULL ELSE Items(l)[i - 1]

\* listIndex counts from either end of a list that is not empty, and a copy has
\* the values of the original in the same places.
PositionsAgree ==
  l.len > 0 =>
    /\ \A i \in 0 .. l.len : Index(l, i) = IF i < l.len THEN Items(l)[i + 1] ELSE NULL
    /\ \A i \in 1 .. l.len + 1 : Index(l, -i) = IF i <= l.len THEN Items(l)[l.len + 1 - i] ELSE NULL
    /\ Items(Dup(l)) = Items(l) /\ Dup(l).value = l.value
    /\ \A v \in Vals : SearchKey(l, v) = NULL <=> \A n \in InList(l) : l.value[n] # v

\* An iteration in either direction, on the way of which nodes it has returned
\* are deleted, returns every node, and none that has been deleted.
IterationComplete ==
  /\ iter.on /\ iter.current = NULL /\ iter.next = NULL => iter.due = {}
  /\ iter.on /\ iter.next # NULL => iter.next \in InList(l)

\* The list implements the sequence of nodes.
Sequence == INSTANCE NodeSeq WITH items <- Items(l)
ImplementsSequence == Sequence!Spec

\* A node that is inserted before another comes right before it (the comment of
\* listInsertNode in xmadlist.h).
InsertedBefore ==
  [][\A n, o \in Nodes, v \in Vals : ListInsertBefore(n, o, v) => Sequence!InsertBefore(n, o)]_vars
=============================================================================
