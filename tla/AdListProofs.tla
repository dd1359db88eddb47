---------------------------- MODULE AdListProofs ----------------------------
(***************************************************************************)
(* Proofs about AdList for every set of nodes and values.  The inductive   *)
(* invariant names the sequence of nodes that the pointers lay out (Laid); *)
(* each operator of AdList that stands for a C function takes a list that  *)
(* lays out one sequence to a list that lays out the sequence that the     *)
(* function promises.                                                      *)
(***************************************************************************)
EXTENDS AdList, FiniteSetTheorems, SequenceTheorems, WellFoundedInduction, TLAPS

Pointers == Nodes \cup {NULL}

Lists ==
  [head : Pointers, tail : Pointers, len : Nat,
   prev : [Nodes -> Pointers], next : [Nodes -> Pointers], value : [Nodes -> Vals \cup {NULL}]]

\* The list has the nodes of s, each once, and its pointers lead along s in
\* both directions; nodes that are not in the list hold no value.
Laid(ll, s) ==
  /\ ll \in Lists
  /\ s \in [1 .. ll.len -> Nodes]
  /\ \A i, j \in 1 .. ll.len : s[i] = s[j] => i = j
  /\ ll.head = IF ll.len = 0 THEN NULL ELSE s[1]
  /\ ll.len > 0 => ll.tail = s[ll.len]
  /\ \A i \in 1 .. ll.len :
       /\ ll.prev[s[i]] = IF i = 1 THEN NULL ELSE s[i - 1]
       /\ ll.next[s[i]] = IF i = ll.len THEN NULL ELSE s[i + 1]
  /\ \A n \in Nodes : (\A i \in 1 .. ll.len : s[i] # n) => ll.value[n] = NULL

----------------------------------------------------------------------------
\* Walking along pointers.

\* A non-empty set of naturals has a least element.
LEMMA LeastNatural ==
  ASSUME NEW S \in SUBSET Nat, S # {}
  PROVE  \E x \in S : \A y \in S : x <= y
<1>1. PICK x \in S : \A y \in S : ~(<<y, x>> \in OpToRel(<, Nat))
  BY NatLessThanWellFounded, WFMin
<1>2. \A y \in S : ~(y < x)
  BY <1>1 DEF OpToRel
<1>3. QED
  BY <1>2

\* f holds the nodes that "link" leads to from n, step by step.
IsWalk(f, link, n) ==
  f = [j \in Nat |-> IF j = 0 THEN n ELSE IF f[j - 1] = NULL THEN NULL ELSE link[f[j - 1]]]

LEMMA FollowIsWalk ==
  ASSUME NEW link, NEW n, NEW w, IsWalk(w, link, n)
  PROVE  \A i \in Nat : Follow(link, n, i) = w[i]
<1> DEFINE at == CHOOSE f : IsWalk(f, link, n)
           Wrong == {i \in Nat : at[i] # w[i]}
<1>1. \A i \in Nat : Follow(link, n, i) = at[i]
  BY DEF Follow, IsWalk
<1>2. IsWalk(at, link, n)
  OBVIOUS
<1> HIDE DEF at
<1>3. \A j \in Nat :
        /\ at[j] = IF j = 0 THEN n ELSE IF at[j - 1] = NULL THEN NULL ELSE link[at[j - 1]]
        /\ w[j] = IF j = 0 THEN n ELSE IF w[j - 1] = NULL THEN NULL ELSE link[w[j - 1]]
  BY <1>2 DEF IsWalk
<1>4. Wrong = {}
  <2>1. SUFFICES ASSUME Wrong # {}
                 PROVE  FALSE
    OBVIOUS
  <2>2. PICK m \in Wrong : \A k \in Wrong : m <= k
    <3>1. Wrong \in SUBSET Nat
      OBVIOUS
    <3>2. QED
      BY <2>1, <3>1, LeastNatural
  <2>3. m \in Nat /\ at[m] # w[m]
    OBVIOUS
  <2>4. m # 0
    BY <1>3, <2>3
  <2>5. m - 1 \in Nat /\ m - 1 \notin Wrong
    BY <2>2, <2>3, <2>4
  <2>6. at[m - 1] = w[m - 1]
    BY <2>5
  <2>7. QED
    BY <1>3, <2>3, <2>4, <2>6
<1>5. QED
  BY <1>1, <1>4

\* From the head, next leads along s; from the tail, prev leads back along it.
LEMMA WalkForward ==
  ASSUME NEW ll, NEW s, Laid(ll, s)
  PROVE  \A i \in Nat : Follow(ll.next, ll.head, i) = IF i < ll.len THEN s[i + 1] ELSE NULL
<1> DEFINE w == [j \in Nat |-> IF j < ll.len THEN s[j + 1] ELSE NULL]
<1>1. ll.len \in Nat /\ \A i \in 1 .. ll.len : s[i] \in Nodes /\ s[i] # NULL
  BY NodesAssumption DEF Laid, Lists
<1>2. ASSUME NEW j \in Nat
      PROVE  w[j] = IF j = 0 THEN ll.head ELSE IF w[j - 1] = NULL THEN NULL ELSE ll.next[w[j - 1]]
  <2>1. CASE j = 0
    BY <1>1, <2>1 DEF Laid
  <2>2. CASE j # 0 /\ j - 1 < ll.len
    <3>1. j - 1 \in Nat /\ j \in 1 .. ll.len
      BY <1>1, <2>2
    <3>2. w[j - 1] = s[j] /\ w[j - 1] # NULL
      BY <1>1, <2>2, <3>1
    <3>3. ll.next[s[j]] = IF j = ll.len THEN NULL ELSE s[j + 1]
      BY <3>1 DEF Laid
    <3>4. w[j] = IF j = ll.len THEN NULL ELSE s[j + 1]
      BY <1>1, <3>1
    <3>5. QED
      BY <2>2, <3>2, <3>3, <3>4
  <2>3. CASE j # 0 /\ ~(j - 1 < ll.len)
    BY <1>1, <2>3
  <2>4. QED
    BY <2>1, <2>2, <2>3
<1>3. IsWalk(w, ll.next, ll.head)
  <2>1. w = [j \in Nat |-> w[j]]
    OBVIOUS
  <2> HIDE DEF w
  <2>2. QED
    BY <1>2, <2>1 DEF IsWalk
<1>4. \A i \in Nat : Follow(ll.next, ll.head, i) = w[i]
  BY <1>3, FollowIsWalk
<1>5. QED
  BY <1>4

LEMMA WalkBackward ==
  ASSUME NEW ll, NEW s, Laid(ll, s), ll.len > 0
  PROVE  \A i \in Nat : Follow(ll.prev, ll.tail, i) = IF i < ll.len THEN s[ll.len - i] ELSE NULL
<1> DEFINE w == [j \in Nat |-> IF j < ll.len THEN s[ll.len - j] ELSE NULL]
<1>1. ll.len \in Nat /\ \A i \in 1 .. ll.len : s[i] \in Nodes /\ s[i] # NULL
  BY NodesAssumption DEF Laid, Lists
<1>2. ASSUME NEW j \in Nat
      PROVE  w[j] = IF j = 0 THEN ll.tail ELSE IF w[j - 1] = NULL THEN NULL ELSE ll.prev[w[j - 1]]
  <2>1. CASE j = 0
    BY <1>1, <2>1 DEF Laid
  <2>2. CASE j # 0 /\ j - 1 < ll.len
    <3> DEFINE p == ll.len - (j - 1)
    <3>1. j - 1 \in Nat /\ p \in 1 .. ll.len /\ (p = 1 <=> ~(j < ll.len)) /\ p - 1 = ll.len - j
      BY <1>1, <2>2
    <3>2. w[j - 1] = s[p] /\ w[j - 1] # NULL
      BY <1>1, <2>2, <3>1
    <3>3. ll.prev[s[p]] = IF p = 1 THEN NULL ELSE s[p - 1]
      BY <3>1 DEF Laid
    <3>4. w[j] = IF p = 1 THEN NULL ELSE s[p - 1]
      BY <1>1, <3>1
    <3>5. QED
      BY <2>2, <3>2, <3>3, <3>4
  <2>3. CASE j # 0 /\ ~(j - 1 < ll.len)
    BY <1>1, <2>3
  <2>4. QED
    BY <2>1, <2>2, <2>3
<1>3. IsWalk(w, ll.prev, ll.tail)
  <2>1. w = [j \in Nat |-> w[j]]
    OBVIOUS
  <2> HIDE DEF w
  <2>2. QED
    BY <1>2, <2>1 DEF IsWalk
<1>4. \A i \in Nat : Follow(ll.prev, ll.tail, i) = w[i]
  BY <1>3, FollowIsWalk
<1>5. QED
  BY <1>4

\* Laid says what Items and InList are.
LEMMA LaidItems ==
  ASSUME NEW ll, NEW s, Laid(ll, s)
  PROVE  /\ Items(ll) = s /\ Items(ll) \in Seq(Nodes) /\ Len(Items(ll)) = ll.len
         /\ InList(ll) = {s[i] : i \in 1 .. ll.len} /\ InList(ll) \subseteq Nodes
<1>1. ll.len \in Nat /\ s \in [1 .. ll.len -> Nodes] /\ NULL \notin Nodes
  BY NodesAssumption DEF Laid, Lists
<1>2. ASSUME NEW i \in 1 .. ll.len
      PROVE  Follow(ll.next, ll.head, i - 1) = s[i]
  <2>1. i - 1 \in Nat /\ i - 1 < ll.len /\ (i - 1) + 1 = i
    BY <1>1
  <2>2. Follow(ll.next, ll.head, i - 1) = s[(i - 1) + 1]
    BY <2>1, WalkForward
  <2>3. QED
    BY <2>1, <2>2
<1>3. s = [i \in 1 .. ll.len |-> s[i]]
  BY <1>1
<1>4. Items(ll) = s
  BY <1>2, <1>3 DEF Items
<1>5. s \in Seq(Nodes) /\ Len(s) = ll.len
  BY <1>1
<1>6. InList(ll) = {s[i] : i \in 1 .. ll.len}
  BY <1>1, <1>4 DEF InList
<1>7. QED
  BY <1>1, <1>4, <1>5, <1>6

\* As many nodes as the list is long, at most all of them.
LEMMA LaidCounts ==
  ASSUME NEW ll, NEW s, Laid(ll, s)
  PROVE  Cardinality(InList(ll)) = ll.len /\ ll.len \in 0 .. Cardinality(Nodes)
<1>1. ll.len \in Nat /\ s \in [1 .. ll.len -> Nodes]
  BY DEF Laid, Lists
<1>2. InList(ll) = {s[i] : i \in 1 .. ll.len} /\ InList(ll) \subseteq Nodes
  BY LaidItems
<1>3. s \in Injection(1 .. ll.len, InList(ll)) /\ s \in Surjection(1 .. ll.len, InList(ll))
  <2>1. s \in [1 .. ll.len -> InList(ll)]
    BY <1>1, <1>2
  <2>2. \A i, j \in 1 .. ll.len : s[i] = s[j] => i = j
    BY DEF Laid
  <2>3. \A x \in InList(ll) : \E i \in 1 .. ll.len : s[i] = x
    BY <1>2
  <2>4. QED
    BY <2>1, <2>2, <2>3 DEF Injection, Surjection, IsInjective
<1>4. IsFiniteSet(InList(ll)) /\ Cardinality(InList(ll)) <= Cardinality(Nodes) /\ Cardinality(Nodes) \in Nat
  BY <1>2, NodesAssumption, FS_Subset, FS_CardinalityType
<1>5. Cardinality(1 .. ll.len) = ll.len
  BY <1>1, FS_Interval
<1>6. Cardinality(1 .. ll.len) = Cardinality(InList(ll))
  BY <1>3, <1>4, FS_Injection
<1>7. QED
  BY <1>1, <1>4, <1>5, <1>6

----------------------------------------------------------------------------
\* Linking a node at a place of the list, and unlinking it.

\* The sequence s with n at place i, and without what is at place i.
Placed(s, len, n, i) ==
  [j \in 1 .. len + 1 |-> IF j < i THEN s[j] ELSE IF j = i THEN n ELSE s[j - 1]]

Dropped(s, len, i) == [j \in 1 .. len - 1 |-> IF j < i THEN s[j] ELSE s[j + 1]]

\* The pointers that have to change for n to go to place i.
LinkedAt(ll, s, e, n, v, i) ==
  /\ e \in Lists
  /\ e.len = ll.len + 1
  /\ e.head = IF i = 1 THEN n ELSE ll.head
  /\ e.tail = IF i = ll.len + 1 THEN n ELSE ll.tail
  /\ \A m \in Nodes :
       /\ e.prev[m] = IF m = n THEN IF i = 1 THEN NULL ELSE s[i - 1]
                      ELSE IF i <= ll.len /\ m = s[i] THEN n ELSE ll.prev[m]
       /\ e.next[m] = IF m = n THEN IF i = ll.len + 1 THEN NULL ELSE s[i]
                      ELSE IF i > 1 /\ m = s[i - 1] THEN n ELSE ll.next[m]
       /\ e.value[m] = IF m = n THEN v ELSE ll.value[m]

LEMMA LinkedAtLaid ==
  ASSUME NEW ll, NEW s, Laid(ll, s), NEW n \in Nodes, NEW v \in Vals \cup {NULL},
         NEW i \in 1 .. ll.len + 1, \A j \in 1 .. ll.len : s[j] # n,
         NEW e, LinkedAt(ll, s, e, n, v, i)
  PROVE  Laid(e, Placed(s, ll.len, n, i))
<1> DEFINE len == ll.len
           t == Placed(s, len, n, i)
<1>1. /\ len \in Nat /\ s \in [1 .. len -> Nodes] /\ i \in Nat /\ i \in 1 .. len + 1
      /\ \A j, k \in 1 .. len : s[j] = s[k] => j = k
      /\ ll.head = IF len = 0 THEN NULL ELSE s[1]
      /\ len > 0 => ll.tail = s[len]
      /\ \A j \in 1 .. len :
           /\ ll.prev[s[j]] = IF j = 1 THEN NULL ELSE s[j - 1]
           /\ ll.next[s[j]] = IF j = len THEN NULL ELSE s[j + 1]
  BY DEF Laid, Lists
<1>2. /\ e \in Lists /\ e.len = len + 1
      /\ e.head = IF i = 1 THEN n ELSE ll.head
      /\ e.tail = IF i = len + 1 THEN n ELSE ll.tail
  BY DEF LinkedAt
<1>3. \A m \in Nodes :
       /\ e.prev[m] = IF m = n THEN IF i = 1 THEN NULL ELSE s[i - 1]
                      ELSE IF i <= len /\ m = s[i] THEN n ELSE ll.prev[m]
       /\ e.next[m] = IF m = n THEN IF i = len + 1 THEN NULL ELSE s[i]
                      ELSE IF i > 1 /\ m = s[i - 1] THEN n ELSE ll.next[m]
       /\ e.value[m] = IF m = n THEN v ELSE ll.value[m]
  BY DEF LinkedAt
<1>4. /\ t \in [1 .. len + 1 -> Nodes]
      /\ \A j \in 1 .. len + 1 : t[j] = IF j < i THEN s[j] ELSE IF j = i THEN n ELSE s[j - 1]
  BY <1>1 DEF Placed
<1> HIDE DEF len, t
<1>5. \A j, k \in 1 .. len + 1 : t[j] = t[k] => j = k
  <2>1. \A j \in 1 .. len : s[j] # n
    BY DEF len
  <2>2. QED
    BY <1>1, <1>4, <2>1
<1>6. e.head = t[1] /\ e.tail = t[len + 1]
  BY <1>1, <1>2, <1>4
<1>7. ASSUME NEW j \in 1 .. len + 1
      PROVE  /\ e.prev[t[j]] = IF j = 1 THEN NULL ELSE t[j - 1]
             /\ e.next[t[j]] = IF j = len + 1 THEN NULL ELSE t[j + 1]
  <2>0. \A k \in 1 .. len : s[k] # n /\ s[k] \in Nodes
    BY <1>1 DEF len
  <2>1. CASE j < i
    <3>1. t[j] = s[j] /\ j \in 1 .. len /\ j # len + 1
      BY <1>1, <1>4, <2>1
    <3>2. e.prev[s[j]] = IF j = 1 THEN NULL ELSE s[j - 1]
      BY <1>1, <1>3, <2>0, <2>1, <3>1
    <3>3. e.next[s[j]] = IF j = i - 1 THEN n ELSE s[j + 1]
      BY <1>1, <1>3, <2>0, <2>1, <3>1
    <3>4. QED
      BY <1>1, <1>4, <2>1, <3>1, <3>2, <3>3
  <2>2. CASE j = i
    BY <1>1, <1>3, <1>4, <2>2
  <2>3. CASE j > i
    <3>1. t[j] = s[j - 1] /\ j - 1 \in 1 .. len /\ j # 1
      BY <1>1, <1>4, <2>3
    <3>2. e.prev[s[j - 1]] = IF j - 1 = i THEN n ELSE s[j - 2]
      BY <1>1, <1>3, <2>0, <2>3, <3>1
    <3>3. e.next[s[j - 1]] = IF j - 1 = len THEN NULL ELSE s[j]
      BY <1>1, <1>3, <2>0, <2>3, <3>1
    <3>4. QED
      BY <1>1, <1>4, <2>3, <3>1, <3>2, <3>3
  <2>4. QED
    BY <1>1, <2>1, <2>2, <2>3
<1>8. ASSUME NEW m \in Nodes, \A j \in 1 .. len + 1 : t[j] # m
      PROVE  e.value[m] = NULL
  <2>1. m # n
    BY <1>1, <1>4, <1>8 DEF len
  <2>2. ASSUME NEW j \in 1 .. len
        PROVE  s[j] # m
    <3>1. j + 1 \in 1 .. len + 1 /\ j \in 1 .. len + 1
      BY <1>1
    <3>2. t[j] = s[j] \/ t[j + 1] = s[j]
      BY <1>1, <1>4, <3>1
    <3>3. QED
      BY <1>8, <3>1, <3>2
  <2>3. QED
    BY <1>3, <2>1, <2>2 DEF Laid, len
<1>9. QED
  BY <1>1, <1>2, <1>4, <1>5, <1>6, <1>7, <1>8 DEF Laid, len, t

\* The pointers that have to change for the node at place i to go.  The tail
\* of a list that loses its only node is left as it is.
UnlinkedAt(ll, s, e, i) ==
  /\ e \in Lists
  /\ e.len = ll.len - 1
  /\ e.head = IF i = 1 THEN IF ll.len = 1 THEN NULL ELSE s[2] ELSE ll.head
  /\ ll.len > 1 => e.tail = IF i = ll.len THEN s[i - 1] ELSE ll.tail
  /\ \A m \in Nodes \ {s[i]} :
       /\ e.prev[m] = IF i < ll.len /\ m = s[i + 1] THEN ll.prev[s[i]] ELSE ll.prev[m]
       /\ e.next[m] = IF i > 1 /\ m = s[i - 1] THEN ll.next[s[i]] ELSE ll.next[m]
  /\ \A m \in Nodes : e.value[m] = IF m = s[i] THEN NULL ELSE ll.value[m]

LEMMA UnlinkedAtLaid ==
  ASSUME NEW ll, NEW s, Laid(ll, s), NEW i \in 1 .. ll.len,
         NEW e, UnlinkedAt(ll, s, e, i)
  PROVE  Laid(e, Dropped(s, ll.len, i))
<1> DEFINE len == ll.len
           t == Dropped(s, len, i)
<1>1. /\ len \in Nat /\ s \in [1 .. len -> Nodes] /\ i \in 1 .. len
      /\ \A j, k \in 1 .. len : s[j] = s[k] => j = k
      /\ ll.head = IF len = 0 THEN NULL ELSE s[1]
      /\ len > 0 => ll.tail = s[len]
      /\ \A j \in 1 .. len :
           /\ ll.prev[s[j]] = IF j = 1 THEN NULL ELSE s[j - 1]
           /\ ll.next[s[j]] = IF j = len THEN NULL ELSE s[j + 1]
  BY DEF Laid, Lists
<1>2. /\ e \in Lists /\ e.len = len - 1
      /\ e.head = IF i = 1 THEN IF len = 1 THEN NULL ELSE s[2] ELSE ll.head
      /\ len > 1 => e.tail = IF i = len THEN s[i - 1] ELSE ll.tail
  BY DEF UnlinkedAt
<1>3. /\ \A m \in Nodes \ {s[i]} :
           /\ e.prev[m] = IF i < len /\ m = s[i + 1] THEN ll.prev[s[i]] ELSE ll.prev[m]
           /\ e.next[m] = IF i > 1 /\ m = s[i - 1] THEN ll.next[s[i]] ELSE ll.next[m]
      /\ \A m \in Nodes : e.value[m] = IF m = s[i] THEN NULL ELSE ll.value[m]
  BY DEF UnlinkedAt
<1>4. /\ t \in [1 .. len - 1 -> Nodes]
      /\ \A j \in 1 .. len - 1 : t[j] = IF j < i THEN s[j] ELSE s[j + 1]
  BY <1>1 DEF Dropped
<1> HIDE DEF len, t
<1>5. \A j, k \in 1 .. len - 1 : t[j] = t[k] => j = k
  BY <1>1, <1>4
<1>6. /\ e.head = IF len - 1 = 0 THEN NULL ELSE t[1]
      /\ len - 1 > 0 => e.tail = t[len - 1]
  BY <1>1, <1>2, <1>4
<1>7. ASSUME NEW j \in 1 .. len - 1
      PROVE  /\ e.prev[t[j]] = IF j = 1 THEN NULL ELSE t[j - 1]
             /\ e.next[t[j]] = IF j = len - 1 THEN NULL ELSE t[j + 1]
  <2>1. CASE j < i
    <3>1. t[j] = s[j] /\ j \in 1 .. len /\ s[j] \in Nodes \ {s[i]}
      BY <1>1, <1>4, <2>1
    <3>2. e.prev[s[j]] = IF j = 1 THEN NULL ELSE s[j - 1]
      <4>1. i < len => s[j] # s[i + 1]
        BY <1>1, <2>1
      <4>2. QED
        BY <1>1, <1>3, <3>1, <4>1
    <3>3. e.next[s[j]] = IF j = i - 1 THEN ll.next[s[i]] ELSE s[j + 1]
      <4>1. i > 1 => (s[j] = s[i - 1] <=> j = i - 1)
        BY <1>1, <2>1
      <4>2. QED
        BY <1>1, <1>3, <2>1, <3>1, <4>1
    <3>4. QED
      BY <1>1, <1>4, <2>1, <3>1, <3>2, <3>3
  <2>2. CASE j >= i
    <3>1. t[j] = s[j + 1] /\ j + 1 \in 1 .. len /\ s[j + 1] \in Nodes \ {s[i]}
      BY <1>1, <1>4, <2>2
    <3>2. e.prev[s[j + 1]] = IF j = i THEN ll.prev[s[i]] ELSE s[j]
      <4>1. i < len => (s[j + 1] = s[i + 1] <=> j = i)
        BY <1>1, <2>2
      <4>2. QED
        BY <1>1, <1>3, <2>2, <3>1, <4>1
    <3>3. e.next[s[j + 1]] = IF j + 1 = len THEN NULL ELSE s[j + 2]
      <4>1. i > 1 => s[j + 1] # s[i - 1]
        BY <1>1, <2>2
      <4>2. QED
        BY <1>1, <1>3, <3>1, <4>1
    <3>4. QED
      BY <1>1, <1>4, <2>2, <3>1, <3>2, <3>3
  <2>3. QED
    BY <1>1, <2>1, <2>2
<1>8. ASSUME NEW m \in Nodes, \A j \in 1 .. len - 1 : t[j] # m
      PROVE  e.value[m] = NULL
  <2>1. CASE m = s[i]
    BY <1>3, <2>1
  <2>2. CASE m # s[i]
    <3>1. ASSUME NEW j \in 1 .. len
          PROVE  s[j] # m
      <4>1. CASE j < i
        BY <1>1, <1>4, <1>8, <4>1
      <4>2. CASE j = i
        BY <2>2, <4>2
      <4>3. CASE j > i
        <5>1. j - 1 \in 1 .. len - 1 /\ t[j - 1] = s[j]
          BY <1>1, <1>4, <4>3
        <5>2. QED
          BY <1>8, <5>1
      <4>4. QED
        BY <1>1, <4>1, <4>2, <4>3
    <3>2. QED
      BY <1>3, <2>2, <3>1 DEF Laid, len
  <2>3. QED
    BY <2>1, <2>2
<1>9. e.len \in Nat
  BY <1>1, <1>2
<1>10. QED
  BY <1>1, <1>2, <1>4, <1>5, <1>6, <1>7, <1>8, <1>9 DEF Laid, len, t

----------------------------------------------------------------------------
\* What the functions do.

LEMMA AddHeadLinks ==
  ASSUME NEW ll, NEW s, Laid(ll, s), NEW n \in Nodes, NEW v \in Vals \cup {NULL}
  PROVE  LinkedAt(ll, s, AddHead(ll, n, v), n, v, 1)
<1> DEFINE first == ll.len = 0
           next == IF first THEN NULL ELSE ll.head
           e == AddHead(ll, n, v)
           P == Store(ll.prev, next, n)
<1>1. /\ ll \in Lists /\ ll.len \in Nat /\ ll.head \in Pointers /\ ll.tail \in Pointers
      /\ ll.prev \in [Nodes -> Pointers] /\ ll.next \in [Nodes -> Pointers]
      /\ ll.value \in [Nodes -> Vals \cup {NULL}]
      /\ n \in Pointers /\ NULL \in Pointers
  BY DEF Laid, Lists, Pointers
<1>2. next \in Pointers /\ next = IF ll.len = 0 THEN NULL ELSE s[1]
  BY <1>1 DEF Laid
<1> HIDE DEF next, P
<1>3. P \in [Nodes -> Pointers] /\ \A m \in Nodes : P[m] = IF m = next THEN n ELSE ll.prev[m]
  <2>1. P = Store(ll.prev, next, n)
    BY DEF P
  <2>2. QED
    BY <1>1, <1>2, <2>1, NodesAssumption DEF Store, Pointers
<1>4. e = [head |-> n, tail |-> IF first THEN n ELSE ll.tail, len |-> ll.len + 1,
           prev |-> [P EXCEPT ![n] = NULL], next |-> [ll.next EXCEPT ![n] = next],
           value |-> [ll.value EXCEPT ![n] = v]]
  BY DEF AddHead, next, P
<1> HIDE DEF e
<1>5. /\ e.head = n /\ e.tail = (IF first THEN n ELSE ll.tail) /\ e.len = ll.len + 1
      /\ \A m \in Nodes :
           /\ e.prev[m] = IF m = n THEN NULL ELSE P[m]
           /\ e.next[m] = IF m = n THEN next ELSE ll.next[m]
           /\ e.value[m] = IF m = n THEN v ELSE ll.value[m]
  BY <1>1, <1>3, <1>4
<1>6. e \in Lists
  BY <1>1, <1>2, <1>3, <1>4 DEF Lists
<1>7. next # NULL <=> ll.len > 0
  BY <1>1, <1>2, NodesAssumption DEF Laid
<1>8. QED
  BY <1>1, <1>2, <1>3, <1>5, <1>6, <1>7, NodesAssumption DEF LinkedAt, e

LEMMA AddTailLinks ==
  ASSUME NEW ll, NEW s, Laid(ll, s), NEW n \in Nodes, NEW v \in Vals \cup {NULL}
  PROVE  LinkedAt(ll, s, AddTail(ll, n, v), n, v, ll.len + 1)
<1> DEFINE first == ll.len = 0
           prev == IF first THEN NULL ELSE ll.tail
           e == AddTail(ll, n, v)
           P == Store(ll.next, prev, n)
<1>1. /\ ll \in Lists /\ ll.len \in Nat /\ ll.head \in Pointers /\ ll.tail \in Pointers
      /\ ll.prev \in [Nodes -> Pointers] /\ ll.next \in [Nodes -> Pointers]
      /\ ll.value \in [Nodes -> Vals \cup {NULL}]
      /\ n \in Pointers /\ NULL \in Pointers
  BY DEF Laid, Lists, Pointers
<1>2. prev \in Pointers /\ prev = IF ll.len = 0 THEN NULL ELSE s[ll.len]
  BY <1>1 DEF Laid
<1> HIDE DEF prev, P
<1>3. P \in [Nodes -> Pointers] /\ \A m \in Nodes : P[m] = IF m = prev THEN n ELSE ll.next[m]
  <2>1. P = Store(ll.next, prev, n)
    BY DEF P
  <2>2. QED
    BY <1>1, <1>2, <2>1, NodesAssumption DEF Store, Pointers
<1>4. e = [head |-> IF first THEN n ELSE ll.head, tail |-> n, len |-> ll.len + 1,
           prev |-> [ll.prev EXCEPT ![n] = prev], next |-> [P EXCEPT ![n] = NULL],
           value |-> [ll.value EXCEPT ![n] = v]]
  BY DEF AddTail, prev, P
<1> HIDE DEF e
<1>5. /\ e.head = (IF first THEN n ELSE ll.head) /\ e.tail = n /\ e.len = ll.len + 1
      /\ \A m \in Nodes :
           /\ e.prev[m] = IF m = n THEN prev ELSE ll.prev[m]
           /\ e.next[m] = IF m = n THEN NULL ELSE P[m]
           /\ e.value[m] = IF m = n THEN v ELSE ll.value[m]
  BY <1>1, <1>3, <1>4
<1>6. e \in Lists
  BY <1>1, <1>2, <1>3, <1>4 DEF Lists
<1>7. QED
  BY <1>1, <1>2, <1>3, <1>5, <1>6, NodesAssumption DEF LinkedAt, e

LEMMA InsertAfterLinks ==
  ASSUME NEW ll, NEW s, Laid(ll, s), NEW n \in Nodes, NEW v \in Vals \cup {NULL},
         NEW i \in 1 .. ll.len, s[i] # n
  PROVE  LinkedAt(ll, s, InsertAfter(ll, s[i], n, v), n, v, i + 1)
<1> DEFINE o == s[i]
           next == ll.next[o]
           e == InsertAfter(ll, o, n, v)
           P == Store(ll.prev, next, n)
<1>1. /\ ll \in Lists /\ ll.len \in Nat /\ ll.head \in Pointers /\ ll.tail \in Pointers
      /\ ll.prev \in [Nodes -> Pointers] /\ ll.next \in [Nodes -> Pointers]
      /\ ll.value \in [Nodes -> Vals \cup {NULL}]
      /\ n \in Pointers /\ NULL \in Pointers /\ o \in Nodes /\ o \in Pointers /\ o # n
  BY DEF Laid, Lists, Pointers
<1>2. next \in Pointers /\ next = IF i = ll.len THEN NULL ELSE s[i + 1]
  BY <1>1 DEF Laid
<1>3. ll.tail = o <=> i = ll.len
  BY <1>1 DEF Laid
<1> HIDE DEF next, P, o
<1>4. P \in [Nodes -> Pointers] /\ \A m \in Nodes : P[m] = IF m = next THEN n ELSE ll.prev[m]
  <2>1. P = Store(ll.prev, next, n)
    BY DEF P
  <2>2. QED
    BY <1>1, <1>2, <2>1, NodesAssumption DEF Store, Pointers
<1>5. e = [head |-> ll.head, tail |-> IF ll.tail = o THEN n ELSE ll.tail, len |-> ll.len + 1,
           prev |-> [P EXCEPT ![n] = o], next |-> [ll.next EXCEPT ![o] = n, ![n] = next],
           value |-> [ll.value EXCEPT ![n] = v]]
  <2>1. ll = [head |-> ll.head, tail |-> ll.tail, len |-> ll.len, prev |-> ll.prev,
              next |-> ll.next, value |-> ll.value]
    BY <1>1 DEF Lists
  <2> DEFINE A == IF ll.tail = o THEN n ELSE ll.tail
             B == [P EXCEPT ![n] = o]
             C == [ll.next EXCEPT ![o] = n, ![n] = next]
             D == [ll.value EXCEPT ![n] = v]
  <2>2. e = [ll EXCEPT !.tail = A, !.len = ll.len + 1, !.prev = B, !.next = C, !.value = D]
    BY DEF InsertAfter, next, P
  <2> HIDE DEF A, B, C, D
  <2>3. e = [head |-> ll.head, tail |-> A, len |-> ll.len + 1, prev |-> B, next |-> C, value |-> D]
    BY <2>1, <2>2
  <2>4. QED
    BY <2>3 DEF A, B, C, D
<1> HIDE DEF e
<1>6. /\ e.head = ll.head /\ e.tail = (IF ll.tail = o THEN n ELSE ll.tail) /\ e.len = ll.len + 1
      /\ \A m \in Nodes :
           /\ e.prev[m] = IF m = n THEN o ELSE P[m]
           /\ e.next[m] = IF m = n THEN next ELSE IF m = o THEN n ELSE ll.next[m]
           /\ e.value[m] = IF m = n THEN v ELSE ll.value[m]
  BY <1>1, <1>4, <1>5
<1>7. e \in Lists
  BY <1>1, <1>2, <1>4, <1>5 DEF Lists
<1>8. QED
  BY <1>1, <1>2, <1>3, <1>4, <1>6, <1>7, NodesAssumption DEF LinkedAt, e, o

LEMMA DelNodeUnlinks ==
  ASSUME NEW ll, NEW s, Laid(ll, s), NEW i \in 1 .. ll.len
  PROVE  UnlinkedAt(ll, s, DelNode(ll, s[i]), i)
<1> DEFINE n == s[i]
           prev == ll.prev[n]
           next == ll.next[n]
           e == DelNode(ll, n)
           P == Store(ll.prev, next, prev)
           Q == Store(ll.next, prev, next)
<1>1. /\ ll \in Lists /\ ll.len \in Nat /\ ll.head \in Pointers /\ ll.tail \in Pointers
      /\ ll.prev \in [Nodes -> Pointers] /\ ll.next \in [Nodes -> Pointers]
      /\ ll.value \in [Nodes -> Vals \cup {NULL}]
      /\ NULL \in Pointers /\ n \in Nodes /\ NULL \notin Nodes
  BY NodesAssumption DEF Laid, Lists, Pointers
<1>2. /\ prev \in Pointers /\ prev = IF i = 1 THEN NULL ELSE s[i - 1]
      /\ next \in Pointers /\ next = IF i = ll.len THEN NULL ELSE s[i + 1]
  BY <1>1 DEF Laid
<1>3. (n = ll.head <=> i = 1) /\ (n = ll.tail <=> i = ll.len)
  BY <1>1 DEF Laid
<1> HIDE DEF n, prev, next, P, Q
<1>4. /\ P \in [Nodes -> Pointers] /\ \A m \in Nodes : P[m] = IF m = next THEN prev ELSE ll.prev[m]
      /\ Q \in [Nodes -> Pointers] /\ \A m \in Nodes : Q[m] = IF m = prev THEN next ELSE ll.next[m]
  <2>1. P = Store(ll.prev, next, prev) /\ Q = Store(ll.next, prev, next)
    BY DEF P, Q
  <2>2. QED
    BY <1>1, <1>2, <2>1, NodesAssumption DEF Store, Pointers
<1>5. e = [head |-> IF n = ll.head THEN next ELSE ll.head,
           tail |-> IF n # ll.head /\ n = ll.tail THEN prev ELSE ll.tail, len |-> ll.len - 1,
           prev |-> [P EXCEPT ![n] = NULL], next |-> [Q EXCEPT ![n] = NULL],
           value |-> [ll.value EXCEPT ![n] = NULL]]
  BY DEF DelNode, prev, next, P, Q
<1> HIDE DEF e
<1>6. /\ e.head = (IF n = ll.head THEN next ELSE ll.head)
      /\ e.tail = (IF n # ll.head /\ n = ll.tail THEN prev ELSE ll.tail) /\ e.len = ll.len - 1
      /\ \A m \in Nodes :
           /\ e.prev[m] = IF m = n THEN NULL ELSE P[m]
           /\ e.next[m] = IF m = n THEN NULL ELSE Q[m]
           /\ e.value[m] = IF m = n THEN NULL ELSE ll.value[m]
  BY <1>1, <1>4, <1>5
<1>7. e \in Lists
  <2>1. ll.len - 1 \in Nat
    BY <1>1
  <2>2. QED
    BY <1>1, <1>2, <1>4, <1>5, <2>1 DEF Lists
<1>8. e.head = IF i = 1 THEN IF ll.len = 1 THEN NULL ELSE s[2] ELSE ll.head
  BY <1>1, <1>2, <1>3, <1>6
<1>9. ll.len > 1 => e.tail = IF i = ll.len THEN s[i - 1] ELSE ll.tail
  BY <1>1, <1>2, <1>3, <1>6
<1>10. ASSUME NEW m \in Nodes \ {n}
       PROVE  /\ e.prev[m] = IF i < ll.len /\ m = s[i + 1] THEN prev ELSE ll.prev[m]
              /\ e.next[m] = IF i > 1 /\ m = s[i - 1] THEN next ELSE ll.next[m]
  BY <1>1, <1>2, <1>4, <1>6
<1>11. QED
  BY <1>6, <1>7, <1>8, <1>9, <1>10 DEF UnlinkedAt, e, n, prev, next

\* The last node of s comes first.
Turned(s, len) == [j \in 1 .. len |-> IF j = 1 THEN s[len] ELSE s[j - 1]]

LEMMA RotatedLaid ==
  ASSUME NEW ll, NEW s, Laid(ll, s), ll.len > 1
  PROVE  Laid(Rotated(ll), Turned(s, ll.len))
<1> DEFINE len == ll.len
           last == s[len]
           before == s[len - 1]
           t == Turned(s, len)
           e == Rotated(ll)
<1>1. /\ ll \in Lists /\ len \in Nat /\ len > 1 /\ s \in [1 .. len -> Nodes]
      /\ ll.prev \in [Nodes -> Pointers] /\ ll.next \in [Nodes -> Pointers]
      /\ ll.value \in [Nodes -> Vals \cup {NULL}]
      /\ \A j, k \in 1 .. len : s[j] = s[k] => j = k
      /\ ll.head = s[1] /\ ll.tail = last
      /\ \A j \in 1 .. len :
           /\ ll.prev[s[j]] = IF j = 1 THEN NULL ELSE s[j - 1]
           /\ ll.next[s[j]] = IF j = len THEN NULL ELSE s[j + 1]
  BY DEF Laid, Lists
<1>2. /\ ll.prev[last] = before /\ last \in Nodes /\ before \in Nodes /\ s[1] \in Nodes
      /\ last # s[1] /\ last # before /\ NULL \in Pointers
      /\ last \in Pointers /\ before \in Pointers /\ s[1] \in Pointers
  BY <1>1 DEF Pointers
<1> DEFINE A == [ll.next EXCEPT ![before] = NULL, ![last] = s[1]]
           B == [ll.prev EXCEPT ![last] = NULL, ![s[1]] = last]
<1>3. e = [head |-> last, tail |-> before, len |-> len, prev |-> B, next |-> A, value |-> ll.value]
  <2>1. e = [ll EXCEPT !.head = last, !.tail = before, !.next = A, !.prev = B]
    BY <1>1, <1>2 DEF Rotated
  <2>2. ll = [head |-> ll.head, tail |-> ll.tail, len |-> len, prev |-> ll.prev,
              next |-> ll.next, value |-> ll.value]
    BY <1>1 DEF Lists
  <2> HIDE DEF A, B, last, before, e
  <2>3. QED
    BY <2>1, <2>2
<1>4. /\ A \in [Nodes -> Pointers] /\ B \in [Nodes -> Pointers]
      /\ \A m \in Nodes : A[m] = IF m = last THEN s[1] ELSE IF m = before THEN NULL ELSE ll.next[m]
      /\ \A m \in Nodes : B[m] = IF m = s[1] THEN last ELSE IF m = last THEN NULL ELSE ll.prev[m]
  BY <1>1, <1>2
<1>5. t \in [1 .. len -> Nodes] /\ \A j \in 1 .. len : t[j] = IF j = 1 THEN last ELSE s[j - 1]
  BY <1>1 DEF Turned
<1> HIDE DEF A, B, t, e
<1>6. /\ e.head = last /\ e.tail = before /\ e.len = len /\ e.prev = B /\ e.next = A
      /\ e.value = ll.value
  BY <1>3
<1>7. e \in Lists
  BY <1>1, <1>2, <1>3, <1>4 DEF Lists
<1>8. \A j, k \in 1 .. len : t[j] = t[k] => j = k
  BY <1>1, <1>5
<1>9. ASSUME NEW j \in 1 .. len
      PROVE  /\ e.prev[t[j]] = IF j = 1 THEN NULL ELSE t[j - 1]
             /\ e.next[t[j]] = IF j = len THEN NULL ELSE t[j + 1]
  <2>1. CASE j = 1
    BY <1>1, <1>2, <1>4, <1>5, <1>6, <2>1
  <2>2. CASE j > 1
    <3>1. t[j] = s[j - 1] /\ j - 1 \in 1 .. len /\ s[j - 1] \in Nodes /\ s[j - 1] # last
      BY <1>1, <1>5, <2>2
    <3>2. B[s[j - 1]] = t[j - 1]
      BY <1>1, <1>4, <1>5, <2>2, <3>1
    <3>3. A[s[j - 1]] = IF j = len THEN NULL ELSE t[j + 1]
      <4>1. s[j - 1] = before <=> j = len
        BY <1>1, <2>2, <3>1
      <4>2. QED
        BY <1>1, <1>4, <1>5, <2>2, <3>1, <4>1
    <3>4. QED
      BY <1>6, <2>2, <3>1, <3>2, <3>3
  <2>3. QED
    BY <1>1, <2>1, <2>2
<1>10. ASSUME NEW m \in Nodes, \A j \in 1 .. len : t[j] # m
       PROVE  e.value[m] = NULL
  <2>1. ASSUME NEW j \in 1 .. len
        PROVE  s[j] # m
    <3>1. CASE j = len
      <4>1. 1 \in 1 .. len /\ t[1] = s[j]
        BY <1>1, <1>5, <3>1
      <4>2. QED
        BY <1>10, <4>1
    <3>2. CASE j # len
      <4>1. j + 1 \in 1 .. len /\ j + 1 # 1 /\ (j + 1) - 1 = j
        BY <1>1, <3>2
      <4>2. t[j + 1] = s[j]
        BY <1>5, <4>1
      <4>3. QED
        BY <1>10, <4>1, <4>2
    <3>3. QED
      BY <3>1, <3>2
  <2>2. QED
    BY <1>6, <2>1 DEF Laid
<1>11. e.head = t[1] /\ e.tail = t[len] /\ len # 0
  BY <1>1, <1>5, <1>6
<1>12. QED
  BY <1>5, <1>6, <1>7, <1>8, <1>9, <1>10, <1>11 DEF Laid, e, t

\* A list of at most one node stays as it is.
LEMMA RotatedShort ==
  ASSUME NEW ll, NEW s, Laid(ll, s), ll.len <= 1, ll.len > 0 \/ ll.tail = NULL
  PROVE  Rotated(ll) = ll
<1>1. ll.len \in Nat /\ (ll.len = 0 \/ ll.len = 1)
  BY DEF Laid, Lists
<1>2. ll.tail = ll.head
  BY <1>1 DEF Laid
<1>3. QED
  BY <1>2 DEF Rotated

\* The empty list lays out the empty sequence.
LEMMA EmptyLaid ==
  /\ Laid(EmptyList, <<>>) /\ EmptyList.len = 0
  /\ \A n \in Nodes : EmptyList.value[n] = NULL
<1>1. EmptyList \in Lists /\ EmptyList.len = 0 /\ EmptyList.head = NULL
  BY DEF EmptyList, Lists, Pointers
<1>2. \A n \in Nodes : EmptyList.value[n] = NULL
  BY DEF EmptyList
<1>3. <<>> \in [1 .. 0 -> Nodes]
  OBVIOUS
<1>4. QED
  BY <1>1, <1>2, <1>3 DEF Laid

----------------------------------------------------------------------------
\* Copies, places and keys.

\* The first k steps of listDup.
IsCopy(f, ll, k) ==
  f = [i \in 0 .. k |->
         IF i = 0 THEN EmptyList ELSE AddTail(f[i - 1], Items(ll)[i], ll.value[Items(ll)[i]])]

LEMMA CopyExists ==
  ASSUME NEW ll, NEW len \in Nat
  PROVE  \E f : IsCopy(f, ll, len)
<1> DEFINE Without == {k \in Nat : \A f : ~IsCopy(f, ll, k)}
<1>1. SUFFICES ASSUME Without # {}
               PROVE  FALSE
  OBVIOUS
<1>2. PICK m \in Without : \A k \in Without : m <= k
  <2>1. Without \in SUBSET Nat
    OBVIOUS
  <2>2. QED
    BY <1>1, <2>1, LeastNatural
<1>3. m # 0
  <2>1. IsCopy([i \in 0 .. 0 |-> EmptyList], ll, 0)
    BY DEF IsCopy
  <2>2. QED
    BY <1>2, <2>1
<1>4. m \in Nat /\ m - 1 \in Nat /\ m - 1 \notin Without
  BY <1>2, <1>3
<1>5. PICK f : IsCopy(f, ll, m - 1)
  BY <1>4
<1> DEFINE step(x, i) == AddTail(x, Items(ll)[i], ll.value[Items(ll)[i]])
           g == [i \in 0 .. m |-> IF i = m THEN step(f[m - 1], m) ELSE f[i]]
<1>6. \A i \in 0 .. m - 1 : f[i] = IF i = 0 THEN EmptyList ELSE step(f[i - 1], i)
  BY <1>5 DEF IsCopy
<1> HIDE DEF step
<1>7. \A i \in 0 .. m : g[i] = IF i = 0 THEN EmptyList ELSE step(g[i - 1], i)
  BY <1>3, <1>4, <1>6
<1>8. g = [i \in 0 .. m |-> g[i]]
  OBVIOUS
<1> HIDE DEF g
<1>9. IsCopy(g, ll, m)
  BY <1>7, <1>8 DEF IsCopy, step
<1>10. QED
  BY <1>2, <1>9

\* After i steps the copy has the first i nodes and their values.
CopiedUpTo(e, ll, s, i) ==
  /\ e.len = i
  /\ Laid(e, [j \in 1 .. i |-> s[j]])
  /\ \A j \in 1 .. i : e.value[s[j]] = ll.value[s[j]]

LEMMA CopyStep ==
  ASSUME NEW ll, NEW s, Laid(ll, s), NEW i \in 1 .. ll.len, NEW e, CopiedUpTo(e, ll, s, i - 1)
  PROVE  CopiedUpTo(AddTail(e, s[i], ll.value[s[i]]), ll, s, i)
<1> DEFINE r == [j \in 1 .. i - 1 |-> s[j]]
           n == s[i]
           v == ll.value[n]
           a == AddTail(e, n, v)
<1>1. /\ ll.len \in Nat /\ i \in Nat /\ s \in [1 .. ll.len -> Nodes]
      /\ n \in Nodes /\ v \in Vals \cup {NULL}
      /\ \A j, k \in 1 .. ll.len : s[j] = s[k] => j = k
  BY DEF Laid, Lists
<1>2. /\ Laid(e, r) /\ e.len = i - 1 /\ e.len \in Nat
      /\ \A j \in 1 .. i - 1 : e.value[s[j]] = ll.value[s[j]]
  BY DEF CopiedUpTo, Laid, Lists
<1>3. \A j \in 1 .. i - 1 : r[j] = s[j] /\ s[j] # n /\ s[j] \in Nodes
  BY <1>1
<1> HIDE DEF r, n, v, a
<1>4. LinkedAt(e, r, a, n, v, e.len + 1)
  BY <1>1, <1>2, AddTailLinks DEF a
<1>5. \A j \in 1 .. e.len : r[j] # n
  BY <1>2, <1>3
<1>6. Laid(a, Placed(r, e.len, n, e.len + 1))
  <2>1. e.len + 1 \in 1 .. e.len + 1
    BY <1>2
  <2>2. QED
    BY <1>1, <1>2, <1>4, <1>5, <2>1, LinkedAtLaid
<1>7. Placed(r, e.len, n, e.len + 1) = [j \in 1 .. i |-> s[j]]
  <2>1. \A j \in 1 .. i : (IF j < i THEN r[j] ELSE IF j = i THEN n ELSE r[j - 1]) = s[j]
    BY <1>1, <1>3 DEF n
  <2>2. e.len + 1 = i
    BY <1>1, <1>2
  <2>3. QED
    BY <2>1, <2>2 DEF Placed
<1>8. a.len = i /\ \A m \in Nodes : a.value[m] = IF m = n THEN v ELSE e.value[m]
  BY <1>1, <1>2, <1>4 DEF LinkedAt
<1>9. \A j \in 1 .. i : a.value[s[j]] = ll.value[s[j]]
  <2>1. a.value[n] = v
    BY <1>1, <1>8
  <2>2. \A j \in 1 .. i - 1 : a.value[s[j]] = ll.value[s[j]]
    BY <1>2, <1>3, <1>8
  <2>3. \A j \in 1 .. i : j = i \/ j \in 1 .. i - 1
    BY <1>1
  <2>4. QED
    BY <2>1, <2>2, <2>3 DEF n, v
<1>10. QED
  BY <1>6, <1>7, <1>8, <1>9 DEF CopiedUpTo, a, n, v

LEMMA DupCopies ==
  ASSUME NEW ll, NEW s, Laid(ll, s)
  PROVE  Items(Dup(ll)) = s /\ Dup(ll).value = ll.value
<1> DEFINE copy == CHOOSE f : IsCopy(f, ll, ll.len)
           Wrong == {i \in 0 .. ll.len : ~CopiedUpTo(copy[i], ll, s, i)}
<1>1. ll.len \in Nat /\ Items(ll) = s /\ s \in [1 .. ll.len -> Nodes]
  BY LaidItems DEF Laid, Lists
<1>2. Dup(ll) = copy[ll.len]
  BY DEF Dup, IsCopy
<1>3. IsCopy(copy, ll, ll.len)
  BY <1>1, CopyExists
<1> HIDE DEF copy
<1>4. \A i \in 0 .. ll.len :
        copy[i] = IF i = 0 THEN EmptyList ELSE AddTail(copy[i - 1], s[i], ll.value[s[i]])
  BY <1>1, <1>3 DEF IsCopy
<1>5. Wrong = {}
  <2>1. SUFFICES ASSUME Wrong # {}
                 PROVE  FALSE
    OBVIOUS
  <2>2. PICK m \in Wrong : \A k \in Wrong : m <= k
    <3>1. Wrong \in SUBSET Nat
      BY <1>1
    <3>2. QED
      BY <2>1, <3>1, LeastNatural
  <2>3. m \in 0 .. ll.len /\ ~CopiedUpTo(copy[m], ll, s, m)
    OBVIOUS
  <2>4. CASE m = 0
    <3>1. copy[0] = EmptyList /\ [j \in 1 .. 0 |-> s[j]] = <<>>
      BY <1>1, <1>4
    <3>2. CopiedUpTo(copy[0], ll, s, 0)
      BY <3>1, EmptyLaid DEF CopiedUpTo
    <3>3. QED
      BY <2>3, <2>4, <3>2
  <2>5. CASE m # 0
    <3>1. m \in 1 .. ll.len /\ m - 1 \in 0 .. ll.len /\ m - 1 \notin Wrong
      BY <1>1, <2>2, <2>3, <2>5
    <3>2. CopiedUpTo(copy[m - 1], ll, s, m - 1)
      BY <3>1
    <3>3. CopiedUpTo(AddTail(copy[m - 1], s[m], ll.value[s[m]]), ll, s, m)
      BY <3>1, <3>2, CopyStep
    <3>4. QED
      BY <1>4, <2>3, <2>5, <3>3
  <2>6. QED
    BY <2>4, <2>5
<1>6. CopiedUpTo(Dup(ll), ll, s, ll.len)
  BY <1>1, <1>2, <1>5
<1> DEFINE e == Dup(ll)
<1> HIDE DEF e
<1>7. /\ e.len = ll.len /\ Laid(e, [j \in 1 .. ll.len |-> s[j]])
      /\ \A j \in 1 .. ll.len : e.value[s[j]] = ll.value[s[j]]
  BY <1>6 DEF CopiedUpTo, e
<1>8. [j \in 1 .. ll.len |-> s[j]] = s
  BY <1>1
<1>9. Laid(e, s) /\ Items(e) = s
  BY <1>7, <1>8, LaidItems
<1>10. e.value = ll.value
  <2>1. e.value \in [Nodes -> Vals \cup {NULL}] /\ ll.value \in [Nodes -> Vals \cup {NULL}]
    BY <1>9 DEF Laid, Lists
  <2>2. ASSUME NEW n \in Nodes
        PROVE  e.value[n] = ll.value[n]
    <3>1. CASE \A j \in 1 .. ll.len : s[j] # n
      BY <1>7, <1>9, <3>1 DEF Laid
    <3>2. CASE \E j \in 1 .. ll.len : s[j] = n
      BY <1>7, <3>2
    <3>3. QED
      BY <3>1, <3>2
  <2>3. QED
    BY <2>1, <2>2
<1>11. QED
  BY <1>9, <1>10 DEF e

LEMMA SearchFinds ==
  ASSUME NEW ll, NEW s, Laid(ll, s), NEW v \in Vals
  PROVE  SearchKey(ll, v) = NULL <=> \A n \in InList(ll) : ll.value[n] # v
<1> DEFINE at == {i \in 1 .. ll.len : ll.value[s[i]] = v}
<1>1. /\ ll.len \in Nat /\ Items(ll) = s /\ \A i \in 1 .. ll.len : s[i] # NULL
      /\ InList(ll) = {s[i] : i \in 1 .. ll.len}
  <2>1. ll.len \in Nat /\ s \in [1 .. ll.len -> Nodes] /\ NULL \notin Nodes
    BY NodesAssumption DEF Laid, Lists
  <2>2. QED
    BY <2>1, LaidItems
<1>2. SearchKey(ll, v) = IF at = {} THEN NULL ELSE s[CHOOSE i \in at : \A j \in at : i <= j]
  BY <1>1 DEF SearchKey
<1>3. at = {} <=> \A n \in InList(ll) : ll.value[n] # v
  BY <1>1
<1>4. ASSUME at # {}
      PROVE  s[CHOOSE i \in at : \A j \in at : i <= j] # NULL
  <2>1. at \in SUBSET Nat
    BY <1>1
  <2>2. \E i \in at : \A j \in at : i <= j
    <3> HIDE DEF at
    <3>1. QED
      BY <1>4, <2>1, LeastNatural
  <2>3. (CHOOSE i \in at : \A j \in at : i <= j) \in at
    <3> HIDE DEF at
    <3>1. QED
      BY <2>2
  <2>4. \A i \in at : s[i] # NULL
    BY <1>1
  <2>5. QED
    BY <2>3, <2>4
<1>5. QED
  BY <1>2, <1>3, <1>4

----------------------------------------------------------------------------
\* The inductive invariant.

Iterators ==
  [on : BOOLEAN, direction : {AL_START_HEAD, AL_START_TAIL}, current : Pointers, next : Pointers,
   given : SUBSET Nodes, due : SUBSET Nodes]

\* The places from p on in the direction of an iterator.
Ahead(it, len, p) == IF it.direction = AL_START_HEAD THEN p .. len ELSE 1 .. p

\* The node an iterator has saved is in the list s, and what is due is that node
\* and the nodes behind it; the node it returned last is not due.
OnTheWay(it, s, len) ==
  /\ it.current \notin it.due
  /\ it.next = NULL => it.due = {}
  /\ it.next # NULL =>
       \E p \in 1 .. len :
         s[p] = it.next /\ \A n \in Nodes : n \in it.due <=> \E j \in Ahead(it, len, p) : s[j] = n

IInv ==
  /\ Laid(l, Items(l))
  /\ iter \in Iterators
  /\ iter.on => OnTheWay(iter, Items(l), l.len)

LEMMA InitIInv == Init => IInv
<1>1. Laid(EmptyList, <<>>) /\ Items(EmptyList) = <<>>
  BY EmptyLaid, LaidItems
<1>2. NoIter \in Iterators /\ ~NoIter.on
  BY DEF NoIter, Iterators, Pointers
<1>3. QED
  BY <1>1, <1>2 DEF Init, IInv

\* What each call does to the sequence of nodes.
LEMMA AddHeadEffect ==
  ASSUME IInv, NEW n \in Nodes, NEW v \in Vals, n \notin InList(l)
  PROVE  /\ Laid(AddHead(l, n, v), Placed(Items(l), l.len, n, 1))
         /\ Items(AddHead(l, n, v)) = Placed(Items(l), l.len, n, 1)
<1> DEFINE s == Items(l)
<1>1. Laid(l, s) /\ l.len \in Nat
  BY DEF IInv, Laid, Lists
<1> HIDE DEF s
<1>2. \A j \in 1 .. l.len : s[j] # n
  BY <1>1, LaidItems
<1>3. 1 \in 1 .. l.len + 1
  BY <1>1
<1>4. Laid(AddHead(l, n, v), Placed(s, l.len, n, 1))
  BY <1>1, <1>2, <1>3, AddHeadLinks, LinkedAtLaid
<1>5. QED
  BY <1>4, LaidItems DEF s

LEMMA AddTailEffect ==
  ASSUME IInv, NEW n \in Nodes, NEW v \in Vals, n \notin InList(l)
  PROVE  /\ Laid(AddTail(l, n, v), Placed(Items(l), l.len, n, l.len + 1))
         /\ Items(AddTail(l, n, v)) = Placed(Items(l), l.len, n, l.len + 1)
<1> DEFINE s == Items(l)
<1>1. Laid(l, s) /\ l.len \in Nat
  BY DEF IInv, Laid, Lists
<1> HIDE DEF s
<1>2. \A j \in 1 .. l.len : s[j] # n
  BY <1>1, LaidItems
<1>3. l.len + 1 \in 1 .. l.len + 1
  BY <1>1
<1>4. Laid(AddTail(l, n, v), Placed(s, l.len, n, l.len + 1))
  BY <1>1, <1>2, <1>3, AddTailLinks, LinkedAtLaid
<1>5. QED
  BY <1>4, LaidItems DEF s

LEMMA InsertAfterEffect ==
  ASSUME IInv, NEW n \in Nodes, NEW v \in Vals, n \notin InList(l), NEW o \in InList(l)
  PROVE  \E i \in 1 .. l.len :
           /\ Items(l)[i] = o
           /\ Laid(InsertAfter(l, o, n, v), Placed(Items(l), l.len, n, i + 1))
           /\ Items(InsertAfter(l, o, n, v)) = Placed(Items(l), l.len, n, i + 1)
<1> DEFINE s == Items(l)
<1>1. Laid(l, s) /\ l.len \in Nat
  BY DEF IInv, Laid, Lists
<1> HIDE DEF s
<1>2. \A j \in 1 .. l.len : s[j] # n
  BY <1>1, LaidItems
<1>3. PICK i \in 1 .. l.len : s[i] = o
  BY <1>1, LaidItems
<1>4. i + 1 \in 1 .. l.len + 1
  BY <1>1
<1>5. LinkedAt(l, s, InsertAfter(l, s[i], n, v), n, v, i + 1)
  BY <1>1, <1>2, InsertAfterLinks
<1>6. Laid(InsertAfter(l, o, n, v), Placed(s, l.len, n, i + 1))
  BY <1>1, <1>2, <1>3, <1>4, <1>5, LinkedAtLaid
<1>7. QED
  BY <1>3, <1>6, LaidItems DEF s

LEMMA DelNodeEffect ==
  ASSUME IInv, NEW n \in InList(l)
  PROVE  \E i \in 1 .. l.len :
           /\ Items(l)[i] = n
           /\ Laid(DelNode(l, n), Dropped(Items(l), l.len, i))
           /\ Items(DelNode(l, n)) = Dropped(Items(l), l.len, i)
           /\ DelNode(l, n).len = l.len - 1
<1> DEFINE s == Items(l)
<1>1. Laid(l, s)
  BY DEF IInv
<1> HIDE DEF s
<1>2. PICK i \in 1 .. l.len : s[i] = n
  BY <1>1, LaidItems
<1>3. UnlinkedAt(l, s, DelNode(l, s[i]), i)
  BY <1>1, DelNodeUnlinks
<1>4. Laid(DelNode(l, n), Dropped(s, l.len, i))
  BY <1>1, <1>2, <1>3, UnlinkedAtLaid
<1>5. DelNode(l, n).len = l.len - 1
  BY <1>2, <1>3 DEF UnlinkedAt
<1>6. QED
  BY <1>2, <1>4, <1>5, LaidItems DEF s

LEMMA RotatedEffect ==
  ASSUME IInv, TailUsable
  PROVE  /\ Laid(Rotated(l), IF l.len > 1 THEN Turned(Items(l), l.len) ELSE Items(l))
         /\ Items(Rotated(l)) = IF l.len > 1 THEN Turned(Items(l), l.len) ELSE Items(l)
<1> DEFINE t == IF l.len > 1 THEN Turned(Items(l), l.len) ELSE Items(l)
<1>1. Laid(l, Items(l)) /\ l.len \in Nat
  BY DEF IInv, Laid, Lists
<1>2. Laid(Rotated(l), t)
  <2>1. CASE l.len > 1
    BY <1>1, <2>1, RotatedLaid
  <2>2. CASE l.len <= 1
    BY <1>1, <2>2, RotatedShort DEF TailUsable
  <2>3. QED
    BY <1>1, <2>1, <2>2
<1>3. QED
  BY <1>2, LaidItems

\* The iterator across the deletion of the node it returned last.
LEMMA DeletedOnTheWay ==
  ASSUME NEW s, NEW len \in Nat, s \in [1 .. len -> Nodes],
         \A j, k \in 1 .. len : s[j] = s[k] => j = k,
         NEW it \in Iterators, OnTheWay(it, s, len), NEW q \in 1 .. len, s[q] = it.current,
         NEW it2 \in Iterators, it2.direction = it.direction, it2.current = it.current,
         it2.next = it.next, it2.due = it.due
  PROVE  OnTheWay(it2, Dropped(s, len, q), len - 1)
<1> DEFINE t == Dropped(s, len, q)
<1>1. \A j \in 1 .. len - 1 : t[j] = IF j < q THEN s[j] ELSE s[j + 1]
  BY DEF Dropped
<1> HIDE DEF t
<1>2. it2.current \notin it2.due /\ (it2.next = NULL => it2.due = {})
  BY DEF OnTheWay
<1>3. ASSUME it2.next # NULL
      PROVE  \E p \in 1 .. len - 1 :
               /\ t[p] = it2.next
               /\ \A n \in Nodes : n \in it2.due <=> \E j \in Ahead(it2, len - 1, p) : t[j] = n
  <2>1. PICK p \in 1 .. len :
          s[p] = it.next /\ \A n \in Nodes : n \in it.due <=> \E j \in Ahead(it, len, p) : s[j] = n
    BY <1>3 DEF OnTheWay
  <2>2. s[q] \notin it.due /\ s[q] \in Nodes
    BY DEF OnTheWay
  <2>3. q \notin Ahead(it, len, p)
    BY <2>1, <2>2
  <2>4. CASE it.direction = AL_START_HEAD
    <3>1. q < p /\ p - 1 \in 1 .. len - 1 /\ t[p - 1] = s[p]
      BY <1>1, <2>3, <2>4 DEF Ahead
    <3>2. Ahead(it, len, p) = p .. len /\ Ahead(it2, len - 1, p - 1) = p - 1 .. len - 1
      BY <2>4 DEF Ahead
    <3>3. ASSUME NEW n \in Nodes
          PROVE  (\E j \in p .. len : s[j] = n) <=> (\E j \in p - 1 .. len - 1 : t[j] = n)
      <4>1. ASSUME NEW j \in p .. len
            PROVE  j - 1 \in p - 1 .. len - 1 /\ t[j - 1] = s[j]
        BY <1>1, <3>1
      <4>2. ASSUME NEW j \in p - 1 .. len - 1
            PROVE  j + 1 \in p .. len /\ t[j] = s[j + 1]
        BY <1>1, <3>1
      <4>3. QED
        BY <4>1, <4>2
    <3>4. \A n \in Nodes : n \in it2.due <=> \E j \in Ahead(it2, len - 1, p - 1) : t[j] = n
      BY <2>1, <3>2, <3>3
    <3>5. QED
      BY <2>1, <3>1, <3>4
  <2>5. CASE it.direction # AL_START_HEAD
    <3>1. p < q /\ p \in 1 .. len - 1 /\ t[p] = s[p]
      BY <1>1, <2>3, <2>5 DEF Ahead
    <3>2. Ahead(it, len, p) = 1 .. p /\ Ahead(it2, len - 1, p) = 1 .. p
      BY <2>5 DEF Ahead
    <3>3. \A j \in 1 .. p : t[j] = s[j]
      BY <1>1, <3>1
    <3>4. \A n \in Nodes : n \in it2.due <=> \E j \in Ahead(it2, len - 1, p) : t[j] = n
      BY <2>1, <3>2, <3>3
    <3>5. QED
      BY <2>1, <3>1, <3>4
  <2>6. QED
    BY <2>4, <2>5
<1>4. QED
  BY <1>2, <1>3 DEF OnTheWay, t

\* listNext returns the node that was saved and saves the one after it.
LEMMA NextOnTheWay ==
  ASSUME NEW ll, NEW s, Laid(ll, s), NEW it \in Iterators, OnTheWay(it, s, ll.len),
         NEW it2,
         it2 = [it EXCEPT !.current = it.next, !.next = AfterNext(ll, it, it.next),
                          !.given = @ \cup ({it.next} \ {NULL}), !.due = @ \ {it.next}]
  PROVE  it2 \in Iterators /\ OnTheWay(it2, s, ll.len)
<1> DEFINE n == it.next
           m == AfterNext(ll, it, n)
           len == ll.len
<1>1. /\ len \in Nat /\ s \in [1 .. len -> Nodes] /\ NULL \notin Nodes /\ NULL \in Pointers
      /\ \A j, k \in 1 .. len : s[j] = s[k] => j = k
      /\ \A j \in 1 .. len :
           /\ ll.prev[s[j]] = IF j = 1 THEN NULL ELSE s[j - 1]
           /\ ll.next[s[j]] = IF j = len THEN NULL ELSE s[j + 1]
      /\ ll.prev \in [Nodes -> Pointers] /\ ll.next \in [Nodes -> Pointers]
  BY NodesAssumption DEF Laid, Lists, Pointers
<1>2. n \in Pointers /\ it.given \subseteq Nodes /\ it.due \subseteq Nodes
  BY DEF Iterators
<1>3. m \in Pointers
  BY <1>1, <1>2 DEF AfterNext, Pointers
<1> HIDE DEF m
<1>4. /\ it2.direction = it.direction /\ it2.current = n /\ it2.next = m
      /\ it2.due = it.due \ {n} /\ it2.given = it.given \cup ({n} \ {NULL}) /\ it2 \in Iterators
  BY <1>2, <1>3 DEF Iterators, Pointers, m
<1>5. it2.current \notin it2.due
  BY <1>4
<1>6. CASE n = NULL
  <2>1. it.due = {} /\ m = NULL
    BY <1>6 DEF OnTheWay, AfterNext, m
  <2>2. QED
    BY <1>4, <2>1 DEF OnTheWay
<1>7. CASE n # NULL
  <2>1. PICK p \in 1 .. len :
          s[p] = n /\ \A x \in Nodes : x \in it.due <=> \E j \in Ahead(it, len, p) : s[j] = x
    BY <1>7 DEF OnTheWay
  <2>2. CASE it.direction = AL_START_HEAD
    <3>1. m = IF p = len THEN NULL ELSE s[p + 1]
      BY <1>1, <1>7, <2>1, <2>2 DEF AfterNext, m
    <3>2. Ahead(it, len, p) = p .. len /\ Ahead(it2, len, p + 1) = p + 1 .. len
      BY <1>4, <2>2 DEF Ahead
    <3>3. \A x \in Nodes : x \in it2.due <=> \E j \in p + 1 .. len : s[j] = x
      <4>1. \A j \in p .. len : s[j] # n <=> j \in p + 1 .. len
        BY <1>1, <2>1
      <4>2. QED
        BY <1>1, <1>4, <2>1, <3>2, <4>1
    <3>4. p = len => it2.due = {}
      BY <1>2, <1>4, <1>1, <3>3
    <3>5. p # len => p + 1 \in 1 .. len /\ s[p + 1] # NULL
      BY <1>1
    <3>6. ASSUME it2.next # NULL
          PROVE  \E r \in 1 .. len :
                   /\ s[r] = it2.next
                   /\ \A x \in Nodes : x \in it2.due <=> \E j \in Ahead(it2, len, r) : s[j] = x
      <4> DEFINE r == p + 1
      <4>1. r \in 1 .. len /\ s[r] = it2.next
        BY <1>4, <3>1, <3>5, <3>6
      <4>2. \A x \in Nodes : x \in it2.due <=> \E j \in Ahead(it2, len, r) : s[j] = x
        BY <3>2, <3>3
      <4> HIDE DEF r
      <4>3. QED
        BY <4>1, <4>2
    <3>7. it2.next = NULL => it2.due = {}
      BY <1>4, <3>1, <3>4, <3>5
    <3>8. QED
      BY <1>4, <1>5, <3>6, <3>7 DEF OnTheWay
  <2>3. CASE it.direction # AL_START_HEAD
    <3>1. m = IF p = 1 THEN NULL ELSE s[p - 1]
      BY <1>1, <1>7, <2>1, <2>3 DEF AfterNext, m
    <3>2. Ahead(it, len, p) = 1 .. p /\ Ahead(it2, len, p - 1) = 1 .. p - 1
      BY <1>4, <2>3 DEF Ahead
    <3>3. \A x \in Nodes : x \in it2.due <=> \E j \in 1 .. p - 1 : s[j] = x
      <4>1. \A j \in 1 .. p : s[j] # n <=> j \in 1 .. p - 1
        BY <1>1, <2>1
      <4>2. QED
        BY <1>1, <1>4, <2>1, <3>2, <4>1
    <3>4. p = 1 => it2.due = {}
      BY <1>2, <1>4, <1>1, <3>3
    <3>5. p # 1 => p - 1 \in 1 .. len /\ s[p - 1] # NULL
      BY <1>1
    <3>6. ASSUME it2.next # NULL
          PROVE  \E r \in 1 .. len :
                   /\ s[r] = it2.next
                   /\ \A x \in Nodes : x \in it2.due <=> \E j \in Ahead(it2, len, r) : s[j] = x
      <4> DEFINE r == p - 1
      <4>1. r \in 1 .. len /\ s[r] = it2.next
        BY <1>4, <3>1, <3>5, <3>6
      <4>2. \A x \in Nodes : x \in it2.due <=> \E j \in Ahead(it2, len, r) : s[j] = x
        BY <3>2, <3>3
      <4> HIDE DEF r
      <4>3. QED
        BY <4>1, <4>2
    <3>7. it2.next = NULL => it2.due = {}
      BY <1>4, <3>1, <3>4, <3>5
    <3>8. QED
      BY <1>4, <1>5, <3>6, <3>7 DEF OnTheWay
  <2>4. QED
    BY <2>2, <2>3
<1>8. QED
  BY <1>4, <1>6, <1>7

\* A new iterator has the whole list before it.
LEMMA NewOnTheWay ==
  ASSUME IInv, NEW direction \in {AL_START_HEAD, AL_START_TAIL}, ListGetIterator(direction)
  PROVE  iter' \in Iterators /\ OnTheWay(iter', Items(l), l.len)
<1> DEFINE s == Items(l)
           len == l.len
           n == IF direction = AL_START_HEAD THEN l.head ELSE l.tail
<1>1. /\ Laid(l, s) /\ len \in Nat /\ s \in [1 .. len -> Nodes] /\ NULL \notin Nodes
      /\ l.head \in Pointers /\ l.tail \in Pointers /\ NULL \in Pointers
      /\ l.head = (IF len = 0 THEN NULL ELSE s[1]) /\ (len > 0 => l.tail = s[len])
  BY NodesAssumption DEF IInv, Laid, Lists, Pointers
<1>2. InList(l) = {s[i] : i \in 1 .. len} /\ InList(l) \subseteq Nodes
  BY <1>1, LaidItems
<1> HIDE DEF s
<1>3. iter' = [on |-> TRUE, direction |-> direction, current |-> NULL, next |-> n,
               given |-> {}, due |-> InList(l)]
  BY DEF ListGetIterator
<1>4. iter' \in Iterators
  BY <1>1, <1>2, <1>3 DEF Iterators
<1>5. n = IF len = 0 THEN NULL ELSE IF direction = AL_START_HEAD THEN s[1] ELSE s[len]
  BY <1>1 DEF ListGetIterator, TailUsable
<1> HIDE DEF n
<1>6. /\ iter'.direction = direction /\ iter'.current = NULL /\ iter'.next = n
      /\ iter'.due = InList(l)
  BY <1>3
<1>7. len = 0 => InList(l) = {}
  BY <1>2
<1>8. ASSUME len # 0
      PROVE  \E p \in 1 .. len : s[p] = n /\ Ahead(iter', len, p) = 1 .. len
  <2>1. 1 \in 1 .. len /\ len \in 1 .. len
    BY <1>1, <1>8
  <2>2. QED
    BY <1>5, <1>6, <1>8, <2>1 DEF Ahead
<1>9. \A x \in Nodes : x \in InList(l) <=> \E j \in 1 .. len : s[j] = x
  BY <1>2
<1>10. NULL \notin InList(l) /\ (len # 0 => n # NULL)
  BY <1>1, <1>2, <1>5
<1>11. QED
  BY <1>4, <1>5, <1>6, <1>7, <1>8, <1>9, <1>10 DEF OnTheWay, s

LEMMA NextIInv == IInv /\ [Next]_vars => IInv'
<1> SUFFICES ASSUME IInv, [Next]_vars
             PROVE  IInv'
  OBVIOUS
<1>1. Laid(l, Items(l)) /\ iter \in Iterators /\ (iter.on => OnTheWay(iter, Items(l), l.len))
  BY DEF IInv
\* A call that changes no list under an iterator keeps the part about it.
<1>2. ASSUME NEW t, Laid(l', t), UNCHANGED iter, ~iter.on
      PROVE  IInv'
  <2>1. Items(l') = t
    BY <1>2, LaidItems
  <2>2. QED
    BY <1>1, <1>2, <2>1 DEF IInv
<1>3. ASSUME NEW n \in Nodes, NEW v \in Vals, ListAddNodeHead(n, v)
      PROVE  IInv'
  BY <1>2, <1>3, AddHeadEffect DEF ListAddNodeHead
<1>4. ASSUME NEW n \in Nodes, NEW v \in Vals, ListAddNodeTail(n, v)
      PROVE  IInv'
  BY <1>2, <1>4, AddTailEffect DEF ListAddNodeTail
<1>5. ASSUME NEW n \in Nodes, NEW v \in Vals, NEW o \in Nodes, ListInsertNode(n, o, v)
      PROVE  IInv'
  BY <1>2, <1>5, InsertAfterEffect DEF ListInsertNode
<1>6. ASSUME NEW n \in Nodes, ListDelNode(n)
      PROVE  IInv'
  <2>1. /\ n \in InList(l) /\ (iter.on => n = iter.current) /\ l' = DelNode(l, n)
        /\ iter' = [iter EXCEPT !.given = @ \ {n}]
    BY <1>6 DEF ListDelNode
  <2>2. PICK i \in 1 .. l.len :
          /\ Items(l)[i] = n
          /\ Laid(l', Dropped(Items(l), l.len, i))
          /\ Items(l') = Dropped(Items(l), l.len, i)
          /\ l'.len = l.len - 1
    BY <2>1, DelNodeEffect
  <2>3. /\ iter' \in Iterators /\ iter'.on = iter.on /\ iter'.direction = iter.direction
        /\ iter'.current = iter.current /\ iter'.next = iter.next /\ iter'.due = iter.due
    BY <1>1, <2>1 DEF Iterators
  <2>4. ASSUME iter.on
        PROVE  OnTheWay(iter', Items(l'), l'.len)
    <3>1. /\ l.len \in Nat /\ Items(l) \in [1 .. l.len -> Nodes]
          /\ \A j, k \in 1 .. l.len : Items(l)[j] = Items(l)[k] => j = k
      BY <1>1 DEF Laid, Lists
    <3>2. OnTheWay(iter, Items(l), l.len) /\ Items(l)[i] = iter.current
      BY <1>1, <2>1, <2>2, <2>4
    <3>3. OnTheWay(iter', Dropped(Items(l), l.len, i), l.len - 1)
      BY <1>1, <2>3, <3>1, <3>2, DeletedOnTheWay
    <3>4. QED
      BY <2>2, <3>3
  <2>5. QED
    BY <2>2, <2>3, <2>4 DEF IInv
<1>7. CASE ListRotate
  BY <1>2, <1>7, RotatedEffect DEF ListRotate
<1>8. ASSUME NEW direction \in {AL_START_HEAD, AL_START_TAIL}, ListGetIterator(direction)
      PROVE  IInv'
  <2>1. UNCHANGED l
    BY <1>8 DEF ListGetIterator
  <2>2. QED
    BY <1>1, <1>8, <2>1, NewOnTheWay DEF IInv
<1>9. CASE ListNext
  <2>1. /\ iter.on /\ UNCHANGED l
        /\ iter' = [iter EXCEPT !.current = iter.next, !.next = AfterNext(l, iter, iter.next),
                                !.given = @ \cup ({iter.next} \ {NULL}), !.due = @ \ {iter.next}]
    BY <1>9 DEF ListNext, Onward
  <2>2. iter' \in Iterators /\ OnTheWay(iter', Items(l), l.len)
    BY <1>1, <2>1, NextOnTheWay
  <2>3. QED
    BY <1>1, <2>1, <2>2 DEF IInv
<1>10. CASE ListReleaseIterator
  <2>1. UNCHANGED l /\ iter' \in Iterators /\ ~iter'.on
    BY <1>10 DEF ListReleaseIterator, NoIter, Iterators, Pointers
  <2>2. QED
    BY <1>1, <2>1 DEF IInv
<1>11. CASE UNCHANGED vars
  BY <1>1, <1>11 DEF IInv, vars
<1>12. QED
  BY <1>3, <1>4, <1>5, <1>6, <1>7, <1>8, <1>9, <1>10, <1>11 DEF Next

LEMMA SpecIInv == Spec => []IInv
<1>1. QED
  BY InitIInv, NextIInv, PTL DEF Spec

----------------------------------------------------------------------------
\* What the invariant says.

LEMMA IInvTyped == IInv => TypeOK
<1> SUFFICES ASSUME IInv
             PROVE  TypeOK
  OBVIOUS
<1>1. Laid(l, Items(l)) /\ l \in Lists /\ iter \in Iterators
  BY DEF IInv, Laid
<1>2. Cardinality(InList(l)) = l.len /\ l.len \in 0 .. Cardinality(Nodes)
  BY <1>1, LaidCounts
<1>3. l \in [head : Nodes \cup {NULL}, tail : Nodes \cup {NULL}, len : 0 .. Cardinality(Nodes),
             prev : [Nodes -> Nodes \cup {NULL}], next : [Nodes -> Nodes \cup {NULL}],
             value : [Nodes -> Vals \cup {NULL}]]
  BY <1>1, <1>2 DEF Lists, Pointers
<1>4. QED
  BY <1>1, <1>2, <1>3 DEF TypeOK, Iterators, Pointers

LEMMA IInvWellLinked == IInv => WellLinked
<1> SUFFICES ASSUME IInv
             PROVE  WellLinked
  OBVIOUS
<1>1. Laid(l, Items(l)) /\ l.len \in Nat
  BY DEF IInv, Laid, Lists
<1>2. Follow(l.next, l.head, l.len) = NULL
  BY <1>1, WalkForward
<1>3. QED
  BY <1>1, <1>2, IInvTyped DEF WellLinked, Laid

LEMMA IInvPositions == IInv => PositionsAgree
<1> SUFFICES ASSUME IInv, l.len > 0
             PROVE  /\ \A i \in 0 .. l.len : Index(l, i) = IF i < l.len THEN Items(l)[i + 1] ELSE NULL
                    /\ \A i \in 1 .. l.len + 1 :
                         Index(l, -i) = IF i <= l.len THEN Items(l)[l.len + 1 - i] ELSE NULL
                    /\ Items(Dup(l)) = Items(l) /\ Dup(l).value = l.value
                    /\ \A v \in Vals : SearchKey(l, v) = NULL <=> \A n \in InList(l) : l.value[n] # v
  BY DEF PositionsAgree
<1>1. Laid(l, Items(l)) /\ l.len \in Nat
  BY DEF IInv, Laid, Lists
<1>2. ASSUME NEW i \in 0 .. l.len
      PROVE  Index(l, i) = IF i < l.len THEN Items(l)[i + 1] ELSE NULL
  <2>1. i \in Nat /\ ~(i < 0)
    BY <1>1
  <2>2. QED
    BY <1>1, <2>1, WalkForward DEF Index
<1>3. ASSUME NEW i \in 1 .. l.len + 1
      PROVE  Index(l, -i) = IF i <= l.len THEN Items(l)[l.len + 1 - i] ELSE NULL
  <2>1. -i < 0 /\ -(-i) - 1 = i - 1 /\ i - 1 \in Nat /\ (i - 1 < l.len <=> i <= l.len)
        /\ l.len - (i - 1) = l.len + 1 - i
    BY <1>1
  <2>2. Index(l, -i) = Follow(l.prev, l.tail, i - 1)
    BY <2>1 DEF Index
  <2>3. Follow(l.prev, l.tail, i - 1) = IF i - 1 < l.len THEN Items(l)[l.len - (i - 1)] ELSE NULL
    BY <1>1, <2>1, WalkBackward
  <2>4. QED
    BY <2>1, <2>2, <2>3
<1>4. Items(Dup(l)) = Items(l) /\ Dup(l).value = l.value
  BY <1>1, DupCopies
<1>5. \A v \in Vals : SearchKey(l, v) = NULL <=> \A n \in InList(l) : l.value[n] # v
  BY <1>1, SearchFinds
<1>6. QED
  BY <1>2, <1>3, <1>4, <1>5

LEMMA IInvIteration == IInv => IterationComplete
<1> SUFFICES ASSUME IInv, iter.on
             PROVE  /\ iter.current = NULL /\ iter.next = NULL => iter.due = {}
                    /\ iter.next # NULL => iter.next \in InList(l)
  BY DEF IterationComplete
<1>1. Laid(l, Items(l)) /\ OnTheWay(iter, Items(l), l.len)
  BY DEF IInv
<1>2. InList(l) = {Items(l)[i] : i \in 1 .. l.len}
  BY <1>1, LaidItems
<1>3. QED
  BY <1>1, <1>2 DEF OnTheWay

\* The fields of a list and of its iterator keep their types, whatever sets of
\* nodes and values there are, and no node is in a list twice.
THEOREM ListTyped == Spec => []TypeOK
<1>1. QED
  BY SpecIInv, IInvTyped, PTL

\* head, tail, prev and next always tell of one order of the nodes, after
\* insertions at any place, deletions and rotations in any order.
THEOREM ListsAlwaysWellLinked == Spec => []WellLinked
<1>1. QED
  BY SpecIInv, IInvWellLinked, PTL

\* listIndex counts right from either end of a list that is not empty, listDup
\* copies the nodes in their order, and listSearchKey finds a value when there is
\* one.
THEOREM PositionsAlwaysAgree == Spec => []PositionsAgree
<1>1. QED
  BY SpecIInv, IInvPositions, PTL

\* An iteration in either direction, with deletions of the node it returned
\* last, returns every node, and goes on to a node that is in the list.
THEOREM ListIterationAlwaysComplete == Spec => []IterationComplete
<1>1. QED
  BY SpecIInv, IInvIteration, PTL

----------------------------------------------------------------------------
\* The list implements the sequence of NodeSeq.

LEMMA PlacedIsPut ==
  ASSUME NEW s \in Seq(Nodes), NEW n \in Nodes, NEW i \in 1 .. Len(s) + 1
  PROVE  Placed(s, Len(s), n, i) = SubSeq(s, 1, i - 1) \o <<n>> \o SubSeq(s, i, Len(s))
<1> DEFINE len == Len(s)
           a == SubSeq(s, 1, i - 1)
           b == SubSeq(s, i, len)
           c == a \o <<n>>
           t == Placed(s, len, n, i)
<1>1. len \in Nat /\ \A j \in 1 .. len : s[j] \in Nodes
  OBVIOUS
<1>2. a \in Seq(Nodes) /\ Len(a) = i - 1 /\ \A j \in 1 .. i - 1 : a[j] = s[j]
  OBVIOUS
<1>3. b \in Seq(Nodes) /\ Len(b) = len + 1 - i /\ \A j \in 1 .. len + 1 - i : b[j] = s[i + j - 1]
  OBVIOUS
<1> HIDE DEF a, b
<1>4. c \in Seq(Nodes) /\ Len(c) = i /\ \A j \in 1 .. i : c[j] = IF j < i THEN s[j] ELSE n
  BY <1>2
<1> HIDE DEF c
<1>5. /\ c \o b \in Seq(Nodes) /\ Len(c \o b) = len + 1
      /\ \A j \in 1 .. len + 1 : (c \o b)[j] = IF j <= i THEN c[j] ELSE b[j - i]
  <2>1. /\ c \o b \in Seq(Nodes) /\ Len(c \o b) = Len(c) + Len(b)
        /\ \A j \in 1 .. Len(c) + Len(b) : (c \o b)[j] = IF j <= Len(c) THEN c[j] ELSE b[j - Len(c)]
    BY <1>3, <1>4, ConcatProperties
  <2>2. Len(c) + Len(b) = len + 1 /\ Len(c) = i
    BY <1>1, <1>3, <1>4
  <2>3. QED
    BY <2>1, <2>2
<1>6. t \in Seq(Nodes) /\ Len(t) = len + 1
      /\ \A j \in 1 .. len + 1 : t[j] = IF j < i THEN s[j] ELSE IF j = i THEN n ELSE s[j - 1]
  <2>1. t \in [1 .. len + 1 -> Nodes]
    BY <1>1 DEF Placed
  <2>2. QED
    BY <1>1, <2>1 DEF Placed
<1> HIDE DEF t
<1>7. ASSUME NEW j \in 1 .. len + 1
      PROVE  t[j] = (c \o b)[j]
  <2>1. CASE j <= i
    <3>1. t[j] = IF j < i THEN s[j] ELSE n
      BY <1>6, <2>1
    <3>2. j \in 1 .. i /\ (c \o b)[j] = c[j]
      BY <1>1, <1>5, <2>1
    <3>3. QED
      BY <1>4, <3>1, <3>2
  <2>2. CASE j > i
    <3>1. j - i \in 1 .. len + 1 - i /\ i + (j - i) - 1 = j - 1
      BY <1>1, <2>2
    <3>2. b[j - i] = s[j - 1]
      BY <1>3, <3>1
    <3>3. QED
      BY <1>1, <1>5, <1>6, <2>2, <3>2
  <2>3. j <= i \/ j > i
    OBVIOUS
  <2>4. QED
    BY <2>1, <2>2, <2>3
<1> DEFINE d == c \o b
<1>8. d \in Seq(Nodes) /\ Len(d) = len + 1 /\ \A j \in 1 .. len + 1 : t[j] = d[j]
  BY <1>5, <1>7
<1> HIDE DEF d
<1>9. t = d
  BY <1>6, <1>8, SeqEqual
<1>10. QED
  BY <1>9 DEF d, c, a, b, t

LEMMA DroppedIsRemoved ==
  ASSUME NEW s \in Seq(Nodes), NEW i \in 1 .. Len(s)
  PROVE  Dropped(s, Len(s), i) = SubSeq(s, 1, i - 1) \o SubSeq(s, i + 1, Len(s))
<1> DEFINE len == Len(s)
           a == SubSeq(s, 1, i - 1)
           b == SubSeq(s, i + 1, len)
           d == a \o b
           t == Dropped(s, len, i)
<1>1. len \in Nat /\ \A j \in 1 .. len : s[j] \in Nodes
  OBVIOUS
<1>2. a \in Seq(Nodes) /\ Len(a) = i - 1 /\ \A j \in 1 .. i - 1 : a[j] = s[j]
  OBVIOUS
<1>3. b \in Seq(Nodes) /\ Len(b) = len - i /\ \A j \in 1 .. len - i : b[j] = s[i + j]
  OBVIOUS
<1> HIDE DEF a, b
<1>4. /\ d \in Seq(Nodes) /\ Len(d) = len - 1
      /\ \A j \in 1 .. len - 1 : d[j] = IF j <= i - 1 THEN a[j] ELSE b[j - (i - 1)]
  <2>1. /\ d \in Seq(Nodes) /\ Len(d) = Len(a) + Len(b)
        /\ \A j \in 1 .. Len(a) + Len(b) : d[j] = IF j <= Len(a) THEN a[j] ELSE b[j - Len(a)]
    BY <1>2, <1>3, ConcatProperties
  <2>2. Len(a) + Len(b) = len - 1 /\ Len(a) = i - 1
    BY <1>1, <1>2, <1>3
  <2>3. QED
    BY <2>1, <2>2
<1> HIDE DEF d
<1>5. t \in Seq(Nodes) /\ Len(t) = len - 1
      /\ \A j \in 1 .. len - 1 : t[j] = IF j < i THEN s[j] ELSE s[j + 1]
  <2>1. t \in [1 .. len - 1 -> Nodes] /\ len - 1 \in Nat
    BY <1>1 DEF Dropped
  <2>2. QED
    BY <1>1, <2>1 DEF Dropped
<1> HIDE DEF t
<1>6. ASSUME NEW j \in 1 .. len - 1
      PROVE  t[j] = d[j]
  <2>1. CASE j < i
    BY <1>1, <1>2, <1>4, <1>5, <2>1
  <2>2. CASE j >= i
    <3>1. j - (i - 1) \in 1 .. len - i /\ i + (j - (i - 1)) = j + 1
      BY <1>1, <2>2
    <3>2. b[j - (i - 1)] = s[j + 1]
      BY <1>3, <3>1
    <3>3. QED
      BY <1>1, <1>4, <1>5, <2>2, <3>2
  <2>3. QED
    BY <1>1, <2>1, <2>2
<1>7. t = d
  BY <1>4, <1>5, <1>6, SeqEqual
<1>8. QED
  BY <1>7 DEF d, a, b, t

LEMMA TurnedIsRotated ==
  ASSUME NEW s \in Seq(Nodes), s # <<>>
  PROVE  (IF Len(s) > 1 THEN Turned(s, Len(s)) ELSE s) = <<s[Len(s)]>> \o SubSeq(s, 1, Len(s) - 1)
<1> DEFINE len == Len(s)
           b == SubSeq(s, 1, len - 1)
           d == <<s[len]>> \o b
           t == IF len > 1 THEN Turned(s, len) ELSE s
<1>1. len \in Nat /\ len >= 1 /\ \A j \in 1 .. len : s[j] \in Nodes
  OBVIOUS
<1>2. b \in Seq(Nodes) /\ Len(b) = len - 1 /\ \A j \in 1 .. len - 1 : b[j] = s[j]
  <2>1. \A j \in 1 .. len - 1 : s[j] \in Nodes
    BY <1>1
  <2>2. /\ b \in Seq(Nodes) /\ Len(b) = IF 1 <= len - 1 THEN (len - 1) - 1 + 1 ELSE 0
        /\ \A j \in 1 .. (len - 1) - 1 + 1 : b[j] = s[1 + j - 1]
    BY <1>1, <2>1, SubSeqProperties
  <2>3. (len - 1) - 1 + 1 = len - 1 /\ \A j \in 1 .. len - 1 : 1 + j - 1 = j
    BY <1>1
  <2>4. QED
    BY <1>1, <2>2, <2>3
<1>3. s[len] \in Nodes
  BY <1>1
<1> HIDE DEF b
<1>4. /\ d \in Seq(Nodes) /\ Len(d) = len
      /\ \A j \in 1 .. len : d[j] = IF j = 1 THEN s[len] ELSE b[j - 1]
  BY <1>1, <1>2, <1>3
<1> HIDE DEF d
<1>5. t \in Seq(Nodes) /\ Len(t) = len
      /\ \A j \in 1 .. len : t[j] = IF j = 1 THEN s[len] ELSE s[j - 1]
  <2>1. CASE len > 1
    <3>1. t = [j \in 1 .. len |-> IF j = 1 THEN s[len] ELSE s[j - 1]]
      BY <2>1 DEF Turned
    <3>2. t \in [1 .. len -> Nodes]
      BY <1>1, <3>1
    <3> HIDE DEF t
    <3>3. QED
      BY <1>1, <3>1, <3>2
  <2>2. CASE ~(len > 1)
    BY <1>1, <2>2
  <2>3. QED
    BY <2>1, <2>2
<1> HIDE DEF t
<1>6. \A j \in 1 .. len : t[j] = d[j]
  BY <1>1, <1>2, <1>4, <1>5
<1>7. t = d
  BY <1>4, <1>5, <1>6, SeqEqual
<1>8. QED
  BY <1>7 DEF d, b, t

LEMMA SequenceInit == Init => Sequence!Init
<1>1. Items(EmptyList) = <<>>
  BY EmptyLaid, LaidItems
<1>2. QED
  BY <1>1 DEF Init, Sequence!Init

LEMMA SequenceStep == IInv /\ [Next]_vars => [Sequence!Next]_(Sequence!seqVars)
<1> SUFFICES ASSUME IInv, [Next]_vars
             PROVE  Sequence!Next \/ UNCHANGED Sequence!seqVars
  OBVIOUS
<1> DEFINE s == Items(l)
<1>1. Laid(l, s) /\ s \in Seq(Nodes) /\ Len(s) = l.len /\ InList(l) = {s[i] : i \in 1 .. l.len}
  BY LaidItems DEF IInv
<1>1a. DOMAIN s = 1 .. l.len /\ (l.len > 0 <=> s # <<>>) /\ l.len \in Nat
  <2> HIDE DEF s
  <2>1. QED
    BY <1>1
<1>2. ASSUME NEW n, n \notin InList(l)
      PROVE  Sequence!Fresh(n)
  BY <1>1, <1>2 DEF Sequence!Fresh
<1>3. ASSUME NEW n \in Nodes, NEW i \in 1 .. l.len + 1, Items(l') = Placed(s, l.len, n, i)
      PROVE  Sequence!Put(n, i)
  BY <1>1, <1>3, PlacedIsPut DEF Sequence!Put
<1>4. ASSUME NEW n \in Nodes, NEW v \in Vals, ListAddNodeHead(n, v)
      PROVE  Sequence!Next
  <2>1. Items(l') = Placed(s, l.len, n, 1) /\ n \notin InList(l) /\ call' = <<"add head", n>>
    BY <1>4, AddHeadEffect DEF ListAddNodeHead
  <2>2. 1 \in 1 .. l.len + 1
    BY <1>1
  <2>3. Sequence!Fresh(n) /\ Sequence!AddHead(n)
    BY <1>2, <1>3, <2>1, <2>2 DEF Sequence!AddHead
  <2>4. QED
    BY <2>3 DEF Sequence!Next
<1>5. ASSUME NEW n \in Nodes, NEW v \in Vals, ListAddNodeTail(n, v)
      PROVE  Sequence!Next
  <2>1. Items(l') = Placed(s, l.len, n, l.len + 1) /\ n \notin InList(l) /\ call' = <<"add tail", n>>
    BY <1>5, AddTailEffect DEF ListAddNodeTail
  <2>2. l.len + 1 \in 1 .. l.len + 1
    BY <1>1
  <2>3. Sequence!Fresh(n) /\ Sequence!AddTail(n)
    BY <1>1, <1>2, <1>3, <2>1, <2>2 DEF Sequence!AddTail
  <2>4. QED
    BY <2>3 DEF Sequence!Next
<1>6. ASSUME NEW n \in Nodes, NEW v \in Vals, NEW o \in Nodes, ListInsertNode(n, o, v)
      PROVE  Sequence!Next
  <2>1. n \notin InList(l) /\ o \in InList(l) /\ l' = InsertAfter(l, o, n, v)
        /\ call' = <<"insert after", n, o>>
    BY <1>6 DEF ListInsertNode
  <2>2. PICK i \in 1 .. l.len : s[i] = o /\ Items(l') = Placed(s, l.len, n, i + 1)
    BY <2>1, InsertAfterEffect
  <2>3. i + 1 \in 1 .. l.len + 1 /\ i \in DOMAIN s
    BY <1>1
  <2>4. Sequence!Fresh(n) /\ Sequence!InsertAfter(n, o)
    BY <1>2, <1>3, <2>1, <2>2, <2>3 DEF Sequence!InsertAfter
  <2>5. QED
    BY <2>4 DEF Sequence!Next
<1>7. ASSUME NEW n \in Nodes, ListDelNode(n)
      PROVE  Sequence!Next
  <2>1. n \in InList(l) /\ l' = DelNode(l, n) /\ call' = <<"delete", n>>
    BY <1>7 DEF ListDelNode
  <2>2. PICK i \in 1 .. l.len : s[i] = n /\ Items(l') = Dropped(s, l.len, i)
    BY <2>1, DelNodeEffect
  <2>3. i \in DOMAIN s /\ Items(l') = SubSeq(s, 1, i - 1) \o SubSeq(s, i + 1, Len(s))
    <3> HIDE DEF s
    <3>1. i \in 1 .. Len(s) /\ Items(l') = Dropped(s, Len(s), i)
      BY <1>1, <2>2
    <3>2. QED
      BY <1>1a, <1>1, <3>1, DroppedIsRemoved
  <2>4. Sequence!Delete(n)
    BY <2>1, <2>2, <2>3 DEF Sequence!Delete
  <2>5. QED
    BY <2>4 DEF Sequence!Next
<1>8. CASE ListRotate
  <2>1. Items(l') = (IF l.len > 1 THEN Turned(s, l.len) ELSE s) /\ call' = <<"rotate">>
    BY <1>8, RotatedEffect DEF ListRotate
  <2>2. Items(l') = IF s = <<>> THEN <<>> ELSE <<s[Len(s)]>> \o SubSeq(s, 1, Len(s) - 1)
    <3> HIDE DEF s
    <3>1. CASE s = <<>>
      BY <1>1a, <2>1, <3>1
    <3>2. CASE s # <<>>
      BY <1>1, <2>1, <3>2, TurnedIsRotated
    <3>3. QED
      BY <3>1, <3>2
  <2>3. QED
    BY <2>1, <2>2 DEF Sequence!Next, Sequence!Rotate
<1>9. ASSUME UNCHANGED <<l, call>>
      PROVE  UNCHANGED Sequence!seqVars
  BY <1>9 DEF Sequence!seqVars
<1>10. ASSUME NEW direction \in {AL_START_HEAD, AL_START_TAIL}, ListGetIterator(direction)
       PROVE  UNCHANGED <<l, call>>
  BY <1>10 DEF ListGetIterator
<1>11. CASE ListNext \/ ListReleaseIterator \/ UNCHANGED vars
  BY <1>9, <1>11 DEF ListNext, ListReleaseIterator, vars
<1>12. QED
  BY <1>4, <1>5, <1>6, <1>7, <1>8, <1>9, <1>10, <1>11 DEF Next

\* Every call of xmadlist.c does to the order of the nodes what its name says
\* and nothing else: it puts a node at one place, takes one out, or turns the
\* last into the first; an iterator changes nothing.
THEOREM ListImplementsSequence == Spec => ImplementsSequence
<1>1. QED
  BY SequenceInit, SequenceStep, SpecIInv, PTL DEF Spec, ImplementsSequence, Sequence!Spec
=============================================================================
