----------------------------- MODULE DictProofs -----------------------------
(***************************************************************************)
(* Proofs about Dict for every set of keys, every hash function and every  *)
(* choice of the sizes and ratios.  The inductive invariant is Consistent, *)
(* a predicate of one dict value: each operator of Dict that stands for a  *)
(* C function keeps it, so every public call does.  Chained, in the second *)
(* part, is the same for the order of the entries of a bucket; ItersInv,   *)
(* in the third, says what the iterators still owe.                        *)
(***************************************************************************)
EXTENDS Dict, FiniteSetTheorems, WellFoundedInduction, TLAPS

----------------------------------------------------------------------------
\* Facts about sizes and slots.

LEMMA SlotInTable ==
  ASSUME NEW k \in Keys, NEW n \in Nat \ {0}
  PROVE  Slot(k, n) \in 0 .. n - 1
<1>1. Hash[k] \in Nat
  BY KeysAssumption
<1>2. QED
  BY <1>1 DEF Slot

\* A non-empty set of naturals has a least element.
LEMMA LeastNatural ==
  ASSUME NEW S \in SUBSET Nat, S # {}
  PROVE  \E x \in S : \A y \in S : x <= y
<1>1. PICK x \in S : \A y \in S : ~(<<y, x>> \in OpToRel(<, Nat))
  BY NatLessThanWellFounded, WFMin
<1>2. \A y \in S : ~(y < x)
  BY <1>1 DEF OpToRel
<1>3. QED
  BY <1>2

\* What dictExpand may be asked for has a size, and that size holds it.
LEMMA NextPowerHolds ==
  ASSUME NEW n \in Requests
  PROVE  NextPower(n) \in TableSizes /\ NextPower(n) >= n /\ NextPower(n) \in Nat \ {0}
BY SizesAssumption DEF NextPower, IsNextPower

LEMMA InitialSizeRequested == InitialSize \in Requests
BY DEF Requests

----------------------------------------------------------------------------
\* Facts about one table.

LEMMA TableNumbers ==
  ASSUME NEW h, IsTable(h)
  PROVE  /\ h.size \in Nat /\ h.used \in Nat
         /\ h.size # 0 => h.size \in TableSizes /\ h.size > 0
<1>1. TableSizes \subseteq Nat \ {0}
  BY SizesAssumption
<1>2. QED
  BY <1>1 DEF IsTable

\* The entries of a table are keys, and finitely many.
LEMMA EntriesFinite ==
  ASSUME NEW h, IsTable(h)
  PROVE  /\ Entries(h) \subseteq Keys
         /\ IsFiniteSet(Entries(h))
         /\ Cardinality(Entries(h)) \in Nat
         /\ Cardinality(Entries(h)) <= Cardinality(Keys)
<1>1. Entries(h) \subseteq Keys
  BY DEF Entries, IsTable
<1>2. QED
  BY <1>1, KeysAssumption, FS_Subset, FS_CardinalityType

\* An entry is found in the bucket of its hash and in no other.
LEMMA EntryInItsSlot ==
  ASSUME NEW h, GoodTable(h), NEW k \in Keys
  PROVE  k \in Entries(h) <=> h.size > 0 /\ k \in h.table[Slot(k, h.size)]
<1>1. h.size \in Nat
  BY SizesAssumption DEF GoodTable, IsTable
<1>2. ASSUME k \in Entries(h)
      PROVE  h.size > 0 /\ k \in h.table[Slot(k, h.size)]
  <2>1. PICK i \in 0 .. h.size - 1 : k \in h.table[i]
    BY <1>2 DEF Entries
  <2>2. Slot(k, h.size) = i
    BY <2>1 DEF GoodTable
  <2>3. QED
    BY <1>1, <2>1, <2>2
<1>3. ASSUME h.size > 0, k \in h.table[Slot(k, h.size)]
      PROVE  k \in Entries(h)
  <2>1. Slot(k, h.size) \in 0 .. h.size - 1
    BY <1>1, <1>3, SlotInTable
  <2>2. QED
    BY <1>3, <2>1 DEF Entries
<1>4. QED
  BY <1>2, <1>3

LEMMA NoTableGood == GoodTable(NoTable) /\ Entries(NoTable) = {}
<1>1. Entries(NoTable) = {}
  BY DEF Entries, NoTable
<1>2. IsTable(NoTable)
  BY DEF IsTable, NoTable
<1>3. QED
  BY <1>1, <1>2, FS_EmptySet DEF GoodTable, NoTable

LEMMA NewTableGood ==
  ASSUME NEW n \in TableSizes
  PROVE  GoodTable(NewTable(n)) /\ Entries(NewTable(n)) = {}
<1>1. n \in Nat \ {0}
  BY SizesAssumption
<1>2. Entries(NewTable(n)) = {}
  BY <1>1 DEF Entries, NewTable
<1>3. IsTable(NewTable(n))
  BY <1>1 DEF IsTable, NewTable
<1>4. QED
  BY <1>1, <1>2, <1>3, FS_EmptySet DEF GoodTable, NewTable

\* Linking a key that is not in the table.
LEMMA LinkInGood ==
  ASSUME NEW h, GoodTable(h), h.size > 0, NEW k \in Keys, k \notin Entries(h)
  PROVE  /\ GoodTable(LinkIn(h, k))
         /\ Entries(LinkIn(h, k)) = Entries(h) \cup {k}
         /\ LinkIn(h, k).size = h.size
<1> DEFINE g == LinkIn(h, k)
           s == Slot(k, h.size)
<1>1. h.size \in TableSizes /\ h.size \in Nat \ {0} /\ h.used \in Nat
  BY SizesAssumption DEF GoodTable, IsTable
<1>2. s \in 0 .. h.size - 1
  BY <1>1, SlotInTable
<1>3. /\ g.size = h.size /\ g.used = h.used + 1
      /\ g.table \in [0 .. h.size - 1 -> SUBSET Keys]
      /\ \A i \in 0 .. h.size - 1 :
           g.table[i] = IF i = s THEN h.table[i] \cup {k} ELSE h.table[i]
  BY <1>2 DEF LinkIn, GoodTable, IsTable
<1>4. IsTable(g)
  <2>1. g = [size |-> g.size, used |-> g.used, table |-> g.table]
    BY DEF LinkIn
  <2>2. QED
    BY <1>1, <1>3, <2>1 DEF IsTable
<1>5. Entries(g) = Entries(h) \cup {k}
  <2> HIDE DEF g, s
  <2>1. \A x : x \in Entries(g) <=> \E i \in 0 .. h.size - 1 : x \in g.table[i]
    BY <1>3 DEF Entries
  <2>2. \A x : x \in Entries(h) <=> \E i \in 0 .. h.size - 1 : x \in h.table[i]
    BY DEF Entries
  <2>3. \A i \in 0 .. h.size - 1 : g.table[i] \subseteq h.table[i] \cup {k}
    BY <1>3
  <2>4. \A i \in 0 .. h.size - 1 : h.table[i] \subseteq g.table[i]
    BY <1>3
  <2>5. k \in g.table[s]
    BY <1>2, <1>3
  <2>6. Entries(g) \subseteq Entries(h) \cup {k}
    BY <2>1, <2>2, <2>3
  <2>7. Entries(h) \cup {k} \subseteq Entries(g)
    BY <1>2, <2>1, <2>2, <2>4, <2>5
  <2>8. QED
    BY <2>6, <2>7
<1>6. ASSUME NEW i \in 0 .. g.size - 1, NEW x \in g.table[i]
      PROVE  Slot(x, g.size) = i
  <2>1. CASE x \in h.table[i]
    BY <1>3, <2>1 DEF GoodTable
  <2>2. CASE x \notin h.table[i]
    BY <1>3, <2>2
  <2>3. QED
    BY <2>1, <2>2
<1>7. g.used = Cardinality(Entries(g))
  <2>1. IsFiniteSet(Entries(h))
    BY EntriesFinite DEF GoodTable
  <2>2. Cardinality(Entries(h) \cup {k}) = Cardinality(Entries(h)) + 1
    BY <2>1, FS_AddElement
  <2>3. QED
    BY <1>3, <1>5, <2>2 DEF GoodTable
<1>8. QED
  BY <1>3, <1>4, <1>5, <1>6, <1>7 DEF GoodTable

\* Unlinking a key that is in the table.
LEMMA UnlinkInGood ==
  ASSUME NEW h, GoodTable(h), NEW k \in Entries(h)
  PROVE  /\ GoodTable(UnlinkIn(h, k))
         /\ Entries(UnlinkIn(h, k)) = Entries(h) \ {k}
         /\ UnlinkIn(h, k).size = h.size
<1> DEFINE g == UnlinkIn(h, k)
           s == Slot(k, h.size)
<1>0. k \in Keys
  BY EntriesFinite DEF GoodTable
<1>1. h.size > 0 /\ k \in h.table[s]
  BY <1>0, EntryInItsSlot
<1>2. h.size \in TableSizes /\ h.size \in Nat \ {0} /\ h.used \in Nat
  BY <1>1, SizesAssumption DEF GoodTable, IsTable
<1>3. s \in 0 .. h.size - 1
  BY <1>0, <1>2, SlotInTable
<1>4. /\ g.size = h.size /\ g.used = h.used - 1
      /\ g.table \in [0 .. h.size - 1 -> SUBSET Keys]
      /\ \A i \in 0 .. h.size - 1 :
           g.table[i] = IF i = s THEN h.table[i] \ {k} ELSE h.table[i]
  BY <1>3 DEF UnlinkIn, GoodTable, IsTable
<1>5. \A i \in 0 .. h.size - 1 : i # s => k \notin h.table[i]
  BY DEF GoodTable
<1>6. Entries(g) = Entries(h) \ {k}
  <2>1. \A i \in 0 .. h.size - 1 : g.table[i] = h.table[i] \ {k}
    BY <1>4, <1>5
  <2>2. Entries(g) = UNION {g.table[i] : i \in 0 .. h.size - 1}
    BY <1>4 DEF Entries
  <2>3. QED
    BY <2>1, <2>2 DEF Entries
<1>7. IsFiniteSet(Entries(h))
  BY EntriesFinite DEF GoodTable
<1>8. Cardinality(Entries(g)) = h.used - 1 /\ Cardinality(Entries(g)) \in Nat
  BY <1>6, <1>7, FS_RemoveElement, FS_CardinalityType DEF GoodTable
<1>9. IsTable(g)
  <2>1. g = [size |-> g.size, used |-> g.used, table |-> g.table]
    BY DEF UnlinkIn
  <2>2. QED
    BY <1>2, <1>4, <1>8, <2>1 DEF IsTable
<1>10. \A i \in 0 .. g.size - 1 : \A x \in g.table[i] : Slot(x, g.size) = i
  <2>1. \A i \in 0 .. h.size - 1 : g.table[i] \subseteq h.table[i]
    BY <1>4
  <2>2. QED
    BY <1>4, <2>1 DEF GoodTable
<1>11. QED
  BY <1>4, <1>6, <1>8, <1>9, <1>10 DEF GoodTable

\* Unlinking the whole of a bucket.
LEMMA TakeBucketGood ==
  ASSUME NEW h, GoodTable(h), NEW i \in 0 .. h.size - 1
  PROVE  /\ GoodTable(TakeBucket(h, i))
         /\ Entries(TakeBucket(h, i)) = Entries(h) \ h.table[i]
         /\ TakeBucket(h, i).size = h.size
         /\ h.table[i] \subseteq Entries(h)
<1> DEFINE g == TakeBucket(h, i)
           b == h.table[i]
<1>1. h.size \in TableSizes \cup {0} /\ h.size \in Nat /\ h.used \in Nat
  BY SizesAssumption DEF GoodTable, IsTable
<1>2. /\ g.size = h.size /\ g.used = h.used - Cardinality(b)
      /\ g.table \in [0 .. h.size - 1 -> SUBSET Keys]
      /\ \A j \in 0 .. h.size - 1 : g.table[j] = IF j = i THEN {} ELSE h.table[j]
  BY DEF TakeBucket, GoodTable, IsTable
<1>3. b \subseteq Entries(h)
  BY DEF Entries
<1>4. \A j \in 0 .. h.size - 1 : g.table[j] = h.table[j] \ b
  BY <1>2 DEF GoodTable
<1>5. Entries(g) = Entries(h) \ b
  <2>1. Entries(g) = UNION {g.table[j] : j \in 0 .. h.size - 1}
    BY <1>2 DEF Entries
  <2>2. QED
    BY <1>4, <2>1 DEF Entries
<1>6. IsFiniteSet(Entries(h))
  BY EntriesFinite DEF GoodTable
<1>7. Cardinality(Entries(g)) = g.used /\ g.used \in Nat
  <2>1. Entries(h) \cap b = b
    BY <1>3
  <2>2. IsFiniteSet(Entries(g)) /\ Cardinality(Entries(g)) = Cardinality(Entries(h)) - Cardinality(b)
    BY <1>5, <1>6, <2>1, FS_Difference
  <2>3. Cardinality(Entries(g)) \in Nat
    BY <2>2, FS_CardinalityType
  <2>4. QED
    BY <1>2, <2>2, <2>3 DEF GoodTable
<1>8. IsTable(g)
  <2>1. g = [size |-> g.size, used |-> g.used, table |-> g.table]
    BY DEF TakeBucket
  <2>2. QED
    BY <1>1, <1>2, <1>7, <2>1 DEF IsTable
<1>9. \A j \in 0 .. g.size - 1 : \A x \in g.table[j] : Slot(x, g.size) = j
  BY <1>2, <1>4 DEF GoodTable
<1>10. QED
  BY <1>2, <1>3, <1>5, <1>7, <1>8, <1>9 DEF GoodTable

\* Linking a set of keys none of which is in the table.
LEMMA LinkAllGood ==
  ASSUME NEW h, GoodTable(h), h.size > 0,
         NEW S \in SUBSET Keys, S \cap Entries(h) = {}
  PROVE  /\ GoodTable(LinkAll(h, S))
         /\ Entries(LinkAll(h, S)) = Entries(h) \cup S
         /\ LinkAll(h, S).size = h.size
<1> DEFINE g == LinkAll(h, S)
<1>1. h.size \in TableSizes /\ h.size \in Nat \ {0} /\ h.used \in Nat
  BY SizesAssumption DEF GoodTable, IsTable
<1>2. /\ g.size = h.size /\ g.used = h.used + Cardinality(S)
      /\ g.table \in [0 .. h.size - 1 -> SUBSET Keys]
      /\ \A j \in 0 .. h.size - 1 :
           g.table[j] = h.table[j] \cup {k \in S : Slot(k, h.size) = j}
  BY DEF LinkAll, GoodTable, IsTable
<1>3. \A k \in S : Slot(k, h.size) \in 0 .. h.size - 1
  BY <1>1, SlotInTable
<1>4. Entries(g) = Entries(h) \cup S
  <2>1. Entries(g) = UNION {g.table[j] : j \in 0 .. h.size - 1}
    BY <1>2 DEF Entries
  <2>2. Entries(g) \subseteq Entries(h) \cup S
    BY <1>2, <2>1 DEF Entries
  <2>3. Entries(h) \subseteq Entries(g)
    BY <1>2, <2>1 DEF Entries
  <2>4. ASSUME NEW k \in S PROVE k \in Entries(g)
    <3>1. k \in g.table[Slot(k, h.size)]
      BY <1>2, <1>3
    <3>2. QED
      BY <1>3, <2>1, <3>1
  <2>5. QED
    BY <2>2, <2>3, <2>4
<1>5. Cardinality(Entries(g)) = g.used /\ g.used \in Nat
  <2>1. IsFiniteSet(Entries(h)) /\ IsFiniteSet(S)
    BY EntriesFinite, FS_Subset, KeysAssumption DEF GoodTable
  <2>2. Cardinality(Entries(h) \cap S) = 0
    BY FS_EmptySet, S \cap Entries(h) = Entries(h) \cap S
  <2>3. Cardinality(Entries(g)) = Cardinality(Entries(h)) + Cardinality(S) - Cardinality(Entries(h) \cap S)
    BY <1>4, <2>1, FS_Union
  <2>4. Cardinality(S) \in Nat
    BY <2>1, FS_CardinalityType
  <2>5. QED
    BY <1>1, <1>2, <2>2, <2>3, <2>4 DEF GoodTable
<1>6. IsTable(g)
  <2>1. g = [size |-> g.size, used |-> g.used, table |-> g.table]
    BY DEF LinkAll
  <2>2. QED
    BY <1>1, <1>2, <1>5, <2>1 DEF IsTable
<1>7. \A j \in 0 .. g.size - 1 : \A x \in g.table[j] : Slot(x, g.size) = j
  BY <1>2 DEF GoodTable
<1>8. QED
  BY <1>2, <1>4, <1>5, <1>6, <1>7 DEF GoodTable
----------------------------------------------------------------------------
\* Facts about a dict.

\* e is dd with its entries in other buckets or tables.
Keeps(dd, e) ==
  /\ Consistent(e)
  /\ Stored(e) = Stored(dd)
  /\ e.val = dd.val
  /\ e.iterators = dd.iterators

\* The entries stay in their tables, in the order they have on their chains.
SameEntries(dd, e) ==
  /\ e.before = dd.before
  /\ \A t \in {0, 1} :
       /\ InTable(e, t) = InTable(dd, t)
       /\ dd.ht[t].size > 0 => e.ht[t].size = dd.ht[t].size

\* A search that looks at the chains finds exactly the entries.
LEMMA FindFindsStored ==
  ASSUME NEW dd, Consistent(dd), NEW k \in Keys
  PROVE  /\ \A t \in {0, 1} : OnChain(dd, t, k) <=> k \in InTable(dd, t)
         /\ Find(dd, k) <=> k \in Stored(dd)
         /\ Found(dd, k) <=> k \in Stored(dd)
         /\ k \in Stored(dd) => k \in InTable(dd, TableOf(dd, k))
<1>1. \A t \in {0, 1} : OnChain(dd, t, k) <=> k \in InTable(dd, t)
  BY EntryInItsSlot DEF Consistent, OnChain, InTable
<1>2. ~IsRehashing(dd) => k \notin InTable(dd, 1)
  <2>1. ~IsRehashing(dd) => ~(dd.ht[1].size > 0)
    BY DEF Consistent, Phase
  <2>2. QED
    BY <1>1, <2>1 DEF OnChain
<1>3. Find(dd, k) <=> k \in Stored(dd)
  BY <1>1, <1>2 DEF Find, TablesSearched, Stored
<1>4. k \in Stored(dd) => dd.ht[0].size > 0
  <2>1. k \in InTable(dd, 0) => dd.ht[0].size > 0
    BY <1>1 DEF OnChain
  <2>2. IsRehashing(dd) => dd.ht[0].size > 0
    BY DEF Consistent, Phase
  <2>3. QED
    BY <1>2, <2>1, <2>2 DEF Stored
<1>5. QED
  BY <1>1, <1>3, <1>4 DEF Found, TableOf, Stored

LEMMA StoredAreKeys ==
  ASSUME NEW dd, Consistent(dd)
  PROVE  Stored(dd) \subseteq Keys
BY EntriesFinite DEF Consistent, IsDict, Stored, InTable

\* A dict after _dictInit.
LEMMA EmptyDictConsistent ==
  /\ Consistent(EmptyDict)
  /\ Stored(EmptyDict) = {}
  /\ EmptyDict.val = [k \in Keys |-> NULL]
<1> DEFINE e == EmptyDict
<1>1. /\ e.ht = [t \in {0, 1} |-> NoTable] /\ e.before = {} /\ e.rehashidx = -1
      /\ e.iterators = 0 /\ e.val = [k \in Keys |-> NULL]
      /\ e = [ht |-> e.ht, rehashidx |-> e.rehashidx, iterators |-> e.iterators,
              before |-> e.before, val |-> e.val]
  BY DEF EmptyDict
<1> HIDE DEF e
<1>2. e.ht[0] = NoTable /\ e.ht[1] = NoTable /\ e.ht = [t \in {0, 1} |-> e.ht[t]]
  BY <1>1
<1>3. GoodTable(NoTable) /\ Entries(NoTable) = {} /\ NoTable.size = 0 /\ IsTable(NoTable)
  BY NoTableGood DEF NoTable, GoodTable
<1>4. IsDict(e)
  BY <1>1, <1>2, <1>3 DEF IsDict
<1>5. Phase(e) /\ Disjoint(e) /\ Stored(e) = {}
  BY <1>1, <1>2, <1>3 DEF Phase, Disjoint, Stored, InTable, IsRehashing
<1>6. QED
  BY <1>1, <1>2, <1>3, <1>4, <1>5 DEF Consistent, e

\* The sizes the code asks dictExpand for.
LEMMA SizesRequested ==
  ASSUME NEW dd, Consistent(dd)
  PROVE  GrowTo(dd) \in Requests /\ Minimal(dd) \in Requests
<1>1. /\ dd.ht[0].used \in Nat
      /\ dd.ht[0].used <= Cardinality(Keys)
      /\ Cardinality(Keys) \in Nat
  BY EntriesFinite, FS_CardinalityType, KeysAssumption DEF Consistent, GoodTable, IsTable
<1>2. dd.ht[0].used \in 0 .. 2 * Cardinality(Keys) /\ 2 * dd.ht[0].used \in 0 .. 2 * Cardinality(Keys)
  BY <1>1
<1>3. QED
  BY <1>2 DEF GrowTo, Minimal, Requests

LEMMA ExpandKeeps ==
  ASSUME NEW dd, Consistent(dd), NEW n \in Requests, CanExpand(dd, n)
  PROVE  /\ Keeps(dd, Expand(dd, n)) /\ Expand(dd, n).ht[0].size > 0
         /\ SameEntries(dd, Expand(dd, n))
<1> DEFINE e == Expand(dd, n)
           p == NextPower(n)
<1>1. p \in TableSizes /\ p \in Nat \ {0}
  BY NextPowerHolds
<1>2. GoodTable(NewTable(p)) /\ Entries(NewTable(p)) = {} /\ NewTable(p).size = p
  BY <1>1, NewTableGood DEF NewTable
<1>3. dd.ht[0].size \in Nat /\ dd.ht[1].size \in Nat
  BY TableNumbers DEF Consistent, GoodTable
<1>4. dd.rehashidx = -1 /\ dd.ht[1].size = 0
  BY <1>3 DEF CanExpand, IsRehashing, Consistent, Phase
<1>5. InTable(dd, 1) = {}
  BY <1>4 DEF InTable, Entries
<1>6. IsDict(dd) /\ GoodTable(dd.ht[0]) /\ GoodTable(dd.ht[1])
  BY DEF Consistent
<1>7. CASE dd.ht[0].size = 0
  <2>1. /\ e.ht = [t \in {0, 1} |-> IF t = 0 THEN NewTable(p) ELSE dd.ht[1]]
        /\ e.rehashidx = -1 /\ e.iterators = dd.iterators
        /\ e.before = dd.before /\ e.val = dd.val
        /\ e = [ht |-> e.ht, rehashidx |-> e.rehashidx, iterators |-> e.iterators,
                before |-> e.before, val |-> e.val]
    BY <1>4, <1>6, <1>7 DEF Expand, IsDict
  <2>2. e.ht[0] = NewTable(p) /\ e.ht[1] = dd.ht[1]
    BY <2>1
  <2>3. IsDict(e)
    BY <1>2, <1>6, <2>1, <2>2 DEF IsDict, GoodTable
  <2>4. InTable(dd, 0) = {} /\ InTable(e, 0) = {} /\ InTable(e, 1) = {}
    BY <1>2, <1>5, <1>7, <2>2 DEF InTable, Entries
  <2>5. Phase(e)
    BY <1>2, <1>4, <2>1, <2>2 DEF Phase, IsRehashing
  <2>6. SameEntries(dd, e)
    BY <1>4, <1>5, <1>7, <2>1, <2>4 DEF SameEntries
  <2>7. QED
    BY <1>1, <1>2, <1>5, <1>6, <2>1, <2>2, <2>3, <2>4, <2>5, <2>6 DEF Keeps, Consistent, Disjoint, Stored
<1>8. CASE dd.ht[0].size # 0
  <2>1. /\ e.ht = [t \in {0, 1} |-> IF t = 1 THEN NewTable(p) ELSE dd.ht[0]]
        /\ e.rehashidx = 0 /\ e.iterators = dd.iterators
        /\ e.before = dd.before /\ e.val = dd.val
        /\ e = [ht |-> e.ht, rehashidx |-> e.rehashidx, iterators |-> e.iterators,
                before |-> e.before, val |-> e.val]
    BY <1>6, <1>8 DEF Expand, IsDict
  <2>2. e.ht[1] = NewTable(p) /\ e.ht[0] = dd.ht[0]
    BY <2>1
  <2>3. IsDict(e)
    BY <1>2, <1>6, <2>1, <2>2 DEF IsDict, GoodTable
  <2>4. InTable(e, 0) = InTable(dd, 0) /\ InTable(e, 1) = {}
    BY <1>2, <2>2 DEF InTable
  <2>5. Phase(e)
    BY <1>1, <1>2, <1>3, <1>8, <2>1, <2>2 DEF Phase, IsRehashing
  <2>6. SameEntries(dd, e)
    BY <1>4, <1>5, <2>1, <2>2, <2>4 DEF SameEntries
  <2>7. QED
    BY <1>2, <1>3, <1>5, <1>6, <1>8, <2>1, <2>2, <2>3, <2>4, <2>5, <2>6 DEF Keeps, Consistent, Disjoint, Stored
<1>9. QED
  BY <1>7, <1>8

LEMMA ExpandIfNeededKeeps ==
  ASSUME NEW dd, Consistent(dd)
  PROVE  /\ Keeps(dd, ExpandIfNeeded(dd))
         /\ SameEntries(dd, ExpandIfNeeded(dd))
         /\ (MustExpand(dd) => CanExpand(dd, GrowTo(dd))) => ExpandIfNeeded(dd).ht[0].size > 0
<1>1. GrowTo(dd) \in Requests
  BY SizesRequested
<1>2. CASE MustExpand(dd) /\ CanExpand(dd, GrowTo(dd))
  BY <1>1, <1>2, ExpandKeeps DEF ExpandIfNeeded
<1>3. CASE MustExpand(dd) /\ ~CanExpand(dd, GrowTo(dd))
  BY <1>3 DEF ExpandIfNeeded, Keeps, SameEntries
<1>4. CASE ~MustExpand(dd)
  <2>1. dd.ht[0].size \in Nat
    BY TableNumbers DEF Consistent, GoodTable
  <2>2. dd.ht[0].size > 0
    BY <1>4, <2>1 DEF MustExpand, Consistent, Phase
  <2>3. QED
    BY <1>4, <2>2 DEF ExpandIfNeeded, Keeps, SameEntries
<1>5. QED
  BY <1>2, <1>3, <1>4
----------------------------------------------------------------------------
\* Facts about the rehash.

\* While entries are left in ht[0], there is a bucket for the scan to stop at.
LEMMA NextBucketExists ==
  ASSUME NEW dd, Consistent(dd), IsRehashing(dd), dd.ht[0].used # 0
  PROVE  /\ \E i \in 0 .. dd.ht[0].size - 1 : IsNextBucket(dd, i)
         /\ NextBucket(dd) \in 0 .. dd.ht[0].size - 1
         /\ IsNextBucket(dd, NextBucket(dd))
<1> DEFINE h == dd.ht[0]
           Full == {i \in 0 .. h.size - 1 : h.table[i] # {}}
<1>1. h.size \in Nat /\ GoodTable(h)
  BY TableNumbers DEF Consistent, GoodTable
<1>2. Full # {}
  <2>1. Entries(h) # {}
    BY <1>1, FS_EmptySet DEF GoodTable
  <2>2. PICK i \in 0 .. h.size - 1 : h.table[i] # {}
    BY <2>1 DEF Entries
  <2>3. QED
    BY <2>2
<1>3. Full \in SUBSET Nat
  BY <1>1
<1>4. PICK i \in Full : \A j \in Full : i <= j
  BY <1>2, <1>3, LeastNatural
<1>5. i \in 0 .. h.size - 1 /\ h.table[i] # {}
  OBVIOUS
<1>6. dd.rehashidx \in Nat
  BY DEF Consistent, IsDict, IsRehashing
<1>7. dd.rehashidx <= i
  BY <1>1, <1>5, <1>6 DEF Consistent, Phase
<1>8. ASSUME NEW j \in dd.rehashidx .. i - 1
      PROVE  h.table[j] = {}
  <2>1. j \in 0 .. h.size - 1 /\ j < i
    BY <1>1, <1>5, <1>6
  <2>2. j \notin Full
    BY <1>3, <1>4, <2>1
  <2>3. QED
    BY <2>1, <2>2
<1>9. IsNextBucket(dd, i)
  BY <1>1, <1>5, <1>6, <1>7, <1>8 DEF IsNextBucket
<1>10. QED
  BY <1>5, <1>9 DEF NextBucket

\* Moving the next bucket.
LEMMA MoveBucketKeeps ==
  ASSUME NEW dd, Consistent(dd), IsRehashing(dd),
         NEW i \in 0 .. dd.ht[0].size - 1, IsNextBucket(dd, i)
  PROVE  LET e == MoveBucket(dd, i)
             m == dd.ht[0].table[i]
         IN /\ Keeps(dd, e)
            /\ m \subseteq InTable(dd, 0)
            /\ InTable(e, 0) = InTable(dd, 0) \ m /\ InTable(e, 1) = InTable(dd, 1) \cup m
            /\ e.ht[0].size = dd.ht[0].size /\ e.ht[1].size = dd.ht[1].size
            /\ e.before = Pushed(dd, m)
<1> DEFINE e == MoveBucket(dd, i)
           m == dd.ht[0].table[i]
<1>1. /\ IsDict(dd) /\ GoodTable(dd.ht[0]) /\ GoodTable(dd.ht[1])
      /\ dd.ht[0].size \in Nat /\ dd.ht[1].size > 0 /\ dd.rehashidx \in Nat
  BY TableNumbers DEF Consistent, GoodTable, Phase, IsDict, IsRehashing
<1>2. /\ e.ht = [t \in {0, 1} |-> IF t = 0 THEN TakeBucket(dd.ht[0], i) ELSE LinkAll(dd.ht[1], m)]
      /\ e.before = Pushed(dd, m)
      /\ e.rehashidx = i + 1 /\ e.iterators = dd.iterators /\ e.val = dd.val
      /\ e = [ht |-> e.ht, rehashidx |-> e.rehashidx, iterators |-> e.iterators,
              before |-> e.before, val |-> e.val]
  <2> DEFINE H == [t \in {0, 1} |-> IF t = 0 THEN TakeBucket(dd.ht[0], i) ELSE LinkAll(dd.ht[1], m)]
             P == Pushed(dd, m)
  <2>1. e = [dd EXCEPT !.ht = H, !.before = P, !.rehashidx = i + 1]
    BY DEF MoveBucket
  <2>2. dd = [ht |-> dd.ht, rehashidx |-> dd.rehashidx, iterators |-> dd.iterators,
              before |-> dd.before, val |-> dd.val]
    BY <1>1 DEF IsDict
  <2> HIDE DEF H, P
  <2>3. e = [ht |-> H, rehashidx |-> i + 1, iterators |-> dd.iterators, before |-> P, val |-> dd.val]
    BY <2>1, <2>2
  <2>4. QED
    BY <2>3 DEF H, P
<1>3. e.ht[0] = TakeBucket(dd.ht[0], i) /\ e.ht[1] = LinkAll(dd.ht[1], m)
  BY <1>2
<1>4. /\ GoodTable(e.ht[0]) /\ InTable(e, 0) = InTable(dd, 0) \ m
      /\ e.ht[0].size = dd.ht[0].size /\ m \subseteq InTable(dd, 0)
  BY <1>1, <1>3, TakeBucketGood DEF InTable
<1>5. m \in SUBSET Keys /\ InTable(dd, 1) \subseteq Keys
  BY <1>1, <1>4, EntriesFinite DEF GoodTable, InTable
<1>6. m \cap Entries(dd.ht[1]) = {}
  BY <1>4 DEF Consistent, Disjoint, InTable
<1>7. /\ GoodTable(e.ht[1]) /\ InTable(e, 1) = InTable(dd, 1) \cup m
      /\ e.ht[1].size = dd.ht[1].size
  BY <1>1, <1>3, <1>5, <1>6, LinkAllGood DEF InTable
<1>8. e.before \subseteq Keys \X Keys
  <2>1. dd.before \subseteq Keys \X Keys
    BY <1>1 DEF IsDict
  <2>2. QED
    BY <1>2, <1>5, <2>1 DEF Pushed
<1>9. IsDict(e)
  <2>1. e = [ht |-> e.ht, rehashidx |-> e.rehashidx, iterators |-> e.iterators, before |-> e.before, val |-> e.val]
    BY <1>2
  <2>2. e.rehashidx \in Nat /\ e.iterators = dd.iterators /\ e.val = dd.val
    BY <1>1, <1>2
  <2>3. IsTable(e.ht[0]) /\ IsTable(e.ht[1]) /\ e.ht = [t \in {0, 1} |-> e.ht[t]]
    BY <1>1, <1>2, <1>4, <1>7 DEF GoodTable
  <2> HIDE DEF e
  <2>4. QED
    BY <1>1, <1>8, <2>1, <2>2, <2>3 DEF IsDict
<1>10. Phase(e)
  <2>1. \A j \in 0 .. dd.ht[0].size - 1 : j < i => dd.ht[0].table[j] = {}
    BY <1>1 DEF IsNextBucket, Consistent, Phase
  <2>2. \A j \in 0 .. dd.ht[0].size - 1 : e.ht[0].table[j] = IF j = i THEN {} ELSE dd.ht[0].table[j]
    BY <1>1, <1>3 DEF TakeBucket, GoodTable, IsTable
  <2>3. \A j \in 0 .. e.ht[0].size - 1 : j < e.rehashidx => e.ht[0].table[j] = {}
    BY <1>1, <1>2, <1>4, <2>1, <2>2
  <2>4. QED
    <3>1. e.rehashidx = i + 1 /\ e.ht[0].size = dd.ht[0].size
      BY <1>2, <1>4
    <3> HIDE DEF e
    <3>2. QED
      BY <1>1, <1>4, <1>7, <2>3, <3>1 DEF Phase, IsRehashing
<1>11. Disjoint(e)
  BY <1>4, <1>7 DEF Consistent, Disjoint
<1>12. Stored(e) = Stored(dd)
  BY <1>4, <1>7 DEF Stored
<1>13. QED
  BY <1>2, <1>4, <1>7, <1>9, <1>10, <1>11, <1>12 DEF Keeps, Consistent

\* ht[1] replaces an empty ht[0].
LEMMA FinishRehashKeeps ==
  ASSUME NEW dd, Consistent(dd), IsRehashing(dd), dd.ht[0].used = 0
  PROVE  LET e == FinishRehash(dd)
         IN /\ Keeps(dd, e)
            /\ InTable(dd, 0) = {}
            /\ InTable(e, 0) = InTable(dd, 1) /\ InTable(e, 1) = {}
            /\ e.ht[0].size = dd.ht[1].size
            /\ e.before = dd.before
<1> DEFINE e == FinishRehash(dd)
<1>1. /\ IsDict(dd) /\ GoodTable(dd.ht[0]) /\ GoodTable(dd.ht[1])
      /\ dd.ht[1].size \in Nat /\ dd.ht[1].size > 0
  BY TableNumbers DEF Consistent, GoodTable, Phase
<1>2. /\ e.ht = [t \in {0, 1} |-> IF t = 0 THEN dd.ht[1] ELSE NoTable]
      /\ e.before = dd.before
      /\ e.rehashidx = -1 /\ e.iterators = dd.iterators /\ e.val = dd.val
      /\ e = [ht |-> e.ht, rehashidx |-> e.rehashidx, iterators |-> e.iterators,
              before |-> e.before, val |-> e.val]
  <2> DEFINE H == [t \in {0, 1} |-> IF t = 0 THEN dd.ht[1] ELSE NoTable]
  <2>1. e = [dd EXCEPT !.ht = H, !.rehashidx = -1]
    BY DEF FinishRehash
  <2>2. dd = [ht |-> dd.ht, rehashidx |-> dd.rehashidx, iterators |-> dd.iterators,
              before |-> dd.before, val |-> dd.val]
    BY <1>1 DEF IsDict
  <2> HIDE DEF H
  <2>3. e = [ht |-> H, rehashidx |-> -1, iterators |-> dd.iterators, before |-> dd.before, val |-> dd.val]
    BY <2>1, <2>2
  <2>4. QED
    BY <2>3 DEF H
<1>3. e.ht[0] = dd.ht[1] /\ e.ht[1] = NoTable
  BY <1>2
<1>4. GoodTable(NoTable) /\ Entries(NoTable) = {} /\ NoTable.size = 0
  BY NoTableGood DEF NoTable
<1>5. InTable(dd, 0) = {}
  BY <1>1, EntriesFinite, FS_EmptySet DEF GoodTable, InTable
<1>6. InTable(e, 0) = InTable(dd, 1) /\ InTable(e, 1) = {}
  BY <1>3, <1>4 DEF InTable
<1>7. IsDict(e)
  BY <1>1, <1>2, <1>3, <1>4 DEF IsDict, GoodTable
<1>8. Phase(e)
  BY <1>1, <1>2, <1>3, <1>4 DEF Phase, IsRehashing
<1>9. QED
  BY <1>1, <1>2, <1>3, <1>4, <1>5, <1>6, <1>7, <1>8 DEF Keeps, Consistent, Disjoint, Stored

LEMMA RehashOneKeeps ==
  ASSUME NEW dd, Consistent(dd)
  PROVE  Keeps(dd, RehashOne(dd))
<1>1. CASE ~IsRehashing(dd)
  BY <1>1 DEF RehashOne, Keeps
<1>2. CASE IsRehashing(dd) /\ dd.ht[0].used = 0
  BY <1>2, FinishRehashKeeps DEF RehashOne
<1>3. CASE IsRehashing(dd) /\ dd.ht[0].used # 0
  BY <1>3, NextBucketExists, MoveBucketKeeps DEF RehashOne
<1>4. QED
  BY <1>1, <1>2, <1>3

LEMMA RehashStepKeeps ==
  ASSUME NEW dd, Consistent(dd)
  PROVE  Keeps(dd, RehashStep(dd))
BY RehashOneKeeps DEF RehashStep, Keeps
\* f holds the dict after each of the first n turns of the loop of dictRehash.
TurnsAre(f, dd, n) == f = [i \in 0 .. n |-> IF i = 0 THEN dd ELSE RehashOne(f[i - 1])]

LEMMA TurnsExist ==
  ASSUME NEW dd, NEW n \in Nat
  PROVE  \E f : TurnsAre(f, dd, n)
<1> DEFINE Without == {m \in Nat : ~ \E f : TurnsAre(f, dd, m)}
<1>1. SUFFICES ASSUME Without # {}
               PROVE  FALSE
  OBVIOUS
<1>2. PICK m \in Without : \A k \in Without : m <= k
  <2>1. Without \in SUBSET Nat
    OBVIOUS
  <2>2. QED
    BY <1>1, <2>1, LeastNatural
<1>3. m \in Nat /\ ~ \E f : TurnsAre(f, dd, m)
  OBVIOUS
<1>4. CASE m = 0
  <2> DEFINE f == [i \in 0 .. 0 |-> dd]
  <2>1. f = [i \in 0 .. 0 |-> IF i = 0 THEN dd ELSE RehashOne(f[i - 1])]
    OBVIOUS
  <2>2. QED
    BY <1>3, <1>4, <2>1 DEF TurnsAre
<1>5. CASE m # 0
  <2>1. m - 1 \in Nat /\ m - 1 \notin Without
    BY <1>2, <1>3, <1>5
  <2>2. PICK g : TurnsAre(g, dd, m - 1)
    BY <2>1
  <2> DEFINE f == [i \in 0 .. m |-> IF i = m THEN RehashOne(g[m - 1]) ELSE g[i]]
  <2>3. g = [i \in 0 .. m - 1 |-> IF i = 0 THEN dd ELSE RehashOne(g[i - 1])]
    BY <2>2 DEF TurnsAre
  <2>4. ASSUME NEW i \in 0 .. m
        PROVE  f[i] = IF i = 0 THEN dd ELSE RehashOne(f[i - 1])
    <3>1. CASE i = m
      <4>1. f[i] = RehashOne(g[m - 1]) /\ f[m - 1] = g[m - 1]
        BY <1>3, <1>5, <3>1
      <4>2. QED
        BY <1>5, <3>1, <4>1
    <3>2. CASE i # m
      <4>1. i \in 0 .. m - 1
        BY <1>3, <3>2
      <4>2. f[i] = g[i] /\ g[i] = IF i = 0 THEN dd ELSE RehashOne(g[i - 1])
        BY <2>3, <3>2, <4>1
      <4>3. i # 0 => f[i - 1] = g[i - 1]
        BY <1>3, <4>1
      <4>4. QED
        BY <4>2, <4>3
    <3>3. QED
      BY <3>1, <3>2
  <2> HIDE DEF f
  <2>5. f = [i \in 0 .. m |-> f[i]]
    BY DEF f
  <2>6. f = [i \in 0 .. m |-> IF i = 0 THEN dd ELSE RehashOne(f[i - 1])]
    BY <2>4, <2>5
  <2>7. QED
    BY <1>3, <2>6 DEF TurnsAre
<1>6. QED
  BY <1>4, <1>5

\* dictRehash keeps the dict, however many turns it takes.
LEMMA RehashKeeps ==
  ASSUME NEW dd, Consistent(dd), NEW n \in Nat
  PROVE  Keeps(dd, Rehash(dd, n))
<1> DEFINE after == CHOOSE f : TurnsAre(f, dd, n)
           Wrong == {i \in 0 .. n : ~Keeps(dd, after[i])}
<1>1. Rehash(dd, n) = after[n]
  BY DEF Rehash, TurnsAre
<1>2. TurnsAre(after, dd, n)
  BY TurnsExist
<1> HIDE DEF after
<1>3. \A i \in 0 .. n : after[i] = IF i = 0 THEN dd ELSE RehashOne(after[i - 1])
  BY <1>2 DEF TurnsAre
<1>4. Wrong = {}
  <2>1. SUFFICES ASSUME Wrong # {}
                 PROVE  FALSE
    OBVIOUS
  <2>2. Wrong \in SUBSET Nat
    OBVIOUS
  <2>3. PICK m \in Wrong : \A k \in Wrong : m <= k
    BY <2>1, <2>2, LeastNatural
  <2>4. m \in 0 .. n /\ ~Keeps(dd, after[m])
    OBVIOUS
  <2>5. CASE m = 0
    <3>1. after[m] = dd
      BY <1>3, <2>4, <2>5
    <3>2. QED
      BY <2>4, <3>1 DEF Keeps
  <2>6. CASE m # 0
    <3>1. m - 1 \in 0 .. n /\ m - 1 \notin Wrong
      BY <2>3, <2>4, <2>6
    <3>2. Keeps(dd, after[m - 1])
      BY <3>1
    <3>3. after[m] = RehashOne(after[m - 1])
      BY <1>3, <2>4, <2>6
    <3>4. Keeps(after[m - 1], after[m])
      BY <3>2, <3>3, RehashOneKeeps DEF Keeps
    <3>5. QED
      BY <2>4, <3>2, <3>4 DEF Keeps
  <2>7. QED
    BY <2>5, <2>6
<1>5. QED
  BY <1>1, <1>4
----------------------------------------------------------------------------
\* Facts about insertion and removal.

\* k has become the first entry of its chain in table t; and k has been unlinked.
Linked(dd, e, t, k) ==
  LET h == dd.ht[t]
  IN /\ h.size > 0
     /\ InTable(e, t) = InTable(dd, t) \cup {k} /\ InTable(e, 1 - t) = InTable(dd, 1 - t)
     /\ \A u \in {0, 1} : e.ht[u].size = dd.ht[u].size
     /\ e.before = dd.before \cup ({k} \X h.table[Slot(k, h.size)])
     /\ e.iterators = dd.iterators

Unlinked(dd, e, k) ==
  /\ \A u \in {0, 1} : InTable(e, u) = InTable(dd, u) \ {k} /\ e.ht[u].size = dd.ht[u].size
  /\ e.before = {p \in dd.before : k \notin {p[1], p[2]}}
  /\ e.iterators = dd.iterators

\* Linking a new entry into the table that new entries go to.
LEMMA InsertAdds ==
  ASSUME NEW dd, Consistent(dd), dd.ht[0].size > 0,
         NEW k \in Keys, NEW v \in Vals, k \notin Stored(dd)
  PROVE  /\ Consistent(Insert(dd, k, v))
         /\ Stored(Insert(dd, k, v)) = Stored(dd) \cup {k}
         /\ Insert(dd, k, v).val = [dd.val EXCEPT ![k] = v]
         /\ \E t \in {0, 1} : Linked(dd, Insert(dd, k, v), t, k)
<1> DEFINE t == Target(dd)
           u == 1 - t
           h == dd.ht[t]
           e == Insert(dd, k, v)
<1>1. /\ IsDict(dd) /\ GoodTable(dd.ht[0]) /\ GoodTable(dd.ht[1])
      /\ dd.ht[1].size \in Nat /\ t \in {0, 1} /\ u \in {0, 1} /\ u # t
  BY TableNumbers DEF Consistent, GoodTable, Target
<1>2. h.size > 0 /\ GoodTable(h) /\ k \notin Entries(h)
  BY <1>1 DEF Consistent, Phase, Target, Stored, InTable
<1>3. /\ e.ht = [dd.ht EXCEPT ![t] = LinkIn(h, k)]
      /\ e.before = dd.before \cup ({k} \X h.table[Slot(k, h.size)])
      /\ e.rehashidx = dd.rehashidx /\ e.iterators = dd.iterators
      /\ e.val = [dd.val EXCEPT ![k] = v]
      /\ e = [ht |-> e.ht, rehashidx |-> e.rehashidx, iterators |-> e.iterators,
              before |-> e.before, val |-> e.val]
  <2> DEFINE H == [dd.ht EXCEPT ![t] = LinkIn(h, k)]
             P == dd.before \cup ({k} \X h.table[Slot(k, h.size)])
             V == [dd.val EXCEPT ![k] = v]
  <2>1. e = [dd EXCEPT !.ht = H, !.before = P, !.val = V]
    BY DEF Insert
  <2>2. dd = [ht |-> dd.ht, rehashidx |-> dd.rehashidx, iterators |-> dd.iterators,
              before |-> dd.before, val |-> dd.val]
    BY <1>1 DEF IsDict
  <2> HIDE DEF H, P, V
  <2>3. e = [ht |-> H, rehashidx |-> dd.rehashidx, iterators |-> dd.iterators, before |-> P, val |-> V]
    BY <2>1, <2>2
  <2>4. QED
    BY <2>3 DEF H, P, V
<1>4. /\ e.ht[t] = LinkIn(h, k) /\ e.ht[u] = dd.ht[u]
      /\ e.ht = [x \in {0, 1} |-> e.ht[x]]
  BY <1>1, <1>3 DEF IsDict
<1> HIDE DEF e, t, u, h
<1>5. /\ GoodTable(e.ht[t]) /\ InTable(e, t) = InTable(dd, t) \cup {k}
      /\ e.ht[t].size = dd.ht[t].size
  BY <1>2, <1>4, LinkInGood DEF InTable, h
<1>6. GoodTable(e.ht[u]) /\ InTable(e, u) = InTable(dd, u)
  BY <1>1, <1>4 DEF InTable
<1>7. GoodTable(e.ht[0]) /\ GoodTable(e.ht[1])
  BY <1>1, <1>5, <1>6
<1>8. e.before \subseteq Keys \X Keys
  <2>1. Slot(k, h.size) \in 0 .. h.size - 1
    BY <1>2, SlotInTable, TableNumbers DEF GoodTable
  <2>2. h.table[Slot(k, h.size)] \subseteq Keys
    BY <1>2, <2>1 DEF GoodTable, IsTable
  <2>3. dd.before \subseteq Keys \X Keys
    BY <1>1 DEF IsDict
  <2>4. QED
    BY <1>3, <2>2, <2>3
<1>9. IsDict(e)
  <2>1. e.val \in [Keys -> Vals \cup {NULL}]
    BY <1>1, <1>3 DEF IsDict
  <2>2. QED
    BY <1>1, <1>3, <1>4, <1>7, <1>8, <2>1 DEF IsDict, GoodTable
<1>10. Phase(e)
  <2>1. e.ht[0].size = dd.ht[0].size /\ e.ht[1].size = dd.ht[1].size
    BY <1>1, <1>4, <1>5
  <2>2. CASE IsRehashing(dd)
    <3>1. e.ht[0] = dd.ht[0]
      BY <1>4, <2>2 DEF t, u, Target
    <3>2. QED
      BY <1>3, <2>1, <3>1 DEF Consistent, Phase, IsRehashing
  <2>3. CASE ~IsRehashing(dd)
    <3>1. e.rehashidx = -1
      BY <1>3, <2>3 DEF IsRehashing
    <3>2. dd.ht[1].size = 0
      BY <1>1, <2>3 DEF Consistent, Phase
    <3>3. QED
      BY <2>1, <3>1, <3>2 DEF Phase, IsRehashing
  <2>4. QED
    BY <2>2, <2>3
<1>11. Disjoint(e)
  BY <1>1, <1>5, <1>6 DEF Consistent, Disjoint, Stored
<1>12. Stored(e) = Stored(dd) \cup {k}
  BY <1>1, <1>5, <1>6 DEF Stored
<1>13. Linked(dd, e, t, k)
  <2>1. u = 1 - t /\ t = 1 - u
    BY <1>1 DEF u
  <2>2. \A x \in {0, 1} : e.ht[x].size = dd.ht[x].size
    BY <1>1, <1>4, <1>5
  <2>3. QED
    BY <1>2, <1>3, <1>5, <1>6, <2>1, <2>2 DEF Linked, h
<1>14. QED
  BY <1>1, <1>3, <1>7, <1>9, <1>10, <1>11, <1>12, <1>13 DEF Consistent, e

\* Unlinking an entry from the table it is in.
LEMMA UnlinkRemoves ==
  ASSUME NEW dd, Consistent(dd), NEW k \in Stored(dd)
  PROVE  /\ Consistent(Unlink(dd, k))
         /\ Stored(Unlink(dd, k)) = Stored(dd) \ {k}
         /\ Unlink(dd, k).val = [dd.val EXCEPT ![k] = NULL]
         /\ Unlinked(dd, Unlink(dd, k), k)
<1> DEFINE t == TableOf(dd, k)
           u == 1 - t
           h == dd.ht[t]
           e == Unlink(dd, k)
<1>0. k \in Keys
  BY StoredAreKeys
<1>1. /\ IsDict(dd) /\ GoodTable(dd.ht[0]) /\ GoodTable(dd.ht[1])
      /\ t \in {0, 1} /\ u \in {0, 1} /\ u # t
  BY DEF Consistent, TableOf
<1>2. GoodTable(h) /\ k \in Entries(h)
  BY <1>0, <1>1, FindFindsStored DEF InTable
<1>3. /\ e.ht = [dd.ht EXCEPT ![t] = UnlinkIn(h, k)]
      /\ e.before = {p \in dd.before : k \notin {p[1], p[2]}}
      /\ e.rehashidx = dd.rehashidx /\ e.iterators = dd.iterators
      /\ e.val = [dd.val EXCEPT ![k] = NULL]
      /\ e = [ht |-> e.ht, rehashidx |-> e.rehashidx, iterators |-> e.iterators,
              before |-> e.before, val |-> e.val]
  <2> DEFINE H == [dd.ht EXCEPT ![t] = UnlinkIn(h, k)]
             P == {p \in dd.before : k \notin {p[1], p[2]}}
             V == [dd.val EXCEPT ![k] = NULL]
  <2>1. e = [dd EXCEPT !.ht = H, !.before = P, !.val = V]
    BY DEF Unlink
  <2>2. dd = [ht |-> dd.ht, rehashidx |-> dd.rehashidx, iterators |-> dd.iterators,
              before |-> dd.before, val |-> dd.val]
    BY <1>1 DEF IsDict
  <2> HIDE DEF H, P, V
  <2>3. e = [ht |-> H, rehashidx |-> dd.rehashidx, iterators |-> dd.iterators, before |-> P, val |-> V]
    BY <2>1, <2>2
  <2>4. QED
    BY <2>3 DEF H, P, V
<1>4. /\ e.ht[t] = UnlinkIn(h, k) /\ e.ht[u] = dd.ht[u]
      /\ e.ht = [x \in {0, 1} |-> e.ht[x]]
  BY <1>1, <1>3 DEF IsDict
<1> HIDE DEF e, t, u, h
<1>5. /\ GoodTable(e.ht[t]) /\ InTable(e, t) = InTable(dd, t) \ {k}
      /\ e.ht[t].size = dd.ht[t].size
  BY <1>2, <1>4, UnlinkInGood DEF InTable, h
<1>6. GoodTable(e.ht[u]) /\ InTable(e, u) = InTable(dd, u)
  BY <1>1, <1>4 DEF InTable
<1>7. GoodTable(e.ht[0]) /\ GoodTable(e.ht[1])
  BY <1>1, <1>5, <1>6
<1>8. e.before \subseteq Keys \X Keys
  BY <1>1, <1>3 DEF IsDict
<1>9. IsDict(e)
  <2>1. e.val \in [Keys -> Vals \cup {NULL}]
    BY <1>1, <1>3 DEF IsDict
  <2>2. QED
    BY <1>1, <1>3, <1>4, <1>7, <1>8, <2>1 DEF IsDict, GoodTable
<1>10. Phase(e)
  <2>1. e.ht[0].size = dd.ht[0].size /\ e.ht[1].size = dd.ht[1].size
    BY <1>1, <1>4, <1>5
  <2>2. \A i \in 0 .. dd.ht[0].size - 1 : e.ht[0].table[i] \subseteq dd.ht[0].table[i]
    <3>1. CASE t = 1
      BY <1>1, <1>4, <3>1
    <3>2. CASE t = 0
      <4>1. e.ht[0] = UnlinkIn(dd.ht[0], k)
        BY <1>4, <3>2 DEF h
      <4>2. QED
        BY <1>1, <4>1 DEF UnlinkIn, GoodTable, IsTable
    <3>3. QED
      BY <1>1, <3>1, <3>2
  <2>3. QED
    BY <1>3, <2>1, <2>2 DEF Consistent, Phase, IsRehashing
<1>11. Disjoint(e)
  BY <1>1, <1>5, <1>6 DEF Consistent, Disjoint
<1>12. Stored(e) = Stored(dd) \ {k}
  <2>1. k \notin InTable(dd, u)
    BY <1>1, <1>2 DEF Consistent, Disjoint, InTable, h
  <2>2. QED
    BY <1>1, <1>5, <1>6, <2>1 DEF Stored
<1>13. Unlinked(dd, e, k)
  <2>1. k \notin InTable(dd, u)
    BY <1>1, <1>2 DEF Consistent, Disjoint, InTable, h
  <2>2. \A x \in {0, 1} : InTable(e, x) = InTable(dd, x) \ {k} /\ e.ht[x].size = dd.ht[x].size
    BY <1>1, <1>4, <1>5, <1>6, <2>1
  <2>3. QED
    BY <1>3, <2>2 DEF Unlinked
<1>14. QED
  BY <1>3, <1>7, <1>9, <1>10, <1>11, <1>12, <1>13 DEF Consistent, e

LEMMA SetValSets ==
  ASSUME NEW dd, Consistent(dd), NEW k \in Keys, NEW v \in Vals
  PROVE  /\ Consistent(SetVal(dd, k, v))
         /\ Stored(SetVal(dd, k, v)) = Stored(dd)
         /\ SetVal(dd, k, v).val = [dd.val EXCEPT ![k] = v]
         /\ SetVal(dd, k, v).iterators = dd.iterators
         /\ SameEntries(dd, SetVal(dd, k, v))
<1> DEFINE e == SetVal(dd, k, v)
<1>1. IsDict(dd)
  BY DEF Consistent
<1>2. /\ e.ht = dd.ht /\ e.before = dd.before /\ e.rehashidx = dd.rehashidx
      /\ e.iterators = dd.iterators /\ e.val = [dd.val EXCEPT ![k] = v]
      /\ e = [ht |-> e.ht, rehashidx |-> e.rehashidx, iterators |-> e.iterators,
              before |-> e.before, val |-> e.val]
  BY <1>1 DEF SetVal, IsDict
<1> HIDE DEF e
<1>3. IsDict(e)
  BY <1>1, <1>2 DEF IsDict
<1>4. Stored(e) = Stored(dd) /\ Disjoint(e) /\ Phase(e)
  BY <1>2 DEF Consistent, Stored, InTable, Disjoint, Phase, IsRehashing
<1>5. SameEntries(dd, e)
  BY <1>2 DEF SameEntries, InTable
<1>6. QED
  BY <1>2, <1>3, <1>4, <1>5 DEF Consistent, e

LEMMA BeforeSearchKeeps ==
  ASSUME NEW dd, Consistent(dd)
  PROVE  Keeps(dd, BeforeSearch(dd))
BY RehashStepKeeps DEF BeforeSearch, Keeps

\* What dictAddRaw does: it fails for a key that is stored and for no other.
LEMMA AddRawAdds ==
  ASSUME NEW dd, Consistent(dd), NEW k \in Keys, NEW v \in Vals
  PROVE  /\ Addable(dd, k) <=> k \notin Stored(dd)
         /\ Keeps(dd, PrepareAdd(dd))
         /\ ~Addable(dd, k) => AddRaw(dd, k, v) = PrepareAdd(dd)
         /\ Addable(dd, k) =>
              /\ Consistent(AddRaw(dd, k, v))
              /\ Stored(AddRaw(dd, k, v)) = Stored(dd) \cup {k}
              /\ AddRaw(dd, k, v).val = [dd.val EXCEPT ![k] = v]
              /\ \E t \in {0, 1} : Linked(PrepareAdd(dd), AddRaw(dd, k, v), t, k)
<1> DEFINE d1 == RehashStep(dd)
           d2 == ExpandIfNeeded(d1)
<1>1. Keeps(dd, d1) /\ Consistent(d1)
  BY RehashStepKeeps DEF Keeps
<1>2. MustExpand(d1) => CanExpand(d1, GrowTo(d1))
  <2>1. d1.ht[0].used \in Nat /\ InitialSize \in Nat
    BY <1>1, TableNumbers, SizesAssumption DEF Consistent, GoodTable
  <2>2. d1.ht[0].size = 0 => d1.ht[0].used = 0
    <3>1. d1.ht[0].size = 0 => Entries(d1.ht[0]) = {}
      BY DEF Entries
    <3>2. QED
      BY <1>1, <3>1, FS_EmptySet DEF Consistent, GoodTable
  <2>3. d1.ht[0].used <= GrowTo(d1)
    BY <2>1, <2>2 DEF GrowTo
  <2>4. QED
    BY <2>3 DEF MustExpand, CanExpand
<1>3. Keeps(d1, d2) /\ d2.ht[0].size > 0
  BY <1>1, <1>2, ExpandIfNeededKeeps
<1>4. Keeps(dd, d2) /\ Consistent(d2) /\ d2 = PrepareAdd(dd)
  BY <1>1, <1>3 DEF Keeps, PrepareAdd
<1> HIDE DEF d2
<1>5. Addable(dd, k) <=> k \notin Stored(dd)
  <2>1. Find(d2, k) <=> k \in Stored(dd)
    BY <1>4, FindFindsStored DEF Keeps
  <2>2. QED
    BY <1>2, <2>1 DEF Addable, d2
<1>6. ASSUME Addable(dd, k)
      PROVE  /\ Consistent(AddRaw(dd, k, v))
             /\ Stored(AddRaw(dd, k, v)) = Stored(dd) \cup {k}
             /\ AddRaw(dd, k, v).val = [dd.val EXCEPT ![k] = v]
             /\ \E t \in {0, 1} : Linked(PrepareAdd(dd), AddRaw(dd, k, v), t, k)
  <2>1. AddRaw(dd, k, v) = Insert(d2, k, v)
    BY <1>4, <1>6 DEF AddRaw
  <2>2. k \notin Stored(d2) /\ Stored(d2) = Stored(dd) /\ d2.val = dd.val
    BY <1>4, <1>5, <1>6 DEF Keeps
  <2>3. QED
    BY <1>3, <1>4, <2>1, <2>2, InsertAdds
<1>7. QED
  BY <1>4, <1>5, <1>6 DEF AddRaw
----------------------------------------------------------------------------
\* The calls.

\* The entries that are linked are those that have a value.
ValuesStored == \A k \in Keys : d.val[k] # NULL <=> k \in Stored(d)

IInv == Consistency /\ ValuesStored

\* What is to be shown of a step: it keeps the invariant and is a step of the map.
Good == IInv' /\ [Map!Next]_(Map!mapVars)

\* The three ways a call changes the dict.
LEMMA Unchanged ==
  ASSUME IInv, Keeps(d, d')
  PROVE  IInv' /\ d'.val = d.val
BY DEF IInv, Keeps, Consistency, ValuesStored

LEMMA Added ==
  ASSUME IInv, NEW k \in Keys, NEW v \in Vals, Consistent(d'),
         Stored(d') = Stored(d) \cup {k}, d'.val = [d.val EXCEPT ![k] = v]
  PROVE  IInv'
<1>1. v # NULL
  BY KeysAssumption
<1>2. d.val \in [Keys -> Vals \cup {NULL}]
  BY DEF IInv, Consistency, Consistent, IsDict
<1>3. QED
  BY <1>1, <1>2 DEF IInv, Consistency, ValuesStored

LEMMA Removed ==
  ASSUME IInv, NEW k \in Keys, Consistent(d'),
         Stored(d') = Stored(d) \ {k}, d'.val = [d.val EXCEPT ![k] = NULL]
  PROVE  IInv'
<1>1. d.val \in [Keys -> Vals \cup {NULL}]
  BY DEF IInv, Consistency, Consistent, IsDict
<1>2. QED
  BY <1>1 DEF IInv, Consistency, ValuesStored

\* The keys of the map are the stored ones.
LEMMA PresentIsStored ==
  ASSUME IInv
  PROVE  Map!Present = Stored(d) /\ \A k \in Keys : k \in Map!Present <=> k \in Stored(d)
<1>1. Stored(d) \subseteq Keys
  BY StoredAreKeys DEF IInv, Consistency
<1>2. QED
  BY <1>1 DEF IInv, ValuesStored, Map!Present

LEMMA AddGood ==
  ASSUME IInv, NEW k \in Keys, NEW v \in Vals, DictAdd(k, v)
  PROVE  Good
<1>1. Consistent(d)
  BY DEF IInv, Consistency
<1>2. CASE Addable(d, k)
  <2>1. /\ Consistent(d') /\ Stored(d') = Stored(d) \cup {k} /\ k \notin Stored(d)
        /\ d'.val = [d.val EXCEPT ![k] = v] /\ ret' = <<"add", k, v, 0>>
    BY <1>1, <1>2, AddRawAdds DEF DictAdd, DICT_OK
  <2>2. IInv'
    BY <2>1, Added
  <2>3. Map!Add(k, v)
    BY <2>1, PresentIsStored DEF Map!Add
  <2>4. QED
    BY <2>2, <2>3 DEF Good, Map!Next
<1>3. CASE ~Addable(d, k)
  <2>1. Keeps(d, d') /\ k \in Stored(d) /\ ret' = <<"add", k, v, 1>>
    BY <1>1, <1>3, AddRawAdds DEF DictAdd, DICT_ERR
  <2>2. IInv' /\ d'.val = d.val
    BY <2>1, Unchanged
  <2>3. Map!Add(k, v)
    BY <2>1, <2>2, PresentIsStored DEF Map!Add
  <2>4. QED
    BY <2>2, <2>3 DEF Good, Map!Next
<1>4. QED
  BY <1>2, <1>3

LEMMA ReplaceGood ==
  ASSUME IInv, NEW k \in Keys, NEW v \in Vals, DictReplace(k, v)
  PROVE  Good
<1>1. Consistent(d)
  BY DEF IInv, Consistency
<1>2. CASE Addable(d, k)
  <2>1. /\ Consistent(d') /\ Stored(d') = Stored(d) \cup {k} /\ k \notin Stored(d)
        /\ d'.val = [d.val EXCEPT ![k] = v] /\ ret' = <<"replace", k, v, 1>>
    BY <1>1, <1>2, AddRawAdds DEF DictReplace
  <2>2. IInv'
    BY <2>1, Added
  <2>3. Map!Replace(k, v)
    BY <2>1, PresentIsStored DEF Map!Replace
  <2>4. QED
    BY <2>2, <2>3 DEF Good, Map!Next
<1>3. CASE ~Addable(d, k)
  <2> DEFINE d1 == PrepareAdd(d)
             d2 == BeforeSearch(d1)
  <2>1. Keeps(d, d1) /\ k \in Stored(d)
    BY <1>1, <1>3, AddRawAdds
  <2>2. Keeps(d, d2) /\ Consistent(d2)
    BY <2>1, BeforeSearchKeeps DEF Keeps
  <2>3. d' = SetVal(d2, k, v) /\ ret' = <<"replace", k, v, 0>>
    BY <1>3 DEF DictReplace
  <2>4. Consistent(d') /\ Stored(d') = Stored(d) \cup {k} /\ d'.val = [d.val EXCEPT ![k] = v]
    BY <2>1, <2>2, <2>3, SetValSets DEF Keeps
  <2>5. IInv'
    BY <2>4, Added
  <2>6. Map!Replace(k, v)
    BY <2>1, <2>3, <2>4, PresentIsStored DEF Map!Replace
  <2>7. QED
    BY <2>5, <2>6 DEF Good, Map!Next
<1>4. QED
  BY <1>2, <1>3

LEMMA ReplaceRawGood ==
  ASSUME IInv, NEW k \in Keys, NEW v \in Vals, DictReplaceRaw(k, v)
  PROVE  Good
<1> DEFINE d1 == BeforeSearch(d)
<1>1. Keeps(d, d1) /\ Consistent(d1)
  BY BeforeSearchKeeps DEF Keeps, IInv, Consistency
<1>2. Found(d1, k) <=> k \in Stored(d)
  BY <1>1, FindFindsStored DEF Keeps
<1>3. d' = IF Found(d1, k) THEN SetVal(d1, k, v) ELSE AddRaw(d1, k, v)
  BY DEF DictReplaceRaw
<1> HIDE DEF d1
<1>4. Consistent(d') /\ Stored(d') = Stored(d) \cup {k} /\ d'.val = [d.val EXCEPT ![k] = v]
  <2>1. CASE k \in Stored(d)
    BY <1>1, <1>2, <1>3, <2>1, SetValSets DEF Keeps
  <2>2. CASE k \notin Stored(d)
    BY <1>1, <1>2, <1>3, <2>2, AddRawAdds DEF Keeps
  <2>3. QED
    BY <2>1, <2>2
<1>5. Map!Upsert(k, v)
  BY <1>4 DEF DictReplaceRaw, Map!Upsert
<1>6. QED
  BY <1>4, <1>5, Added DEF Good, Map!Next

LEMMA DeleteGood ==
  ASSUME IInv, NEW k \in Keys, DictDelete(k)
  PROVE  Good
<1> DEFINE d1 == BeforeSearch(d)
<1>1. Keeps(d, d1) /\ Consistent(d1)
  BY BeforeSearchKeeps DEF Keeps, IInv, Consistency
<1>2. Found(d1, k) <=> k \in Stored(d)
  BY <1>1, FindFindsStored DEF Keeps
<1>3. /\ d' = IF Found(d1, k) THEN Unlink(d1, k) ELSE d1
      /\ ret' = <<"delete", k, IF Found(d1, k) THEN 0 ELSE 1>>
  BY DEF DictDelete, DICT_OK, DICT_ERR
<1> HIDE DEF d1
<1>4. CASE k \in Stored(d)
  <2>1. Consistent(d') /\ Stored(d') = Stored(d) \ {k} /\ d'.val = [d.val EXCEPT ![k] = NULL]
    BY <1>1, <1>2, <1>3, <1>4, UnlinkRemoves DEF Keeps
  <2>2. Map!Delete(k)
    BY <1>2, <1>3, <1>4, <2>1, PresentIsStored DEF Map!Delete
  <2>3. QED
    BY <2>1, <2>2, Removed DEF Good, Map!Next
<1>5. CASE k \notin Stored(d)
  <2>1. d' = d1 /\ ret' = <<"delete", k, 1>>
    BY <1>2, <1>3, <1>5
  <2>2. IInv' /\ d'.val = d.val
    BY <1>1, <2>1, Unchanged
  <2>3. d.val \in [Keys -> Vals \cup {NULL}] /\ d.val[k] = NULL
    BY <1>5 DEF IInv, Consistency, Consistent, IsDict, ValuesStored
  <2>4. d'.val = [d.val EXCEPT ![k] = NULL]
    BY <2>2, <2>3
  <2>5. Map!Delete(k)
    BY <1>5, <2>1, <2>4, PresentIsStored DEF Map!Delete
  <2>6. QED
    BY <2>2, <2>5 DEF Good, Map!Next
<1>6. QED
  BY <1>4, <1>5

LEMMA FetchGood ==
  ASSUME IInv, NEW k \in Keys, DictFetchValue(k)
  PROVE  Good
<1> DEFINE d1 == BeforeSearch(d)
<1>1. Keeps(d, d1) /\ Consistent(d1) /\ d' = d1
  BY BeforeSearchKeeps DEF Keeps, IInv, Consistency, DictFetchValue
<1>2. Found(d1, k) <=> d.val[k] # NULL
  BY <1>1, FindFindsStored DEF Keeps, IInv, ValuesStored
<1>3. ret' = <<"fetch", k, d.val[k]>>
  BY <1>1, <1>2 DEF DictFetchValue, Keeps
<1>4. IInv' /\ d'.val = d.val
  BY <1>1, Unchanged
<1>5. Map!Fetch(k)
  BY <1>3, <1>4 DEF Map!Fetch
<1>6. QED
  BY <1>4, <1>5 DEF Good, Map!Next
LEMMA RandomKeyGood ==
  ASSUME IInv, DictGetRandomKey
  PROVE  Good
<1> DEFINE d1 == RehashStep(d)
<1>1. Consistent(d) /\ Keeps(d, d1)
  BY RehashStepKeeps DEF IInv, Consistency
<1>2. CASE Size(d) = 0 /\ d' = d /\ ret' = <<"random", NULL>>
  <2>1. /\ d.ht[0].used = Cardinality(InTable(d, 0)) /\ d.ht[1].used = Cardinality(InTable(d, 1))
        /\ d.ht[0].used \in Nat /\ d.ht[1].used \in Nat
        /\ IsFiniteSet(InTable(d, 0)) /\ IsFiniteSet(InTable(d, 1))
    BY <1>1, TableNumbers, EntriesFinite DEF Consistent, GoodTable, InTable
  <2>2. InTable(d, 0) = {} /\ InTable(d, 1) = {}
    BY <1>2, <2>1, FS_EmptySet DEF Size
  <2>3. Map!Present = {}
    BY <2>2, PresentIsStored DEF Stored
  <2>4. Map!RandomKey
    BY <1>2, <2>3 DEF Map!RandomKey
  <2>5. IInv'
    BY <1>2 DEF IInv, Consistency, ValuesStored
  <2>6. QED
    BY <2>4, <2>5 DEF Good, Map!Next
<1>3. CASE d' = d1 /\ \E k \in Candidates(d1) : ret' = <<"random", k>>
  <2>1. IInv' /\ d'.val = d.val
    BY <1>1, <1>3, Unchanged
  <2>2. Candidates(d1) \subseteq Stored(d)
    BY <1>1 DEF Candidates, TablesSearched, Keeps, Stored
  <2>3. Map!RandomKey
    BY <1>3, <2>1, <2>2, PresentIsStored DEF Map!RandomKey
  <2>4. QED
    BY <2>1, <2>3 DEF Good, Map!Next
<1>4. QED
  BY <1>2, <1>3 DEF DictGetRandomKey

\* A call that keeps the dict and returns a status.
LEMMA ReportGood ==
  ASSUME IInv, Keeps(d, d'), \E s \in {0, 1} : ret' = <<"report", s>>
  PROVE  Good
<1>1. IInv' /\ d'.val = d.val
  BY Unchanged
<1>2. Map!Report
  BY <1>1 DEF Map!Report
<1>3. QED
  BY <1>1, <1>2 DEF Good, Map!Next

LEMMA MaintainGood ==
  ASSUME IInv, Maintain
  PROVE  Good
<1>1. Consistent(d)
  BY DEF IInv, Consistency
<1>2. Keeps(d, d)
  BY <1>1 DEF Keeps
<1>3. ASSUME NEW n \in ExpandSizes, DictExpand(n)
      PROVE  Good
  <2>1. n \in Requests
    BY DEF Requests
  <2>2. Keeps(d, d') /\ \E s \in {0, 1} : ret' = <<"report", s>>
    BY <1>1, <1>2, <1>3, <2>1, ExpandKeeps DEF DictExpand, DICT_OK, DICT_ERR
  <2>3. QED
    BY <2>2, ReportGood
<1>4. CASE DictResize
  <2>1. Keeps(d, d') /\ \E s \in {0, 1} : ret' = <<"report", s>>
    BY <1>1, <1>2, <1>4, SizesRequested, ExpandKeeps DEF DictResize, DICT_OK, DICT_ERR
  <2>2. QED
    BY <2>1, ReportGood
<1>5. ASSUME NEW b \in BOOLEAN, SetResize(b)
      PROVE  Good
  BY <1>5 DEF SetResize, Good, Map!mapVars, IInv, Consistency, ValuesStored
<1>6. QED
  BY <1>3, <1>4, <1>5 DEF Maintain

LEMMA OnDemandGood ==
  ASSUME IInv, OnDemand
  PROVE  Good
<1>1. Consistent(d)
  BY DEF IInv, Consistency
<1>2. ASSUME NEW n \in 0 .. RehashBatch, DictRehash(n)
      PROVE  Good
  <2>1. n \in Nat
    BY RatiosAssumption
  <2>2. Keeps(d, d') /\ \E s \in {0, 1} : ret' = <<"report", s>>
    BY <1>1, <1>2, <2>1, RehashKeeps DEF DictRehash
  <2>3. QED
    BY <2>2, ReportGood
<1>3. CASE DictRehashMilliseconds
  <2>1. PICK b \in 1 .. MaxBatches : d' = Rehash(d, b * RehashBatch) /\ ret' = ret
    BY <1>3 DEF DictRehashMilliseconds
  <2>2. b * RehashBatch \in Nat
    BY RatiosAssumption
  <2>3. Keeps(d, d')
    BY <1>1, <2>1, <2>2, RehashKeeps
  <2>4. IInv' /\ d'.val = d.val
    BY <2>3, Unchanged
  <2>5. QED
    BY <2>1, <2>4 DEF Good, Map!mapVars
<1>4. CASE DictEmpty
  <2>1. d' = EmptyDict /\ ret' = ret
    BY <1>4 DEF DictEmpty
  <2>2. /\ Consistent(EmptyDict) /\ Stored(EmptyDict) = {}
        /\ EmptyDict.val = [k \in Keys |-> NULL]
    BY EmptyDictConsistent
  <2>3. IInv'
    BY <2>1, <2>2 DEF IInv, Consistency, ValuesStored
  <2>4. Map!Clear
    BY <2>1, <2>2 DEF Map!Clear
  <2>5. QED
    BY <2>3, <2>4 DEF Good, Map!Next
<1>5. QED
  BY <1>2, <1>3, <1>4 DEF OnDemand

\* A call that changes the dict in its count of iterators at most.
LEMMA CountGood ==
  ASSUME IInv, NEW n \in Int, d' = [d EXCEPT !.iterators = n], ret' = ret
  PROVE  Good
<1>1. IsDict(d)
  BY DEF IInv, Consistency, Consistent
<1>2. /\ d'.ht = d.ht /\ d'.before = d.before /\ d'.rehashidx = d.rehashidx
      /\ d'.iterators = n /\ d'.val = d.val
      /\ d' = [ht |-> d'.ht, rehashidx |-> d'.rehashidx, iterators |-> d'.iterators,
               before |-> d'.before, val |-> d'.val]
  BY <1>1 DEF IsDict
<1>3. IsDict(d')
  BY <1>1, <1>2 DEF IsDict
<1>4. Stored(d') = Stored(d) /\ Disjoint(d') /\ Phase(d')
  BY <1>2 DEF IInv, Consistency, Consistent, Stored, InTable, Disjoint, Phase, IsRehashing
<1>5. Consistent(d')
  BY <1>2, <1>3, <1>4 DEF IInv, Consistency, Consistent
<1>6. QED
  BY <1>2, <1>4, <1>5 DEF Good, Map!mapVars, IInv, Consistency, ValuesStored

LEMMA IterateGood ==
  ASSUME IInv, Iterate
  PROVE  Good
<1>1. d.iterators \in Int /\ IsDict(d)
  BY DEF IInv, Consistency, Consistent, IsDict
<1>2. d = [d EXCEPT !.iterators = d.iterators]
  BY <1>1 DEF IsDict
<1>3. ASSUME NEW i \in Iters, NEW safe \in BOOLEAN, DictGetIterator(i, safe)
      PROVE  Good
  BY <1>1, <1>2, <1>3, CountGood DEF DictGetIterator
<1>4. ASSUME NEW i \in Iters, DictNext(i)
      PROVE  Good
  <2>1. PICK n \in Int : d' = [d EXCEPT !.iterators = n]
    <3> DEFINE more == ~Started(iter[i]) /\ Advance(d, iter[i]).safe
    <3>1. d' = [d EXCEPT !.iterators = IF more THEN d.iterators + 1 ELSE d.iterators]
      BY <1>4 DEF DictNext
    <3>2. QED
      BY <1>1, <3>1
  <2>2. QED
    BY <1>4, <2>1, CountGood DEF DictNext
<1>5. ASSUME NEW i \in Iters, DictReleaseIterator(i)
      PROVE  Good
  <2>1. PICK n \in Int : d' = [d EXCEPT !.iterators = n]
    <3> DEFINE fewer == Started(iter[i]) /\ iter[i].safe
    <3>1. d' = [d EXCEPT !.iterators = IF fewer THEN d.iterators - 1 ELSE d.iterators]
      BY <1>5 DEF DictReleaseIterator
    <3>2. QED
      BY <1>1, <3>1
  <2>2. QED
    BY <1>5, <2>1, CountGood DEF DictReleaseIterator
<1>6. QED
  BY <1>3, <1>4, <1>5 DEF Iterate

----------------------------------------------------------------------------
\* The theorems.

LEMMA InitGood == Init => IInv /\ Map!Init
BY EmptyDictConsistent DEF Init, IInv, Consistency, ValuesStored, Map!Init

LEMMA AnyStepGood == IInv /\ [AnyNext]_vars => Good
<1> SUFFICES ASSUME IInv, [AnyNext]_vars
             PROVE  Good
  OBVIOUS
<1>1. CASE Lookup
  BY <1>1, FetchGood DEF Lookup
<1>2. ASSUME NEW k \in Keys,
             \/ DictDelete(k)
             \/ \E v \in Vals : DictAdd(k, v) \/ DictReplace(k, v) \/ DictReplaceRaw(k, v)
      PROVE  Good
  BY <1>2, DeleteGood, AddGood, ReplaceGood, ReplaceRawGood
<1>3. CASE DictGetRandomKey
  BY <1>3, RandomKeyGood
<1>4. CASE Maintain
  BY <1>4, MaintainGood
<1>5. CASE OnDemand
  BY <1>5, OnDemandGood
<1>6. CASE Iterate
  BY <1>6, IterateGood
<1>7. CASE UNCHANGED vars
  BY <1>7 DEF vars, Good, Map!mapVars, IInv, Consistency, ValuesStored
<1>8. QED
  BY <1>1, <1>2, <1>3, <1>4, <1>5, <1>6, <1>7 DEF AnyNext

\* What a disciplined client does, any client may do.
LEMMA NextIsAnyNext == Next => AnyNext
BY DEF Next, AnyNext, Update

\* The invariant holds whatever calls are made, in whatever order.
LEMMA Invariant == AnySpec => []IInv
<1>1. Init => IInv
  BY InitGood
<1>2. IInv /\ [AnyNext]_vars => IInv'
  BY AnyStepGood DEF Good
<1>3. QED
  BY <1>1, <1>2, PTL DEF AnySpec

LEMMA SpecIsAnySpec == Spec => AnySpec
<1>1. [Next]_vars => [AnyNext]_vars
  BY NextIsAnyNext
<1>2. QED
  BY <1>1, PTL DEF Spec, AnySpec

\* The representation invariant of xmdict.c holds after every sequence of
\* calls, with and without the discipline of the client.
THEOREM ConsistencyAlways == AnySpec => []Consistency
<1>1. IInv => Consistency
  BY DEF IInv
<1>2. QED
  BY <1>1, Invariant, PTL

\* The same for the clients that the runs of TLC explore.
THEOREM ConsistencyHolds == Spec => []Consistency
BY ConsistencyAlways, SpecIsAnySpec, PTL

\* The scan of dictRehash for the next bucket, which has no bound of its own,
\* never leaves ht[0].
THEOREM RehashScanAlwaysStops == AnySpec => []RehashScanStops
<1>1. IInv => RehashScanStops
  BY NextBucketExists DEF IInv, Consistency, RehashScanStops
<1>2. QED
  BY <1>1, Invariant, PTL

\* dictFind, dictDelete and dictAdd look at the chain that holds the entry, in
\* whichever table it is.
THEOREM EntriesAlwaysFound == AnySpec => []EveryEntryFound
<1>1. IInv => EveryEntryFound
  BY FindFindsStored, StoredAreKeys DEF IInv, Consistency, EveryEntryFound
<1>2. QED
  BY <1>1, Invariant, PTL

\* Every call does to the keys and values, and returns, what the map promises:
\* rehashing, resizing and iterating never show.
THEOREM DictImplementsMap == AnySpec => ImplementsMap
<1>1. Init => Map!Init
  BY InitGood
<1>2. IInv /\ [AnyNext]_vars => [Map!Next]_(Map!mapVars)
  BY AnyStepGood DEF Good
<1>3. QED
  BY <1>1, <1>2, Invariant, PTL DEF AnySpec, ImplementsMap, Map!Spec

----------------------------------------------------------------------------
\* Chains: whatever is called, the entries of a bucket are on one list, which no
\* pointer leaves.  The inductive invariant is Chained, a predicate of one dict value
\* that rests on Consistent: each operator of Dict keeps it.

\* Two entries that are in one bucket.
Mates(dd, x, y) ==
  /\ x # y
  /\ \E t \in {0, 1} :
       /\ x \in InTable(dd, t) /\ y \in InTable(dd, t)
       /\ Slot(x, dd.ht[t].size) = Slot(y, dd.ht[t].size)

\* "before" orders the entries of each bucket, and relates no others.
Chained(dd) ==
  /\ \A x, y \in Keys : <<x, y>> \in dd.before => Mates(dd, x, y)
  /\ \A x, y \in Keys : Mates(dd, x, y) => (<<x, y>> \in dd.before <=> <<y, x>> \notin dd.before)
  /\ \A x, y, z \in Keys :
       <<x, y>> \in dd.before /\ <<y, z>> \in dd.before => <<x, z>> \in dd.before

LEMMA MatesSymmetric ==
  ASSUME NEW dd, NEW x, NEW y, Mates(dd, x, y)
  PROVE  Mates(dd, y, x)
BY DEF Mates

LEMMA MatesCases ==
  ASSUME NEW dd, NEW x, NEW y
  PROVE  Mates(dd, x, y) <=>
           /\ x # y
           /\ \/ /\ x \in InTable(dd, 0) /\ y \in InTable(dd, 0)
                 /\ Slot(x, dd.ht[0].size) = Slot(y, dd.ht[0].size)
              \/ /\ x \in InTable(dd, 1) /\ y \in InTable(dd, 1)
                 /\ Slot(x, dd.ht[1].size) = Slot(y, dd.ht[1].size)
BY Zenon DEF Mates

\* A table with entries has a size.
LEMMA EntriesHaveSize ==
  ASSUME NEW dd, Consistent(dd), NEW t \in {0, 1}, NEW k \in InTable(dd, t)
  PROVE  k \in Keys /\ dd.ht[t].size > 0
BY EntriesFinite, EntryInItsSlot DEF Consistent, GoodTable, InTable

\* The entries of a bucket are those of the table that hash to it.
LEMMA BucketHoldsMates ==
  ASSUME NEW h, GoodTable(h), h.size > 0, NEW x \in Keys, NEW y \in Keys
  PROVE  y \in h.table[Slot(x, h.size)] <=> y \in Entries(h) /\ Slot(y, h.size) = Slot(x, h.size)
<1>1. h.size \in Nat \ {0}
  BY TableNumbers DEF GoodTable
<1>2. Slot(x, h.size) \in 0 .. h.size - 1
  BY <1>1, SlotInTable
<1>3. QED
  BY <1>2, EntryInItsSlot DEF GoodTable, Entries

----------------------------------------------------------------------------
\* What the operators do to the chains.

LEMMA SameEntriesChained ==
  ASSUME NEW dd, Consistent(dd), Chained(dd), NEW e, SameEntries(dd, e)
  PROVE  Chained(e)
<1>1. \A x, y \in Keys : Mates(e, x, y) <=> Mates(dd, x, y)
  BY EntriesHaveSize DEF SameEntries, Mates
<1>2. QED
  BY <1>1 DEF SameEntries, Chained

LEMMA EmptyDictChained == Chained(EmptyDict)
<1>1. EmptyDict.before = {} /\ Stored(EmptyDict) = {}
  BY EmptyDictConsistent DEF EmptyDict
<1>2. \A x, y \in Keys : ~Mates(EmptyDict, x, y)
  BY <1>1 DEF Mates, Stored
<1>3. QED
  BY <1>1, <1>2 DEF Chained

\* The chains of the moved entries are reversed, and go before what was there.
LEMMA MoveBucketChained ==
  ASSUME NEW dd, Consistent(dd), Chained(dd), IsRehashing(dd),
         NEW i \in 0 .. dd.ht[0].size - 1, IsNextBucket(dd, i)
  PROVE  Chained(MoveBucket(dd, i))
<1> DEFINE e == MoveBucket(dd, i)
           m == dd.ht[0].table[i]
           T0 == InTable(dd, 0)
           T1 == InTable(dd, 1)
           s0 == dd.ht[0].size
           s1 == dd.ht[1].size
           To(k) == Slot(k, s1)
           From(k) == Slot(k, s0)
           B(x, y) == <<x, y>> \in dd.before
           E(x, y) == <<x, y>> \in e.before
<1>1. /\ m \subseteq T0 /\ InTable(e, 0) = T0 \ m /\ InTable(e, 1) = T1 \cup m
      /\ e.ht[0].size = s0 /\ e.ht[1].size = s1 /\ e.before = Pushed(dd, m)
  BY MoveBucketKeeps
<1>2. /\ T0 \subseteq Keys /\ T1 \subseteq Keys /\ T0 \cap T1 = {}
      /\ GoodTable(dd.ht[0]) /\ GoodTable(dd.ht[1]) /\ s1 > 0
  BY EntriesHaveSize DEF Consistent, Disjoint, Phase
<1>3. \A x \in T0 : x \in m <=> From(x) = i
  BY <1>2, EntryInItsSlot, EntriesHaveSize DEF GoodTable, InTable
<1>4. \A x, y \in Keys : y \in dd.ht[1].table[To(x)] <=> y \in T1 /\ To(y) = To(x)
  BY <1>2, BucketHoldsMates DEF InTable
<1>5. ASSUME NEW x \in Keys, NEW y \in Keys
      PROVE  E(x, y) <=> \/ B(x, y) /\ ~(x \in m /\ y \in m)
                         \/ x \in m /\ y \in m /\ B(y, x) /\ To(x) = To(y)
                         \/ x \in m /\ y \in T1 /\ To(x) = To(y)
  BY <1>1, <1>4 DEF Pushed
<1>6. ASSUME NEW x \in Keys, NEW y \in Keys
      PROVE  Mates(dd, x, y) <=>
               /\ x # y
               /\ \/ x \in T0 /\ y \in T0 /\ From(x) = From(y)
                  \/ x \in T1 /\ y \in T1 /\ To(x) = To(y)
  BY MatesCases
<1>7. ASSUME NEW x \in Keys, NEW y \in Keys
      PROVE  Mates(e, x, y) <=>
               /\ x # y
               /\ \/ x \in T0 \ m /\ y \in T0 \ m /\ From(x) = From(y)
                  \/ x \in T1 \cup m /\ y \in T1 \cup m /\ To(x) = To(y)
  BY <1>1, MatesCases
<1>8. /\ \A x, y \in Keys : B(x, y) => Mates(dd, x, y)
      /\ \A x, y \in Keys : Mates(dd, x, y) => (B(x, y) <=> ~B(y, x))
      /\ \A x, y, z \in Keys : B(x, y) /\ B(y, z) => B(x, z)
  BY DEF Chained
<1> HIDE DEF e, m, T0, T1, s0, s1, To, From
<1>9. \A x, y \in Keys : E(x, y) => Mates(e, x, y)
  BY <1>1, <1>2, <1>3, <1>5, <1>6, <1>7, <1>8
<1>10. \A x, y \in Keys : Mates(e, x, y) => (E(x, y) <=> ~E(y, x))
  BY <1>1, <1>2, <1>3, <1>5, <1>6, <1>7, <1>8
<1>11. ASSUME NEW x \in Keys, NEW y \in Keys, NEW z \in Keys, E(x, y), E(y, z)
       PROVE  E(x, z)
  <2>1. CASE x \notin m
    BY <1>1, <1>2, <1>3, <1>5, <1>6, <1>8, <1>11, <2>1
  <2>2. CASE x \in m /\ y \in m
    BY <1>1, <1>2, <1>3, <1>5, <1>6, <1>8, <1>11, <2>2
  <2>3. CASE x \in m /\ y \notin m
    BY <1>1, <1>2, <1>3, <1>5, <1>6, <1>8, <1>11, <2>3
  <2>4. QED
    BY <2>1, <2>2, <2>3
<1>12. QED
  BY <1>9, <1>10, <1>11 DEF Chained, e

LEMMA FinishRehashChained ==
  ASSUME NEW dd, Consistent(dd), Chained(dd), IsRehashing(dd), dd.ht[0].used = 0
  PROVE  Chained(FinishRehash(dd))
<1> DEFINE e == FinishRehash(dd)
<1>1. /\ InTable(dd, 0) = {} /\ InTable(e, 0) = InTable(dd, 1) /\ InTable(e, 1) = {}
      /\ e.ht[0].size = dd.ht[1].size /\ e.before = dd.before
  BY FinishRehashKeeps
<1> HIDE DEF e
<1>2. \A x, y \in Keys : Mates(e, x, y) <=> Mates(dd, x, y)
  BY <1>1, MatesCases
<1>3. QED
  BY <1>1, <1>2 DEF Chained, e

LEMMA RehashOneChained ==
  ASSUME NEW dd, Consistent(dd), Chained(dd)
  PROVE  Chained(RehashOne(dd))
<1>1. CASE ~IsRehashing(dd)
  BY <1>1 DEF RehashOne
<1>2. CASE IsRehashing(dd) /\ dd.ht[0].used = 0
  BY <1>2, FinishRehashChained DEF RehashOne
<1>3. CASE IsRehashing(dd) /\ dd.ht[0].used # 0
  BY <1>3, NextBucketExists, MoveBucketChained DEF RehashOne
<1>4. QED
  BY <1>1, <1>2, <1>3

LEMMA RehashStepChained ==
  ASSUME NEW dd, Consistent(dd), Chained(dd)
  PROVE  Chained(RehashStep(dd)) /\ Chained(BeforeSearch(dd))
BY RehashOneChained DEF RehashStep, BeforeSearch

\* dictRehash, however many turns it takes.
LEMMA RehashChained ==
  ASSUME NEW dd, Consistent(dd), Chained(dd), NEW n \in Nat
  PROVE  Chained(Rehash(dd, n))
<1> DEFINE after == CHOOSE f : TurnsAre(f, dd, n)
           Wrong == {i \in 0 .. n : ~(Consistent(after[i]) /\ Chained(after[i]))}
<1>1. Rehash(dd, n) = after[n]
  BY DEF Rehash, TurnsAre
<1>2. TurnsAre(after, dd, n)
  BY TurnsExist
<1> HIDE DEF after
<1>3. \A i \in 0 .. n : after[i] = IF i = 0 THEN dd ELSE RehashOne(after[i - 1])
  BY <1>2 DEF TurnsAre
<1>4. Wrong = {}
  <2>1. SUFFICES ASSUME Wrong # {}
                 PROVE  FALSE
    OBVIOUS
  <2>2. Wrong \in SUBSET Nat
    OBVIOUS
  <2>3. PICK j \in Wrong : \A k \in Wrong : j <= k
    BY <2>1, <2>2, LeastNatural
  <2>4. j \in 0 .. n /\ ~(Consistent(after[j]) /\ Chained(after[j]))
    OBVIOUS
  <2>5. CASE j = 0
    BY <1>3, <2>4, <2>5
  <2>6. CASE j # 0
    <3>1. j - 1 \in 0 .. n /\ j - 1 \notin Wrong
      BY <2>3, <2>4, <2>6
    <3>2. Consistent(after[j - 1]) /\ Chained(after[j - 1])
      BY <3>1
    <3>3. after[j] = RehashOne(after[j - 1])
      BY <1>3, <2>4, <2>6
    <3>4. QED
      BY <2>4, <3>2, <3>3, RehashOneKeeps, RehashOneChained DEF Keeps
  <2>7. QED
    BY <2>5, <2>6
<1>5. QED
  BY <1>1, <1>4

\* A new entry goes to the head of its chain.
LEMMA LinkedChained ==
  ASSUME NEW dd, Consistent(dd), Chained(dd), NEW e, NEW t \in {0, 1},
         NEW k \in Keys, k \notin Stored(dd), Linked(dd, e, t, k)
  PROVE  Chained(e)
<1> DEFINE u == 1 - t
           h == dd.ht[t]
           S(x) == Slot(x, dd.ht[t].size)
           R(x) == Slot(x, dd.ht[u].size)
           T == InTable(dd, t)
           U == InTable(dd, u)
           B(x, y) == <<x, y>> \in dd.before
           E(x, y) == <<x, y>> \in e.before
<1>1. {t, u} = {0, 1} /\ u \in {0, 1}
  OBVIOUS
<1>2. /\ h.size > 0 /\ GoodTable(h) /\ T = Entries(h) /\ k \notin T /\ k \notin U
      /\ InTable(e, t) = T \cup {k} /\ InTable(e, u) = U
      /\ e.ht[t].size = dd.ht[t].size /\ e.ht[u].size = dd.ht[u].size
      /\ e.before = dd.before \cup ({k} \X h.table[S(k)])
  BY <1>1 DEF Linked, Consistent, Stored, InTable
<1>3. ASSUME NEW x \in Keys, NEW y \in Keys
      PROVE  /\ Mates(dd, x, y) <=>
                  /\ x # y
                  /\ \/ x \in T /\ y \in T /\ S(x) = S(y)
                     \/ x \in U /\ y \in U /\ R(x) = R(y)
             /\ Mates(e, x, y) <=>
                  /\ x # y
                  /\ \/ x \in T \cup {k} /\ y \in T \cup {k} /\ S(x) = S(y)
                     \/ x \in U /\ y \in U /\ R(x) = R(y)
  BY <1>1, <1>2 DEF Mates
<1>4. ASSUME NEW x \in Keys, NEW y \in Keys
      PROVE  E(x, y) <=> B(x, y) \/ (x = k /\ y \in T /\ S(y) = S(k))
  BY <1>2, BucketHoldsMates
<1>5. /\ \A x, y \in Keys : B(x, y) => Mates(dd, x, y)
      /\ \A x, y \in Keys : Mates(dd, x, y) => (B(x, y) <=> ~B(y, x))
      /\ \A x, y, z \in Keys : B(x, y) /\ B(y, z) => B(x, z)
  BY DEF Chained
<1>6. T \cap U = {}
  BY <1>1 DEF Consistent, Disjoint
<1> HIDE DEF u, h, S, R, T, U
<1>7. \A x, y \in Keys : E(x, y) => Mates(e, x, y)
  BY <1>2, <1>3, <1>4, <1>5
<1>8. \A x, y \in Keys : Mates(e, x, y) => (E(x, y) <=> ~E(y, x))
  <2>1. ASSUME NEW x \in Keys, NEW y \in Keys, Mates(e, x, y)
        PROVE  E(x, y) <=> ~E(y, x)
    <3>1. CASE x = k \/ y = k
      BY <1>2, <1>3, <1>4, <1>5, <1>6, <2>1, <3>1
    <3>2. CASE x # k /\ y # k
      BY <1>2, <1>3, <1>4, <1>5, <2>1, <3>2
    <3>3. QED
      BY <3>1, <3>2
  <2>2. QED
    BY <2>1
<1>9. ASSUME NEW x \in Keys, NEW y \in Keys, NEW z \in Keys, E(x, y), E(y, z)
      PROVE  E(x, z)
  BY <1>2, <1>3, <1>4, <1>5, <1>6, <1>9
<1>10. QED
  BY <1>7, <1>8, <1>9 DEF Chained

\* An unlinked entry is on no chain, and the others stay where they are.
LEMMA UnlinkedChained ==
  ASSUME NEW dd, Chained(dd), NEW e, NEW k \in Keys, Unlinked(dd, e, k)
  PROVE  Chained(e)
<1>1. \A x, y \in Keys : Mates(e, x, y) <=> Mates(dd, x, y) /\ x # k /\ y # k
  BY DEF Mates, Unlinked
<1>2. \A x, y \in Keys : <<x, y>> \in e.before <=> <<x, y>> \in dd.before /\ x # k /\ y # k
  BY DEF Unlinked
<1>3. QED
  BY <1>1, <1>2 DEF Chained

LEMMA PrepareAddChained ==
  ASSUME NEW dd, Consistent(dd), Chained(dd)
  PROVE  Chained(PrepareAdd(dd))
<1>1. Consistent(RehashStep(dd)) /\ Chained(RehashStep(dd))
  BY RehashStepKeeps, RehashStepChained DEF Keeps
<1>2. QED
  BY <1>1, ExpandIfNeededKeeps, SameEntriesChained DEF PrepareAdd

LEMMA AddRawChained ==
  ASSUME NEW dd, Consistent(dd), Chained(dd), NEW k \in Keys, NEW v \in Vals
  PROVE  Chained(AddRaw(dd, k, v))
<1>1. Keeps(dd, PrepareAdd(dd)) /\ Chained(PrepareAdd(dd))
  BY AddRawAdds, PrepareAddChained
<1>2. CASE Addable(dd, k)
  <2>1. PICK t \in {0, 1} : Linked(PrepareAdd(dd), AddRaw(dd, k, v), t, k)
    BY <1>2, AddRawAdds
  <2>2. k \notin Stored(PrepareAdd(dd)) /\ Consistent(PrepareAdd(dd))
    BY <1>1, <1>2, AddRawAdds DEF Keeps
  <2>3. QED
    BY <1>1, <2>1, <2>2, LinkedChained
<1>3. CASE ~Addable(dd, k)
  BY <1>1, <1>3, AddRawAdds
<1>4. QED
  BY <1>2, <1>3

----------------------------------------------------------------------------
\* The calls.

LEMMA UpdateChained ==
  ASSUME Consistent(d), Chained(d), NEW k \in Keys,
         \/ DictDelete(k)
         \/ \E v \in Vals : DictAdd(k, v) \/ DictReplace(k, v) \/ DictReplaceRaw(k, v)
  PROVE  Chained(d')
<1> DEFINE d1 == BeforeSearch(d)
<1>1. Keeps(d, d1) /\ Consistent(d1) /\ Chained(d1)
  BY BeforeSearchKeeps, RehashStepChained DEF Keeps
<1>2. ASSUME NEW v \in Vals, DictAdd(k, v)
      PROVE  Chained(d')
  BY <1>2, AddRawChained DEF DictAdd
<1>3. ASSUME NEW v \in Vals, DictReplace(k, v)
      PROVE  Chained(d')
  <2> DEFINE d2 == PrepareAdd(d)
             d3 == BeforeSearch(d2)
  <2>1. Consistent(d2) /\ Chained(d2)
    BY AddRawAdds, PrepareAddChained DEF Keeps
  <2>2. Consistent(d3) /\ Chained(d3)
    BY <2>1, BeforeSearchKeeps, RehashStepChained DEF Keeps
  <2>3. Chained(SetVal(d3, k, v))
    BY <2>2, SetValSets, SameEntriesChained
  <2>4. QED
    BY <1>3, <2>3, AddRawChained DEF DictReplace
<1>4. ASSUME NEW v \in Vals, DictReplaceRaw(k, v)
      PROVE  Chained(d')
  BY <1>1, <1>4, SetValSets, SameEntriesChained, AddRawChained DEF DictReplaceRaw
<1>5. CASE DictDelete(k)
  <2>1. CASE Found(d1, k)
    <3>1. d' = Unlink(d1, k) /\ k \in Stored(d1)
      BY <1>1, <1>5, <2>1, FindFindsStored DEF DictDelete
    <3>2. QED
      BY <1>1, <3>1, UnlinkRemoves, UnlinkedChained
  <2>2. CASE ~Found(d1, k)
    BY <1>1, <1>5, <2>2 DEF DictDelete
  <2>3. QED
    BY <2>1, <2>2
<1>6. QED
  BY <1>2, <1>3, <1>4, <1>5

LEMMA MaintainChained ==
  ASSUME Consistent(d), Chained(d), Maintain
  PROVE  Chained(d')
<1>1. ASSUME NEW n \in ExpandSizes, DictExpand(n)
      PROVE  Chained(d')
  <2>1. n \in Requests
    BY DEF Requests
  <2>2. QED
    BY <1>1, <2>1, ExpandKeeps, SameEntriesChained DEF DictExpand
<1>2. CASE DictResize
  BY <1>2, SizesRequested, ExpandKeeps, SameEntriesChained DEF DictResize
<1>3. QED
  BY <1>1, <1>2 DEF Maintain, SetResize

LEMMA OnDemandChained ==
  ASSUME Consistent(d), Chained(d), OnDemand
  PROVE  Chained(d')
<1>1. ASSUME NEW n \in 0 .. RehashBatch, DictRehash(n)
      PROVE  Chained(d')
  <2>1. n \in Nat
    BY RatiosAssumption
  <2>2. QED
    BY <1>1, <2>1, RehashChained DEF DictRehash
<1>2. CASE DictRehashMilliseconds
  <2>1. PICK b \in 1 .. MaxBatches : d' = Rehash(d, b * RehashBatch)
    BY <1>2 DEF DictRehashMilliseconds
  <2>2. b * RehashBatch \in Nat
    BY RatiosAssumption
  <2>3. QED
    BY <2>1, <2>2, RehashChained
<1>3. CASE DictEmpty
  BY <1>3, EmptyDictChained DEF DictEmpty
<1>4. QED
  BY <1>1, <1>2, <1>3 DEF OnDemand

\* The iterators do not touch the tables.
LEMMA IterateTables ==
  ASSUME Consistent(d), Iterate
  PROVE  SameEntries(d, d') /\ \A x : NextOf(d', x) = NextOf(d, x)
<1>1. d = [ht |-> d.ht, rehashidx |-> d.rehashidx, iterators |-> d.iterators,
           before |-> d.before, val |-> d.val]
  BY DEF Consistent, IsDict
<1>2. \A n : [d EXCEPT !.iterators = n].ht = d.ht /\ [d EXCEPT !.iterators = n].before = d.before
  BY <1>1
<1>3. d'.ht = d.ht /\ d'.before = d.before
  BY <1>2 DEF Iterate, DictGetIterator, DictNext, DictReleaseIterator
<1>4. QED
  BY <1>3 DEF SameEntries, InTable, NextOf, First

----------------------------------------------------------------------------
\* The theorem.

ChainInv == IInv /\ Chained(d)

LEMMA AnyStepChained == ChainInv /\ [AnyNext]_vars => Chained(d')
<1> SUFFICES ASSUME ChainInv, [AnyNext]_vars
             PROVE  Chained(d')
  OBVIOUS
<1>1. Consistent(d) /\ Chained(d)
  BY DEF ChainInv, IInv, Consistency
<1>2. CASE Lookup
  BY <1>1, <1>2, RehashStepChained DEF Lookup, DictFetchValue
<1>3. ASSUME NEW k \in Keys,
             \/ DictDelete(k)
             \/ \E v \in Vals : DictAdd(k, v) \/ DictReplace(k, v) \/ DictReplaceRaw(k, v)
      PROVE  Chained(d')
  BY <1>1, <1>3, UpdateChained
<1>4. CASE DictGetRandomKey
  BY <1>1, <1>4, RehashStepChained DEF DictGetRandomKey
<1>5. CASE Maintain
  BY <1>1, <1>5, MaintainChained
<1>6. CASE OnDemand
  BY <1>1, <1>6, OnDemandChained
<1>7. CASE Iterate
  BY <1>1, <1>7, IterateTables, SameEntriesChained
<1>8. CASE UNCHANGED vars
  BY <1>1, <1>8 DEF vars
<1>9. QED
  BY <1>2, <1>3, <1>4, <1>5, <1>6, <1>7, <1>8 DEF AnyNext

LEMMA ChainInvariant == AnySpec => []ChainInv
<1>1. Init => ChainInv
  BY InitGood, EmptyDictChained DEF Init, ChainInv
<1>2. ChainInv /\ [AnyNext]_vars => ChainInv'
  BY AnyStepGood, AnyStepChained DEF ChainInv, Good
<1>3. QED
  BY <1>1, <1>2, PTL DEF AnySpec

\* What Chained says of the tables, said of the buckets.
LEMMA ChainedBuckets == ChainInv => ChainsAreLists
<1> SUFFICES ASSUME ChainInv
             PROVE  ChainsAreLists
  OBVIOUS
<1>1. /\ Consistent(d) /\ Chained(d) /\ GoodTable(d.ht[0]) /\ GoodTable(d.ht[1])
      /\ d.before \subseteq Keys \X Keys
  BY DEF ChainInv, IInv, Consistency, Consistent, IsDict
<1>2. ASSUME NEW t \in {0, 1}, NEW i \in 0 .. d.ht[t].size - 1
      PROVE  LET b == d.ht[t].table[i]
                 before == d.before \cap (b \X b)
             IN /\ \A x, y \in b : x # y => (<<x, y>> \in before <=> <<y, x>> \notin before)
                /\ \A x, y, z \in b : <<x, y>> \in before /\ <<y, z>> \in before => <<x, z>> \in before
  <2> DEFINE b == d.ht[t].table[i]
  <2>1. b \subseteq InTable(d, t)
    BY DEF InTable, Entries
  <2>2. b \subseteq Keys /\ \A x \in b : Slot(x, d.ht[t].size) = i
    BY <1>1, <2>1, EntriesHaveSize DEF GoodTable
  <2> HIDE DEF b
  <2>3. \A x, y \in b : x # y => Mates(d, x, y)
    BY <2>1, <2>2 DEF Mates
  <2>4. QED
    BY <1>1, <2>2, <2>3 DEF Chained, b
<1>3. ASSUME NEW p \in d.before
      PROVE  \E t \in {0, 1} : \E i \in 0 .. d.ht[t].size - 1 :
               p[1] # p[2] /\ {p[1], p[2]} \subseteq d.ht[t].table[i]
  <2>1. PICK x \in Keys, y \in Keys : p = <<x, y>>
    BY <1>1
  <2>2. Mates(d, x, y)
    BY <1>1, <2>1 DEF Chained
  <2>3. PICK t \in {0, 1} : /\ x # y /\ x \in InTable(d, t) /\ y \in InTable(d, t)
                            /\ Slot(x, d.ht[t].size) = Slot(y, d.ht[t].size)
    BY <2>2 DEF Mates
  <2>4. GoodTable(d.ht[t]) /\ x \in Entries(d.ht[t]) /\ y \in Entries(d.ht[t])
    BY <1>1, <2>3 DEF InTable
  <2>5. /\ d.ht[t].size > 0
        /\ x \in d.ht[t].table[Slot(x, d.ht[t].size)] /\ y \in d.ht[t].table[Slot(x, d.ht[t].size)]
    BY <2>3, <2>4, EntryInItsSlot
  <2>6. Slot(x, d.ht[t].size) \in 0 .. d.ht[t].size - 1
    BY <2>4, <2>5, SlotInTable, TableNumbers DEF GoodTable
  <2>7. QED
    BY <2>1, <2>3, <2>5, <2>6
<1>4. QED
  BY <1>2, <1>3 DEF ChainsAreLists

\* The next pointers of each bucket form one list, which leads nowhere else,
\* whatever calls are made: also after a rehash has reversed a chain and put
\* it before another.
THEOREM ChainsAlwaysLists == AnySpec => []ChainsAreLists
BY ChainInvariant, ChainedBuckets, PTL

----------------------------------------------------------------------------
\* The third part is about the iterators, for clients that keep to the rules of
\* xmdict.h (Spec).  The inductive invariant says where the keys that an
\* iterator still owes are: each is on a part of the tables that the iterator
\* has yet to walk.  That holds because a running safe iterator stops the
\* rehash, and rests on Consistent and Chained.

\* An iterator that has begun and has not been given NULL.
Walking(it) == Started(it) /\ it.entry # NULL

\* The keys that dictNext has yet to come to: the buckets after it.index, the
\* second table when it.table is the first, and the chain from it.nextEntry on.
Beyond(dd, t, i) ==
  {k \in Keys : \/ k \in InTable(dd, t) /\ i < Slot(k, dd.ht[t].size)
                \/ t = 0 /\ k \in InTable(dd, 1)}

Rest(dd, it) ==
  Beyond(dd, it.table, it.index)
    \cup {k \in Keys : it.nextEntry # NULL /\ (k = it.nextEntry \/ <<it.nextEntry, k>> \in dd.before)}

\* An unused iterator, or one that dictNext has not been called with.
Unused(it) == it = [NoIter EXCEPT !.live = it.live, !.safe = it.safe]

GoodIter(dd, it) ==
  /\ it \in Iterators
  /\ it.due \subseteq Stored(dd) /\ it.given \subseteq Stored(dd)
  /\ ~it.live => it = NoIter
  /\ ~Started(it) => Unused(it)
  /\ Started(it) /\ it.entry = NULL => it.due = {}
  /\ Walking(it) =>
       /\ it.index \in 0 .. dd.ht[it.table].size - 1
       /\ it.nextEntry # NULL =>
            /\ it.nextEntry \in InTable(dd, it.table)
            /\ Slot(it.nextEntry, dd.ht[it.table].size) = it.index
       /\ it.due \subseteq Rest(dd, it)
       /\ it.given \cap Rest(dd, it) = {}

ItersInv ==
  /\ iter \in [Iters -> Iterators]
  /\ \A i \in Iters : GoodIter(d, iter[i])
  /\ IsFiniteSet(SafeRunning)
  /\ IteratorsCounted

IterInv == ChainInv /\ canResize \in BOOLEAN /\ ItersInv

----------------------------------------------------------------------------
\* The heads of chains and the order of buckets.

\* Entries that are all in one bucket have a first one.
LEMMA FirstPrecedes ==
  ASSUME NEW dd, Chained(dd), NEW S \in SUBSET Keys, S # {},
         \A x, y \in S : x # y => Mates(dd, x, y)
  PROVE  /\ First(dd, S) \in S
         /\ \A y \in S \ {First(dd, S)} : <<First(dd, S), y>> \in dd.before
<1> DEFINE After(x) == {y \in S : <<x, y>> \in dd.before}
           size == Cardinality(S)
           Missed == {n \in Nat : \E x \in S : n = size - Cardinality(After(x))}
<1>1. IsFiniteSet(S) /\ size \in Nat
  BY KeysAssumption, FS_Subset, FS_CardinalityType
<1>2. ASSUME NEW x \in S
      PROVE  /\ IsFiniteSet(After(x)) /\ Cardinality(After(x)) \in Nat
             /\ Cardinality(After(x)) <= size
  BY <1>1, FS_Subset, FS_CardinalityType
<1>3. Missed # {}
  <2>1. PICK x \in S : TRUE
    OBVIOUS
  <2>2. size - Cardinality(After(x)) \in Nat
    BY <1>1, <1>2
  <2>3. size - Cardinality(After(x)) \in Missed
    BY <2>2
  <2>4. QED
    BY <2>3
<1>4. PICK n \in Missed : \A m \in Missed : n <= m
  <2>1. Missed \in SUBSET Nat
    OBVIOUS
  <2>2. QED
    BY <1>3, <2>1, LeastNatural
<1>5. PICK x \in S : n = size - Cardinality(After(x))
  BY <1>4
<1>6. ASSUME NEW y \in S \ {x}, <<x, y>> \notin dd.before
      PROVE  FALSE
  <2>1. Mates(dd, x, y) /\ Mates(dd, y, x)
    OBVIOUS
  <2>2. <<y, x>> \in dd.before
    BY <1>6, <2>1 DEF Chained
  <2>3. x \notin After(x)
    BY DEF Chained, Mates
  <2>4. After(x) \cup {x} \subseteq After(y)
    BY <2>2 DEF Chained
  <2>5. Cardinality(After(x) \cup {x}) = Cardinality(After(x)) + 1
    BY <1>2, <2>3, FS_AddElement
  <2>6. Cardinality(After(x)) + 1 <= Cardinality(After(y))
    <3>1. IsFiniteSet(After(y)) /\ After(x) \cup {x} \in SUBSET After(y)
      BY <1>2, <2>4
    <3> HIDE DEF After
    <3>2. QED
      BY <2>5, <3>1, FS_Subset
  <2>7. size - Cardinality(After(y)) \in Nat
    BY <1>1, <1>2
  <2>8. size - Cardinality(After(y)) \in Missed
    BY <2>7
  <2>9. n <= size - Cardinality(After(y))
    BY <1>4, <2>8
  <2> HIDE DEF After, size
  <2>10. QED
    BY <1>1, <1>2, <1>5, <2>6, <2>9
<1>7. \A y \in S \ {x} : <<x, y>> \in dd.before
  BY <1>6
<1>8. QED
  BY <1>7 DEF First

\* What is after an entry on its chain: nothing, or the next one and what is
\* after that.
LEMMA NextOfFollows ==
  ASSUME NEW dd, Consistent(dd), Chained(dd), NEW x \in Keys
  PROVE  LET n == NextOf(dd, x)
         IN /\ n = NULL \/ (n \in Keys /\ Mates(dd, x, n))
            /\ \A k \in Keys :
                 <<x, k>> \in dd.before <=> n # NULL /\ (k = n \/ <<n, k>> \in dd.before)
<1> DEFINE n == NextOf(dd, x)
           after == {k \in Keys : <<x, k>> \in dd.before}
<1>1. x # Freed /\ NULL \notin Keys
  BY KeysAssumption
<1>2. CASE after = {}
  <2>1. n = NULL
    BY <1>1, <1>2 DEF NextOf
  <2>2. QED
    BY <1>2, <2>1
<1>3. CASE after # {}
  <2>1. n = First(dd, after)
    BY <1>1, <1>3 DEF NextOf
  <2>2. \A y, z \in after : y # z => Mates(dd, y, z)
    <3>1. ASSUME NEW y \in after
          PROVE  \E t \in {0, 1} : /\ x \in InTable(dd, t) /\ y \in InTable(dd, t)
                                   /\ Slot(x, dd.ht[t].size) = Slot(y, dd.ht[t].size)
      BY DEF Chained, Mates
    <3>2. InTable(dd, 0) \cap InTable(dd, 1) = {}
      BY DEF Consistent, Disjoint
    <3>3. QED
      BY <3>1, <3>2 DEF Mates
  <2>3. n \in after /\ \A y \in after \ {n} : <<n, y>> \in dd.before
    <3>1. after \in SUBSET Keys
      OBVIOUS
    <3> HIDE DEF after
    <3>2. QED
      BY <1>3, <2>1, <2>2, <3>1, FirstPrecedes
  <2>4. n \in Keys /\ Mates(dd, x, n) /\ n # NULL
    BY <1>1, <2>3 DEF Chained
  <2>5. ASSUME NEW k \in Keys
        PROVE  <<x, k>> \in dd.before <=> k = n \/ <<n, k>> \in dd.before
    BY <2>3, <2>4 DEF Chained
  <2>6. QED
    BY <2>4, <2>5
<1>4. QED
  BY <1>2, <1>3

\* Of some buckets, one is before the others.
LEMMA EarliestExists ==
  ASSUME NEW S \in SUBSET ({0, 1} \X Nat), S # {}
  PROVE  \E p \in S : \A q \in S \ {p} : Earlier(p, q)
<1> DEFINE In(t) == {i \in Nat : <<t, i>> \in S}
<1>1. \A q \in S : q = <<q[1], q[2]>> /\ q[1] \in {0, 1} /\ q[2] \in Nat /\ q[2] \in In(q[1])
  OBVIOUS
<1>2. CASE In(0) # {}
  <2>1. PICK i \in In(0) : \A j \in In(0) : i <= j
    BY <1>2, LeastNatural
  <2>2. ASSUME NEW q \in S \ {<<0, i>>}
        PROVE  Earlier(<<0, i>>, q)
    BY <1>1, <2>1, <2>2 DEF Earlier
  <2>3. QED
    BY <2>1, <2>2
<1>3. CASE In(0) = {}
  <2>1. \A q \in S : q[1] = 1
    BY <1>1, <1>3
  <2>2. In(1) # {}
    BY <1>1, <2>1
  <2>3. PICK i \in In(1) : \A j \in In(1) : i <= j
    BY <2>2, LeastNatural
  <2>4. ASSUME NEW q \in S \ {<<1, i>>}
        PROVE  Earlier(<<1, i>>, q)
    BY <1>1, <2>1, <2>3, <2>4 DEF Earlier
  <2>5. QED
    BY <2>3, <2>4
<1>4. QED
  BY <1>2, <1>3

----------------------------------------------------------------------------
\* dictNext.

\* The non-empty buckets ahead, and the one that dictNext goes on to.
Full(dd, it) == {p \in Ahead(dd, it) : dd.ht[p[1]].table[p[2]] # {}}

Nearest(dd, it, p) == p \in Full(dd, it) /\ \A q \in Full(dd, it) \ {p} : Earlier(p, q)

\* a is the iterator once it has taken x, an entry of the bucket it is at.
Taken(dd, it, x, a) ==
  /\ a \in Iterators
  /\ a.live = it.live /\ a.safe = it.safe /\ a.given = it.given /\ a.due = it.due
  /\ a.table = it.table /\ a.index = it.index /\ a.entry = x
  /\ a.nextEntry # NULL =>
       /\ a.nextEntry \in InTable(dd, a.table)
       /\ Slot(a.nextEntry, dd.ht[a.table].size) = a.index
  /\ \A k \in Keys : k \in Rest(dd, a) <=>
       k \in Beyond(dd, it.table, it.index) \/ <<x, k>> \in dd.before
  /\ x \notin Rest(dd, a)

\* Beyond a position are the entries of the non-empty buckets ahead of it.
LEMMA FullHoldBeyond ==
  ASSUME NEW dd, Consistent(dd), NEW it \in Iterators
  PROVE  /\ Full(dd, it) \in SUBSET ({0, 1} \X Nat)
         /\ \A p \in Full(dd, it) :
              /\ p[2] \in 0 .. dd.ht[p[1]].size - 1
              /\ \/ p[1] = it.table /\ it.index < p[2]
                 \/ p[1] = 1 /\ it.table = 0
         /\ \A k \in Beyond(dd, it.table, it.index) :
              \E q \in Full(dd, it) :
                /\ k \in dd.ht[q[1]].table[q[2]]
                /\ k \in InTable(dd, q[1]) /\ Slot(k, dd.ht[q[1]].size) = q[2]
<1>1. it.table \in {0, 1} /\ it.index \in Nat \cup {-1}
  BY DEF Iterators
<1>2. dd.ht[0].size \in Nat /\ dd.ht[1].size \in Nat
  BY TableNumbers DEF Consistent, GoodTable
<1>3. ASSUME NEW p \in Ahead(dd, it)
      PROVE  /\ p = <<p[1], p[2]>> /\ p[1] \in {0, 1} /\ p[2] \in 0 .. dd.ht[p[1]].size - 1
             /\ \/ p[1] = it.table /\ it.index < p[2]
                \/ p[1] = 1 /\ it.table = 0
  <2>1. CASE p \in {<<it.table, i>> : i \in it.index + 1 .. dd.ht[it.table].size - 1}
    <3>1. PICK i \in it.index + 1 .. dd.ht[it.table].size - 1 : p = <<it.table, i>>
      BY <2>1
    <3>2. dd.ht[it.table].size \in Nat
      BY <1>1, <1>2
    <3>3. QED
      BY <1>1, <3>1, <3>2
  <2>2. CASE it.table = 0 /\ p \in {<<1, i>> : i \in 0 .. dd.ht[1].size - 1}
    BY <1>2, <2>2
  <2>3. QED
    BY <2>1, <2>2 DEF Ahead
<1>4. ASSUME NEW t \in {0, 1}, NEW k \in InTable(dd, t)
      PROVE  /\ k \in dd.ht[t].table[Slot(k, dd.ht[t].size)]
             /\ Slot(k, dd.ht[t].size) \in 0 .. dd.ht[t].size - 1
  BY <1>2, EntriesHaveSize, EntryInItsSlot, SlotInTable DEF Consistent, InTable
<1>5. ASSUME NEW k \in Beyond(dd, it.table, it.index)
      PROVE  \E q \in Full(dd, it) :
                /\ k \in dd.ht[q[1]].table[q[2]]
                /\ k \in InTable(dd, q[1]) /\ Slot(k, dd.ht[q[1]].size) = q[2]
  <2>1. CASE k \in InTable(dd, it.table) /\ it.index < Slot(k, dd.ht[it.table].size)
    <3> DEFINE s == Slot(k, dd.ht[it.table].size)
    <3>1. s \in it.index + 1 .. dd.ht[it.table].size - 1
      BY <1>1, <1>2, <1>4, <2>1
    <3>2. <<it.table, s>> \in Ahead(dd, it)
      BY <3>1 DEF Ahead
    <3>3. <<it.table, s>> \in Full(dd, it)
      BY <1>1, <1>4, <2>1, <3>2 DEF Full
    <3>4. QED
      BY <1>1, <1>4, <2>1, <3>3
  <2>2. CASE it.table = 0 /\ k \in InTable(dd, 1)
    <3> DEFINE s == Slot(k, dd.ht[1].size)
    <3>1. IsRehashing(dd)
      BY <2>2, EntriesHaveSize DEF Consistent, Phase
    <3>2. <<1, s>> \in Ahead(dd, it)
      BY <1>4, <2>2, <3>1 DEF Ahead
    <3>3. <<1, s>> \in Full(dd, it)
      BY <1>4, <2>2, <3>2 DEF Full
    <3>4. QED
      BY <1>4, <2>2, <3>3
  <2>3. QED
    BY <2>1, <2>2 DEF Beyond
<1>6. QED
  BY <1>2, <1>3, <1>5 DEF Full

\* The bucket that dictNext goes on to: its entries are on one chain, and what
\* was left is they and what is left beyond them.
LEMMA NextFullBucket ==
  ASSUME NEW dd, Consistent(dd), Chained(dd), NEW it \in Iterators,
         NEW p, Nearest(dd, it, p)
  PROVE  LET b == dd.ht[p[1]].table[p[2]]
         IN /\ b \in SUBSET Keys /\ b # {}
            /\ \A x \in b : x \in InTable(dd, p[1]) /\ Slot(x, dd.ht[p[1]].size) = p[2]
            /\ Beyond(dd, it.table, it.index) = b \cup Beyond(dd, p[1], p[2])
<1> DEFINE b == dd.ht[p[1]].table[p[2]]
<1>1. /\ p[1] \in {0, 1} /\ p[2] \in Nat /\ p[2] \in 0 .. dd.ht[p[1]].size - 1
      /\ \/ p[1] = it.table /\ it.index < p[2]
         \/ p[1] = 1 /\ it.table = 0
      /\ it.table \in {0, 1} /\ it.index \in Nat \cup {-1}
      /\ p \in Full(dd, it) /\ \A q \in Full(dd, it) \ {p} : Earlier(p, q)
  BY FullHoldBeyond DEF Iterators, Nearest
<1>2. GoodTable(dd.ht[p[1]]) /\ dd.ht[p[1]].size \in Nat
  BY <1>1, TableNumbers DEF Consistent, GoodTable
<1>3. \A x \in b : x \in InTable(dd, p[1]) /\ Slot(x, dd.ht[p[1]].size) = p[2] /\ x \in Keys
  <2>1. b \subseteq Entries(dd.ht[p[1]])
    BY <1>1 DEF Entries
  <2>2. Entries(dd.ht[p[1]]) \subseteq Keys
    BY <1>2, EntriesFinite DEF GoodTable
  <2>3. QED
    BY <1>1, <1>2, <2>1, <2>2 DEF GoodTable, InTable
<1>4. b # {}
  BY <1>1 DEF Full
<1>5. \A t \in {0, 1} : \A k \in InTable(dd, t) : dd.ht[t].size \in Nat /\ Slot(k, dd.ht[t].size) \in Nat
  BY EntriesHaveSize, SlotInTable, TableNumbers DEF Consistent, GoodTable
<1>6. ASSUME NEW k \in Beyond(dd, it.table, it.index)
      PROVE  k \in b \cup Beyond(dd, p[1], p[2])
  <2>1. PICK q \in Full(dd, it) : /\ k \in dd.ht[q[1]].table[q[2]]
                                 /\ k \in InTable(dd, q[1]) /\ Slot(k, dd.ht[q[1]].size) = q[2]
    BY <1>6, FullHoldBeyond
  <2>2. q[1] \in {0, 1} /\ q[2] \in Nat /\ k \in Keys
    BY <1>6, FullHoldBeyond DEF Beyond
  <2>3. CASE q = p
    BY <2>1, <2>3
  <2>4. CASE p[1] < q[1]
    BY <1>1, <2>1, <2>2, <2>4 DEF Beyond
  <2>5. CASE p[1] = q[1] /\ p[2] < q[2]
    BY <1>1, <2>1, <2>2, <2>5 DEF Beyond
  <2>6. QED
    BY <1>1, <2>3, <2>4, <2>5 DEF Earlier
<1>7. ASSUME NEW k \in b \cup Beyond(dd, p[1], p[2])
      PROVE  k \in Beyond(dd, it.table, it.index)
  <2>1. CASE p[1] = it.table /\ it.index < p[2]
    <3>1. k \in Keys /\ (k \in InTable(dd, p[1]) => Slot(k, dd.ht[p[1]].size) \in Nat)
      BY <1>1, <1>3, <1>5, <1>7 DEF Beyond
    <3>2. \/ k \in InTable(dd, p[1]) /\ p[2] <= Slot(k, dd.ht[p[1]].size)
          \/ p[1] = 0 /\ k \in InTable(dd, 1)
      BY <1>1, <1>3, <1>7, <3>1 DEF Beyond
    <3>3. QED
      BY <1>1, <2>1, <3>1, <3>2 DEF Beyond
  <2>2. CASE p[1] = 1 /\ it.table = 0
    BY <1>3, <1>7, <2>2 DEF Beyond
  <2>3. QED
    BY <1>1, <2>1, <2>2
<1>8. QED
  BY <1>3, <1>4, <1>6, <1>7

\* What is left once the iterator has taken entry x and saved its successor.
LEMMA RestAfterTake ==
  ASSUME NEW dd, Consistent(dd), Chained(dd), NEW it \in Iterators,
         NEW x \in InTable(dd, it.table), Slot(x, dd.ht[it.table].size) = it.index
  PROVE  Taken(dd, it, x, Take(dd, it, x))
<1> DEFINE n == NextOf(dd, x)
           a == Take(dd, it, x)
<1>0. x \in Keys /\ NULL \notin Keys /\ it.table \in {0, 1} /\ it.index \in Int
  BY EntriesHaveSize, KeysAssumption DEF Iterators
<1>1. n = NULL \/ (n \in Keys /\ Mates(dd, x, n))
  BY <1>0, NextOfFollows
<1>2. \A k \in Keys : <<x, k>> \in dd.before <=> n # NULL /\ (k = n \/ <<n, k>> \in dd.before)
  BY <1>0, NextOfFollows
<1> HIDE DEF n
<1>3. /\ a \in Iterators
      /\ a.live = it.live /\ a.safe = it.safe /\ a.given = it.given /\ a.due = it.due
      /\ a.table = it.table /\ a.index = it.index /\ a.entry = x /\ a.nextEntry = n
  BY <1>0, <1>1 DEF Take, Iterators, n
<1> HIDE DEF a
<1>4. x \notin InTable(dd, 1 - it.table)
  BY <1>0 DEF Consistent, Disjoint
<1>5. n # NULL => n \in InTable(dd, it.table) /\ Slot(n, dd.ht[it.table].size) = it.index
  BY <1>0, <1>1, <1>4 DEF Mates
<1>6. ASSUME NEW k \in Keys
      PROVE  k \in Rest(dd, a) <=> k \in Beyond(dd, it.table, it.index) \/ <<x, k>> \in dd.before
  BY <1>2, <1>3 DEF Rest
<1>7. x \notin Beyond(dd, it.table, it.index)
  BY <1>0, <1>4 DEF Beyond
<1>8. <<x, x>> \notin dd.before
  BY <1>0 DEF Chained, Mates
<1>9. QED
  BY <1>0, <1>3, <1>5, <1>6, <1>7, <1>8 DEF a, Taken

\* dictNext takes one of the keys that are left, or finds that none are.
LEMMA AdvanceTakes ==
  ASSUME NEW dd, Consistent(dd), Chained(dd), NEW it, GoodIter(dd, it), it.live,
         ~Started(it) \/ it.entry # NULL
  PROVE  LET a == Advance(dd, it)
         IN /\ a \in Iterators /\ Started(a)
            /\ a.live = it.live /\ a.safe = it.safe /\ a.given = it.given /\ a.due = it.due
            /\ \/ a.entry = NULL /\ a.nextEntry = NULL /\ Rest(dd, it) = {}
               \/ /\ a.entry \in InTable(dd, a.table)
                  /\ a.index \in 0 .. dd.ht[a.table].size - 1
                  /\ a.nextEntry # NULL =>
                       /\ a.nextEntry \in InTable(dd, a.table)
                       /\ Slot(a.nextEntry, dd.ht[a.table].size) = a.index
                  /\ Rest(dd, it) = Rest(dd, a) \cup {a.entry}
                  /\ a.entry \notin Rest(dd, a)
<1> DEFINE a == Advance(dd, it)
           full == Full(dd, it)
           p == CHOOSE p \in full : \A q \in full \ {p} : Earlier(p, q)
<1>1. /\ it \in Iterators /\ it.table \in {0, 1} /\ it.index \in Nat \cup {-1}
      /\ dd.ht[0].size \in Nat /\ dd.ht[1].size \in Nat /\ NULL \notin Keys
  BY TableNumbers, KeysAssumption DEF GoodIter, Iterators, Consistent, GoodTable
<1>2. CASE it.entry # NULL /\ it.nextEntry # NULL
  <2>1. Walking(it)
    BY <1>2 DEF GoodIter, Unused, NoIter, Walking
  <2>2. /\ it.index \in 0 .. dd.ht[it.table].size - 1
        /\ it.nextEntry \in InTable(dd, it.table)
        /\ Slot(it.nextEntry, dd.ht[it.table].size) = it.index
        /\ it.nextEntry \in Keys
    BY <1>1, <1>2, <2>1, EntriesHaveSize DEF GoodIter
  <2>3. a = Take(dd, it, it.nextEntry)
    BY <1>2 DEF Advance
  <2> HIDE DEF a
  <2>4. Taken(dd, it, it.nextEntry, a)
    BY <1>1, <2>2, <2>3, RestAfterTake
  <2>5. Rest(dd, it) = Rest(dd, a) \cup {a.entry}
    <3>1. \A k \in Keys : k \in Rest(dd, it) <=>
            \/ k \in Beyond(dd, it.table, it.index)
            \/ k = it.nextEntry \/ <<it.nextEntry, k>> \in dd.before
      BY <1>2 DEF Rest
    <3>2. Rest(dd, it) \subseteq Keys /\ Rest(dd, a) \subseteq Keys
      BY DEF Rest, Beyond
    <3>3. QED
      BY <2>2, <2>4, <3>1, <3>2 DEF Taken
  <2>6. Started(a)
    BY <2>1, <2>4 DEF Started, Walking, Taken
  <2>7. QED
    BY <2>2, <2>4, <2>5, <2>6 DEF a, Taken
<1>3. CASE ~(it.entry # NULL /\ it.nextEntry # NULL)
  <2>1. it.nextEntry = NULL
    BY <1>3 DEF GoodIter, Unused, NoIter
  <2>2. Rest(dd, it) = Beyond(dd, it.table, it.index)
    BY <2>1 DEF Rest
  <2>3. CASE full = {}
    <3>1. a = AtEnd(dd, it)
      BY <1>3, <2>3 DEF Advance, Full
    <3>2. /\ a \in Iterators /\ a.entry = NULL /\ a.nextEntry = NULL /\ a.index \in Nat
          /\ a.live = it.live /\ a.safe = it.safe /\ a.given = it.given /\ a.due = it.due
      <4>1. \E t \in {0, 1} : a = [it EXCEPT !.table = t, !.index = dd.ht[t].size, !.entry = NULL]
        BY <1>1, <3>1 DEF AtEnd
      <4>2. \A t \in {0, 1} : dd.ht[t].size \in Nat
        BY <1>1
      <4> HIDE DEF a
      <4>3. QED
        BY <1>1, <2>1, <4>1, <4>2 DEF Iterators
    <3>3. Rest(dd, it) = {}
      BY <1>1, <2>2, <2>3, FullHoldBeyond
    <3> HIDE DEF a
    <3>4. Started(a)
      BY <3>2 DEF Started
    <3>5. QED
      BY <3>2, <3>3, <3>4 DEF a
  <2>4. CASE full # {}
    <3> DEFINE b == dd.ht[p[1]].table[p[2]]
               moved == [it EXCEPT !.table = p[1], !.index = p[2]]
               x == First(dd, b)
    <3>1. a = Take(dd, moved, x)
      BY <1>3, <2>4 DEF Advance, Full
    <3>2. Nearest(dd, it, p)
      <4>1. \E r \in full : \A q \in full \ {r} : Earlier(r, q)
        BY <1>1, <2>4, FullHoldBeyond, EarliestExists
      <4>2. QED
        BY <4>1 DEF Nearest
    <3> HIDE DEF p, a
    <3>3. p[1] \in {0, 1} /\ p[2] \in Nat /\ p[2] \in 0 .. dd.ht[p[1]].size - 1
      BY <1>1, <3>2, FullHoldBeyond DEF Nearest
    <3>4. /\ b \in SUBSET Keys /\ b # {}
          /\ \A y \in b : y \in InTable(dd, p[1]) /\ Slot(y, dd.ht[p[1]].size) = p[2]
          /\ Beyond(dd, it.table, it.index) = b \cup Beyond(dd, p[1], p[2])
      BY <1>1, <3>2, NextFullBucket
    <3> HIDE DEF b
    <3>5. \A y, z \in b : y # z => Mates(dd, y, z)
      BY <3>3, <3>4 DEF Mates
    <3>6. x \in b /\ \A y \in b \ {x} : <<x, y>> \in dd.before
      BY <3>4, <3>5, FirstPrecedes
    <3> HIDE DEF x
    <3>7. /\ moved \in Iterators /\ moved.table = p[1] /\ moved.index = p[2]
          /\ moved.live = it.live /\ moved.safe = it.safe
          /\ moved.given = it.given /\ moved.due = it.due
      BY <1>1, <3>3 DEF Iterators
    <3> HIDE DEF moved
    <3>8. x \in InTable(dd, moved.table) /\ Slot(x, dd.ht[moved.table].size) = moved.index
      BY <3>4, <3>6, <3>7
    <3>9. Taken(dd, moved, x, a)
      BY <3>1, <3>7, <3>8, RestAfterTake
    <3>10. \A k \in Keys : <<x, k>> \in dd.before => k \in b
      <4>1. ASSUME NEW k \in Keys, <<x, k>> \in dd.before
            PROVE  k \in b
        <5>1. Mates(dd, x, k) /\ x \in Keys
          BY <3>4, <3>6, <4>1 DEF Chained
        <5>2. x \notin InTable(dd, 1 - p[1])
          BY <3>3, <3>4, <3>6 DEF Consistent, Disjoint
        <5>3. k \in InTable(dd, p[1]) /\ Slot(k, dd.ht[p[1]].size) = p[2]
          BY <3>3, <3>4, <3>6, <5>1, <5>2 DEF Mates
        <5>4. QED
          BY <3>3, <5>3, EntryInItsSlot DEF Consistent, InTable, b
      <4>2. QED
        BY <4>1
    <3>11. Rest(dd, it) = Rest(dd, a) \cup {a.entry}
      <4>1. Rest(dd, it) \subseteq Keys /\ Rest(dd, a) \subseteq Keys
        BY DEF Rest, Beyond
      <4>2. QED
        BY <2>2, <3>4, <3>6, <3>7, <3>9, <3>10, <4>1 DEF Taken
    <3>12. Started(a)
      BY <1>1, <1>3, <3>3, <3>7, <3>9 DEF Started, Taken
    <3>13. QED
      BY <3>3, <3>7, <3>8, <3>9, <3>11, <3>12 DEF a, Taken
  <2>5. QED
    BY <2>3, <2>4
<1>4. QED
  BY <1>2, <1>3

----------------------------------------------------------------------------
\* What the other calls do to an iterator.

\* An iterator that is not running owes nothing to the dict.
LEMMA IdleIter ==
  ASSUME NEW dd, NEW it, GoodIter(dd, it), ~Started(it), NEW e
  PROVE  GoodIter(e, it)
BY DEF GoodIter, Unused, NoIter, Walking

\* Entries that stay on their chains stay where the iterator will find them.
LEMMA SameEntriesIter ==
  ASSUME NEW dd, Consistent(dd), NEW it, GoodIter(dd, it), NEW e, SameEntries(dd, e)
  PROVE  GoodIter(e, it)
<1>1. it.table \in {0, 1} /\ dd.ht[0].size \in Nat /\ dd.ht[1].size \in Nat
  BY TableNumbers DEF GoodIter, Iterators, Consistent, GoodTable
<1>2. Stored(e) = Stored(dd)
  BY DEF SameEntries, Stored
<1>3. CASE Walking(it)
  <2>1. it.index \in 0 .. dd.ht[it.table].size - 1
    BY <1>3 DEF GoodIter
  <2>2. e.ht[it.table].size = dd.ht[it.table].size
    BY <1>1, <2>1 DEF SameEntries
  <2>3. Rest(e, it) = Rest(dd, it)
    BY <1>1, <2>2 DEF SameEntries, Rest, Beyond
  <2>4. InTable(e, it.table) = InTable(dd, it.table)
    BY <1>1 DEF SameEntries
  <2>5. QED
    BY <1>2, <2>2, <2>3, <2>4 DEF GoodIter
<1>4. CASE ~Walking(it)
  BY <1>2, <1>4 DEF GoodIter
<1>5. QED
  BY <1>3, <1>4

\* A new entry may be given, and nothing is given twice for it.
LEMMA LinkedIter ==
  ASSUME NEW dd, Consistent(dd), NEW it, GoodIter(dd, it), NEW e, NEW t \in {0, 1},
         NEW k \in Keys, k \notin Stored(dd), Linked(dd, e, t, k)
  PROVE  GoodIter(e, it)
<1>1. it.table \in {0, 1} /\ it.index \in Int
  BY DEF GoodIter, Iterators
<1>2. /\ \A u \in {0, 1} : /\ e.ht[u].size = dd.ht[u].size
                           /\ InTable(dd, u) \subseteq InTable(e, u)
                           /\ InTable(e, u) \subseteq InTable(dd, u) \cup {k}
      /\ dd.before \subseteq e.before
      /\ \A x, y : <<x, y>> \in e.before => x = k \/ <<x, y>> \in dd.before
  <2>1. {t, 1 - t} = {0, 1}
    OBVIOUS
  <2>2. \A u \in {0, 1} : InTable(e, u) = InTable(dd, u) \/ InTable(e, u) = InTable(dd, u) \cup {k}
    BY <2>1 DEF Linked
  <2>3. QED
    BY <2>2 DEF Linked
<1>3. Stored(dd) \subseteq Stored(e)
  BY <1>2 DEF Stored
<1>4. CASE Walking(it)
  <2>1. it.nextEntry # NULL => it.nextEntry \in InTable(dd, it.table) /\ it.nextEntry # k
    BY <1>1, <1>4 DEF GoodIter, Stored
  <2>2. Rest(dd, it) \subseteq Rest(e, it)
    BY <1>1, <1>2 DEF Rest, Beyond
  <2>3. Rest(e, it) \subseteq Rest(dd, it) \cup {k}
    BY <1>1, <1>2, <2>1 DEF Rest, Beyond
  <2>4. k \notin it.given
    BY DEF GoodIter
  <2>5. QED
    BY <1>1, <1>2, <1>3, <1>4, <2>1, <2>2, <2>3, <2>4 DEF GoodIter
<1>5. CASE ~Walking(it)
  BY <1>3, <1>5 DEF GoodIter
<1>6. QED
  BY <1>4, <1>5

LEMMA ForgetFields ==
  ASSUME NEW it \in Iterators, NEW S \in SUBSET Keys, it.nextEntry \notin S
  PROVE  LET a == Forget(it, S)
         IN /\ a \in Iterators
            /\ a.live = it.live /\ a.safe = it.safe /\ a.table = it.table /\ a.index = it.index
            /\ a.nextEntry = it.nextEntry /\ a.given = it.given \ S /\ a.due = it.due \ S
            /\ a.entry = IF it.entry \in S THEN Freed ELSE it.entry
            /\ a.entry = NULL <=> it.entry = NULL
            /\ Started(a) <=> Started(it)
            /\ Unused(it) => a = it
<1> DEFINE a == Forget(it, S)
<1>1. NULL \notin S /\ Freed # NULL
  BY KeysAssumption
<1>2. /\ a \in Iterators
      /\ a.live = it.live /\ a.safe = it.safe /\ a.table = it.table /\ a.index = it.index
      /\ a.nextEntry = it.nextEntry /\ a.given = it.given \ S /\ a.due = it.due \ S
      /\ a.entry = IF it.entry \in S THEN Freed ELSE it.entry
  BY DEF Forget, Iterators
<1>3. Started(a) <=> Started(it)
  BY <1>2 DEF Started
<1>4. ASSUME Unused(it)
      PROVE  a = it
  <2>1. it.entry = NULL /\ it.given = {} /\ it.due = {}
    BY <1>4 DEF Unused, NoIter
  <2>2. a.entry = it.entry /\ a.given = it.given /\ a.due = it.due
    BY <1>1, <1>2, <2>1
  <2> HIDE DEF a
  <2>3. QED
    BY <1>2, <2>2 DEF Iterators
<1>5. QED
  BY <1>1, <1>2, <1>3, <1>4

\* An entry that the iterator has not saved may go.
LEMMA UnlinkedIter ==
  ASSUME NEW dd, NEW it, GoodIter(dd, it), NEW e,
         NEW k \in Keys, it.nextEntry # k, Unlinked(dd, e, k)
  PROVE  GoodIter(e, Forget(it, {k}))
<1> DEFINE a == Forget(it, {k})
<1>1. it \in Iterators /\ it.table \in {0, 1}
  BY DEF GoodIter, Iterators
<1>2. /\ a \in Iterators
      /\ a.live = it.live /\ a.safe = it.safe /\ a.table = it.table /\ a.index = it.index
      /\ a.nextEntry = it.nextEntry /\ a.given = it.given \ {k} /\ a.due = it.due \ {k}
      /\ a.entry = NULL <=> it.entry = NULL
      /\ Started(a) <=> Started(it)
      /\ Unused(it) => a = it
  BY <1>1, ForgetFields
<1> HIDE DEF a
<1>3. Stored(e) = Stored(dd) \ {k}
  BY DEF Unlinked, Stored
<1>4. NoIter.live = FALSE /\ (~it.live => Unused(it))
  BY DEF GoodIter, Started, NoIter, Unused
<1>5. Walking(a) <=> Walking(it)
  BY <1>2 DEF Walking
<1>6. Rest(e, a) = Rest(dd, it) \ {k}
  BY <1>1, <1>2 DEF Unlinked, Rest, Beyond
<1>7. ASSUME Walking(a)
      PROVE  /\ a.index \in 0 .. e.ht[a.table].size - 1
             /\ a.nextEntry # NULL =>
                  /\ a.nextEntry \in InTable(e, a.table)
                  /\ Slot(a.nextEntry, e.ht[a.table].size) = a.index
             /\ a.due \subseteq Rest(e, a)
             /\ a.given \cap Rest(e, a) = {}
  <2>1. e.ht[it.table].size = dd.ht[it.table].size /\ InTable(e, it.table) = InTable(dd, it.table) \ {k}
    BY <1>1 DEF Unlinked
  <2>2. QED
    BY <1>2, <1>5, <1>6, <1>7, <2>1 DEF GoodIter
<1>8. /\ a.due \subseteq Stored(e) /\ a.given \subseteq Stored(e)
      /\ ~a.live => a = NoIter
      /\ ~Started(a) => Unused(a)
      /\ Started(a) /\ a.entry = NULL => a.due = {}
  BY <1>2, <1>3, <1>4 DEF GoodIter
<1>9. QED
  BY <1>2, <1>7, <1>8 DEF GoodIter, a

----------------------------------------------------------------------------
\* The calls that a client may make while iterators run.

\* Going from dd to e is safe for the iterators: those that run do so because
\* dd.iterators, which stops the rehash, is not 0.
Spares(dd, e) ==
  /\ e.iterators = dd.iterators
  /\ \A it : GoodIter(dd, it) /\ (Started(it) => dd.iterators # 0) => GoodIter(e, it)

LEMMA SparesTwice ==
  ASSUME NEW dd, NEW e, NEW f, Spares(dd, e), Spares(e, f)
  PROVE  Spares(dd, f)
BY DEF Spares

LEMMA SparesSame ==
  ASSUME NEW dd, Consistent(dd), NEW e, SameEntries(dd, e), e.iterators = dd.iterators
  PROVE  Spares(dd, e)
BY SameEntriesIter DEF Spares

LEMMA SparesStep ==
  ASSUME NEW dd, Consistent(dd)
  PROVE  Spares(dd, RehashStep(dd)) /\ Spares(dd, BeforeSearch(dd))
<1>1. dd.iterators # 0 => RehashStep(dd) = dd /\ BeforeSearch(dd) = dd
  BY DEF RehashStep, BeforeSearch
<1>2. RehashStep(dd).iterators = dd.iterators /\ BeforeSearch(dd).iterators = dd.iterators
  BY RehashStepKeeps, BeforeSearchKeeps DEF Keeps
<1>3. QED
  BY <1>1, <1>2, IdleIter DEF Spares

LEMMA SparesPrepareAdd ==
  ASSUME NEW dd, Consistent(dd)
  PROVE  Spares(dd, PrepareAdd(dd))
<1> DEFINE d1 == RehashStep(dd)
<1>1. Consistent(d1) /\ Spares(dd, d1)
  BY RehashStepKeeps, SparesStep DEF Keeps
<1>2. Spares(d1, ExpandIfNeeded(d1))
  BY <1>1, ExpandIfNeededKeeps, SparesSame DEF Keeps
<1>3. QED
  BY <1>1, <1>2, SparesTwice DEF PrepareAdd

LEMMA SparesAddRaw ==
  ASSUME NEW dd, Consistent(dd), NEW k \in Keys, NEW v \in Vals
  PROVE  Spares(dd, AddRaw(dd, k, v))
<1> DEFINE d1 == PrepareAdd(dd)
           e == AddRaw(dd, k, v)
<1>1. Keeps(dd, d1) /\ Spares(dd, d1)
  BY AddRawAdds, SparesPrepareAdd
<1>2. CASE Addable(dd, k)
  <2>1. PICK t \in {0, 1} : Linked(d1, e, t, k)
    BY <1>2, AddRawAdds
  <2>2. k \notin Stored(d1) /\ Consistent(d1)
    BY <1>1, <1>2, AddRawAdds DEF Keeps
  <2> HIDE DEF d1, e
  <2>3. Spares(d1, e)
    BY <2>1, <2>2, LinkedIter DEF Spares, Linked
  <2>4. QED
    BY <1>1, <2>3, SparesTwice DEF e
<1>3. CASE ~Addable(dd, k)
  BY <1>1, <1>3, AddRawAdds
<1>4. QED
  BY <1>2, <1>3

LEMMA SparesSetVal ==
  ASSUME NEW dd, Consistent(dd), NEW k \in Keys, NEW v \in Vals
  PROVE  Spares(dd, SetVal(dd, k, v))
BY SetValSets, SparesSame

\* An insertion or a change of a value.
LEMMA WritesSpare ==
  ASSUME Consistent(d), NEW k \in Keys, NEW v \in Vals,
         DictAdd(k, v) \/ DictReplace(k, v) \/ DictReplaceRaw(k, v)
  PROVE  Spares(d, d')
<1>1. CASE DictAdd(k, v)
  BY <1>1, SparesAddRaw DEF DictAdd
<1>2. CASE DictReplace(k, v)
  <2> DEFINE d2 == PrepareAdd(d)
             d3 == BeforeSearch(d2)
  <2>1. Consistent(d2) /\ Spares(d, d2)
    BY AddRawAdds, SparesPrepareAdd DEF Keeps
  <2>2. Consistent(d3) /\ Spares(d2, d3)
    BY <2>1, BeforeSearchKeeps, SparesStep DEF Keeps
  <2>3. Spares(d3, SetVal(d3, k, v))
    BY <2>2, SparesSetVal
  <2>4. Spares(d, SetVal(d3, k, v))
    BY <2>1, <2>2, <2>3, SparesTwice
  <2>5. QED
    BY <1>2, <2>4, SparesAddRaw DEF DictReplace
<1>3. CASE DictReplaceRaw(k, v)
  <2> DEFINE d1 == BeforeSearch(d)
  <2>1. Consistent(d1) /\ Spares(d, d1)
    BY BeforeSearchKeeps, SparesStep DEF Keeps
  <2>2. Spares(d1, SetVal(d1, k, v)) /\ Spares(d1, AddRaw(d1, k, v))
    BY <2>1, SparesSetVal, SparesAddRaw
  <2>3. QED
    BY <1>3, <2>1, <2>2, SparesTwice DEF DictReplaceRaw
<1>4. QED
  BY <1>1, <1>2, <1>3

LEMMA MaintainSpares ==
  ASSUME Consistent(d), Maintain
  PROVE  Spares(d, d')
<1>1. Spares(d, d)
  BY DEF Spares
<1>2. ASSUME NEW n \in Requests, CanExpand(d, n)
      PROVE  Spares(d, Expand(d, n))
  BY <1>2, ExpandKeeps, SparesSame DEF Keeps
<1>3. ExpandSizes \subseteq Requests /\ Minimal(d) \in Requests
  BY SizesRequested DEF Requests
<1>4. QED
  BY <1>1, <1>2, <1>3 DEF Maintain, DictExpand, DictResize, SetResize

----------------------------------------------------------------------------
\* What a step does to the iterators.

\* The count is right as long as no iterator starts or stops.
LEMMA CountKept ==
  ASSUME ItersInv, d'.iterators = d.iterators,
         \A i \in Iters : /\ Started(iter'[i]) <=> Started(iter[i])
                          /\ iter'[i].safe = iter[i].safe
  PROVE  IsFiniteSet(SafeRunning') /\ IteratorsCounted'
<1>1. SafeRunning' = SafeRunning
  BY DEF SafeRunning
<1>2. QED
  BY <1>1 DEF ItersInv, IteratorsCounted

\* Among calls that are made between the steps of safe iterators only, an
\* iterator runs only while dict.iterators is not 0.
LEMMA RunningIsCounted ==
  ASSUME ItersInv, Consistent(d), UnsafeRunning = {}, NEW i \in Iters, Started(iter[i])
  PROVE  d.iterators # 0
<1>1. i \in SafeRunning
  BY DEF ItersInv, Iterators, SafeRunning, UnsafeRunning
<1>2. Cardinality(SafeRunning) # 0
  BY <1>1, FS_EmptySet DEF ItersInv
<1>3. QED
  BY <1>2 DEF ItersInv, IteratorsCounted

\* A call that does not touch the iterators.
LEMMA SparedIters ==
  ASSUME ItersInv, Consistent(d), UnsafeRunning = {}, Spares(d, d'), iter' = iter
  PROVE  ItersInv'
<1>1. \A i \in Iters : GoodIter(d', iter[i])
  BY RunningIsCounted DEF Spares, ItersInv
<1>2. IsFiniteSet(SafeRunning') /\ IteratorsCounted'
  BY CountKept DEF Spares
<1>3. QED
  BY <1>1, <1>2 DEF ItersInv

LEMMA DeleteIters ==
  ASSUME ItersInv, Consistent(d), UnsafeRunning = {}, NEW k \in Keys,
         \A i \in Iters : iter[i].nextEntry # k, DictDelete(k)
  PROVE  ItersInv'
<1> DEFINE d1 == BeforeSearch(d)
<1>1. Consistent(d1) /\ Spares(d, d1)
  BY BeforeSearchKeeps, SparesStep DEF Keeps
<1>2. CASE ~Found(d1, k)
  BY <1>1, <1>2, SparedIters DEF DictDelete
<1>3. CASE Found(d1, k)
  <2>1. Unlinked(d1, d', k)
    <3>1. d' = Unlink(d1, k) /\ k \in Stored(d1)
      BY <1>1, <1>3, FindFindsStored DEF DictDelete
    <3>2. QED
      BY <1>1, <3>1, UnlinkRemoves
  <2>2. iter' = [i \in Iters |-> Forget(iter[i], {k})]
    BY <1>3 DEF DictDelete
  <2> HIDE DEF d1
  <2>3. d'.iterators = d.iterators
    BY <1>1, <2>1 DEF Spares, Unlinked
  <2>4. ASSUME NEW i \in Iters
        PROVE  /\ GoodIter(d', iter'[i]) /\ iter'[i] \in Iterators
               /\ Started(iter'[i]) <=> Started(iter[i])
               /\ iter'[i].safe = iter[i].safe
    <3>1. GoodIter(d1, iter[i])
      BY <1>1, RunningIsCounted DEF Spares, ItersInv
    <3>2. iter'[i] = Forget(iter[i], {k})
      BY <2>2
    <3>3. GoodIter(d', iter'[i])
      BY <2>1, <3>1, <3>2, UnlinkedIter
    <3>4. iter[i] \in Iterators /\ iter[i].nextEntry \notin {k} /\ {k} \in SUBSET Keys
      BY DEF ItersInv
    <3>5. (Started(iter'[i]) <=> Started(iter[i])) /\ iter'[i].safe = iter[i].safe
      BY <3>2, <3>4, ForgetFields
    <3>6. QED
      BY <3>3, <3>5 DEF GoodIter
  <2>5. IsFiniteSet(SafeRunning') /\ IteratorsCounted'
    BY <2>3, <2>4, CountKept
  <2>6. iter' \in [Iters -> Iterators]
    BY <2>2, <2>4
  <2>7. QED
    BY <2>4, <2>5, <2>6 DEF ItersInv
<1>4. QED
  BY <1>2, <1>3

LEMMA OnDemandIters ==
  ASSUME ItersInv, Consistent(d), Idle, OnDemand
  PROVE  ItersInv'
<1>1. \A i \in Iters : ~Started(iter[i])
  BY DEF Idle, SafeRunning, UnsafeRunning
<1>2. \A i \in Iters : \A e : GoodIter(e, iter[i])
  BY <1>1, IdleIter DEF ItersInv
<1>3. ASSUME NEW n \in Nat, d' = Rehash(d, n), iter' = iter
      PROVE  ItersInv'
  <2>1. d'.iterators = d.iterators
    BY <1>3, RehashKeeps DEF Keeps
  <2>2. IsFiniteSet(SafeRunning') /\ IteratorsCounted'
    BY <1>3, <2>1, CountKept
  <2>3. QED
    BY <1>2, <1>3, <2>2 DEF ItersInv
<1>4. CASE DictEmpty
  <2>1. d' = EmptyDict /\ iter' = [i \in Iters |-> Forget(iter[i], Stored(d))]
    BY <1>4 DEF DictEmpty
  <2>2. Stored(d) \in SUBSET Keys /\ NULL \notin Keys
    BY StoredAreKeys, KeysAssumption
  <2>3. ASSUME NEW i \in Iters
        PROVE  iter'[i] = iter[i]
    <3>1. iter[i] \in Iterators /\ Unused(iter[i]) /\ iter[i].nextEntry = NULL
      <4>1. iter[i] \in Iterators /\ Unused(iter[i])
        BY <1>1 DEF ItersInv, GoodIter
      <4>2. QED
        BY <4>1 DEF Unused, NoIter
    <3>2. Forget(iter[i], Stored(d)) = iter[i]
      BY <2>2, <3>1, ForgetFields
    <3>3. QED
      BY <2>1, <3>2
  <2>4. iter' = iter
    BY <2>1, <2>3 DEF ItersInv
  <2>5. d'.iterators = d.iterators
    <3>1. SafeRunning = {}
      BY DEF Idle
    <3>2. QED
      BY <2>1, <3>1, FS_EmptySet DEF ItersInv, IteratorsCounted, EmptyDict
  <2>6. IsFiniteSet(SafeRunning') /\ IteratorsCounted'
    BY <2>4, <2>5, CountKept
  <2>7. QED
    BY <1>2, <2>4, <2>6 DEF ItersInv
<1>5. ASSUME NEW n \in 0 .. RehashBatch, DictRehash(n)
      PROVE  ItersInv'
  BY <1>3, <1>5, RatiosAssumption DEF DictRehash
<1>6. CASE DictRehashMilliseconds
  <2>1. PICK b \in 1 .. MaxBatches : d' = Rehash(d, b * RehashBatch) /\ iter' = iter
    BY <1>6 DEF DictRehashMilliseconds
  <2>2. b * RehashBatch \in Nat
    BY RatiosAssumption
  <2>3. QED
    BY <1>3, <2>1, <2>2
<1>7. QED
  BY <1>4, <1>5, <1>6 DEF OnDemand

\* One iterator changes, and the dict in its count at most.
LEMMA OneIterChanges ==
  ASSUME ItersInv, Consistent(d), SameEntries(d, d'), NEW i \in Iters, NEW a,
         iter' = [iter EXCEPT ![i] = a], GoodIter(d', a),
         \/ /\ d'.iterators = d.iterators
            /\ Started(a) /\ a.safe <=> Started(iter[i]) /\ iter[i].safe
         \/ /\ d'.iterators = d.iterators + 1
            /\ Started(a) /\ a.safe /\ ~(Started(iter[i]) /\ iter[i].safe)
         \/ /\ d'.iterators = d.iterators - 1
            /\ ~(Started(a) /\ a.safe) /\ Started(iter[i]) /\ iter[i].safe
  PROVE  ItersInv'
<1>1. a \in Iterators
  BY DEF GoodIter
<1>2. iter \in [Iters -> Iterators] /\ iter' \in [Iters -> Iterators]
  BY <1>1 DEF ItersInv
<1>3. iter'[i] = a /\ \A j \in Iters \ {i} : iter'[j] = iter[j]
  BY <1>2
<1>4. \A j \in Iters : GoodIter(d', iter'[j])
  BY <1>3, SameEntriesIter DEF ItersInv
<1> DEFINE S == SafeRunning
           T == SafeRunning'
<1>5. /\ \A j \in Iters : j \in S <=> Started(iter[j]) /\ iter[j].safe
      /\ \A j \in Iters : j \in T <=> Started(iter'[j]) /\ iter'[j].safe
      /\ S \subseteq Iters /\ T \subseteq Iters
  BY DEF SafeRunning
<1>6. IsFiniteSet(S) /\ d.iterators = Cardinality(S)
  BY DEF ItersInv, IteratorsCounted
<1> HIDE DEF S, T
<1>7. IsFiniteSet(T) /\ d'.iterators = Cardinality(T)
  <2>1. CASE /\ d'.iterators = d.iterators
             /\ Started(a) /\ a.safe <=> Started(iter[i]) /\ iter[i].safe
    <3>1. T = S
      BY <1>3, <1>5, <2>1
    <3>2. QED
      BY <1>6, <2>1, <3>1
  <2>2. CASE /\ d'.iterators = d.iterators + 1
             /\ Started(a) /\ a.safe /\ ~(Started(iter[i]) /\ iter[i].safe)
    <3>1. T = S \cup {i} /\ i \notin S
      BY <1>3, <1>5, <2>2
    <3>2. QED
      BY <1>6, <2>2, <3>1, FS_AddElement
  <2>3. CASE /\ d'.iterators = d.iterators - 1
             /\ ~(Started(a) /\ a.safe) /\ Started(iter[i]) /\ iter[i].safe
    <3>1. T = S \ {i} /\ i \in S
      BY <1>3, <1>5, <2>3
    <3>2. QED
      BY <1>6, <2>3, <3>1, FS_RemoveElement
  <2>4. QED
    BY <2>1, <2>2, <2>3
<1>8. QED
  BY <1>2, <1>4, <1>7 DEF ItersInv, IteratorsCounted, T

\* dictNext takes one key of those that are left from what is due.
LEMMA NextTakes ==
  ASSUME ItersInv, Consistent(d), Chained(d), NEW i \in Iters, DictNext(i)
  PROVE  /\ ItersInv'
         /\ iter'[i].entry \notin iter[i].given
         /\ Freed \notin {iter'[i].entry, iter'[i].nextEntry}
<1> DEFINE it == iter[i]
           a == Advance(d, it)
           fresh == ~Started(it)
           owed == IF fresh THEN Stored(d) ELSE a.due
           b == [a EXCEPT !.given = @ \cup ({a.entry} \cap Keys), !.due = owed \ {a.entry}]
           m == IF fresh /\ a.safe THEN d.iterators + 1 ELSE d.iterators
<1>1. /\ it.live /\ (fresh \/ it.entry # NULL)
      /\ d' = [d EXCEPT !.iterators = m]
      /\ iter' = [iter EXCEPT ![i] = b]
  BY DEF DictNext
<1>2. GoodIter(d, it) /\ it \in Iterators /\ iter \in [Iters -> Iterators]
  BY DEF ItersInv
<1>3. NULL \notin Keys /\ Freed \notin Keys /\ Freed # NULL /\ Stored(d) \subseteq Keys
  BY KeysAssumption, StoredAreKeys
<1>4. /\ a \in Iterators /\ Started(a)
      /\ a.live = it.live /\ a.safe = it.safe /\ a.given = it.given /\ a.due = it.due
      /\ \/ a.entry = NULL /\ a.nextEntry = NULL /\ Rest(d, it) = {}
         \/ /\ a.entry \in InTable(d, a.table)
            /\ a.index \in 0 .. d.ht[a.table].size - 1
            /\ a.nextEntry # NULL =>
                 /\ a.nextEntry \in InTable(d, a.table)
                 /\ Slot(a.nextEntry, d.ht[a.table].size) = a.index
            /\ Rest(d, it) = Rest(d, a) \cup {a.entry}
            /\ a.entry \notin Rest(d, a)
  BY <1>1, <1>2, AdvanceTakes
<1> HIDE DEF a
<1>5. owed \subseteq Rest(d, it) /\ it.given \cap Rest(d, it) = {} /\ owed \subseteq Stored(d)
  <2>1. CASE fresh
    <3>1. it.table = 0 /\ it.index = -1 /\ it.given = {}
      BY <1>2, <2>1 DEF GoodIter, Unused, NoIter
    <3>2. ASSUME NEW k \in InTable(d, 0)
          PROVE  k \in Keys /\ -1 < Slot(k, d.ht[0].size)
      <4>1. k \in Keys /\ d.ht[0].size > 0 /\ d.ht[0].size \in Nat
        BY EntriesHaveSize, TableNumbers DEF Consistent, GoodTable
      <4>2. QED
        BY <4>1, SlotInTable
    <3>3. Stored(d) \subseteq Beyond(d, 0, -1)
      BY <1>3, <3>2 DEF Beyond, Stored
    <3>4. QED
      BY <2>1, <3>1, <3>3 DEF Rest
  <2>2. CASE ~fresh
    BY <1>1, <1>2, <1>4, <2>2 DEF GoodIter, Walking
  <2>3. QED
    BY <2>1, <2>2
<1> HIDE DEF owed
<1>6. /\ b.live = it.live /\ b.safe = it.safe /\ b.table = a.table /\ b.index = a.index
      /\ b.entry = a.entry /\ b.nextEntry = a.nextEntry
      /\ b.given = it.given \cup ({a.entry} \cap Keys) /\ b.due = owed \ {a.entry}
      /\ b \in Iterators
  BY <1>3, <1>4, <1>5 DEF Iterators
<1> HIDE DEF b
<1>7. Started(b) /\ b.live /\ Rest(d, b) = Rest(d, a)
  BY <1>1, <1>4, <1>6 DEF Started, Rest
<1>8. a.entry \in InTable(d, a.table) => a.entry \in Stored(d) /\ a.entry \in Keys
  BY <1>3, <1>4 DEF Iterators, Stored
<1>9. b.given \subseteq Stored(d)
  BY <1>2, <1>3, <1>4, <1>6, <1>8 DEF GoodIter
<1>10. GoodIter(d, b)
  <2>1. CASE a.entry = NULL /\ a.nextEntry = NULL /\ Rest(d, it) = {}
    BY <1>3, <1>5, <1>6, <1>7, <1>9, <2>1 DEF GoodIter, Walking
  <2>2. CASE a.entry \in InTable(d, a.table)
    <3>1. a.entry # NULL
      BY <1>3, <1>8, <2>2
    <3>2. b.due \subseteq Rest(d, b) /\ b.given \cap Rest(d, b) = {}
      BY <1>4, <1>5, <1>6, <1>7, <3>1
    <3>3. QED
      BY <1>4, <1>5, <1>6, <1>7, <1>9, <3>1, <3>2 DEF GoodIter, Walking
  <2>3. QED
    BY <1>4, <2>1, <2>2
<1>11. /\ SameEntries(d, d') /\ d'.iterators = m
  <2>1. d = [ht |-> d.ht, rehashidx |-> d.rehashidx, iterators |-> d.iterators,
             before |-> d.before, val |-> d.val]
    BY DEF Consistent, IsDict
  <2> HIDE DEF m
  <2>2. d'.ht = d.ht /\ d'.before = d.before /\ d'.iterators = m
    BY <1>1, <2>1
  <2>3. QED
    BY <2>2 DEF SameEntries, InTable
<1>12. ItersInv'
  <2>1. GoodIter(d', b)
    BY <1>10, <1>11, SameEntriesIter
  <2>2. \/ /\ d'.iterators = d.iterators
           /\ Started(b) /\ b.safe <=> Started(iter[i]) /\ iter[i].safe
        \/ /\ d'.iterators = d.iterators + 1
           /\ Started(b) /\ b.safe /\ ~(Started(iter[i]) /\ iter[i].safe)
    BY <1>4, <1>6, <1>7, <1>11
  <2> HIDE DEF m, it
  <2>3. QED
    BY <1>1, <1>11, <2>1, <2>2, OneIterChanges
<1>13. iter'[i] = b
  BY <1>1, <1>2
<1>14. a.entry \notin it.given
  BY <1>2, <1>3, <1>4, <1>5 DEF GoodIter
<1>15. Freed \notin {a.entry, a.nextEntry}
  <2>1. a.table \in {0, 1}
    BY <1>4 DEF Iterators
  <2>2. \A k \in InTable(d, a.table) : k \in Keys
    BY <2>1, EntriesHaveSize
  <2>3. QED
    BY <1>3, <1>4, <2>2
<1>16. QED
  BY <1>6, <1>12, <1>13, <1>14, <1>15

LEMMA IterateIters ==
  ASSUME ItersInv, Consistent(d), Chained(d), Iterate
  PROVE  ItersInv'
<1>1. d = [ht |-> d.ht, rehashidx |-> d.rehashidx, iterators |-> d.iterators,
           before |-> d.before, val |-> d.val]
  BY DEF Consistent, IsDict
<1>2. SameEntries(d, d')
  BY IterateTables
<1>3. ASSUME NEW i \in Iters, NEW safe \in BOOLEAN, DictGetIterator(i, safe)
      PROVE  ItersInv'
  <2> DEFINE a == [NoIter EXCEPT !.live = TRUE, !.safe = safe]
  <2>1. /\ ~iter[i].live /\ d' = d /\ iter' = [iter EXCEPT ![i] = a]
    BY <1>3 DEF DictGetIterator
  <2>2. /\ a \in Iterators /\ ~Started(a) /\ Unused(a) /\ a.live
        /\ a.given = {} /\ a.due = {}
    BY DEF Iterators, Started, Unused, NoIter
  <2> HIDE DEF a
  <2>3. GoodIter(d', a)
    BY <2>2 DEF GoodIter, Walking
  <2>4. ~Started(iter[i])
    BY <2>1 DEF Started
  <2>5. QED
    BY <1>2, <2>1, <2>2, <2>3, <2>4, OneIterChanges
<1>4. ASSUME NEW i \in Iters, DictReleaseIterator(i)
      PROVE  ItersInv'
  <2> DEFINE running == Started(iter[i]) /\ iter[i].safe
             m == IF running THEN d.iterators - 1 ELSE d.iterators
  <2>1. d' = [d EXCEPT !.iterators = m] /\ iter' = [iter EXCEPT ![i] = NoIter]
    BY <1>4 DEF DictReleaseIterator
  <2>2. d'.iterators = m
    <3> HIDE DEF m
    <3>1. QED
      BY <1>1, <2>1
  <2>3. /\ NoIter \in Iterators /\ ~Started(NoIter) /\ Unused(NoIter)
        /\ NoIter.given = {} /\ NoIter.due = {}
    BY DEF Iterators, Started, Unused, NoIter
  <2>4. GoodIter(d', NoIter)
    BY <2>3 DEF GoodIter, Walking
  <2>5. \/ /\ d'.iterators = d.iterators
           /\ Started(NoIter) /\ NoIter.safe <=> Started(iter[i]) /\ iter[i].safe
        \/ /\ d'.iterators = d.iterators - 1
           /\ ~(Started(NoIter) /\ NoIter.safe) /\ Started(iter[i]) /\ iter[i].safe
    BY <2>2, <2>3
  <2>6. QED
    BY <1>2, <2>1, <2>4, <2>5, OneIterChanges
<1>5. QED
  BY <1>3, <1>4, NextTakes DEF Iterate

----------------------------------------------------------------------------
\* The theorems.

LEMMA InitIters == Init => ItersInv
<1> SUFFICES ASSUME Init
             PROVE  ItersInv
  OBVIOUS
<1>1. NoIter \in Iterators /\ ~Started(NoIter) /\ Unused(NoIter) /\ NoIter.given = {} /\ NoIter.due = {}
  BY DEF Iterators, Started, Unused, NoIter
<1>2. GoodIter(d, NoIter)
  BY <1>1 DEF GoodIter, Walking
<1>3. iter \in [Iters -> Iterators] /\ \A i \in Iters : iter[i] = NoIter
  BY <1>1 DEF Init
<1>4. SafeRunning = {}
  BY <1>1, <1>3 DEF SafeRunning
<1>5. d.iterators = 0
  BY DEF Init, EmptyDict
<1>6. QED
  BY <1>2, <1>3, <1>4, <1>5, FS_EmptySet DEF ItersInv, IteratorsCounted

LEMMA StepIters == IterInv /\ [Next]_vars => ItersInv'
<1> SUFFICES ASSUME IterInv, [Next]_vars
             PROVE  ItersInv'
  OBVIOUS
<1>1. ItersInv /\ Consistent(d) /\ Chained(d)
  BY DEF IterInv, ChainInv, IInv, Consistency
<1>2. CASE UnsafeRunning = {} /\ (Lookup \/ DictGetRandomKey)
  <2>1. Spares(d, d') /\ iter' = iter
    BY <1>1, <1>2, SparesStep DEF Lookup, DictFetchValue, DictGetRandomKey, Spares
  <2>2. QED
    BY <1>1, <1>2, <2>1, SparedIters
<1>3. CASE UnsafeRunning = {} /\ Maintain
  <2>1. Spares(d, d') /\ iter' = iter
    BY <1>1, <1>3, MaintainSpares DEF Maintain, DictExpand, DictResize, SetResize
  <2>2. QED
    BY <1>1, <1>3, <2>1, SparedIters
<1>4. ASSUME UnsafeRunning = {}, NEW k \in Keys, NEW v \in Vals,
             DictAdd(k, v) \/ DictReplace(k, v) \/ DictReplaceRaw(k, v)
      PROVE  ItersInv'
  <2>1. Spares(d, d') /\ iter' = iter
    BY <1>1, <1>4, WritesSpare DEF DictAdd, DictReplace, DictReplaceRaw
  <2>2. QED
    BY <1>1, <1>4, <2>1, SparedIters
<1>5. ASSUME UnsafeRunning = {}, NEW k \in Keys,
             \A i \in Iters : iter[i].nextEntry # k, DictDelete(k)
      PROVE  ItersInv'
  BY <1>1, <1>5, DeleteIters
<1>6. CASE Idle /\ OnDemand
  BY <1>1, <1>6, OnDemandIters
<1>7. CASE Iterate
  BY <1>1, <1>7, IterateIters
<1>8. CASE UNCHANGED vars
  BY <1>1, <1>8 DEF vars, ItersInv, IteratorsCounted, SafeRunning
<1>9. QED
  BY <1>2, <1>3, <1>4, <1>5, <1>6, <1>7, <1>8 DEF Next, Update

LEMMA ResizeFlag == canResize \in BOOLEAN /\ [Next]_vars => canResize' \in BOOLEAN
BY DEF Next, vars, Lookup, Update, Maintain, OnDemand, Iterate, DictAdd, DictReplace, DictReplaceRaw,
       DictDelete, DictFetchValue, DictGetRandomKey, DictExpand, DictResize, DictRehash,
       DictRehashMilliseconds, SetResize, DictEmpty, DictGetIterator, DictNext, DictReleaseIterator

LEMMA IterInvariant == Spec => []IterInv
<1>1. Init => IterInv
  BY InitGood, EmptyDictChained, InitIters DEF Init, IterInv, ChainInv
<1>2. [Next]_vars => [AnyNext]_vars
  BY NextIsAnyNext
<1>3. IterInv /\ [Next]_vars => IterInv'
  BY <1>2, AnyStepGood, AnyStepChained, StepIters, ResizeFlag DEF IterInv, ChainInv, Good
<1>4. QED
  BY <1>1, <1>3, PTL DEF Spec

\* Every field of the dict, the tables and the iterators keeps its type.
THEOREM DictTyped == Spec => []TypeOK
<1>1. IterInv => TypeOK
  BY DEF IterInv, ItersInv, ChainInv, IInv, Consistency, Consistent, TypeOK
<1>2. QED
  BY <1>1, IterInvariant, PTL

\* dict.iterators, which decides whether lookups and updates rehash, is the
\* number of safe iterators that are running, after every call.
THEOREM IteratorsAlwaysCounted == Spec => []IteratorsCounted
<1>1. IterInv => IteratorsCounted
  BY DEF IterInv, ItersInv
<1>2. QED
  BY <1>1, IterInvariant, PTL

\* An iteration that has come to its end has returned every key that was in
\* the dict all the while, however the dict was changed on the way.
THEOREM IterationAlwaysComplete == Spec => []IterationComplete
<1>1. IterInv => IterationComplete
  BY DEF IterInv, ItersInv, GoodIter, IterationComplete
<1>2. QED
  BY <1>1, IterInvariant, PTL

\* dictNext returns no key twice, although the chains that it walks may grow,
\* shrink and be joined by a second table between two of its calls.
THEOREM IterationNeverReturnsTwice == Spec => IterationNeverRepeats
<1>1. IterInv /\ [Next]_vars =>
        [\A i \in Iters : DictNext(i) => iter'[i].entry \notin iter[i].given]_vars
  BY NextTakes DEF IterInv, ChainInv, IInv, Consistency
<1>2. QED
  BY <1>1, IterInvariant, PTL DEF Spec, IterationNeverRepeats

\* dictNext neither returns a freed entry nor saves one as its next.
THEOREM FreedEntriesNeverReturned == Spec => NoFreedEntryReturned
<1>1. IterInv /\ [Next]_vars =>
        [\A i \in Iters : DictNext(i) => Freed \notin {iter'[i].entry, iter'[i].nextEntry}]_vars
  BY NextTakes DEF IterInv, ChainInv, IInv, Consistency
<1>2. QED
  BY <1>1, IterInvariant, PTL DEF Spec, NoFreedEntryReturned
=============================================================================
