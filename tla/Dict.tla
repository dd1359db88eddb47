-------------------------------- MODULE Dict --------------------------------
(***************************************************************************)
(* The hash table of xmdict.c: two tables, incremental rehash from ht[0]   *)
(* to ht[1], and the safe and unsafe iterators.                            *)
(*                                                                         *)
(* A C function that changes a dict is an operator from a dict value to a  *)
(* dict value; a public call is an action that applies the operators in    *)
(* the order the C function makes its calls.                               *)
(*                                                                         *)
(* An entry is identified with its key.  A bucket is the set of its        *)
(* entries; the order of a chain is kept in "before": <<x, y>> \in before  *)
(* iff x precedes y in the chain both are on.  "x->next" is therefore the  *)
(* first of the entries after x.                                           *)
(***************************************************************************)
EXTENDS Integers, FiniteSets

CONSTANTS
  Keys,         \* the keys a client uses
  Vals,         \* the values a client stores
  Hash,         \* type->hashFunction
  InitialSize,  \* DICT_HT_INITIAL_SIZE
  TableSizes,   \* the sizes the doubling loop of _dictNextPower can return
  ExpandSizes,  \* the sizes clients pass to dictExpand
  ForceRatio,   \* dict_force_resize_ratio
  MinFill,      \* REDIS_HT_MINFILL
  RehashBatch,  \* the 100 steps of one dictRehash call of dictRehashMilliseconds
  MaxBatches,   \* bound: such calls before the deadline passes
  Iters,        \* the iterators clients may have open at once
  NULL,         \* the null pointer
  Freed         \* a pointer to a freed entry

\* The sizes that dictExpand is ever asked for.
Requests == 0 .. 2 * Cardinality(Keys) \cup ExpandSizes \cup {InitialSize}

\* p is the first size of the doubling loop that is at least n.
IsNextPower(p, n) ==
  /\ p \in TableSizes
  /\ p >= n
  /\ \A q \in TableSizes : q >= n => p <= q

ASSUME KeysAssumption ==
  /\ IsFiniteSet(Keys)
  /\ Hash \in [Keys -> Nat]
  /\ NULL \notin Keys /\ NULL \notin Vals /\ Freed \notin Keys /\ Freed # NULL

ASSUME SizesAssumption ==
  /\ TableSizes \subseteq Nat \ {0}
  /\ InitialSize \in TableSizes
  /\ ExpandSizes \subseteq Nat
  /\ \A n \in Requests : \E p \in TableSizes : IsNextPower(p, n)

ASSUME RatiosAssumption ==
  /\ ForceRatio \in Nat
  /\ MinFill \in Nat
  /\ RehashBatch \in Nat \ {0}
  /\ MaxBatches \in Nat \ {0}

DICT_OK  == 0
DICT_ERR == 1

VARIABLES
  d,          \* the dict
  canResize,  \* dict_can_resize
  iter,       \* the iterators
  ret         \* the last call: its name, its arguments and what it returned

vars == <<d, canResize, iter, ret>>

----------------------------------------------------------------------------
\* The tables.

NoTable == [size |-> 0, used |-> 0, table |-> [i \in 0 .. -1 |-> {}]]

NewTable(n) == [size |-> n, used |-> 0, table |-> [i \in 0 .. n - 1 |-> {}]]

\* _dictInit: every field of a dict without tables.
EmptyDict ==
  [ht |-> [t \in {0, 1} |-> NoTable], rehashidx |-> -1, iterators |-> 0,
   before |-> {}, val |-> [k \in Keys |-> NULL]]

\* h & sizemask: sizes are powers of two.
Slot(k, n) == Hash[k] % n

\* The entries linked in a table.
Entries(h) == UNION {h.table[i] : i \in 0 .. h.size - 1}

\* A table after k has been linked, after k has been unlinked, without the
\* entries of bucket i, and with the entries of S.
LinkIn(h, k) ==
  [size |-> h.size, used |-> h.used + 1,
   table |-> [h.table EXCEPT ![Slot(k, h.size)] = @ \cup {k}]]

UnlinkIn(h, k) ==
  [size |-> h.size, used |-> h.used - 1,
   table |-> [h.table EXCEPT ![Slot(k, h.size)] = @ \ {k}]]

KeepBucket(h, i) ==
  [size |-> h.size, used |-> h.used - Cardinality(h.table[i]), table |-> h.table]

TakeBucket(h, i) ==
  [size |-> h.size, used |-> h.used - Cardinality(h.table[i]),
   table |-> [h.table EXCEPT ![i] = {}]]

LinkAll(h, S) ==
  [size |-> h.size, used |-> h.used + Cardinality(S),
   table |-> [j \in 0 .. h.size - 1 |-> h.table[j] \cup {k \in S : Slot(k, h.size) = j}]]

IsRehashing(dd) == dd.rehashidx # -1

Size(dd) == dd.ht[0].used + dd.ht[1].used

InTable(dd, t) == Entries(dd.ht[t])

Stored(dd) == InTable(dd, 0) \cup InTable(dd, 1)

SearchFirstOnly(dd) == {0}

\* Searches and insertions look at ht[1] only while a rehash is on.
TablesSearched(dd) == IF IsRehashing(dd) THEN {0, 1} ELSE {0}

OnChain(dd, t, k) ==
  /\ dd.ht[t].size > 0
  /\ k \in dd.ht[t].table[Slot(k, dd.ht[t].size)]

Find(dd, k) == \E t \in TablesSearched(dd) : OnChain(dd, t, k)

----------------------------------------------------------------------------
\* Expanding and shrinking.

NextPower(n) == CHOOSE p \in TableSizes : IsNextPower(p, n)

CanExpand(dd, n) == ~IsRehashing(dd) /\ dd.ht[0].used <= n

Expand(dd, n) ==
  IF dd.ht[0].size = 0
  THEN [dd EXCEPT !.ht = [@ EXCEPT ![0] = NewTable(NextPower(n))]]
  ELSE [dd EXCEPT !.ht = [@ EXCEPT ![1] = NewTable(NextPower(n))], !.rehashidx = 0]

\* The two load conditions of _dictExpandIfNeeded.
Overloaded(h) ==
  \/ h.used >= h.size /\ canResize
  \/ h.used \div h.size > ForceRatio

MustExpand(dd) ==
  /\ ~IsRehashing(dd)
  /\ dd.ht[0].size = 0 \/ Overloaded(dd.ht[0])

GrowTo(dd) == IF dd.ht[0].size = 0 THEN InitialSize ELSE 2 * dd.ht[0].used

ExpandIfNeeded(dd) ==
  IF MustExpand(dd) /\ CanExpand(dd, GrowTo(dd)) THEN Expand(dd, GrowTo(dd)) ELSE dd

\* htNeedsResize
NeedsResize(dd) ==
  LET size == dd.ht[0].size + dd.ht[1].size
  IN size > 0 /\ Size(dd) > 0 /\ size > InitialSize /\ (Size(dd) * 100) \div size < MinFill

\* The size dictResize asks dictExpand for.
Minimal(dd) == IF dd.ht[0].used < InitialSize THEN InitialSize ELSE dd.ht[0].used

----------------------------------------------------------------------------
\* Incremental rehash.

\* The bucket that the scan of dictRehash stops at.
IsNextBucket(dd, i) ==
  /\ i \in dd.rehashidx .. dd.ht[0].size - 1
  /\ dd.ht[0].table[i] # {}
  /\ \A j \in dd.rehashidx .. i - 1 : dd.ht[0].table[j] = {}

NextBucket(dd) == CHOOSE i \in 0 .. dd.ht[0].size - 1 : IsNextBucket(dd, i)

\* The entries of a bucket are pushed one after the other on the chains of
\* ht[1]: those that stay together are reversed, and all precede what was there.
Pushed(dd, moved) ==
  LET to(k) == Slot(k, dd.ht[1].size)
      olds(k) == dd.ht[1].table[to(k)]
  IN (dd.before \ (moved \X moved))
       \cup {p \in moved \X moved : <<p[2], p[1]>> \in dd.before /\ to(p[1]) = to(p[2])}
       \cup {p \in moved \X InTable(dd, 1) : p[2] \in olds(p[1])}

MoveBucket(dd, i) ==
  LET moved == dd.ht[0].table[i]
  IN [dd EXCEPT
       !.ht = [t \in {0, 1} |-> IF t = 0 THEN TakeBucket(@[0], i) ELSE LinkAll(@[1], moved)],
       !.before = Pushed(dd, moved),
       !.rehashidx = i + 1]

\* ht[1] takes the place of the emptied ht[0].
FinishRehash(dd) ==
  [dd EXCEPT !.ht = [t \in {0, 1} |-> IF t = 0 THEN dd.ht[1] ELSE NoTable],
             !.rehashidx = -1]

\* One turn of the loop of dictRehash.
RehashOne(dd) ==
  IF ~IsRehashing(dd) THEN dd
  ELSE IF dd.ht[0].used = 0 THEN FinishRehash(dd)
  ELSE MoveBucket(dd, NextBucket(dd))

\* dictRehash(d, n)
Rehash(dd, n) ==
  LET after[i \in 0 .. n] == IF i = 0 THEN dd ELSE RehashOne(after[i - 1])
  IN after[n]

RehashStepAlways(dd) == RehashOne(dd)

\* _dictRehashStep: one turn, and only without safe iterators.
RehashStep(dd) == IF dd.iterators = 0 THEN RehashOne(dd) ELSE dd

----------------------------------------------------------------------------
\* Insertion, removal and search.

TargetFirst(dd) == 0

\* The table a new entry goes to.
Target(dd) == IF IsRehashing(dd) THEN 1 ELSE 0

Insert(dd, k, v) ==
  LET t == Target(dd)
      h == dd.ht[t]
  IN [dd EXCEPT
       !.ht = [@ EXCEPT ![t] = LinkIn(h, k)],
       !.before = @ \cup ({k} \X h.table[Slot(k, h.size)]),
       !.val = [@ EXCEPT ![k] = v]]

\* What dictAddRaw does before it links an entry.
PrepareAdd(dd) == ExpandIfNeeded(RehashStep(dd))

\* _dictKeyIndex returns an index: no refused expansion, no such key.
Addable(dd, k) ==
  LET d1 == RehashStep(dd)
  IN /\ MustExpand(d1) => CanExpand(d1, GrowTo(d1))
     /\ ~Find(ExpandIfNeeded(d1), k)

\* dictAddRaw, and the value its caller sets.
AddRaw(dd, k, v) ==
  IF Addable(dd, k) THEN Insert(PrepareAdd(dd), k, v) ELSE PrepareAdd(dd)

TableOf(dd, k) == IF OnChain(dd, 0, k) THEN 0 ELSE 1

UnlinkCountFirst(dd, k) ==
  LET t == TableOf(dd, k)
      uncounted == [dd.ht EXCEPT ![t] = [UnlinkIn(@, k) EXCEPT !.used = @ + 1]]
  IN [dd EXCEPT
       !.ht = [uncounted EXCEPT ![0] = [@ EXCEPT !.used = @ - 1]],
       !.before = {p \in @ : k \notin {p[1], p[2]}},
       !.val = [@ EXCEPT ![k] = NULL]]

\* The entry leaves its chain and is freed.
Unlink(dd, k) ==
  LET t == TableOf(dd, k)
  IN [dd EXCEPT
       !.ht = [@ EXCEPT ![t] = UnlinkIn(dd.ht[t], k)],
       !.before = {p \in @ : k \notin {p[1], p[2]}},
       !.val = [@ EXCEPT ![k] = NULL]]

\* dictFind's and dictGenericDelete's early return, then the rehash step.
BeforeSearch(dd) == IF dd.ht[0].size = 0 THEN dd ELSE RehashStep(dd)

Found(dd, k) == dd.ht[0].size > 0 /\ Find(dd, k)

SetVal(dd, k, v) == [dd EXCEPT !.val = [@ EXCEPT ![k] = v]]

----------------------------------------------------------------------------
\* Iterators.  "given" and "due" are history: the keys returned, and the keys
\* not yet returned, of those that have been in the dict ever since.

NoIter ==
  [live |-> FALSE, safe |-> FALSE, table |-> 0, index |-> -1, entry |-> NULL,
   nextEntry |-> NULL, given |-> {}, due |-> {}]

Started(it) == it.live /\ ~(it.index = -1 /\ it.table = 0)

SafeRunning == {i \in Iters : Started(iter[i]) /\ iter[i].safe}

UnsafeRunning == {i \in Iters : Started(iter[i]) /\ ~iter[i].safe}

\* The head of a set of entries that are on one chain.
First(dd, S) == CHOOSE x \in S : \A y \in S \ {x} : <<x, y>> \in dd.before

\* e->next; whatever is read through a freed entry is garbage.
NextOf(dd, e) ==
  LET after == {y \in Keys : <<e, y>> \in dd.before}
  IN IF e = Freed THEN Freed ELSE IF after = {} THEN NULL ELSE First(dd, after)

AheadInTable(dd, it) ==
  {<<it.table, i>> : i \in it.index + 1 .. dd.ht[it.table].size - 1}

\* The buckets that dictNext has still to visit, as <<table, index>>.
Ahead(dd, it) ==
  {<<it.table, i>> : i \in it.index + 1 .. dd.ht[it.table].size - 1}
    \cup (IF IsRehashing(dd) /\ it.table = 0
          THEN {<<1, i>> : i \in 0 .. dd.ht[1].size - 1} ELSE {})

Earlier(p, q) == p[1] < q[1] \/ (p[1] = q[1] /\ p[2] < q[2])

\* Where dictNext leaves the iterator when nothing is left.
AtEnd(dd, it) ==
  LET t == IF IsRehashing(dd) THEN 1 ELSE it.table
  IN [it EXCEPT !.table = t, !.index = dd.ht[t].size, !.entry = NULL]

\* The iterator takes entry e and saves its successor.
Take(dd, it, e) == [it EXCEPT !.entry = e, !.nextEntry = NextOf(dd, e)]

AdvanceByEntry(dd, it) ==
  LET full == {p \in Ahead(dd, it) : dd.ht[p[1]].table[p[2]] # {}}
      p == CHOOSE p \in full : \A q \in full \ {p} : Earlier(p, q)
      onward == IF it.entry = NULL THEN NULL ELSE NextOf(dd, it.entry)
  IN IF onward # NULL THEN Take(dd, it, onward)
     ELSE IF full = {} THEN AtEnd(dd, it)
     ELSE Take(dd, [it EXCEPT !.table = p[1], !.index = p[2]],
               First(dd, dd.ht[p[1]].table[p[2]]))

\* The loop of dictNext.
Advance(dd, it) ==
  LET full == {p \in Ahead(dd, it) : dd.ht[p[1]].table[p[2]] # {}}
      p == CHOOSE p \in full : \A q \in full \ {p} : Earlier(p, q)
  IN IF it.entry # NULL /\ it.nextEntry # NULL THEN Take(dd, it, it.nextEntry)
     ELSE IF full = {} THEN AtEnd(dd, it)
     ELSE Take(dd, [it EXCEPT !.table = p[1], !.index = p[2]],
               First(dd, dd.ht[p[1]].table[p[2]]))

\* Entries of S have been freed.
Forget(it, S) ==
  [it EXCEPT !.entry = IF @ \in S THEN Freed ELSE @,
             !.nextEntry = IF @ \in S THEN Freed ELSE @,
             !.given = @ \ S,
             !.due = @ \ S]

----------------------------------------------------------------------------
\* The public calls.

Init ==
  /\ d = EmptyDict
  /\ canResize = TRUE
  /\ iter = [i \in Iters |-> NoIter]
  /\ ret = NULL

DictAdd(k, v) ==
  /\ d' = AddRaw(d, k, v)
  /\ ret' = <<"add", k, v, IF Addable(d, k) THEN DICT_OK ELSE DICT_ERR>>
  /\ UNCHANGED <<canResize, iter>>

\* A failed dictAdd, then dictFind, which takes a rehash step of its own.
DictReplace(k, v) ==
  /\ d' = IF Addable(d, k) THEN AddRaw(d, k, v)
          ELSE SetVal(BeforeSearch(PrepareAdd(d)), k, v)
  /\ ret' = <<"replace", k, v, IF Addable(d, k) THEN 1 ELSE 0>>
  /\ UNCHANGED <<canResize, iter>>

\* dictReplaceRaw, and the value its caller sets in the entry.
DictReplaceRaw(k, v) ==
  LET d1 == BeforeSearch(d)
  IN /\ d' = IF Found(d1, k) THEN SetVal(d1, k, v) ELSE AddRaw(d1, k, v)
     /\ ret' = <<"upsert", k, v>>
     /\ UNCHANGED <<canResize, iter>>

DictDelete(k) ==
  LET d1 == BeforeSearch(d)
  IN /\ d' = IF Found(d1, k) THEN Unlink(d1, k) ELSE d1
     /\ ret' = <<"delete", k, IF Found(d1, k) THEN DICT_OK ELSE DICT_ERR>>
     /\ iter' = IF Found(d1, k) THEN [i \in Iters |-> Forget(iter[i], {k})] ELSE iter
     /\ UNCHANGED canResize

\* dictFind, dictFetchValue
DictFetchValue(k) ==
  LET d1 == BeforeSearch(d)
  IN /\ d' = d1
     /\ ret' = <<"fetch", k, IF Found(d1, k) THEN d1.val[k] ELSE NULL>>
     /\ UNCHANGED <<canResize, iter>>

\* The entries that the loops of dictGetRandomKey can stop at.
Candidates(dd) == UNION {InTable(dd, t) : t \in TablesSearched(dd)}

DictGetRandomKey ==
  LET d1 == RehashStep(d)
  IN /\ UNCHANGED <<canResize, iter>>
     /\ \/ Size(d) = 0 /\ d' = d /\ ret' = <<"random", NULL>>
        \/ /\ Size(d) > 0 /\ d' = d1
           /\ \E k \in Candidates(d1) : ret' = <<"random", k>>

DictExpand(n) ==
  /\ d' = IF CanExpand(d, n) THEN Expand(d, n) ELSE d
  /\ ret' = <<"report", IF CanExpand(d, n) THEN DICT_OK ELSE DICT_ERR>>
  /\ UNCHANGED <<canResize, iter>>

DictResize ==
  LET ok == canResize /\ CanExpand(d, Minimal(d))
  IN /\ d' = IF ok THEN Expand(d, Minimal(d)) ELSE d
     /\ ret' = <<"report", IF ok THEN DICT_OK ELSE DICT_ERR>>
     /\ UNCHANGED <<canResize, iter>>

\* 0 when there was nothing to do or the rehash finished within n turns.
DictRehash(n) ==
  /\ d' = Rehash(d, n)
  /\ ret' = <<"report", IF IsRehashing(d) /\ IsRehashing(Rehash(d, n)) THEN 1 ELSE 0>>
  /\ UNCHANGED <<canResize, iter>>

\* Some number of batches, at least one, has run when the deadline is seen.
DictRehashMilliseconds ==
  \E b \in 1 .. MaxBatches :
    /\ d' = Rehash(d, b * RehashBatch)
    /\ UNCHANGED <<canResize, iter, ret>>

\* dictEnableResize and dictDisableResize
SetResize(b) ==
  /\ canResize' = b
  /\ UNCHANGED <<d, iter, ret>>

\* dictEmpty: both tables are freed, and the iterator count is reset too.
DictEmpty ==
  /\ d' = EmptyDict
  /\ iter' = [i \in Iters |-> Forget(iter[i], Stored(d))]
  /\ UNCHANGED <<canResize, ret>>

\* dictGetIterator, dictGetSafeIterator
DictGetIterator(i, safe) ==
  /\ ~iter[i].live
  /\ iter' = [iter EXCEPT ![i] = [NoIter EXCEPT !.live = TRUE, !.safe = safe]]
  /\ UNCHANGED <<d, canResize, ret>>

\* A client that was given NULL does not call dictNext again.
DictNext(i) ==
  LET fresh == ~Started(iter[i])
      it == Advance(d, iter[i])
      due == IF fresh THEN Stored(d) ELSE it.due
  IN /\ iter[i].live
     /\ fresh \/ iter[i].entry # NULL
     /\ d' = [d EXCEPT !.iterators = IF fresh /\ it.safe THEN @ + 1 ELSE @]
     /\ iter' = [iter EXCEPT ![i] = [it EXCEPT !.given = @ \cup ({it.entry} \cap Keys),
                                               !.due = due \ {it.entry}]]
     /\ UNCHANGED <<canResize, ret>>

ReleaseUnstarted(i) ==
  /\ iter[i].live
  /\ d' = [d EXCEPT !.iterators = IF iter[i].safe THEN @ - 1 ELSE @]
  /\ iter' = [iter EXCEPT ![i] = NoIter]
  /\ UNCHANGED <<canResize, ret>>

ReleaseUncounted(i) ==
  /\ iter[i].live
  /\ iter' = [iter EXCEPT ![i] = NoIter]
  /\ UNCHANGED <<d, canResize, ret>>

DictReleaseIterator(i) ==
  /\ iter[i].live
  /\ d' = [d EXCEPT !.iterators = IF Started(iter[i]) /\ iter[i].safe THEN @ - 1 ELSE @]
  /\ iter' = [iter EXCEPT ![i] = NoIter]
  /\ UNCHANGED <<canResize, ret>>

----------------------------------------------------------------------------
\* The client of xmdict.h: no call but dictNext while an unsafe iterator runs;
\* no rehash on demand and no dictEmpty while a safe one runs; of the entries
\* ahead of an iterator, only those it has not yet saved are deleted.

Idle == UnsafeRunning = {} /\ SafeRunning = {}

Lookup == \E k \in Keys : DictFetchValue(k)

Update ==
  \E k \in Keys :
    \/ \E v \in Vals : DictAdd(k, v) \/ DictReplace(k, v) \/ DictReplaceRaw(k, v)
    \/ (\A i \in Iters : iter[i].nextEntry # k) /\ DictDelete(k)

Maintain ==
  \/ \E n \in ExpandSizes : DictExpand(n)
  \/ DictResize
  \/ \E b \in BOOLEAN : SetResize(b)

OnDemand ==
  \/ \E n \in 0 .. RehashBatch : DictRehash(n)
  \/ DictRehashMilliseconds
  \/ DictEmpty

Iterate ==
  \E i \in Iters :
    \/ \E safe \in BOOLEAN : DictGetIterator(i, safe)
    \/ DictNext(i)
    \/ DictReleaseIterator(i)

Next ==
  \/ UnsafeRunning = {} /\ (Lookup \/ Update \/ DictGetRandomKey \/ Maintain)
  \/ Idle /\ OnDemand
  \/ Iterate

Spec == Init /\ [][Next]_vars

\* Any public call at any time.
AnyNext ==
  \/ Lookup
  \/ \E k \in Keys :
       DictDelete(k) \/ \E v \in Vals : DictAdd(k, v) \/ DictReplace(k, v) \/ DictReplaceRaw(k, v)
  \/ DictGetRandomKey
  \/ Maintain
  \/ OnDemand
  \/ Iterate

AnySpec == Init /\ [][AnyNext]_vars

\* Running iterators are released, and clients keep looking keys up in the
\* times between iterations.
Fairness ==
  /\ \A i \in Iters : WF_vars(Started(iter[i]) /\ DictReleaseIterator(i))
  /\ SF_vars(Idle /\ Lookup)

FairSpec == Spec /\ Fairness

----------------------------------------------------------------------------
\* Properties.

IsTable(h) ==
  /\ h = [size |-> h.size, used |-> h.used, table |-> h.table]
  /\ h.size \in TableSizes \cup {0}
  /\ h.used \in Nat
  /\ h.table \in [0 .. h.size - 1 -> SUBSET Keys]

IsDict(dd) ==
  /\ dd = [ht |-> dd.ht, rehashidx |-> dd.rehashidx, iterators |-> dd.iterators,
           before |-> dd.before, val |-> dd.val]
  /\ dd.ht = [t \in {0, 1} |-> dd.ht[t]]
  /\ IsTable(dd.ht[0]) /\ IsTable(dd.ht[1])
  /\ dd.rehashidx \in Nat \cup {-1}
  /\ dd.iterators \in Int
  /\ dd.before \subseteq Keys \X Keys
  /\ dd.val \in [Keys -> Vals \cup {NULL}]

Iterators ==
  [live : BOOLEAN, safe : BOOLEAN, table : {0, 1}, index : Nat \cup {-1},
   entry : Keys \cup {NULL, Freed}, nextEntry : Keys \cup {NULL, Freed},
   given : SUBSET Keys, due : SUBSET Keys]

\* The types of the fields of dict, dictht and dictIterator.
TypeOK ==
  /\ IsDict(d)
  /\ canResize \in BOOLEAN
  /\ iter \in [Iters -> Iterators]

\* The entries of a table are in the buckets of their hashes, and counted.
GoodTable(h) ==
  /\ IsTable(h)
  /\ \A i \in 0 .. h.size - 1 : \A k \in h.table[i] : Slot(k, h.size) = i
  /\ h.used = Cardinality(Entries(h))

\* ht[1] is in use exactly while rehashidx is not -1, and the buckets that the
\* rehash has passed stay empty.
Phase(dd) ==
  /\ IsRehashing(dd) <=> dd.ht[1].size > 0
  /\ IsRehashing(dd) => dd.ht[0].size > 0
  /\ \A i \in 0 .. dd.ht[0].size - 1 : i < dd.rehashidx => dd.ht[0].table[i] = {}

Disjoint(dd) == InTable(dd, 0) \cap InTable(dd, 1) = {}

\* The inductive invariant of the tables: what every operator on a dict keeps.
Consistent(dd) ==
  /\ IsDict(dd)
  /\ GoodTable(dd.ht[0]) /\ GoodTable(dd.ht[1])
  /\ Phase(dd)
  /\ Disjoint(dd)

\* The representation invariant of xmdict.c: placement, phase of the rehash,
\* counters and tables agree after every call.
Consistency == Consistent(d)

\* While entries are left in ht[0], the scan for a non-empty bucket in
\* dictRehash stops inside the table (xmdict.c:431 has no bound of its own).
RehashScanStops ==
  IsRehashing(d) /\ d.ht[0].used > 0 =>
    \E i \in 0 .. d.ht[0].size - 1 : IsNextBucket(d, i)

\* No call loses an entry: every linked entry is on the chain that a search
\* looks at, in whichever table it is, at any moment of a rehash.
EveryEntryFound == \A k \in Stored(d) : Find(d, k)

\* The chains are lists: within a bucket the next pointers order the entries,
\* and no pointer leads out of its bucket or to a freed entry.
ChainsAreLists ==
  /\ \A t \in {0, 1} : \A i \in 0 .. d.ht[t].size - 1 :
       LET b == d.ht[t].table[i]
           before == d.before \cap (b \X b)
       IN /\ \A x, y \in b : x # y => (<<x, y>> \in before <=> <<y, x>> \notin before)
          /\ \A x, y, z \in b : <<x, y>> \in before /\ <<y, z>> \in before => <<x, z>> \in before
  /\ \A p \in d.before : \E t \in {0, 1} : \E i \in 0 .. d.ht[t].size - 1 :
       p[1] # p[2] /\ {p[1], p[2]} \subseteq d.ht[t].table[i]

\* dict.iterators: the number of safe iterators that are running (xmdict.h:84).
IteratorsCounted == d.iterators = Cardinality(SafeRunning)

\* An iteration that ends has returned every key that was in the dict all the
\* while, across insertions, deletions, expansions and a rehash on the way.
IterationComplete == \A i \in Iters : Started(iter[i]) /\ iter[i].entry = NULL => iter[i].due = {}

\* dictNext never returns a key twice, unless it was deleted and added again.
IterationNeverRepeats ==
  [][\A i \in Iters : DictNext(i) => iter'[i].entry \notin iter[i].given]_vars

\* dictNext never returns, or reads through, an entry that has been freed.
NoFreedEntryReturned ==
  [][\A i \in Iters : DictNext(i) => Freed \notin {iter'[i].entry, iter'[i].nextEntry}]_vars

\* Iterators delay a rehash but do not stop it: if there are times without
\* one, the rehash ends and lookups go back to one table.
RehashEnds == []<>Idle => (IsRehashing(d) ~> ~IsRehashing(d))

\* The dict implements the map.
Map == INSTANCE DictMap WITH map <- d.val
ImplementsMap == Map!Spec
=============================================================================
