# Verification of the RedisStudy data structures

RedisStudy is a C re-implementation of the data structures of Redis 2.8/3.0:
strings, lists, dictionaries, skip lists, integer sets, zip lists, the five
object types built from them, the key space with expiration, and RDB files.
There is no server loop: the code is a single-threaded library, and everything
below `src/src/` is called from tests.  What makes it hard is therefore not
threads but *interleaved calls*: work that is spread over many calls
(incremental rehash, iteration, scans) and is overtaken by other calls in
between, expiration that any read may trigger, objects with several owners, and
linked structures whose redundant fields (spans, tails, counters, back pointers)
have to agree after every sequence of calls.

This directory holds TLA+ models of that code, the TLC configurations that check
them, and TLAPS proofs.

## Inventory

| component (files under `src/src`) | state | operations | interactions, hard behaviour | what makes it correct |
|---|---|---|---|---|
| **Dict** `xmdict.[ch]` | two tables `ht[0..1]` (size, used, buckets), `rehashidx`, `iterators`; global `dict_can_resize`; iterators hold table, index, entry, nextEntry | create, add, replace, replaceRaw, delete, find, fetch, expand, resize, rehash, empty, iterate (safe, unsafe), random key(s), scan | every lookup takes one rehash step unless a safe iterator runs; expansion starts in the middle of iterations and scans | no entry lost, doubled or unreachable at any moment of a rehash; counters right; rehash ends; iterations and scans complete |
| **Db** `xmdb.[ch]`, `xmserver.h` | `dict` and `expires` per database; `server.loading`, `masterhost`, `lua_caller`, `lua_time_start`; reference counts of values | lookupKey*, dbAdd, dbOverwrite, setKey, set/remove/getExpire, expireIfNeeded, dbRandomKey, dbDelete, unshare, emptyDb, selectDb | reads delete; time passes during calls; `expires` shares key strings with `dict`; slaves and scripts have their own clocks | expiry times belong to keys; references counted; keys leave only in time; loops end |
| **SkipList** `xmskiplist.[ch]` | levels of forward pointers and spans, backward pointers, tail, level, length; the dict of the sorted set | insert, delete, ranges by score and member, ranks, removal of ranges (from list and dict) | random levels; redundant fields; two structures changed one after the other | pointers, spans, ranks and ranges are those of the ordered set |
| **AdList** `xmadlist.[ch]` | head, tail, len, prev/next of nodes; iterator | add, insert, delete, dup, rotate, search, index, iterate | deletion of the current node during an iteration | both directions tell one order; iterations complete |
| **ZipList** `xmzplist.[ch]` | one block: header (bytes, tail, counter), entries with prevlen and encoding, end mark | push, insert, delete, delete range, find, index, next/prev, compare, len | prevlen fields change width one after the other; memory is moved in place; the counter saturates | header and entries agree; walks in both directions meet the same entries; no call changes a value it is not about |
| **IntSet** `xmintset.[ch]` | encoding (width), length, sorted array | add, remove, find, random, get, len | upgrade of the width in place, from the end | sorted, no duplicates, no value truncated |
| **ListType, SetType, HashType** `xmt_list.c`, `xmt_set.c`, `xmt_hash.c`, `xmobject.h` | an object: type, one of two encodings, its container; an iterator | push/pop/insert/delete, add/remove/random, set/get/delete, iterators, conversion | the container is converted in the middle of an update; deletions during an iteration | a sequence, a set, a map: nothing shows which encoding it is |
| **ZSetType** `xmt_zset.c` | a zip list of members and scores, or skip list and dict | insert, delete, ranges by score, member and rank, removal of ranges, conversion both ways | pairs have to stay pairs; searches from either end | an ordered set in both encodings |
| **Object** `xmobject.[ch]` | type, encoding, refcount, lru | create, incr/decr, encode, compare | shared objects | counts; no double free |
| StringType `xmt_string.[ch]` | strings as bytes or numbers | set, append, incr/decr | - | a number survives its text |
| Sds `xmsds.[ch]` | len, free, bytes | grow, cat, range, trim, numbers | size arithmetic | len + free is what is allocated |
| Rdb, Rio `xmrdb.[ch]`, `xmrio.[ch]` | stream position, checksum, buffer | write/read lengths, strings, values | partial writes | what is written is read back |
| Notify, Endianconv, Malloc | flags; bytes; a counter | conversions | - | inverse conversions |
| Lzf (`lzf_*`, vendored), `xmclient.h`, `xmserver.h`, `xmredis.h` | declarations | - | - | - |

`PROJECT.json` lists every component with its status, and under "hazards" each
point of the code that is hard to test, with the property that watches it.

## Modules

| module | models | abstract specification |
|---|---|---|
| `Dict` | the two tables, resizing, rehash and iterators of `xmdict.c` | `DictMap`: a partial map |
| `DictScan` (extends `Dict`) | `dictScan` and `rev`, interleaved with all calls of `Dict` | |
| `MCDict`, `MCDictScan` | hashes, sizes and views for TLC | |
| `DictProofs` | theorems about `Dict`: the tables and `DictMap`, the chains, the iterators | |
| `DictScanProofs` | theorems about `DictScan` | |
| `Db` | `xmdb.c`, over the map that `DictMap` promises | |
| `DbProofs` | theorems about `Db` | |
| `SkipList` | `xmskiplist.c` and the dict of a sorted set | `OrderedSet`: members with scores in order |
| `SkipLinkProofs`, `SkipListProofs` | lemmas about the walk and about linking; theorems about `SkipList` | |
| `AdList` | `xmadlist.c` | `NodeSeq`: a sequence of nodes |
| `AdListProofs` | theorems about `AdList` | |
| `Ranges` | the bounds of ranges, for `SkipList` and `ZSetType` (`xmskiplist.c:308`, `xmskiplist.h`) | |
| `ZipList`, `IntSet` | `xmzplist.c` and `xmintset.c` as operators on a block | |
| `EncodingProofs` | lemmas about the operators of `IntSet` and `ZipList` | |
| `Object` | an object with its encoding, its container and one iterator (`xmobject.c`) | |
| `SetType` | `xmt_set.c` over `IntSet` or a dict | `ValueSet`: a set of values |
| `ListType` | `xmt_list.c` over `ZipList` or a linked list | `ValueSeq`: a sequence of values |
| `HashType` | `xmt_hash.c` over `ZipList` or a dict | `DictMap`: the same map that `Dict` implements |
| `ZSetType` | `xmt_zset.c` over `ZipList` or a skip list | `OrderedSet`: the same set that `SkipList` implements |
| `Objects` | the composition: one object of a type chosen in the initial state, and every call on it | all four |
| `MCObjects` | values for TLC | |
| `ObjectsProofs` | theorems about `Objects`: sets, lists, hashes, ziplists, iterations | |

**Form.**  A C function that changes a structure is an operator from one value of
the structure to another; a public call is one action that applies the operators
in the order of the C calls, rehash steps, expirations and reference counts
included.  One call is one atomic step, as the code is single-threaded; a call
that loops over changing state (`dbRandomKey`) takes one step per round, so that
time can pass between rounds.  Variables carry the names of the C fields.  The
variable `ret` (`call` in `AdList`) records the last call with its arguments and its result, so
that a refinement says what *this* call has to answer, not only that some call
could have answered so.

**Dict.**  An entry is its key.  A bucket is the set of its entries, and the
order of the chains is the relation `before` (`x->next` is the first entry after
`x`), so that moving a bucket reverses it, as pushing does.  Hash values are a
constant function; a bucket number is `Hash[k] % size`, sizes being powers of
two.  The thresholds 4 (initial size), 5 (forced ratio), 10 (minimal fill) and 100 (steps of a
batch) are constants.  The client of `Next` is the one `xmdict.h:93-97` describes:
nothing but `dictNext` during an unsafe iteration; during a safe one it may add,
find and delete, but it neither empties the dict nor rehashes it on demand, and deletes no entry
that an iterator has saved as the next.  `AnyNext` is without that discipline, and
the proofs are about it.

**DictScan.**  Cursors have `Width` bits and masks are `% size`.  `scan` has, as history, what the scan
has emitted, what it still owes, and whether no shrink has met it.

**Db.**  Time is a small counter.  Reference counts and encodings are kept for
objects, and `held` is what the client owns.  Assertions of the code set
`aborted`.  Callers keep to the comments of `xmdb.h` (`dbAdd` only for absent
keys, `setExpire` only for present ones).  `dbDelete` is part of one step, so the order in which
it changes the two dicts is not observed, but that no path leaves an expiry time
behind is.  While `loading` is set no key counts as expired (`xmdb.c:74`), hence `RandomKeyUnexpired`
says nothing of answers given then.  `propagateExpire` is empty in the
code; statistics and LRU times are left out.

**SkipList.**  Members are numbers in the order of their contents, one node per
member.  The walk from the top level down that every function makes is the one operator `Path`,
and its loop on one level `Walk`; the functions differ in the condition `ahead` under which the
loop goes on.  Levels are chosen freely, which covers every outcome of `zslRandomLevel`.

**AdList.**  Nodes are memory: freed ones are allocated again, and the list may
hold dangling pointers.  The uninitialised `prev` of `listInsertNode` is any
pointer.

**ZipList.**  A ziplist is the record of its header fields and the sequence of its
entries; an entry has `prevlen`, the width of that field (1 or 5 bytes) and its value.
Pointers are offsets in bytes and all sizes are the bytes of the code, so that an entry
crosses 254 bytes, where the next prevlen field changes width, exactly when it does in the
block.  `Cascade` is `__ziplistCascadeUpdate`; walks follow `prevlen` and the sizes, and
`HeaderAgrees`/`PrevlensAgree` say that they meet the entries.  Of a string the
model keeps an identity and a length, and whether it is an integer (`string2ll`).
An insertion that loses bytes (see below) leaves the value `Damaged`.

**IntSet.**  The array is a sequence of cells, each with its digits to a radix
that stands for 2^16, so that reading a cell in the wrong width, or writing a value in
too small a one, gives another number.  The upgrade moves the cells from the end
as `intsetUpgradeAndAdd` does.

**Objects.**  A state has one object: `type`, `encoding`, `ptr` (the
container) and `it` (an iterator, NULL without one).  A container that has a model of its own
(dict, linked list, skip list) is taken as the abstraction that `Dict`, `AdList` and
`SkipList` are shown to implement: a set, a map, a sequence, the score of each member.
What `AdList` leaves out, reads of the tail of an emptied list, `ListType` leaves out too.
Ziplists and intsets are taken whole.  The call that adds the element that is too much
converts the object inside the same action, in the place where the code does.  `due` is history:
what an iteration still owes.  The object's reference count is 1.

## Runs

| run | instance | shows |
|---|---|---|
| `dict_map` | 4 keys, 2 values, tables of 1..8 buckets | the tables are consistent and chains are lists after every call; no entry is out of a search's sight during a rehash; the scan of `dictRehash` stops; the dict implements `DictMap` |
| `dict_iter` | 3 keys, 2 iterators | iterations of any kind that overlap, with insertions, deletions, expansions and an unfinished rehash on the way: the count of safe iterators is right, an iteration is complete, repeats nothing and returns no freed entry |
| `dict_live` | 2 keys, 1 iterator, fairness | a rehash ends |
| `scan` | 3 keys, 4-bit cursors | the cursor advances whatever the tables do (so a scan ends); while tables grow, every entry is emitted, and by one call only |
| `scan_shrink` | same | **violated**: `ScanReturnsAll`, the promise of `xmdict.h:234` |
| `db` | 2 keys, 2 objects, 1 database, 2 moments | expiry, references, scripts, loading and replication; `dbRandomKey` returns on a master, and no expired key unless the server is loading |
| `db_slave` | same | **violated**: `RandomKeyAnswers`, `xmdb.h:92` |
| `skiplist` | 3 members, 3 scores, 3 levels | pointers, spans, ranks, ranges and the refinement of `OrderedSet` |
| `adlist` | 4 nodes, 2 values | one order from both ends, `listIndex` (of a list that is not empty), `listDup` and `listSearchKey` agree with it, iterations, refinement of `NodeSeq` |
| `adlist_before` | 3 nodes | **violated**: `InsertedBefore`, `xmadlist.h:54` |
| `objects` | one object of each type; 4 values in lists, 7 in sets, 3 fields and 4 values in hashes, 4 members and 2 scores in sorted sets | ziplists and intsets are well formed after every call; iterations over lists, sets and hashes are complete, over lists also while elements they have returned are deleted; the ranges of a sorted set found from either end are right; sets, lists, hashes and sorted sets implement their abstractions through upgrades, cascades and conversions |
| `ziplist_shrink` | lists only | **violated**: `InsertionKeepsOthers`, `xmzplist.c:800` |

**Bounds.**  Initial size 1 instead of 4 and a forced ratio of 1 instead of 5 let
three or four keys double a table three times, collide in every table, spread
and be merged again; a rehash of two to eight buckets has empty buckets to skip
and can be overtaken by additions, deletions and another expansion request.
`ExpandSizes` has a size that grows the table by two doublings at once.
`MaxBatches` bounds how many batches `dictRehashMilliseconds` gets done.  Two
keys and two moments make a key expire while another one has not, between two
rounds of `dbRandomKey` and inside a script.  Three nodes on three levels have
every relation of neighbours that the updates of spans distinguish: before,
behind, above and at the end.  `Width` of 4 gives cursors with a bit more than
the largest table needs.  In `objects` a string of 250 bytes makes an entry of 253
bytes with a narrow prevlen field and of 257 with a wide one, so that 254 is crossed when
the entry before it changes: after a string of 300 bytes a row of them grows in one
cascade, and stays grown or shrinks when that string leaves.  Strings of 400 bytes are over the
limit of conversion.  `UINT16_MAX` is 3, so the counter saturates while entries still come and
go; limits of 2 to 4 elements are passed by one more; the radix 4 gives
three widths with values of each on both sides of 0, hence upgrades to the
front and to the end, of one width and of two.  `MaxLength` keeps lists to one
element more than a ziplist may have.  More elements add no new relation between neighbours:
an update of a header reads one entry before and one after, and a cascade stops or goes on by
the entry it has reached.  Views (`WithoutRet`, `ListView`, `ScanView`, `ObjectView`) leave out
what no later call depends on; TLC still checks action properties and
refinements on every transition.

**What clients respect.**  `Objects.Next` leaves out the insertion that destroys bytes
(`Intact'`), which is the subject of `ziplist_shrink`.  Nothing is written while an iteration over a set
or a hash is open, except that a list may be changed through the iterator; `listTypeInsert`
leaves the iterator's pointer behind, so the client releases it.  Nothing reads the tail of an
emptied linked list: `AdList` has no rotation and no backward iteration of one, and `Objects` no
`listTypePop(REDIS_TAIL)` and no iterator at a negative index (`TailUsable` in both modules; what would be read is
a freed node, see below).  A random element is asked only of a set that
has one, ranges of members only of a sorted set with one score, and ranks within
its length.  An empty ziplist is not converted to a skip list.

**Fairness.**  `dict_live`: a client releases an iteration it has started (weak fairness), and keeps
looking keys up when no iteration is running (strong fairness, because the times between
iterations come and go).  The property is conditional on there being such times:
`_dictRehashStep` does nothing while `iterators` is not 0, and iterations that
overlap for ever do starve the rehash.  `db`: a call that has been started runs on
(`WF(RandomRound)`); nothing is assumed of clients, of the clock or of the
choice of random keys.

## Proofs

`DictProofs` proves, for all keys, hash functions, table sizes, ratios and any
number of iterators, from the named assumptions of `Dict` (finitely many keys,
`_dictNextPower` finds a size for every size asked for, `NULL` is no key or
value):

* `ConsistencyAlways`, `ConsistencyHolds`: the representation invariant
  `Consistent`;
* `RehashScanAlwaysStops`: the unbounded loop of `xmdict.c:431` stays in the table;
* `EntriesAlwaysFound`: every entry is on the chain a search looks at;
* `DictImplementsMap`: the dict implements `DictMap`, call by call.

All are about `AnySpec`, the calls in any order without a client's discipline
(`ConsistencyHolds` about `Spec`).  The inductive invariant is `IInv`:
`Consistent(d)` (entries are in the bucket of their hash and counted; `ht[1]` is in
use exactly during a rehash; buckets below `rehashidx` are empty; no key is in
both tables) and `ValuesStored` (a key has a value exactly when it is stored).  Each part is
needed: the scan stops because `used > 0` means that some bucket is not
empty, and it is not one below `rehashidx`; a search finds an entry because of its
placement and because `ht[1]` is empty outside a rehash; a moved bucket does not
collide with `ht[1]` because the tables are disjoint.  One lemma per operator
says that it keeps `Consistent` and what it does to the stored keys (`Keeps` when
nothing); one lemma per call combines them into `Good`: the invariant and a step
of the map.

Its second and third part prove the rest of the safety properties of `Dict`:

* `ChainsAlwaysLists`: each bucket is one chain, in any order of calls.  `Chained` says of one
  dict value that `before` is a strict total order of each bucket and relates nothing
  else; the lemma that needs work is `MoveBucketChained`, where the moved bucket is
  reversed in front of the buckets it is split over.  `dictRehash` applies the step n
  times; the first number of steps after which it fails does not exist.
* `DictTyped`, `IteratorsAlwaysCounted`, `IterationAlwaysComplete`, `IterationNeverReturnsTwice`,
  `FreedEntriesNeverReturned`: for clients that keep to `xmdict.h:93-97` (`Spec`) and any number
  of iterators.  The invariant `IterInv` says that all that an iterator owes is in
  `Rest`: the buckets after its index, the second table if it is in the first, and the
  chain from its saved entry on; what it has returned is not there.  `Rest` stays where it is because
  `iterators` is the number of running safe iterators and so not 0 while one runs: no
  bucket moves until it is released.  An insertion goes in front of a chain or into the second
  table, and so adds to `Rest` nothing that is owed or has been returned; an expansion in the
  middle of an iteration makes the second table, which is in `Rest` as a whole.

`DictScanProofs` proves the three properties of the `scan` run, for any width of the cursors, any
hashes and any table sizes that are powers of two up to 2^`Width` (`WidthAssumption`):

* `ScanAlwaysComplete`: `ScanComplete`, over all insertions, deletions, expansions and
  rehash steps that come between the calls, and `dictEmpty`;
* `ScanAlwaysAdvances`: `ScanAdvances`, also when tables shrink;
* `ScanNeverReturnsTwice`: `ScanNeverRepeats`.

The place of a key (`Pos`) is its reversed hash, and the argument is about intervals of places:

1. *bits*: a cursor is known by its bits (`SameBits`), there is one with any bits (`BitsExist`),
   so `Rev` is what it is chosen to be (`RevIs`); the low part of a number decides the high part of
   its reversal (`LowIsHigh`).  Hence the bucket that `v` points at, in a table of any size, holds
   the keys whose places lie in one interval (`BucketIs`), and adding one to the reversed
   bits, with ones above the mask, goes to where the next interval begins (`NextCursorIs`);
2. *the inner loop*: its turns stay in buckets with the same low bits (`WidenedLow`), and from
   a bucket of the small table on they are all of these (`WidenedAll`);
3. *a call* (`CallGoesOn`) therefore emits all of an interval that begins at the cursor, if the cursor is
   `Aligned`: if a bucket of the table begins there.  Where a bucket begins, one of every larger
   table does (`AlignedMore`), and this is what a smaller table breaks (`scan_shrink`);
4. *the invariant* (`GoodScan`): what the scan owes lies at the cursor or after it, what it has
   emitted lies before, and the cursor is aligned to `ht[0]`;
5. *the other calls* (`StepLets`) let `ht[0]` grow, unless they begin a rehash to a smaller table or leave
   the dict empty: `_dictExpandIfNeeded` asks for twice `used` when `used` is at least the size.

`DbProofs` proves every safety property of the `db` run, for any number of databases,
any finite sets of keys and objects and any length of the clock:

* `DbTypesHold`, `ExpiryTimesBelong`, `AssertionsHold`, `ReferencesCounted`: the invariants
  `TypeOK`, `ExpiresHaveKeys`, `NoAssertionFails` and `RefsCounted`;
* `KeysStayTheirTime`, `ScriptReadsStable`, `RandomKeyGood`, `UnsharedValuePrivate`: the action
  properties `KeysLeaveInTime`, `ScriptReadsAgree`, `RandomKeyUnexpired` (of a server that is not
  loading) and `UnsharedIsPrivate`.

The inductive invariant `IInv` says of the memory that it is `Sound`: expiry times belong
to keys, and the `Excess` of an object (its reference count less the entries it is
the value of) is 1 while the client holds it and else 0.  The excess is what the
operators of `Db` change by a constant, whatever the memory (`SetValExcess`); that one
entry changes the number of owners by one is a fact about cardinalities
(`OwnersChange`).  The assertions follow from `TimesBelong`; that
`dbUnshareStringValue` can trust a count of 1, from the count.  Scripts need a second
invariant, `ScriptInv`: a script began before now (else a frozen clock could expire
a key early), and what it has read of a key is what a lookup would return.

`AdListProofs` proves `ListTyped`, `ListsAlwaysWellLinked`, `PositionsAlwaysAgree`,
`ListIterationAlwaysComplete` and `ListImplementsSequence`, for any nodes and values.  The
inductive invariant names the sequence that the pointers lay out: `Laid(list, s)` says that
`head`, `tail`, `prev`, `next` and `len` are those of the nodes of `s` in order.  (The
emptied list is the exception: its `tail` may dangle, see below.)  One lemma per operator says what
sequence the new list lays out: `s` with a node put in or left out.  The iterator is `OnTheWay`:
the nodes it still owes are those of `s` from its next node on in its direction,
so that the deletion of the node just returned takes nothing from it.

`SkipListProofs` proves `SkipListTyped`, `LinksAlwaysAgree`, `RanksAlwaysRight`,
`RangesAlwaysRight` and `SkipListImplementsOrderedSet`, for any members, any scores and any
number of levels, from `SkipListAssumption` (finitely many members, numbered in order; scores are
integers; `Header` and `NULL` are no members).  The inductive invariant is that
the list lays out some sequence `s` of members (`Laid`, in `SkipLinkProofs`) and that the dict has
the same ones.  `Laid` says that `s` is in order; that on each level the pointer of place `k` leads
to the next place that is high enough (`NextOn`), with the distance as its span (`LeadsTo`); that
the backward pointers are those of `s`; and that `level` is that of the highest node.  `WellLinked`
alone would not do as an invariant: the proofs need to speak of places.  The argument is:

1. *the walk* (`SkipLinkProofs`): if the condition `ahead` holds of the places up to `p` and of no
   other (`Splits`), the walk leaves each level at the last node up to place `p` (`PathLeads`).
   The operators are recursive functions, so the proof shows that a function with
   such equations exists and that the last round at which it could be wrong does not;
2. *the changes* (`SkipLinkProofs`): behind such a path, `Link` and `Unlink` lay out `s` with one
   place more or less (`LinkLaid`, `UnlinkLaid`), and the path still leads to
   `p` afterwards, so that the loop of the removals can go on with it (`RemoveFromLaid`);
3. *the answers* (`SkipListProofs`): the rank of a place is its number (`RankIs`); the two
   conditions of a range hold from some place on and up to some place (`Between`), hence its
   first and last node are the ones next to the border the walk stops at; a removal takes away the
   places of the range, in the list and in the dict, and returns their number
   (`RemovalIs`, `RemovalSteps`).

`ObjectsProofs` proves eight theorems about the objects, for any limits of conversion and any values.

`IntsetsAlwaysSorted` and `SetImplementsSet` are about sets of any integers of 64
bits and any other strings (`SetTypeAssumption`), and any even radix of a cell
(`IntSetAssumption`).  The invariant is that an
intset is a `GoodIntset`; the first part of `EncodingProofs` follows the code:

1. *a cell in a width*: digits add up to the number they were made of (`DigitsAddUp`), so that what is
   written in an encoding is read back (`SetGet`), whatever else is written apart from it
   (`SetKeeps`), and what is read is in the range of its encoding (`GetInRange`);
2. *the search* (`SearchIs`): the place found has the value, or the values before it are smaller
   and those from it on are greater;
3. *the upgrade* (`MovedIs`, `UpgradeIs`): while the integers are moved from the last to the first,
   those not yet moved have not been written over, because the wider place `l` begins at or after the
   end of the narrower places before it; the new integer belongs at one of the ends, since the old
   width does not hold it;
4. *insertion and removal* (`AddIs`, `RemoveIs`) add and take away one element, and report whether they have.

`ZiplistsAlwaysWellFormed` and `ListImplementsList` are about lists, hashes and sorted sets of any
strings and integers (`Value`; `ListTypeAssumption`, `HashTypeAssumption`, `ZSetAssumption`;
`ObjectsAssumption`: NULL is none of the values and containers).  The inductive invariant is
`ZiplistInv`.  A ziplist is `Good` when its bytes, its tail, and each prevlen field are those of
its entries; one of a hash or a sorted set also is in pairs; and a list's iterator
`StandsAt` a place: its pointer is that of the place, or NULL at the end, and what
it owes is the `RestOf` the list from there.  The second part of `EncodingProofs` has the lemmas:

1. *offsets* (`OffsetIs`, `OffsetsAscend`, `PosOfOffset`): the offset of a place is the sum of the entries before it, offsets
   ascend, and so a pointer to an entry is an entry's only;
2. *the cascade* (`CascadeParts`, `CascadeKeeps`, `CascadeIs`): whatever is widened, the values
   stay, fields only grow, the bytes grow by 4 for each widened field, and the fields of all entries behind
   agree if the first one was the only one that did not;
3. *insertion* (`OpenedIs` and what follows): before the cascade, all fields agree except that of
   the entry after the next one when the next one has changed its width;
   the cascade begins just there.  When bytes are lost (`Lost`), the last value is `Damaged`, stays so, and
   `Intact'` does not hold (`DamageStays`): that is why the theorems need not speak of such an insertion;
4. *deletion* of one entry or several (`ClosedIs` and what follows): likewise;
5. *walks*: `ziplistNext`, `ziplistPrev`, `ziplistIndex` and `ziplistFind` meet
   the entries in order, from a good ziplist.

`ListImplementsList` then maps a list object to the sequence of its values.
A deletion through the iterator leaves it at the place that the entry after, or before, the deleted one has
got, so that what it owes is still what is left (`RestAfterRemoval`).  About lists that have been emptied as linked
lists the theorems say what clients see that do not read them from the tail (`TailUsable`).

`HashImplementsMap` and `IterationsComplete` rest on `IterationInv`, which adds to the two invariants
above what a hash and an open iterator are:

1. a ziplist holds, at odd places, fields that are all different, each followed by its value (`FieldsOnce`),
   and so *is* one map (`IsMapOf`, `MapIsUnique`).  The search skips every second entry, so that a value is
   never taken for a field (`FieldPtrFinds`); an update puts the new value in the place of the old one
   (`FieldSetIs`), a deletion takes both entries (`FieldDeletedIs`);
2. it has not more pairs than `hash_max_ziplist_entries`, so that an update never converts.  This is not about
   tidiness: where the new value has cost the last entry its bytes, a conversion in the same call would
   hide that from `Intact'`;
3. an iterator over a ziplist stands before an odd place, and the pairs from there on (`PairsFrom`) are what it
   owes; one over an intset stands at an index (`ElementsFrom`); one over a dict owes some set of
   pairs or elements.  `hashTypeLength` may be called meanwhile and rewrite the header: the places stay.

`ZSetRangesAlwaysAgree` and `SortedSetImplementsOrderedSet` are about any finite number of members,
numbered in their order, and any integers as scores (`ZSetAssumption`).  The invariant is `GoodPairs`:
the members of the ziplist are a sequence that is in order of scores and members and has all
that the set has (`InOrder`), and each is followed by its score (`PairsOf`).

1. the k-th member is the one of rank k (`PlacesAre`, `ZSetRankIs`), and places count as many members (`PlacesCount`);
2. a search from one end stops at the first place, or the last, that it is to stop at (`SeekFinds`): so
   `zzlFind` finds the member wherever it is (`FindFinds`), and `zzlInsert` the place that keeps the order
   (`InsertsInOrder`);
3. the bounds of a range hold from some place on and up to some place (`Bounded`), for members only when all have one
   score (`MembersBounded`).  If a place is in the range, the quick test of the two ends lets the search begin
   (`ScoresBounded`), and the first place above the minimum is in the range too (`FirstBounded`);
4. a removal takes the pairs from there up to the first one above the maximum, one pair after the other at the
   same pointer (`RangeRemoved`): these are the members of the range, and it counts them (`BoundedRemoved`);
5. `zsetConvert` takes the pairs of the ziplist from the first one on, and has gathered all of them at the end
   (`AllGathered`); the way back appends the nodes in order, and each comes after all before it (`ConvertsInOrder`).

Where a proof would use induction over data it takes the least counterexample of a set of naturals
instead (`LeastNatural`).

**Only model-checked**: all liveness (fairness and `ENABLED` are beyond the prover).

## Where code and comments disagree

Four runs show a violation.

* `ScanReturnsAll` (`xmdict.h:234`): a scan that meets the rehash to a smaller table starts in the
  larger one at the bucket of its cursor (`xmdict.c:824`) and misses those before it.
* `RandomKeyAnswers` (`xmdb.h:92`): on a slave an expired key is reported and kept
  (`xmdb.c:85`), so that `dbRandomKey` draws for ever when all keys have expired.
* `InsertedBefore` (`xmadlist.h:54`): the branch for insertion before a node never sets
  `node->prev` (`xmadlist.c:99-107`) and then follows it.
* `InsertionKeepsOthers`: `nextdiff` is said to be 0 or 4
  (`xmzplist.c:800`), but it is -4 when a short entry goes in front of one with a wide prevlen
  field.  The block is then cut by `ziplistResize` (`xmzplist.c:801`) before `memmove` reads
  it (`xmzplist.c:810`), and when the new entry takes less than 4 bytes the end of the last
  entry is gone.  The compiled code does it: push strings of 300, 250 and 3 bytes, delete
  the first, insert `5` before the last, and the last string has changed.

The following were met while modelling and are only recorded here.

* `dbRandomKey` is said to return an unexpired key only (`xmdb.h:93`).  While the server is loading
  `expireIfNeeded` returns 0 (`xmdb.c:74-75`), and it returns a key whose time has passed.
  `RandomKeyUnexpired` is therefore about a server that is not loading; without that condition TLC
  finds the step (`[][AnswerUnexpired]_vars` in the `db` run: set a time, let it pass, begin to load, draw).
* `listDelNode` of the only node leaves `tail` dangling, because the node is `head` and only then
  `tail` (`else if`, `xmadlist.c:127-130`), so that `listIndex(l, -1)` of the emptied list returns the freed node, where
  `xmadlist.h:65` promises NULL.  List objects meet it too: push a string that is too long for a ziplist, pop it, and
  pop at the tail, and `listTypePop` (`xmt_list.c:132-141`) reads the freed node, frees it again and counts `len`
  below 0; `listTypeInitIterator` at a negative index (`xmt_list.c:181`) begins an iteration there.  `AdList` keeps the
  pointer and excludes its reads, `ListType` excludes the same calls (`TailUsable`), and what is
  checked and proved of lists is about clients that make none of them.
* `dictEmpty` resets `iterators` (`xmdict.c:358`), `dictRehash` and `dictExpand`
  ignore it (`xmdict.c:407`), although `xmdict.h:84` says that it blocks the rehash.
* Deleting the entry that a safe iterator has saved as the next (`xmdict.c:596`)
  makes it read freed memory; `xmdict.h:96` allows changes without that exception.
* `dictRehash` returns 1 after it has moved the last entry when it has no step left to
  finish (`xmdict.c:449`; `xmdict.h:211` promises 0), and `dictAdd` returns
  `DICT_OK`, which is 0 (`xmdict.c:205`; `xmdict.h:186` promises 1).
* `zslGetRank` and `zslGetElementByRank` find what they promise, but a member
  is found with any score that leads the walk to it (`xmskiplist.c:593`).
* `zslIsInLexRange` tests `> 1` (`xmskiplist.c:457`), so some empty ranges pass;
  `RangesAreRight` shows that no caller is misled.
* On a slave `expireIfNeeded` returns 1 without deleting (`xmdb.c:85`; `xmdb.h:61` says it has been deleted).
* `hashTypeSet` returns 1 for an update and 0 for a new field (`xmt_hash.c:393`); `xmt_hash.h:50` says the opposite.
* `intsetNew` has no `return` (`xmintset.c:88-94`); the model takes the pointer that the build happens to leave in the register.
* `zsetConvert` advances a NULL pointer when the ziplist is empty (`xmt_zset.c:638`).
* `zzlDeleteRangeByRank` reports the length of the range, whatever has been removed.
* After `listTypeDelete` of the last entry of a ziplist, towards the tail, `listTypeNext` returns 1 once more, for an
  entry without a value.
* `listTypeInsert` neither moves the iterator nor converts a ziplist that becomes too long, and
  in a linked list it meets the fault of `InsertedBefore`.

## Not modelled

`dictRelease`, `listRelease`, `zslFree`, `freeXObject` (the end of a structure);
`dictFingerprint` and its assertion; `dictGetRandomKeys`; hash functions;
failing allocations; parsing of range strings; statistics and LRU times; scores that are
not integers; the reference counts of elements in containers (those of values in the key
space are in `Db`); `ziplistRepr`, `ziplistBlobLen`, `intsetBlobLen`,
`hashTypeTryObjectEncoding`; `blocking_keys`, `ready_keys`, `watched_keys` (never written
by the code).

Of the components: `Sds` and `StringType` are conversions between text and numbers and moves of bytes
within one string, which have no state that several calls share; `Rdb` is
unfinished in the repository, and `Rio` is a stream of bytes for it; `Notify` converts
flags to letters; `Endianconv` and `Malloc` wrap the machine and the allocator; `Lzf` is
vendored; `xmclient.h`, `xmserver.h` and `xmredis.h` only declare.

## Plan

Done: 1 `Dict`, 2 `DictScan`, 3 `Db`, 4 `SkipList`, 5 `AdList`, 6 `IntSet`, 7 `ZipList`, 8
the object types, each shown to answer the same in both encodings across a conversion.

The theorems: 9 the tables of `Dict` and `DictMap`, 10 `Db`, 11 chains and iterators of `Dict`,
12 `AdList` and `NodeSeq`, 13 `SkipList` and `OrderedSet`, 14 intsets, and sets as `ValueSet`, 15 `DictScan`,
16 ziplists, and lists as `ValueSeq`, 17 hashes as `DictMap`, and iterations over objects, 18 sorted sets as
`OrderedSet`, and the ranges of sorted sets.
