------------------------------ MODULE DbProofs ------------------------------
(***************************************************************************)
(* Proofs about Db for any number of databases and any finite sets of keys *)
(* and objects.  The inductive invariant says of the memory that it is     *)
(* Sound: expiry times belong to keys, and every object is counted once    *)
(* for each entry and once more while the client holds it.  The operators  *)
(* on the memory are looked at first, by the fields of their results.      *)
(***************************************************************************)
EXTENDS Db, FiniteSetTheorems, TLAPS

KeySpaces == [Dbs -> [Keys -> Objs \cup {NULL}]]

ExpiryTimes == [Dbs -> [Keys -> Times \cup {NoExpire}]]

Memories == [dict : KeySpaces, expires : ExpiryTimes,
             refs : [Objs -> Int], enc : [Objs -> {"raw", "int"}]]

\* The entries whose value is object x.
Owners(dict, x) == {p \in Dbs \X Keys : dict[p[1]][p[2]] = x}

\* The references to x that no entry accounts for.
Excess(mm, x) == mm.refs[x] - Cardinality(Owners(mm.dict, x))

TimesBelong(mm) ==
  \A i \in Dbs : \A k \in Keys : mm.expires[i][k] # NoExpire => mm.dict[i][k] # NULL

Sound(mm, H) ==
  /\ mm \in Memories
  /\ TimesBelong(mm)
  /\ \A x \in Objs : Excess(mm, x) = IF x \in H THEN 1 ELSE 0

----------------------------------------------------------------------------
\* Counting the owners of an object.

LEMMA OwnersFinite ==
  ASSUME NEW dict, NEW x
  PROVE  /\ IsFiniteSet(Owners(dict, x))
         /\ Cardinality(Owners(dict, x)) \in Nat
<1>1. IsFiniteSet(Dbs)
  BY FS_Interval, ConstantsAssumption DEF Dbs
<1>2. IsFiniteSet(Dbs \X Keys)
  BY <1>1, FS_Product, ConstantsAssumption
<1>3. Owners(dict, x) \in SUBSET (Dbs \X Keys)
  BY DEF Owners
<1>4. IsFiniteSet(Owners(dict, x))
  BY <1>2, <1>3, FS_Subset
<1>5. QED
  BY <1>4, FS_CardinalityType

\* An object that is the value of a key has an owner.
LEMMA ValueHasOwner ==
  ASSUME NEW dict, NEW i \in Dbs, NEW k \in Keys
  PROVE  Cardinality(Owners(dict, dict[i][k])) > 0
<1>1. <<i, k>> \in Owners(dict, dict[i][k])
  BY DEF Owners
<1>2. Owners(dict, dict[i][k]) # {}
  BY <1>1
<1>3. QED
  BY <1>2, OwnersFinite, FS_EmptySet

\* The key spaces a and b differ in the entry of key k of database i at most.
SameElsewhere(a, b, i, k) ==
  \A j \in Dbs, y \in Keys : j # i \/ y # k => b[j][y] = a[j][y]

\* One entry changes its value: the old value loses an owner, the new one
\* gains it.
LEMMA OwnersChange ==
  ASSUME NEW a, NEW b, NEW i \in Dbs, NEW k \in Keys, NEW x,
         SameElsewhere(a, b, i, k)
  PROVE  Cardinality(Owners(b, x)) = Cardinality(Owners(a, x))
           - (IF a[i][k] = x THEN 1 ELSE 0) + (IF b[i][k] = x THEN 1 ELSE 0)
<1> DEFINE rest == Owners(a, x) \ {<<i, k>>}
<1>1. <<i, k>> \in Owners(a, x) <=> a[i][k] = x
  BY DEF Owners
<1>2. /\ IsFiniteSet(rest) /\ Cardinality(rest) \in Nat
      /\ Cardinality(Owners(a, x)) = Cardinality(rest) + (IF a[i][k] = x THEN 1 ELSE 0)
  <2>1. IsFiniteSet(Owners(a, x)) /\ Cardinality(Owners(a, x)) \in Nat
    BY OwnersFinite
  <2>2. /\ IsFiniteSet(rest)
        /\ Cardinality(rest) = IF <<i, k>> \in Owners(a, x) THEN Cardinality(Owners(a, x)) - 1
                               ELSE Cardinality(Owners(a, x))
    BY <2>1, FS_RemoveElement
  <2>3. Cardinality(rest) \in Nat
    BY <2>2, FS_CardinalityType
  <2>4. QED
    BY <1>1, <2>1, <2>2, <2>3
<1>3. rest = {p \in Dbs \X Keys : p # <<i, k>> /\ a[p[1]][p[2]] = x}
  BY DEF Owners
<1>4. \A p \in Dbs \X Keys : p # <<i, k>> => b[p[1]][p[2]] = a[p[1]][p[2]]
  BY DEF SameElsewhere
<1>5. Owners(b, x) = IF b[i][k] = x THEN rest \cup {<<i, k>>} ELSE rest
  <2>1. CASE b[i][k] = x
    BY <2>1, <1>3, <1>4 DEF Owners
  <2>2. CASE b[i][k] # x
    BY <2>2, <1>3, <1>4 DEF Owners
  <2>3. QED
    BY <2>1, <2>2
<1>6. <<i, k>> \notin rest
  OBVIOUS
<1>7. Cardinality(Owners(b, x)) = Cardinality(rest) + (IF b[i][k] = x THEN 1 ELSE 0)
  <2>1. Cardinality(rest \cup {<<i, k>>}) = Cardinality(rest) + 1
    BY <1>2, <1>6, FS_AddElement
  <2>2. QED
    BY <2>1, <1>2, <1>5
<1>8. QED
  BY <1>2, <1>7

----------------------------------------------------------------------------
\* The operators on the memory.

\* The fields of the memory after an expiry time was set or taken away.
LEMMA SetWhenFields ==
  ASSUME cur \in Dbs, NEW mm \in Memories, NEW k \in Keys, NEW t \in Times \cup {NoExpire}
  PROVE  /\ SetWhen(mm, k, t) \in Memories
         /\ SetWhen(mm, k, t).dict = mm.dict
         /\ SetWhen(mm, k, t).refs = mm.refs
         /\ SetWhen(mm, k, t).enc = mm.enc
         /\ \A i \in Dbs, x \in Keys : SetWhen(mm, k, t).expires[i][x] =
              IF i = cur /\ x = k THEN t ELSE mm.expires[i][x]
         /\ \A x : Excess(SetWhen(mm, k, t), x) = Excess(mm, x)
BY DEF SetWhen, Memories, ExpiryTimes, Excess

\* The fields of the memory after a key has got a value, or lost the one it had.
LEMMA SetValFields ==
  ASSUME cur \in Dbs, NEW mm \in Memories, NEW k \in Keys, NEW o \in Objs \cup {NULL}
  PROVE  /\ SetVal(mm, k, o) \in Memories
         /\ SetVal(mm, k, o).expires = mm.expires
         /\ SetVal(mm, k, o).enc = mm.enc
         /\ \A i \in Dbs, x \in Keys : SetVal(mm, k, o).dict[i][x] =
              IF i = cur /\ x = k THEN o ELSE mm.dict[i][x]
         /\ \A x \in Objs : SetVal(mm, k, o).refs[x] =
              mm.refs[x] - (IF mm.dict[cur][k] = x THEN 1 ELSE 0)
<1> DEFINE old == mm.dict[cur][k]
<1>1. /\ mm.dict \in KeySpaces /\ mm.expires \in ExpiryTimes
      /\ mm.refs \in [Objs -> Int] /\ mm.enc \in [Objs -> {"raw", "int"}]
  BY DEF Memories
<1>2. old \in Objs \cup {NULL}
  BY <1>1 DEF KeySpaces
<1>3. /\ SetVal(mm, k, o).dict = [mm.dict EXCEPT ![cur][k] = o]
      /\ SetVal(mm, k, o).refs = Decr(mm.refs, old)
      /\ SetVal(mm, k, o).expires = mm.expires
      /\ SetVal(mm, k, o).enc = mm.enc
  BY DEF Memories, SetVal, Value
<1>4. /\ Decr(mm.refs, old) \in [Objs -> Int]
      /\ \A x \in Objs : Decr(mm.refs, old)[x] = mm.refs[x] - (IF old = x THEN 1 ELSE 0)
  BY <1>1, <1>2, ConstantsAssumption DEF Decr
<1>5. /\ [mm.dict EXCEPT ![cur][k] = o] \in KeySpaces
      /\ \A i \in Dbs, x \in Keys : [mm.dict EXCEPT ![cur][k] = o][i][x] =
           IF i = cur /\ x = k THEN o ELSE mm.dict[i][x]
  BY <1>1 DEF KeySpaces
<1>6. SetVal(mm, k, o) \in Memories
  BY <1>4, <1>5 DEF Memories, SetVal, Value
<1>7. QED
  BY <1>3, <1>4, <1>5, <1>6

\* The entry takes over one reference to its new value: the old one's goes with it.
LEMMA SetValExcess ==
  ASSUME cur \in Dbs, NEW mm \in Memories, NEW k \in Keys, NEW o \in Objs \cup {NULL},
         NEW x \in Objs
  PROVE  Excess(SetVal(mm, k, o), x) = Excess(mm, x) - (IF o = x THEN 1 ELSE 0)
<1> DEFINE new == SetVal(mm, k, o)
<1>1. /\ \A i \in Dbs, y \in Keys : i # cur \/ y # k => new.dict[i][y] = mm.dict[i][y]
      /\ new.dict[cur][k] = o
      /\ new.refs[x] = mm.refs[x] - (IF mm.dict[cur][k] = x THEN 1 ELSE 0)
      /\ mm.refs[x] \in Int
  BY SetValFields DEF Memories
<1> HIDE DEF new
<1>2. Cardinality(Owners(new.dict, x)) = Cardinality(Owners(mm.dict, x))
        - (IF mm.dict[cur][k] = x THEN 1 ELSE 0) + (IF o = x THEN 1 ELSE 0)
  <2> DEFINE a == mm.dict
             b == new.dict
  <2>1. SameElsewhere(a, b, cur, k) /\ b[cur][k] = o
    BY <1>1 DEF SameElsewhere
  <2> HIDE DEF a, b
  <2>2. Cardinality(Owners(b, x)) = Cardinality(Owners(a, x))
          - (IF a[cur][k] = x THEN 1 ELSE 0) + (IF b[cur][k] = x THEN 1 ELSE 0)
    BY <2>1, OwnersChange
  <2>3. QED
    BY <2>1, <2>2 DEF a, b
<1>3. Cardinality(Owners(new.dict, x)) \in Nat /\ Cardinality(Owners(mm.dict, x)) \in Nat
  BY OwnersFinite
<1>4. Excess(new, x) = Excess(mm, x) - (IF o = x THEN 1 ELSE 0)
  BY <1>1, <1>2, <1>3 DEF Excess
<1>5. QED
  BY <1>4 DEF new

\* The fields of the memory after dbDelete.
LEMMA DeleteFields ==
  ASSUME cur \in Dbs, NEW mm \in Memories, NEW k \in Keys
  PROVE  /\ Delete(mm, k) \in Memories
         /\ Delete(mm, k).enc = mm.enc
         /\ \A i \in Dbs, x \in Keys :
              /\ Delete(mm, k).dict[i][x] = IF i = cur /\ x = k THEN NULL ELSE mm.dict[i][x]
              /\ Delete(mm, k).expires[i][x] =
                   IF i = cur /\ x = k THEN NoExpire ELSE mm.expires[i][x]
         /\ \A x \in Objs : Excess(Delete(mm, k), x) = Excess(mm, x)
<1> DEFINE mid == SetWhen(mm, k, NoExpire)
<1>1. /\ mid \in Memories /\ mid.dict = mm.dict /\ mid.enc = mm.enc
      /\ \A i \in Dbs, x \in Keys : mid.expires[i][x] =
           IF i = cur /\ x = k THEN NoExpire ELSE mm.expires[i][x]
      /\ \A x \in Objs : Excess(mid, x) = Excess(mm, x)
  BY SetWhenFields
<1>2. Delete(mm, k) = SetVal(mid, k, NULL)
  BY DEF Delete
<1> HIDE DEF mid
<1>3. \A x \in Objs : Excess(SetVal(mid, k, NULL), x) = Excess(mid, x)
  <2> TAKE x \in Objs
  <2>1. Excess(SetVal(mid, k, NULL), x) = Excess(mid, x) - (IF NULL = x THEN 1 ELSE 0)
    BY <1>1, SetValExcess
  <2>2. Excess(mid, x) \in Int
    BY <1>1, OwnersFinite DEF Excess, Memories
  <2>3. QED
    BY <2>1, <2>2, ConstantsAssumption
<1>4. QED
  BY <1>1, <1>2, <1>3, SetValFields

\* expireIfNeeded deletes the key or leaves the memory alone, and keeps it sound.
LEMMA ExpireFields ==
  ASSUME cur \in Dbs, NEW mm \in Memories, NEW k \in Keys
  PROVE  /\ Expire(mm, k) \in Memories
         /\ Expire(mm, k).enc = mm.enc
         /\ \A i \in Dbs, x \in Keys :
              /\ Expire(mm, k).dict[i][x] =
                   IF i = cur /\ x = k /\ Expired(mm, k) /\ ~server.slave THEN NULL
                   ELSE mm.dict[i][x]
              /\ Expire(mm, k).expires[i][x] =
                   IF i = cur /\ x = k /\ Expired(mm, k) /\ ~server.slave THEN NoExpire
                   ELSE mm.expires[i][x]
         /\ \A x \in Objs : Excess(Expire(mm, k), x) = Excess(mm, x)
<1>1. CASE Expired(mm, k) /\ ~server.slave
  BY <1>1, DeleteFields DEF Expire
<1>2. CASE ~(Expired(mm, k) /\ ~server.slave)
  BY <1>2 DEF Expire
<1>3. QED
  BY <1>1, <1>2

\* The assertion of getExpire holds of a sound memory.
LEMMA ExpireSound ==
  ASSUME cur \in Dbs, NEW mm, NEW H, Sound(mm, H), NEW k \in Keys
  PROVE  Sound(Expire(mm, k), H) /\ ExpireAsserts(mm, k)
<1>1. mm \in Memories
  BY DEF Sound
<1>2. TimesBelong(Expire(mm, k))
  <2> DEFINE new == Expire(mm, k)
  <2>1. \A i \in Dbs, x \in Keys :
          \/ new.dict[i][x] = mm.dict[i][x] /\ new.expires[i][x] = mm.expires[i][x]
          \/ new.expires[i][x] = NoExpire
    BY <1>1, ExpireFields
  <2> HIDE DEF new
  <2>2. TimesBelong(new)
    BY <2>1 DEF Sound, TimesBelong
  <2>3. QED
    BY <2>2 DEF new
<1>3. ExpireAsserts(mm, k)
  BY DEF Sound, TimesBelong, ExpireAsserts, When, Exists, Value
<1>4. QED
  BY <1>1, <1>2, <1>3, ExpireFields DEF Sound

\* dbDelete takes the expiry time along with the key.
LEMMA DeleteSound ==
  ASSUME cur \in Dbs, NEW mm, NEW H, Sound(mm, H), NEW k \in Keys
  PROVE  Sound(Delete(mm, k), H)
<1>1. mm \in Memories
  BY DEF Sound
<1>2. TimesBelong(Delete(mm, k))
  <2> DEFINE new == Delete(mm, k)
  <2>1. \A i \in Dbs, x \in Keys :
          \/ new.dict[i][x] = mm.dict[i][x] /\ new.expires[i][x] = mm.expires[i][x]
          \/ new.expires[i][x] = NoExpire
    BY <1>1, DeleteFields
  <2> HIDE DEF new
  <2>2. TimesBelong(new)
    BY <2>1 DEF Sound, TimesBelong
  <2>3. QED
    BY <2>2 DEF new
<1>3. QED
  BY <1>1, <1>2, DeleteFields DEF Sound

\* A held object becomes the value of a key, and is held no more.
LEMMA SetValSound ==
  ASSUME cur \in Dbs, NEW mm, NEW H, Sound(mm, H), NEW k \in Keys, NEW o \in Objs, o \in H
  PROVE  Sound(SetVal(mm, k, o), H \ {o})
<1>1. mm \in Memories
  BY DEF Sound
<1>2. o # NULL
  BY ConstantsAssumption
<1>3. TimesBelong(SetVal(mm, k, o))
  BY <1>1, <1>2, SetValFields DEF Sound, TimesBelong
<1>4. ASSUME NEW x \in Objs
      PROVE  Excess(SetVal(mm, k, o), x) = IF x \in H \ {o} THEN 1 ELSE 0
  <2>1. Excess(SetVal(mm, k, o), x) = Excess(mm, x) - (IF o = x THEN 1 ELSE 0)
    BY <1>1, SetValExcess
  <2>2. Excess(mm, x) = IF x \in H THEN 1 ELSE 0
    BY DEF Sound
  <2>3. QED
    BY <2>1, <2>2
<1>5. QED
  BY <1>1, <1>3, <1>4, SetValFields DEF Sound

\* A key that is there may get an expiry time, any key may lose it.
LEMMA SetWhenSound ==
  ASSUME cur \in Dbs, NEW mm, NEW H, Sound(mm, H), NEW k \in Keys,
         NEW t \in Times \cup {NoExpire}, Exists(mm, k) \/ t = NoExpire
  PROVE  Sound(SetWhen(mm, k, t), H)
<1>1. mm \in Memories
  BY DEF Sound
<1>2. TimesBelong(SetWhen(mm, k, t))
  BY <1>1, SetWhenFields DEF Sound, TimesBelong, Exists, Value
<1>3. QED
  BY <1>1, <1>2, SetWhenFields DEF Sound

\* The reference count of an object is recovered from the excess.
LEMMA SoundCounts ==
  ASSUME NEW mm, NEW H, Sound(mm, H), NEW x \in Objs
  PROVE  /\ mm.refs[x] = Cardinality(Owners(mm.dict, x)) + (IF x \in H THEN 1 ELSE 0)
         /\ mm.refs[x] \in Nat
<1>1. /\ mm.refs[x] \in Int
      /\ mm.refs[x] - Cardinality(Owners(mm.dict, x)) = IF x \in H THEN 1 ELSE 0
  BY DEF Sound, Memories, Excess
<1>2. QED
  BY <1>1, OwnersFinite

----------------------------------------------------------------------------
\* The invariant, and the calls that keep it.

\* The variables beside the memory have their types.
AroundOK ==
  /\ held \subseteq Objs
  /\ cur \in Dbs
  /\ clock \in Times
  /\ server \in [loading : BOOLEAN, slave : BOOLEAN, lua : BOOLEAN, lua_time_start : Times]
  /\ looping \in BOOLEAN
  /\ ret \in Objs \cup Keys \cup {NULL}
  /\ first \in [Keys -> Objs \cup {NULL, Unread}]

IInv == Sound(m, held) /\ AroundOK /\ aborted = FALSE

\* A key has an object or nothing for value.
LEMMA ValueTyped ==
  ASSUME cur \in Dbs, NEW mm \in Memories, NEW k \in Keys
  PROVE  Value(mm, k) \in Objs \cup {NULL}
BY DEF Memories, KeySpaces, Value

\* Forgetting what a script has read keeps the type of that history.
LEMMA WroteTyped ==
  ASSUME AroundOK, NEW K, Wrote(K)
  PROVE  first' \in [Keys -> Objs \cup {NULL, Unread}]
BY DEF AroundOK, Wrote

\* lookupKeyRead and lookupKeyWrite.
LEMMA LookupKeyKeeps ==
  ASSUME IInv, NEW k \in Keys, LookupKey(k)
  PROVE  IInv'
<1>1. m' = Expire(m, k) /\ ret' = Value(m', k)
  BY DEF LookupKey
<1>2. Sound(m', held) /\ ExpireAsserts(m, k)
  BY <1>1, ExpireSound DEF IInv, AroundOK
<1>3. ret' \in Objs \cup {NULL}
  BY <1>1, <1>2, ValueTyped DEF IInv, AroundOK, Sound
<1>4. QED
  BY <1>2, <1>3 DEF IInv, AroundOK, LookupKey

\* dbAdd and dbOverwrite do the same to the memory.
LEMMA DbAddKeeps ==
  ASSUME IInv, NEW k \in Keys, NEW o \in Objs, DbAdd(k, o) \/ DbOverwrite(k, o)
  PROVE  IInv'
<1>1. /\ o \in held /\ m' = SetVal(m, k, o) /\ held' = held \ {o} /\ Wrote({k})
      /\ UNCHANGED <<cur, clock, server, looping, ret, aborted>>
  BY DEF DbAdd, DbOverwrite
<1>2. Sound(m', held')
  BY <1>1, SetValSound DEF IInv, AroundOK
<1>3. QED
  BY <1>1, <1>2, WroteTyped DEF IInv, AroundOK

\* setKey: what the entry takes over, incrRefCount gives back to the caller.
LEMMA SetKeyKeeps ==
  ASSUME IInv, NEW k \in Keys, NEW o \in Objs, SetKey(k, o)
  PROVE  IInv'
<1> DEFINE m1 == Expire(m, k)
           m2 == SetVal(m1, k, o)
           m3 == [m2 EXCEPT !.refs[o] = @ + 1]
<1>1. /\ o \in held /\ held' = held /\ cur \in Dbs /\ Wrote({k})
      /\ m' = SetWhen(m3, k, NoExpire)
      /\ aborted' = (~ExpireAsserts(m, k) \/ ~Exists(m3, k))
      /\ UNCHANGED <<cur, clock, server, looping, ret>>
  BY DEF IInv, AroundOK, SetKey
<1>2. Sound(m1, held) /\ ExpireAsserts(m, k)
  BY <1>1, ExpireSound DEF IInv
<1> HIDE DEF m1
<1>3. Sound(m2, held \ {o}) /\ Exists(m2, k)
  <2>1. Sound(m2, held \ {o})
    BY <1>1, <1>2, SetValSound
  <2>2. m2.dict[cur][k] = o
    BY <1>1, <1>2, SetValFields DEF Sound
  <2>3. QED
    BY <2>1, <2>2, ConstantsAssumption DEF Exists, Value
<1> HIDE DEF m2
<1>4. /\ m3 \in Memories /\ m3.dict = m2.dict /\ m3.expires = m2.expires
      /\ \A x \in Objs : m3.refs[x] = m2.refs[x] + (IF x = o THEN 1 ELSE 0)
  BY <1>3 DEF Sound, Memories
<1> HIDE DEF m3
<1>5. Sound(m3, held)
  <2>1. TimesBelong(m3)
    BY <1>3, <1>4 DEF Sound, TimesBelong
  <2>2. ASSUME NEW x \in Objs
        PROVE  Excess(m3, x) = IF x \in held THEN 1 ELSE 0
    <3>1. Excess(m2, x) = IF x \in held \ {o} THEN 1 ELSE 0
      BY <1>3 DEF Sound
    <3>2. Excess(m3, x) = Excess(m2, x) + (IF x = o THEN 1 ELSE 0)
      <4>1. m2.refs[x] \in Int /\ Cardinality(Owners(m2.dict, x)) \in Nat
        BY <1>3, OwnersFinite DEF Sound, Memories
      <4>2. QED
        BY <1>4, <4>1 DEF Excess
    <3>3. QED
      BY <1>1, <3>1, <3>2
  <2>3. QED
    BY <1>4, <2>1, <2>2 DEF Sound
<1>6. Exists(m3, k)
  BY <1>3, <1>4 DEF Exists, Value
<1>7. Sound(m', held')
  BY <1>1, <1>5, SetWhenSound
<1>8. aborted' = FALSE
  BY <1>1, <1>2, <1>6
<1>9. QED
  BY <1>1, <1>7, <1>8, WroteTyped DEF IInv, AroundOK

\* setExpire, removeExpire and dbDelete.
LEMMA ExpireCallsKeep ==
  ASSUME IInv, NEW k \in Keys,
         RemoveExpire(k) \/ DbDelete(k) \/ \E t \in Times : SetExpire(k, t)
  PROVE  IInv'
<1>1. Sound(m', held)
  <2>1. CASE RemoveExpire(k)
    BY <2>1, SetWhenSound DEF RemoveExpire, IInv, AroundOK
  <2>2. CASE DbDelete(k)
    BY <2>2, DeleteSound DEF DbDelete, IInv, AroundOK
  <2>3. ASSUME NEW t \in Times, SetExpire(k, t)
        PROVE  Sound(m', held)
    BY <2>3, SetWhenSound DEF SetExpire, IInv, AroundOK
  <2>4. QED
    BY <2>1, <2>2, <2>3
<1>2. Wrote({k}) /\ UNCHANGED <<held, cur, clock, server, looping, ret, aborted>>
  BY DEF RemoveExpire, DbDelete, SetExpire
<1>3. QED
  BY <1>1, <1>2, WroteTyped DEF IInv, AroundOK

\* An object that is not allocated is nobody's: its reference count says so.
LEMMA FreeIsUnowned ==
  ASSUME NEW mm, NEW H, Sound(mm, H), NEW n \in Objs, mm.refs[n] = 0
  PROVE  /\ n \notin H
         /\ Cardinality(Owners(mm.dict, n)) = 0
         /\ \A i \in Dbs, k \in Keys : mm.dict[i][k] # n
<1>1. mm.refs[n] = Cardinality(Owners(mm.dict, n)) + (IF n \in H THEN 1 ELSE 0)
  BY SoundCounts
<1>2. Cardinality(Owners(mm.dict, n)) \in Nat
  BY OwnersFinite
<1>3. n \notin H /\ Cardinality(Owners(mm.dict, n)) = 0
  BY <1>1, <1>2
<1>4. \A i \in Dbs, k \in Keys : mm.dict[i][k] # n
  BY <1>3, ValueHasOwner
<1>5. QED
  BY <1>3, <1>4

\* The raw copy n takes the place of the old value, and the key is its only owner.
LEMMA CopySound ==
  ASSUME cur \in Dbs, NEW mm, NEW H, Sound(mm, H), NEW k \in Keys, Exists(mm, k),
         NEW n \in Objs, mm.refs[n] = 0
  PROVE  Sound([SetVal(mm, k, n) EXCEPT !.refs[n] = 1, !.enc[n] = "raw"], H)
<1> DEFINE mid == SetVal(mm, k, n)
           new == [mid EXCEPT !.refs[n] = 1, !.enc[n] = "raw"]
<1>1. /\ mm \in Memories /\ mid \in Memories /\ mid.expires = mm.expires
      /\ \A i \in Dbs, x \in Keys :
           mid.dict[i][x] = IF i = cur /\ x = k THEN n ELSE mm.dict[i][x]
      /\ mid.refs[n] = mm.refs[n] - (IF mm.dict[cur][k] = n THEN 1 ELSE 0)
  BY SetValFields DEF Sound
<1>2. /\ n \notin H
      /\ mm.dict[cur][k] # n
      /\ Excess(mm, n) = 0
  BY FreeIsUnowned DEF Excess
<1>3. \A x \in Objs : Excess(mid, x) = Excess(mm, x) - (IF n = x THEN 1 ELSE 0)
  BY <1>1, SetValExcess
<1> HIDE DEF mid
<1>4. /\ new \in Memories /\ new.dict = mid.dict /\ new.expires = mid.expires
      /\ \A x \in Objs : new.refs[x] = mid.refs[x] + (IF x = n THEN 1 ELSE 0)
  <2>1. mid.refs \in [Objs -> Int] /\ mid.enc \in [Objs -> {"raw", "int"}] /\ mid.refs[n] = 0
    <3>1. mid.refs[n] = mm.refs[n] - 0
      BY <1>1, <1>2, Zenon
    <3>2. mid.refs[n] = 0
      BY <3>1
    <3>3. QED
      BY <1>1, <3>2 DEF Memories
  <2>2. /\ new.refs = [mid.refs EXCEPT ![n] = 1] /\ new.enc = [mid.enc EXCEPT ![n] = "raw"]
        /\ new.dict = mid.dict /\ new.expires = mid.expires
    BY <1>1 DEF Memories
  <2>3. new.refs \in [Objs -> Int] /\ new.enc \in [Objs -> {"raw", "int"}]
    BY <2>1, <2>2
  <2>4. new \in Memories
    BY <1>1, <2>3 DEF Memories
  <2>5. QED
    BY <2>1, <2>2, <2>4
<1> HIDE DEF new
<1>5. TimesBelong(new)
  BY <1>1, <1>4, ConstantsAssumption DEF Sound, TimesBelong
<1>6. ASSUME NEW x \in Objs
      PROVE  Excess(new, x) = IF x \in H THEN 1 ELSE 0
  <2>1. mid.refs[x] \in Int /\ Cardinality(Owners(mid.dict, x)) \in Nat
    BY <1>1, OwnersFinite DEF Memories
  <2>2. Excess(new, x) = Excess(mid, x) + (IF x = n THEN 1 ELSE 0)
    BY <1>4, <2>1 DEF Excess
  <2>3. Excess(mm, x) = IF x \in H THEN 1 ELSE 0
    BY DEF Sound
  <2>4. QED
    BY <1>3, <2>2, <2>3
<1>7. Sound(new, H)
  BY <1>4, <1>5, <1>6 DEF Sound
<1>8. QED
  BY <1>7 DEF new, mid

\* dbUnshareStringValue.
LEMMA UnshareKeeps ==
  ASSUME IInv, NEW k \in Keys, DbUnshareStringValue(k)
  PROVE  IInv'
<1> DEFINE o == Value(m, k)
<1>1. /\ Exists(m, k) /\ cur \in Dbs /\ Sound(m, held) /\ o \in Objs
      /\ UNCHANGED <<held, cur, clock, server, looping, aborted>>
  BY ValueTyped DEF DbUnshareStringValue, IInv, AroundOK, Sound, Exists
<1>2. CASE ret' = o /\ UNCHANGED <<m, first>>
  BY <1>1, <1>2 DEF IInv, AroundOK
<1>3. ASSUME NEW n \in Objs, m.refs[n] = 0, ret' = n, Wrote({k}),
             m' = [SetVal(m, k, n) EXCEPT !.refs[n] = 1, !.enc[n] = "raw"]
      PROVE  IInv'
  <2>1. Sound(m', held)
    BY <1>1, <1>3, CopySound
  <2>2. QED
    BY <1>1, <1>3, <2>1, WroteTyped DEF IInv, AroundOK
<1>4. QED
  BY <1>2, <1>3 DEF DbUnshareStringValue

\* emptyDb gives back exactly the references of the entries.
LEMMA EmptyDbKeeps ==
  ASSUME IInv, EmptyDb
  PROVE  IInv'
<1>1. /\ m \in Memories
      /\ m'.dict = [i \in Dbs |-> [k \in Keys |-> NULL]]
      /\ m'.expires = [i \in Dbs |-> [k \in Keys |-> NoExpire]]
      /\ m'.refs = [x \in Objs |-> m.refs[x] - Cardinality(Owners(m.dict, x))]
      /\ m'.enc = m.enc
      /\ m' = [m EXCEPT !.dict = m'.dict, !.expires = m'.expires, !.refs = m'.refs]
  BY DEF EmptyDb, Owners, IInv, Sound, Memories
<1>2. \A x \in Objs : m.refs[x] \in Int /\ Cardinality(Owners(m.dict, x)) \in Nat
  BY <1>1, OwnersFinite DEF Memories
<1>3. /\ m'.refs \in [Objs -> Int]
      /\ \A x \in Objs : m'.refs[x] = m.refs[x] - Cardinality(Owners(m.dict, x))
  BY <1>1, <1>2
<1>4. m' \in Memories
  <2>1. m'.dict \in KeySpaces /\ m'.expires \in ExpiryTimes
    BY <1>1 DEF KeySpaces, ExpiryTimes
  <2>2. QED
    BY <1>1, <1>3, <2>1 DEF Memories
<1>5. TimesBelong(m')
  BY <1>1 DEF TimesBelong
<1>6. ASSUME NEW x \in Objs
      PROVE  Excess(m', x) = IF x \in held THEN 1 ELSE 0
  <2>1. Owners(m'.dict, x) = {}
    <3>1. \A i \in Dbs, k \in Keys : m'.dict[i][k] = NULL
      BY <1>1
    <3>2. NULL \notin Objs
      BY ConstantsAssumption
    <3>3. QED
      BY <3>1, <3>2 DEF Owners
  <2>2. Cardinality(Owners(m'.dict, x)) = 0
    BY <2>1, FS_EmptySet
  <2>3. m.refs[x] = Cardinality(Owners(m.dict, x)) + (IF x \in held THEN 1 ELSE 0)
    BY SoundCounts DEF IInv
  <2>4. m'.refs[x] = IF x \in held THEN 1 ELSE 0
    BY <1>2, <1>3, <2>3
  <2>5. QED
    BY <2>2, <2>4 DEF Excess
<1>7. /\ Sound(m', held') /\ Wrote(Keys)
      /\ UNCHANGED <<held, cur, clock, server, looping, ret, aborted>>
  BY <1>4, <1>5, <1>6 DEF Sound, EmptyDb
<1>8. QED
  BY <1>7, WroteTyped DEF IInv, AroundOK

\* dbRandomKey, its rounds, and the selection of a database.
LEMMA RandomKeeps ==
  ASSUME IInv, DbRandomKey \/ RandomRound \/ \E id \in -1 .. DbNum : SelectDb(id)
  PROVE  IInv'
<1>1. CASE DbRandomKey
  BY <1>1 DEF DbRandomKey, IInv, AroundOK
<1>2. CASE RandomRound
  <2>1. UNCHANGED <<held, cur, clock, server, first>> /\ cur \in Dbs
    BY <1>2 DEF RandomRound, IInv, AroundOK
  <2>2. CASE looping' = FALSE /\ ret' = NULL /\ UNCHANGED <<m, aborted>>
    BY <2>1, <2>2 DEF IInv, AroundOK
  <2>3. ASSUME NEW k \in Keys, m' = Expire(m, k), aborted' = ~ExpireAsserts(m, k),
               looping' = Expired(m, k), ret' = IF Expired(m, k) THEN ret ELSE k
        PROVE  IInv'
    <3>1. Sound(m', held) /\ aborted' = FALSE
      BY <2>1, <2>3, ExpireSound DEF IInv
    <3>2. looping' \in BOOLEAN
      BY <2>3 DEF Expired
    <3>3. ret' \in Objs \cup Keys \cup {NULL}
      BY <2>3 DEF IInv, AroundOK
    <3>4. QED
      BY <2>1, <3>1, <3>2, <3>3 DEF IInv, AroundOK
  <2>4. QED
    BY <1>2, <2>2, <2>3 DEF RandomRound
<1>3. ASSUME NEW id \in -1 .. DbNum, SelectDb(id)
      PROVE  IInv'
  BY <1>3, WroteTyped DEF SelectDb, IInv, AroundOK
<1>4. QED
  BY <1>1, <1>2, <1>3

\* Objects are created and released by the client.
LEMMA ObjectsKeep ==
  ASSUME IInv, NEW o \in Objs,
         ReleaseObject(o) \/ \E e \in {"raw", "int"} : CreateObject(o, e)
  PROVE  IInv'
<1>1. /\ m \in Memories /\ held \subseteq Objs
      /\ m.refs \in [Objs -> Int] /\ m.enc \in [Objs -> {"raw", "int"}]
  BY DEF IInv, AroundOK, Sound, Memories
<1>2. /\ m'.dict = m.dict /\ m'.expires = m.expires /\ m' \in Memories /\ held' \subseteq Objs
      /\ \A x \in Objs : m'.refs[x] = m.refs[x] + (IF x \in held' THEN 1 ELSE 0)
                                                - (IF x \in held THEN 1 ELSE 0)
  <2>1. CASE ReleaseObject(o)
    BY <1>1, <2>1, ConstantsAssumption DEF ReleaseObject, Decr, Memories
  <2>2. CASE \E e \in {"raw", "int"} : CreateObject(o, e)
    <3>1. PICK e \in {"raw", "int"} : CreateObject(o, e)
      BY <2>2
    <3>2. /\ o \notin held /\ m.refs[o] = 0 /\ held' = held \cup {o}
          /\ m' = [m EXCEPT !.refs[o] = 1, !.enc[o] = e]
      BY <3>1, FreeIsUnowned DEF CreateObject, IInv
    <3>3. /\ m'.dict = m.dict /\ m'.expires = m.expires
          /\ m'.refs = [m.refs EXCEPT ![o] = 1] /\ m'.enc = [m.enc EXCEPT ![o] = e]
      BY <1>1, <3>2 DEF Memories
    <3>4. m'.refs \in [Objs -> Int] /\ m'.enc \in [Objs -> {"raw", "int"}]
      BY <1>1, <3>3
    <3>5. m' \in Memories
      BY <1>1, <3>2, <3>4 DEF Memories
    <3>6. QED
      BY <1>1, <3>2, <3>3, <3>5
  <2>3. QED
    BY <2>1, <2>2
<1>3. ASSUME NEW x \in Objs
      PROVE  Excess(m', x) = IF x \in held' THEN 1 ELSE 0
  <2>1. m.refs[x] \in Int /\ Cardinality(Owners(m.dict, x)) \in Nat
    BY OwnersFinite DEF IInv, Sound, Memories
  <2>2. m.refs[x] - Cardinality(Owners(m.dict, x)) = IF x \in held THEN 1 ELSE 0
    BY DEF IInv, Sound, Excess
  <2>3. QED
    BY <1>2, <2>1, <2>2 DEF Excess
<1>4. Sound(m', held')
  BY <1>2, <1>3 DEF Sound, TimesBelong, IInv
<1>5. UNCHANGED <<cur, clock, server, looping, ret, aborted, first>>
  BY DEF ReleaseObject, CreateObject
<1>6. QED
  BY <1>2, <1>4, <1>5 DEF IInv, AroundOK

\* The clock, scripts, loading and replication.
LEMMA AroundKeeps ==
  ASSUME IInv, Tick \/ Script \/ Reconfigure
  PROVE  IInv'
<1>1. CASE Tick
  BY <1>1, ConstantsAssumption DEF Tick, IInv, AroundOK, Times
<1>2. CASE Script
  <2>1. clock \in Times /\ 0 \in Times
    BY ConstantsAssumption DEF IInv, AroundOK, Times
  <2>2. server' \in [loading : BOOLEAN, slave : BOOLEAN, lua : BOOLEAN, lua_time_start : Times]
    BY <1>2, <2>1 DEF Script, IInv, AroundOK
  <2>3. QED
    BY <1>2, <2>2 DEF Script, IInv, AroundOK
<1>3. CASE Reconfigure
  BY <1>3 DEF Reconfigure, IInv, AroundOK
<1>4. QED
  BY <1>1, <1>2, <1>3

\* Every step of xmdb.c and of the program around it keeps the invariant.
THEOREM InvariantInductive ==
  ASSUME IInv, [Next]_vars
  PROVE  IInv'
<1>1. CASE UNCHANGED vars
  BY <1>1 DEF vars, IInv, AroundOK
<1>2. ASSUME NEW k \in Keys,
             \/ LookupKey(k)
             \/ \E o \in Objs : DbAdd(k, o) \/ DbOverwrite(k, o) \/ SetKey(k, o)
             \/ \E t \in Times : SetExpire(k, t)
             \/ RemoveExpire(k)
             \/ DbDelete(k)
             \/ DbUnshareStringValue(k)
      PROVE  IInv'
  BY <1>2, LookupKeyKeeps, DbAddKeeps, SetKeyKeeps, ExpireCallsKeep, UnshareKeeps
<1>3. CASE EmptyDb
  BY <1>3, EmptyDbKeeps
<1>4. CASE DbRandomKey \/ RandomRound \/ \E id \in -1 .. DbNum : SelectDb(id)
  BY <1>4, RandomKeeps
<1>5. CASE \E o \in Objs : (\E e \in {"raw", "int"} : CreateObject(o, e)) \/ ReleaseObject(o)
  BY <1>5, ObjectsKeep
<1>6. CASE Tick \/ Script \/ Reconfigure
  BY <1>6, AroundKeeps
<1>7. QED
  BY <1>1, <1>2, <1>3, <1>4, <1>5, <1>6 DEF Next

\* The empty memory is sound.
LEMMA InvariantInitially ==
  ASSUME Init
  PROVE  IInv
<1>1. /\ m \in Memories
      /\ TimesBelong(m)
  BY DEF Init, Memories, KeySpaces, ExpiryTimes, TimesBelong
<1>2. ASSUME NEW x \in Objs
      PROVE  Excess(m, x) = 0
  <2>1. Owners(m.dict, x) = {}
    BY ConstantsAssumption DEF Init, Owners
  <2>2. m.refs[x] = 0
    BY DEF Init
  <2>3. QED
    BY <2>1, <2>2, FS_EmptySet DEF Excess
<1>3. Sound(m, held)
  BY <1>1, <1>2 DEF Sound, Init
<1>4. 0 \in Dbs /\ 0 \in Times
  BY ConstantsAssumption DEF Dbs, Times
<1>5. AroundOK
  BY <1>4 DEF Init, AroundOK
<1>6. QED
  BY <1>3, <1>5 DEF IInv, Init

\* The invariant holds in every reachable state.
LEMMA InvariantAlways == Spec => []IInv
BY InvariantInitially, InvariantInductive, PTL DEF Spec

----------------------------------------------------------------------------
\* What the invariant says.

\* The types of all the variables; no reference count is negative.
THEOREM DbTypesHold == Spec => []TypeOK
<1>1. IInv => TypeOK
  <2>1. SUFFICES ASSUME IInv PROVE TypeOK
    OBVIOUS
  <2>2. m \in Memories /\ \A x \in Objs : m.refs[x] \in Nat
    BY <2>1, SoundCounts DEF IInv, Sound
  <2>3. m.refs \in [Objs -> Nat]
    BY <2>2 DEF Memories
  <2>4. m \in [dict : [Dbs -> [Keys -> Objs \cup {NULL}]],
               expires : [Dbs -> [Keys -> Times \cup {NoExpire}]],
               refs : [Objs -> Nat],
               enc : [Objs -> {"raw", "int"}]]
    BY <2>2, <2>3 DEF Memories, KeySpaces, ExpiryTimes
  <2>5. aborted \in BOOLEAN
    BY <2>1 DEF IInv
  <2>6. QED
    BY <2>1, <2>4, <2>5 DEF TypeOK, IInv, AroundOK
<1>2. QED
  BY <1>1, InvariantAlways, PTL

\* No expiry time is left behind by a key: what getExpire, removeExpire and
\* setKey assert of the two dictionaries of a database.
THEOREM ExpiryTimesBelong == Spec => []ExpiresHaveKeys
<1>1. IInv => ExpiresHaveKeys
  BY DEF IInv, Sound, TimesBelong, ExpiresHaveKeys
<1>2. QED
  BY <1>1, InvariantAlways, PTL

\* No assertion of xmdb.c fails.
THEOREM AssertionsHold == Spec => []NoAssertionFails
<1>1. IInv => NoAssertionFails
  BY DEF IInv, NoAssertionFails
<1>2. QED
  BY <1>1, InvariantAlways, PTL

\* refcount counts the keys an object is the value of and the client that
\* holds it: incrRefCount and decrRefCount are called in balance.
THEOREM ReferencesCounted == Spec => []RefsCounted
<1>1. IInv => RefsCounted
  BY SoundCounts DEF IInv, RefsCounted, Owners
<1>2. QED
  BY <1>1, InvariantAlways, PTL

----------------------------------------------------------------------------
\* What the calls do to the entries of the databases.

\* A call that changes key k, of the selected database, and no other.
Writes(k) ==
  \/ \E o \in Objs : DbAdd(k, o) \/ DbOverwrite(k, o) \/ SetKey(k, o)
  \/ \E t \in Times : SetExpire(k, t)
  \/ RemoveExpire(k)
  \/ DbDelete(k)
  \/ DbUnshareStringValue(k) /\ ~UNCHANGED <<m, first>>

\* All other entries are the ones of the memory m.
SameBut(mm, k) ==
  \A i \in Dbs, x \in Keys : i # cur \/ x # k =>
    mm.dict[i][x] = m.dict[i][x] /\ mm.expires[i][x] = m.expires[i][x]

\* Setting a value, an expiry time or deleting concerns one key.
LEMMA SetValSameBut ==
  ASSUME cur \in Dbs, NEW mm \in Memories, NEW k \in Keys, NEW o \in Objs \cup {NULL},
         SameBut(mm, k)
  PROVE  SameBut(SetVal(mm, k, o), k) /\ SetVal(mm, k, o).dict[cur][k] = o
BY SetValFields DEF SameBut

LEMMA SetWhenSameBut ==
  ASSUME cur \in Dbs, NEW mm \in Memories, NEW k \in Keys, NEW t \in Times \cup {NoExpire},
         SameBut(mm, k)
  PROVE  SameBut(SetWhen(mm, k, t), k) /\ SetWhen(mm, k, t).dict = mm.dict
BY SetWhenFields DEF SameBut

LEMMA ExpireSameBut ==
  ASSUME cur \in Dbs, m \in Memories, NEW k \in Keys
  PROVE  SameBut(Expire(m, k), k) /\ Expire(m, k) \in Memories
BY ExpireFields DEF SameBut

\* Only a deletion leaves the key without a value that had one.
LEMMA WritesFields ==
  ASSUME IInv, NEW k \in Keys, Writes(k)
  PROVE  /\ UNCHANGED <<cur, clock, server>> /\ Wrote({k})
         /\ SameBut(m', k)
         /\ DbDelete(k) \/ m.dict[cur][k] = NULL \/ m'.dict[cur][k] # NULL
<1>1. cur \in Dbs /\ m \in Memories /\ SameBut(m, k)
  BY DEF IInv, AroundOK, Sound, SameBut
<1>2. ASSUME NEW o \in Objs, DbAdd(k, o) \/ DbOverwrite(k, o)
      PROVE  SameBut(m', k) /\ m'.dict[cur][k] # NULL
  <2>1. m' = SetVal(m, k, o)
    BY <1>2 DEF DbAdd, DbOverwrite
  <2>2. SameBut(m', k) /\ m'.dict[cur][k] = o
    BY <1>1, <2>1, SetValSameBut
  <2>3. QED
    BY <2>2, ConstantsAssumption
<1>3. ASSUME NEW o \in Objs, SetKey(k, o)
      PROVE  SameBut(m', k) /\ m'.dict[cur][k] # NULL
  <2> DEFINE m1 == Expire(m, k)
             m2 == SetVal(m1, k, o)
             m3 == [m2 EXCEPT !.refs[o] = @ + 1]
  <2>1. m' = SetWhen(m3, k, NoExpire)
    BY <1>3 DEF SetKey
  <2>2. SameBut(m1, k) /\ m1 \in Memories
    BY <1>1, ExpireSameBut
  <2> HIDE DEF m1
  <2>3. SameBut(m2, k) /\ m2 \in Memories /\ m2.dict[cur][k] = o
    BY <1>1, <2>2, SetValSameBut, SetValFields
  <2> HIDE DEF m2
  <2>4. SameBut(m3, k) /\ m3 \in Memories /\ m3.dict[cur][k] = o
    <3>1. m3 \in Memories /\ m3.dict = m2.dict /\ m3.expires = m2.expires
      BY <2>3 DEF Memories
    <3>2. QED
      BY <2>3, <3>1 DEF SameBut
  <2> HIDE DEF m3
  <2>5. SameBut(m', k) /\ m'.dict[cur][k] = o
    BY <1>1, <2>1, <2>4, SetWhenSameBut
  <2>6. QED
    BY <2>5, ConstantsAssumption
<1>4. ASSUME NEW t \in Times \cup {NoExpire}, m' = SetWhen(m, k, t)
      PROVE  SameBut(m', k) /\ m'.dict = m.dict
  BY <1>1, <1>4, SetWhenSameBut
<1>5. ASSUME DbDelete(k)
      PROVE  SameBut(m', k)
  BY <1>1, <1>5, DeleteFields DEF DbDelete, SameBut
<1>6. ASSUME DbUnshareStringValue(k), ~UNCHANGED <<m, first>>
      PROVE  SameBut(m', k) /\ m'.dict[cur][k] # NULL /\ Wrote({k})
  <2>1. PICK n \in Objs : m' = [SetVal(m, k, n) EXCEPT !.refs[n] = 1, !.enc[n] = "raw"]
    BY <1>6 DEF DbUnshareStringValue
  <2> DEFINE mid == SetVal(m, k, n)
  <2>2. SameBut(mid, k) /\ mid \in Memories /\ mid.dict[cur][k] = n
    BY <1>1, SetValSameBut, SetValFields
  <2> HIDE DEF mid
  <2>3. m'.dict = mid.dict /\ m'.expires = mid.expires
    BY <2>1, <2>2 DEF Memories, mid
  <2>4. SameBut(m', k) /\ m'.dict[cur][k] = n
    BY <2>2, <2>3 DEF SameBut
  <2>5. Wrote({k})
    BY <1>6 DEF DbUnshareStringValue
  <2>6. QED
    BY <2>4, <2>5, ConstantsAssumption
<1>7. UNCHANGED <<cur, clock, server>> /\ Wrote({k})
  BY <1>6 DEF Writes, DbAdd, DbOverwrite, SetKey, SetExpire, RemoveExpire, DbDelete,
              DbUnshareStringValue
<1>8. /\ SameBut(m', k)
      /\ DbDelete(k) \/ m.dict[cur][k] = NULL \/ m'.dict[cur][k] # NULL
  <2>1. ASSUME NEW t \in Times, SetExpire(k, t)
        PROVE  SameBut(m', k) /\ m'.dict = m.dict
    BY <1>4, <2>1 DEF SetExpire
  <2>2. ASSUME RemoveExpire(k)
        PROVE  SameBut(m', k) /\ m'.dict = m.dict
    BY <1>4, <2>2 DEF RemoveExpire
  <2>3. QED
    BY <1>2, <1>3, <1>5, <1>6, <2>1, <2>2 DEF Writes
<1>9. QED
  BY <1>7, <1>8

\* The steps that leave all the entries alone.
Idles ==
  /\ UNCHANGED server
  /\ first' = first \/ first' = [k \in Keys |-> Unread]
  /\ m'.dict = m.dict /\ m'.expires = m.expires
  /\ cur' = cur \/ first' = [k \in Keys |-> Unread]
  /\ clock' = clock \/ clock' = clock + 1

\* A step is one of these seven.
LEMMA StepKinds ==
  ASSUME IInv, [Next]_vars
  PROVE  \/ \E k \in Keys : LookupKey(k)
         \/ \E k \in Keys : RandomRound /\ m' = Expire(m, k)
         \/ \E k \in Keys : Writes(k)
         \/ EmptyDb
         \/ Script
         \/ Reconfigure
         \/ Idles
<1>1. CASE UNCHANGED vars
  BY <1>1 DEF vars, Idles
<1>2. ASSUME NEW k \in Keys, DbUnshareStringValue(k)
      PROVE  Writes(k) \/ Idles
  BY <1>2 DEF DbUnshareStringValue, Writes, Idles
<1>3. CASE \E id \in -1 .. DbNum : SelectDb(id)
  BY <1>3 DEF SelectDb, Wrote, Idles
<1>4. CASE DbRandomKey \/ Tick
  BY <1>4 DEF DbRandomKey, Tick, Idles
<1>5. CASE RandomRound
  BY <1>5 DEF RandomRound, Idles
<1>6. CASE \E o \in Objs : (\E e \in {"raw", "int"} : CreateObject(o, e)) \/ ReleaseObject(o)
  <2>1. m \in Memories
    BY DEF IInv, Sound
  <2>2. UNCHANGED <<cur, clock, server, first>>
    BY <1>6 DEF CreateObject, ReleaseObject
  <2>3. m'.dict = m.dict /\ m'.expires = m.expires
    BY <1>6, <2>1 DEF CreateObject, ReleaseObject, Memories
  <2>4. QED
    BY <2>2, <2>3 DEF Idles
<1>7. QED
  BY <1>1, <1>2, <1>3, <1>4, <1>5, <1>6 DEF Next, Writes

----------------------------------------------------------------------------
\* Time and scripts.

\* What a lookup of k returns.
Seen(mm, k) == IF Expired(mm, k) /\ ~server.slave THEN NULL ELSE mm.dict[cur][k]

\* A script began before now, and what it has read of a key it would read again.
ScriptInv ==
  server.lua =>
    /\ server.lua_time_start <= clock
    /\ \A k \in Keys : first[k] # Unread => Seen(m, k) = first[k]

\* A lookup returns what is seen.
LEMMA LookupSees ==
  ASSUME cur \in Dbs, NEW mm \in Memories, NEW k \in Keys
  PROVE  Value(Expire(mm, k), k) = Seen(mm, k)
BY ExpireFields DEF Value, Seen

\* A read expires the key it reads, and no key is seen differently after it.
LEMMA SeenStable ==
  ASSUME IInv, NEW k \in Keys, m' = Expire(m, k), UNCHANGED <<cur, server>>, server.lua,
         NEW x \in Keys
  PROVE  Seen(m, x)' = Seen(m, x)
<1>1. m \in Memories /\ cur \in Dbs
  BY DEF IInv, AroundOK, Sound
<1>2. Now' = Now
  BY DEF Now
<1>3. CASE x = k /\ Expired(m, k) /\ ~server.slave
  BY <1>1, <1>3, ExpireFields DEF Seen
<1>4. CASE ~(x = k /\ Expired(m, k) /\ ~server.slave)
  <2>1. m'.dict[cur][x] = m.dict[cur][x] /\ m'.expires[cur][x] = m.expires[cur][x]
    BY <1>1, <1>4, ExpireFields
  <2>2. Expired(m, x)' <=> Expired(m, x)
    BY <1>2, <2>1 DEF Expired, When
  <2>3. QED
    BY <2>1, <2>2 DEF Seen
<1>5. QED
  BY <1>3, <1>4

\* An entry that is left alone is seen as before.
LEMMA SeenUntouched ==
  ASSUME UNCHANGED <<cur, server>>, server.lua, NEW x,
         m'.dict[cur][x] = m.dict[cur][x], m'.expires[cur][x] = m.expires[cur][x]
  PROVE  Seen(m, x)' = Seen(m, x)
<1>1. Now' = Now
  BY DEF Now
<1>2. Expired(m, x)' <=> Expired(m, x)
  BY <1>1 DEF Expired, When
<1>3. QED
  BY <1>2 DEF Seen

\* Every step keeps what a script has read readable.
LEMMA ScriptInductive ==
  ASSUME IInv, ScriptInv, [Next]_vars
  PROVE  ScriptInv'
<1> DEFINE Reread == \A x \in Keys : first[x] # Unread => Seen(m, x) = first[x]
<1>1. m \in Memories /\ cur \in Dbs /\ first \in [Keys -> Objs \cup {NULL, Unread}]
      /\ clock \in Int /\ server.lua_time_start \in Int
  BY DEF IInv, AroundOK, Sound, Times
<1>2. ASSUME UNCHANGED server, clock' = clock \/ clock' = clock + 1, server.lua => Reread'
      PROVE  ScriptInv'
  BY <1>1, <1>2 DEF ScriptInv
<1>3. ASSUME NEW k \in Keys, LookupKey(k)
      PROVE  ScriptInv'
  <2>1. /\ m' = Expire(m, k) /\ ret' = Value(m', k) /\ UNCHANGED <<cur, clock, server>>
        /\ first' = IF server.lua /\ first[k] = Unread THEN [first EXCEPT ![k] = ret']
                    ELSE first
    BY <1>3 DEF LookupKey
  <2>2. ret' = Seen(m, k)
    BY <1>1, <2>1, LookupSees DEF Value
  <2>3. ASSUME server.lua, NEW x \in Keys, first'[x] # Unread
        PROVE  Seen(m, x)' = first'[x]
    <3>1. Seen(m, x)' = Seen(m, x)
      BY <2>1, <2>3, SeenStable
    <3>2. Seen(m, x) = first'[x]
      BY <1>1, <2>1, <2>2, <2>3 DEF ScriptInv
    <3>3. QED
      BY <3>1, <3>2
  <2>4. QED
    BY <1>2, <2>1, <2>3
<1>4. ASSUME NEW k \in Keys, RandomRound, m' = Expire(m, k)
      PROVE  ScriptInv'
  <2>1. UNCHANGED <<cur, clock, server, first>>
    BY <1>4 DEF RandomRound
  <2>2. ASSUME server.lua, NEW x \in Keys, first'[x] # Unread
        PROVE  Seen(m, x)' = first'[x]
    BY <1>4, <2>1, <2>2, SeenStable DEF ScriptInv
  <2>3. QED
    BY <1>2, <2>1, <2>2
<1>5. ASSUME NEW k \in Keys, Writes(k)
      PROVE  ScriptInv'
  <2>1. UNCHANGED <<cur, clock, server>> /\ Wrote({k}) /\ SameBut(m', k)
    BY <1>5, WritesFields
  <2>2. ASSUME server.lua, NEW x \in Keys, first'[x] # Unread
        PROVE  Seen(m, x)' = first'[x]
    <3>1. x # k /\ first'[x] = first[x]
      BY <2>1, <2>2 DEF Wrote
    <3>2. Seen(m, x)' = Seen(m, x)
      BY <1>1, <2>1, <2>2, <3>1, SeenUntouched DEF SameBut
    <3>3. QED
      BY <2>2, <3>1, <3>2 DEF ScriptInv
  <2>3. QED
    BY <1>2, <2>1, <2>2
<1>6. CASE EmptyDb
  <2>1. UNCHANGED <<clock, server>> /\ \A x \in Keys : first'[x] = Unread
    BY <1>6 DEF EmptyDb, Wrote
  <2>2. QED
    BY <1>2, <2>1
<1>7. CASE Script
  <2>1. server'.lua => server'.lua_time_start = clock
    BY <1>7 DEF Script, IInv, AroundOK
  <2>2. clock' = clock /\ \A x \in Keys : first'[x] = Unread
    BY <1>7 DEF Script
  <2>3. QED
    BY <1>1, <2>1, <2>2 DEF ScriptInv
<1>8. CASE Reconfigure
  BY <1>8 DEF Reconfigure, ScriptInv, IInv, AroundOK
<1>9. CASE Idles
  <2>1. CASE first' = [k \in Keys |-> Unread]
    BY <1>2, <1>9, <2>1 DEF Idles
  <2>2. CASE first' = first /\ cur' = cur
    <3>1. ASSUME server.lua, NEW x \in Keys, first'[x] # Unread
          PROVE  Seen(m, x)' = first'[x]
      BY <1>9, <2>2, <3>1, SeenUntouched DEF Idles, ScriptInv
    <3>2. QED
      BY <1>2, <1>9, <3>1 DEF Idles
  <2>3. QED
    BY <1>9, <2>1, <2>2 DEF Idles
<1>10. QED
  BY <1>3, <1>4, <1>5, <1>6, <1>7, <1>8, <1>9, StepKinds

\* So it is in every reachable state.
LEMMA ScriptAlways == Spec => []ScriptInv
<1>1. Init => ScriptInv
  BY DEF Init, ScriptInv
<1>2. QED
  BY <1>1, ScriptInductive, InvariantAlways, PTL DEF Spec

----------------------------------------------------------------------------
\* What a step may never do.

\* Reads in a script agree: expireIfNeeded goes by the time the script began.
THEOREM ScriptReadsStable == Spec => ScriptReadsAgree
<1> DEFINE A == \A k \in Keys : LookupKey(k) /\ server.lua /\ first[k] # Unread => ret' = first[k]
<1>1. ASSUME IInv, ScriptInv PROVE A
  <2> SUFFICES ASSUME NEW k \in Keys, LookupKey(k), server.lua, first[k] # Unread
               PROVE  ret' = first[k]
    OBVIOUS
  <2>1. ret' = Value(Expire(m, k), k)
    BY DEF LookupKey
  <2>2. ret' = Seen(m, k)
    BY <1>1, <2>1, LookupSees DEF IInv, AroundOK, Sound
  <2>3. QED
    BY <1>1, <2>2 DEF ScriptInv
<1>2. QED
  BY <1>1, InvariantAlways, ScriptAlways, PTL DEF ScriptReadsAgree

\* A key is there until it is deleted, or its time has come on a master that
\* is not loading.
THEOREM KeysStayTheirTime == Spec => KeysLeaveInTime
<1> DEFINE A == \A i \in Dbs, k \in Keys : m.dict[i][k] # NULL /\ m'.dict[i][k] = NULL =>
                  \/ DbDelete(k)
                  \/ EmptyDb
                  \/ /\ ~server.slave /\ ~server.loading
                     /\ m.expires[i][k] \in Times /\ m.expires[i][k] < clock
<1>1. ASSUME IInv, ScriptInv, [Next]_vars PROVE A
  <2> SUFFICES ASSUME NEW i \in Dbs, NEW k \in Keys, m.dict[i][k] # NULL, m'.dict[i][k] = NULL,
                      ~EmptyDb, ~DbDelete(k)
               PROVE  /\ ~server.slave /\ ~server.loading
                      /\ m.expires[i][k] \in Times /\ m.expires[i][k] < clock
    OBVIOUS
  <2>1. /\ m \in Memories /\ cur \in Dbs /\ clock \in Int /\ server.lua_time_start \in Int
        /\ m.expires[i][k] \in Times \cup {NoExpire}
    BY <1>1 DEF IInv, AroundOK, Sound, Times, Memories, ExpiryTimes
  <2>2. Now <= clock /\ Now \in Int
    BY <1>1, <2>1 DEF Now, ScriptInv
  <2>3. ASSUME NEW x \in Keys, m' = Expire(m, x)
        PROVE  /\ ~server.slave /\ ~server.loading
               /\ m.expires[i][k] \in Times /\ m.expires[i][k] < clock
    <3>1. i = cur /\ k = x /\ Expired(m, x) /\ ~server.slave
      BY <2>1, <2>3, ExpireFields
    <3>2. m.expires[i][k] >= 0 /\ ~server.loading /\ Now > m.expires[i][k]
      BY <3>1 DEF Expired, When
    <3>3. m.expires[i][k] \in Times /\ m.expires[i][k] \in Int
      BY <2>1, <3>2 DEF NoExpire, Times
    <3>4. QED
      BY <2>1, <2>2, <3>1, <3>2, <3>3
  <2>4. ASSUME NEW x \in Keys, Writes(x)
        PROVE  FALSE
    BY <1>1, <2>1, <2>4, WritesFields DEF SameBut
  <2>5. CASE Script \/ Reconfigure \/ Idles
    BY <2>5 DEF Script, Reconfigure, Idles
  <2>6. QED
    BY <1>1, <2>3, <2>4, <2>5, StepKinds DEF LookupKey
<1>2. QED
  BY <1>1, InvariantAlways, ScriptAlways, PTL DEF KeysLeaveInTime, Spec

\* On a server that is not loading dbRandomKey returns a key that is there and
\* has not expired.
THEOREM RandomKeyGood == Spec => RandomKeyUnexpired
<1>1. ASSUME IInv, ~server.loading PROVE AnswerUnexpired
  <2> SUFFICES ASSUME RandomRound, ~looping', ret' # NULL
               PROVE  /\ m'.dict[cur][ret'] # NULL
                      /\ \/ m'.expires[cur][ret'] = NoExpire
                         \/ Now <= m'.expires[cur][ret']
    BY DEF AnswerUnexpired
  <2>1. PICK k \in Keys : /\ Exists(m, k) /\ m' = Expire(m, k) /\ looping' = Expired(m, k)
                          /\ ret' = IF Expired(m, k) THEN ret ELSE k
    BY DEF RandomRound
  <2>2. m' = m /\ ret' = k /\ ~Expired(m, k)
    BY <2>1 DEF Expire
  <2>3. m.expires[cur][k] \in Times \cup {NoExpire} /\ Now \in Int
    BY <1>1 DEF IInv, AroundOK, Sound, Memories, ExpiryTimes, Now, Times
  <2>4. ~(m.expires[cur][k] >= 0 /\ Now > m.expires[cur][k])
    BY <1>1, <2>2 DEF Expired, When
  <2>5. m.expires[cur][k] = NoExpire \/ Now <= m.expires[cur][k]
    BY <2>3, <2>4 DEF Times
  <2>6. QED
    BY <2>1, <2>2, <2>5 DEF Exists, Value
<1> DEFINE A == ~server.loading => AnswerUnexpired
<1>2. IInv => A
  BY <1>1
<1>3. QED
  BY <1>2, InvariantAlways, PTL DEF RandomKeyUnexpired

\* dbUnshareStringValue leaves the key a raw object of its own.
THEOREM UnsharedValuePrivate == Spec => UnsharedIsPrivate
<1> DEFINE A == \A k \in Keys : DbUnshareStringValue(k) =>
                  /\ ret' = m'.dict[cur][k]
                  /\ m'.refs[ret'] = 1 /\ m'.enc[ret'] = "raw" /\ ret' \notin held
                  /\ \A i \in Dbs, x \in Keys :
                       <<i, x>> # <<cur, k>> => m'.dict[i][x] = m.dict[i][x]
<1>1. ASSUME IInv PROVE A
  <2> SUFFICES ASSUME NEW k \in Keys, DbUnshareStringValue(k)
               PROVE  /\ ret' = m'.dict[cur][k]
                      /\ m'.refs[ret'] = 1 /\ m'.enc[ret'] = "raw" /\ ret' \notin held
                      /\ \A i \in Dbs, x \in Keys :
                           <<i, x>> # <<cur, k>> => m'.dict[i][x] = m.dict[i][x]
    OBVIOUS
  <2> DEFINE o == m.dict[cur][k]
  <2>1. /\ Sound(m, held) /\ m \in Memories /\ cur \in Dbs /\ Exists(m, k)
        /\ o = Value(m, k) /\ o \in Objs
    BY <1>1, ValueTyped DEF IInv, AroundOK, Sound, DbUnshareStringValue, Exists, Value
  <2>2. CASE ~Shared(o) /\ ret' = o /\ UNCHANGED m
    <3>1. m.refs[o] = 1 /\ m.enc[o] = "raw"
      BY <2>2 DEF Shared
    <3>2. m.refs[o] = Cardinality(Owners(m.dict, o)) + (IF o \in held THEN 1 ELSE 0)
      BY <2>1, SoundCounts
    <3>3. Cardinality(Owners(m.dict, o)) \in Nat /\ Cardinality(Owners(m.dict, o)) > 0
      BY <2>1, OwnersFinite, ValueHasOwner
    <3>4. o \notin held
      BY <3>1, <3>2, <3>3
    <3>5. QED
      BY <2>2, <3>1, <3>4
  <2>3. ASSUME NEW n \in Objs, m.refs[n] = 0, ret' = n,
               m' = [SetVal(m, k, n) EXCEPT !.refs[n] = 1, !.enc[n] = "raw"]
        PROVE  /\ ret' = m'.dict[cur][k]
               /\ m'.refs[ret'] = 1 /\ m'.enc[ret'] = "raw" /\ ret' \notin held
               /\ \A i \in Dbs, x \in Keys :
                    <<i, x>> # <<cur, k>> => m'.dict[i][x] = m.dict[i][x]
    <3> DEFINE mid == SetVal(m, k, n)
    <3>1. /\ mid \in Memories
          /\ \A i \in Dbs, x \in Keys :
               mid.dict[i][x] = IF i = cur /\ x = k THEN n ELSE m.dict[i][x]
      BY <2>1, SetValFields
    <3>2. m' = [mid EXCEPT !.refs[n] = 1, !.enc[n] = "raw"]
      BY <2>3
    <3> HIDE DEF mid
    <3>3. /\ m'.dict = mid.dict /\ m'.refs = [mid.refs EXCEPT ![n] = 1]
          /\ m'.enc = [mid.enc EXCEPT ![n] = "raw"]
          /\ mid.refs \in [Objs -> Int] /\ mid.enc \in [Objs -> {"raw", "int"}]
      BY <3>1, <3>2 DEF Memories
    <3>4. m'.refs[n] = 1 /\ m'.enc[n] = "raw"
      BY <3>3
    <3>5. n \notin held
      BY <2>1, <2>3, FreeIsUnowned
    <3>6. QED
      BY <2>1, <2>3, <3>1, <3>3, <3>4, <3>5
  <2>4. QED
    BY <2>1, <2>2, <2>3 DEF DbUnshareStringValue
<1>2. QED
  BY <1>1, InvariantAlways, PTL DEF UnsharedIsPrivate

=============================================================================
