---------------------------- MODULE ObjectsProofs ----------------------------
(***************************************************************************)
(* Theorems about Objects for all values of its constants: an encoding     *)
(* fits its type, the intset of a set is sorted, and a set object is a     *)
(* set; the ziplists of lists, hashes and sorted sets are well formed; a   *)
(* list object is the list it stands for, the iterator included; a hash    *)
(* object is the map it stands for, in both encodings and through the      *)
(* conversion; an iteration returns what the object holds, once each; and  *)
(* a sorted set is the ordered set it stands for, its ranges included.     *)
(***************************************************************************)
EXTENDS Objects, EncodingProofs

----------------------------------------------------------------------------
\* The encodings of every type, and what is behind ptr for a set.

Encoded ==
  /\ type = "set" => encoding \in {"intset", "ht"}
  /\ type # "set" => encoding # "intset"

GoodSet == encoding = "intset" => GoodIntset(ptr)

SetInv == Encoded /\ GoodSet

\* The functions of the other types leave sets alone.
LEMMA ListStep ==
  ASSUME ListNext, Encoded
  PROVE  type = "list" /\ type' = type /\ encoding' # "intset"
<1>1. type = "list" /\ encoding # "intset"
  BY DEF ListNext, Encoded
<1>2. ASSUME NEW v, NEW where, ListTypePush(v, where)
      PROVE  type' = type /\ encoding' # "intset"
  BY <1>2 DEF ListTypePush, Become
<1>3. ASSUME NEW v, NEW where, ListTypeInsert(v, where)
      PROVE  type' = type /\ encoding' # "intset"
  BY <1>3 DEF ListTypeInsert, Become
<1>4. ASSUME NEW where, ListTypePop(where)
      PROVE  type' = type /\ encoding' # "intset"
  BY <1>4 DEF ListTypePop, Become
<1>5. ASSUME ListTypeLength
      PROVE  type' = type /\ encoding' # "intset"
  BY <1>1, <1>5 DEF ListTypeLength, Become, SameObject
<1>6. ASSUME NEW index, NEW direction, ListTypeInitIterator(index, direction)
      PROVE  type' = type /\ encoding' # "intset"
  BY <1>1, <1>6 DEF ListTypeInitIterator, Iterate, SameObject
<1>7. ASSUME ListTypeNext \/ ReleaseIterator \/ \E v \in ListValues : ListTypeEqual(v)
      PROVE  type' = type /\ encoding' # "intset"
  BY <1>1, <1>7 DEF ListTypeNext, ReleaseIterator, ListTypeEqual, SameObject
<1>8. ASSUME ListTypeDelete
      PROVE  type' = type /\ encoding' # "intset"
  BY <1>8 DEF ListTypeDelete, Become
<1>9. QED
  BY <1>1, <1>2, <1>3, <1>4, <1>5, <1>6, <1>7, <1>8 DEF ListNext

LEMMA HashStep ==
  ASSUME HashNext, Encoded
  PROVE  type = "hash" /\ type' = type /\ encoding' # "intset"
<1>1. type = "hash" /\ encoding # "intset"
  BY DEF HashNext, Encoded
<1>2. ASSUME NEW v, HashTypeTryConversion(v)
      PROVE  type' = type /\ encoding' # "intset"
  BY <1>1, <1>2 DEF HashTypeTryConversion, Become, SameObject
<1>3. ASSUME NEW f, NEW v, HashTypeSet(f, v)
      PROVE  type' = type /\ encoding' # "intset"
  BY <1>3 DEF HashTypeSet, Become
<1>4. ASSUME NEW f, HashTypeDelete(f)
      PROVE  type' = type /\ encoding' # "intset"
  BY <1>4 DEF HashTypeDelete, Become
<1>5. ASSUME HashTypeLength
      PROVE  type' = type /\ encoding' # "intset"
  BY <1>1, <1>5 DEF HashTypeLength, Become, SameObject
<1>6. ASSUME HashTypeInitIterator \/ HashTypeNext \/ ReleaseIterator \/ \E f \in HashFields : HashTypeGetObject(f)
      PROVE  type' = type /\ encoding' # "intset"
  BY <1>1, <1>6 DEF HashTypeInitIterator, Iterate, HashTypeNext, ReleaseIterator, HashTypeGetObject, SameObject
<1>7. QED
  BY <1>1, <1>2, <1>3, <1>4, <1>5, <1>6 DEF HashNext

LEMMA ZSetStep ==
  ASSUME ZSetNext, Encoded
  PROVE  type = "zset" /\ type' = type /\ encoding' # "intset"
<1>1. type = "zset" /\ encoding # "intset"
  BY DEF ZSetNext, Encoded
<1>2. ASSUME NEW zl, Store(zl)
      PROVE  type' = type /\ encoding' # "intset"
  BY <1>2 DEF Store, Become
<1>3. ASSUME NEW o, NEW s, ZzlInsert(o, s)
      PROVE  type' = type /\ encoding' # "intset"
  BY <1>2, <1>3 DEF ZzlInsert
<1>4. ASSUME NEW o, ZzlDelete(o)
      PROVE  type' = type /\ encoding' # "intset"
  BY <1>2, <1>4 DEF ZzlDelete
<1>5. ASSUME NEW r, ZzlDeleteRangeByScore(r) \/ ZzlDeleteRangeByLex(r)
      PROVE  type' = type /\ encoding' # "intset"
  BY <1>2, <1>5 DEF ZzlDeleteRangeByScore, ZzlDeleteRangeByLex
<1>6. ASSUME NEW start, NEW end, ZzlDeleteRangeByRank(start, end)
      PROVE  type' = type /\ encoding' # "intset"
  BY <1>2, <1>6 DEF ZzlDeleteRangeByRank
<1>7. ASSUME ZsetLength
      PROVE  type' = type /\ encoding' # "intset"
  BY <1>1, <1>7 DEF ZsetLength, Become, SameObject
<1>8. ASSUME ZsetConvert
      PROVE  type' = type /\ encoding' # "intset"
  BY <1>8 DEF ZsetConvert, Become
<1>9. QED
  BY <1>1, <1>3, <1>4, <1>5, <1>6, <1>7, <1>8 DEF ZSetNext

----------------------------------------------------------------------------
\* The functions of sets.

\* Only integers are the elements of an intset.
LEMMA KeysAre ==
  ASSUME NEW is, NEW v \in SetValues
  PROVE  /\ v \in AsKeys(is) <=> v.num /\ v.n \in Elements(is)
         /\ v.num => v = Integer(v.n) /\ v.n \in Range64
         /\ v.num \in BOOLEAN
<1>1. v.num \in BOOLEAN /\ (v.num => v = Integer(v.n) /\ v.n \in Range64)
  BY SetTypeAssumption DEF Range64
<1>2. \A n : Integer(n).num = TRUE /\ Integer(n).n = n
  BY DEF Integer
<1>3. QED
  BY <1>1, <1>2 DEF AsKeys

LEMMA KeysChange ==
  ASSUME NEW is, NEW after, NEW n
  PROVE  /\ Elements(after) = Elements(is) \cup {n} => AsKeys(after) = AsKeys(is) \cup {Integer(n)}
         /\ Elements(after) = Elements(is) \ {n} => AsKeys(after) = AsKeys(is) \ {Integer(n)}
<1>1. \A m : Integer(m) = Integer(n) => m = n
  <2>1. \A m : Integer(m).n = m
    BY DEF Integer
  <2>2. QED
    BY <2>1
<1>2. QED
  BY <1>1 DEF AsKeys

\* setTypeAdd: v comes to the elements, whatever the encoding becomes.
LEMMA AddStep ==
  ASSUME SetInv, type = "set", NEW v \in SetValues, SetTypeAdd(v)
  PROVE  /\ SetInv' /\ type' = type /\ SetElements' = SetElements \cup {v}
         /\ ret' = <<"add", v, IF v \in SetElements THEN 0 ELSE 1>>
<1>1. CASE encoding = "ht"
  <2>1. type' = type /\ encoding' = "ht" /\ ptr' = ptr \cup {v} /\ ret' = <<"add", v, IF v \in ptr THEN 0 ELSE 1>>
    BY <1>1 DEF SetTypeAdd, Become
  <2>2. QED
    BY <1>1, <2>1 DEF SetInv, Encoded, GoodSet, SetElements
<1>2. CASE encoding = "intset" /\ v.num
  <2> DEFINE r == IntsetAdd(ptr, v.n)
  <2>1. /\ type' = type /\ ret' = <<"add", v, r.success>>
        /\ \/ encoding' = "ht" /\ ptr' = AsKeys(r.is)
           \/ encoding' = "intset" /\ ptr' = r.is
    BY <1>2 DEF SetTypeAdd, AddedToIntset, Become
  <2>2. GoodIntset(ptr) /\ v = Integer(v.n) /\ v.n \in Range64 /\ (v \in AsKeys(ptr) <=> v.n \in Elements(ptr))
    BY <1>2, KeysAre DEF SetInv, GoodSet
  <2>3. /\ GoodIntset(r.is) /\ Elements(r.is) = Elements(ptr) \cup {v.n}
        /\ r.success = IF v.n \in Elements(ptr) THEN 0 ELSE 1
    BY <2>2, AddIs
  <2> HIDE DEF r
  <2>4. AsKeys(r.is) = AsKeys(ptr) \cup {v}
    BY <2>2, <2>3, KeysChange
  <2>5. SetElements = AsKeys(ptr)
    BY <1>2 DEF SetElements
  <2>6. SetElements' = AsKeys(r.is)
    BY <2>1 DEF SetElements
  <2>7. SetInv'
    BY <2>1, <2>3 DEF SetInv, Encoded, GoodSet
  <2>8. QED
    BY <2>1, <2>2, <2>3, <2>4, <2>5, <2>6, <2>7
<1>3. CASE encoding = "intset" /\ ~v.num
  <2>1. type' = type /\ encoding' = "ht" /\ ptr' = AsKeys(ptr) \cup {v} /\ ret' = <<"add", v, 1>>
    BY <1>3 DEF SetTypeAdd, Become
  <2>2. v \notin AsKeys(ptr)
    BY <1>3, KeysAre
  <2>3. QED
    BY <1>3, <2>1, <2>2 DEF SetInv, Encoded, GoodSet, SetElements
<1>4. QED
  BY <1>1, <1>2, <1>3 DEF SetTypeAdd

\* setTypeRemove: v leaves the elements.
LEMMA RemoveStep ==
  ASSUME SetInv, type = "set", NEW v \in SetValues, SetTypeRemove(v)
  PROVE  /\ SetInv' /\ type' = type /\ SetElements' = SetElements \ {v}
         /\ ret' = <<"remove", v, IF v \in SetElements THEN 1 ELSE 0>>
<1>1. CASE encoding = "ht"
  <2>1. type' = type /\ encoding' = "ht" /\ ptr' = ptr \ {v} /\ ret' = <<"remove", v, IF v \in ptr THEN 1 ELSE 0>>
    BY <1>1 DEF SetTypeRemove, Become
  <2>2. QED
    BY <1>1, <2>1 DEF SetInv, Encoded, GoodSet, SetElements
<1>2. CASE encoding = "intset" /\ v.num
  <2> DEFINE r == IntsetRemove(ptr, v.n)
  <2>1. type' = type /\ ret' = <<"remove", v, r.success>> /\ encoding' = "intset" /\ ptr' = r.is
    BY <1>2 DEF SetTypeRemove, Become
  <2>2. GoodIntset(ptr) /\ v = Integer(v.n) /\ v.n \in Range64 /\ (v \in AsKeys(ptr) <=> v.n \in Elements(ptr))
    BY <1>2, KeysAre DEF SetInv, GoodSet
  <2>3. /\ GoodIntset(r.is) /\ Elements(r.is) = Elements(ptr) \ {v.n}
        /\ r.success = IF v.n \in Elements(ptr) THEN 1 ELSE 0
    BY <2>2, RemoveIs
  <2> HIDE DEF r
  <2>4. AsKeys(r.is) = AsKeys(ptr) \ {v}
    BY <2>2, <2>3, KeysChange
  <2>5. SetElements = AsKeys(ptr)
    BY <1>2 DEF SetElements
  <2>6. SetElements' = AsKeys(r.is)
    BY <2>1 DEF SetElements
  <2>7. SetInv'
    BY <2>1, <2>3 DEF SetInv, Encoded, GoodSet
  <2>8. QED
    BY <2>1, <2>2, <2>3, <2>4, <2>5, <2>6, <2>7
<1>3. CASE encoding = "intset" /\ ~v.num
  <2>1. type' = type /\ encoding' = encoding /\ ptr' = ptr /\ ret' = <<"remove", v, 0>>
    BY <1>3 DEF SetTypeRemove, SameObject
  <2>2. v \notin AsKeys(ptr)
    BY <1>3, KeysAre
  <2>3. QED
    BY <1>3, <2>1, <2>2 DEF SetInv, Encoded, GoodSet, SetElements
<1>4. QED
  BY <1>1, <1>2, <1>3 DEF SetTypeRemove

\* setTypeIsMember
LEMMA MemberStep ==
  ASSUME SetInv, type = "set", NEW v \in SetValues
  PROVE  IsMember(v) <=> v \in SetElements
<1>1. CASE encoding = "ht"
  BY <1>1 DEF IsMember, SetElements
<1>2. CASE encoding = "intset"
  <2>1. GoodIntset(ptr) /\ SetElements = AsKeys(ptr)
    BY <1>2 DEF SetInv, GoodSet, SetElements
  <2>2. /\ v.num \in BOOLEAN /\ (v.num => v.n \in Range64)
        /\ v \in AsKeys(ptr) <=> v.num /\ v.n \in Elements(ptr)
    BY KeysAre
  <2>3. v.num => (IntsetFind(ptr, v.n) <=> v.n \in Elements(ptr))
    BY <2>1, <2>2, FindIs
  <2>4. IsMember(v) <=> v.num /\ IntsetFind(ptr, v.n)
    BY <1>2 DEF IsMember
  <2>5. QED
    BY <2>1, <2>2, <2>3, <2>4
<1>3. QED
  BY <1>1, <1>2 DEF SetInv, Encoded

\* setTypeSize: the length of an intset is the number of its elements.
LEMMA LengthIs ==
  ASSUME NEW is, GoodIntset(is)
  PROVE  Cardinality(AsKeys(is)) = is.length
<1> DEFINE len == is.length
           f == [k \in 1 .. len |-> Integer(IsGet(is, k - 1))]
<1>1. len \in Nat /\ \A p \in 0 .. len - 1 : IsGet(is, p) \in Int
  BY GoodCells DEF GoodIntset
<1>2. \A p, q \in 0 .. len - 1 : p < q => IsGet(is, p) < IsGet(is, q)
  BY DEF GoodIntset
<1>3. \A m, n : Integer(m) = Integer(n) => m = n
  <2>1. \A m : Integer(m).n = m
    BY DEF Integer
  <2>2. QED
    BY <2>1
<1>4. \A k \in 1 .. len : k - 1 \in 0 .. len - 1
  BY <1>1
<1>5. \A p \in 0 .. len - 1 : p + 1 \in 1 .. len /\ p + 1 - 1 = p
  BY <1>1
<1>6. f \in Bijection(1 .. len, AsKeys(is))
  <2>1. \A k \in 1 .. len : f[k] \in AsKeys(is)
    BY <1>4 DEF AsKeys, Elements
  <2>2. \A j, k \in 1 .. len : f[j] = f[k] => j = k
    <3>1. SUFFICES ASSUME NEW j \in 1 .. len, NEW k \in 1 .. len, f[j] = f[k], j # k
                   PROVE  FALSE
      OBVIOUS
    <3>2. IsGet(is, j - 1) = IsGet(is, k - 1)
      BY <1>3, <3>1
    <3>3. j - 1 \in 0 .. len - 1 /\ k - 1 \in 0 .. len - 1 /\ (j - 1 < k - 1 \/ k - 1 < j - 1)
      BY <1>1, <3>1
    <3>4. QED
      BY <1>1, <1>2, <3>2, <3>3
  <2>3. \A x \in AsKeys(is) : \E k \in 1 .. len : f[k] = x
    <3>1. SUFFICES ASSUME NEW x \in AsKeys(is)
                   PROVE  \E k \in 1 .. len : f[k] = x
      OBVIOUS
    <3>2. PICK p \in 0 .. len - 1 : x = Integer(IsGet(is, p))
      BY DEF AsKeys, Elements
    <3>3. f[p + 1] = x
      BY <1>5, <3>2
    <3>4. QED
      BY <1>5, <3>3
  <2> HIDE DEF f
  <2>4. f \in [1 .. len -> AsKeys(is)]
    BY <2>1 DEF f
  <2>5. QED
    BY <2>2, <2>3, <2>4 DEF Bijection, Injection, Surjection, IsInjective
<1>7. QED
  BY <1>1, <1>6, FS_CountingElements DEF ExistsBijection

\* The other functions of sets leave the object as it is.
LEMMA LookStep ==
  ASSUME SetInv, type = "set",
         SetTypeSize \/ SetTypeRandomElement \/ SetTypeInitIterator \/ SetTypeNext \/ ReleaseIterator
           \/ \E v \in SetValues : SetTypeIsMember(v)
  PROVE  type' = type /\ encoding' = encoding /\ ptr' = ptr /\ SetInv' /\ SetElements' = SetElements
<1>1. type' = type /\ encoding' = encoding /\ ptr' = ptr
  BY DEF SetTypeSize, SetTypeRandomElement, SetTypeInitIterator, SetTypeNext, ReleaseIterator, SetTypeIsMember,
         Iterate, SameObject
<1>2. QED
  BY <1>1 DEF SetInv, Encoded, GoodSet, SetElements

\* One step of a set object, seen as the set of its elements.
LEMMA SetStep ==
  ASSUME SetInv, SetNext
  PROVE  type = "set" /\ type' = type /\ SetInv' /\ [ThisSet!Next]_(ThisSet!setVars)
<1>1. type = "set"
  BY DEF SetNext
<1> DEFINE shown == IF type = "set" THEN SetElements ELSE {}
           last == IF type = "set" THEN ret ELSE <<>>
<1>2. ThisSet!setVars = <<shown, last>> /\ shown = SetElements /\ last = ret
  BY <1>1 DEF ThisSet!setVars
<1>3. type' = type => shown' = SetElements' /\ last' = ret'
  BY <1>1
<1>4. ASSUME NEW v \in SetValues, SetTypeAdd(v)
      PROVE  type' = type /\ SetInv' /\ ThisSet!Next
  <2>1. /\ SetInv' /\ type' = type /\ SetElements' = SetElements \cup {v}
        /\ ret' = <<"add", v, IF v \in SetElements THEN 0 ELSE 1>>
    BY <1>1, <1>4, AddStep
  <2>2. ThisSet!Add(v)
    BY <1>1, <2>1 DEF ThisSet!Add
  <2>3. QED
    BY <2>1, <2>2 DEF ThisSet!Next
<1>5. ASSUME NEW v \in SetValues, SetTypeRemove(v)
      PROVE  type' = type /\ SetInv' /\ ThisSet!Next
  <2>1. /\ SetInv' /\ type' = type /\ SetElements' = SetElements \ {v}
        /\ ret' = <<"remove", v, IF v \in SetElements THEN 1 ELSE 0>>
    BY <1>1, <1>5, RemoveStep
  <2>2. ThisSet!Remove(v)
    BY <1>1, <2>1 DEF ThisSet!Remove
  <2>3. QED
    BY <2>1, <2>2 DEF ThisSet!Next
<1>6. ASSUME NEW v \in SetValues, SetTypeIsMember(v)
      PROVE  type' = type /\ SetInv' /\ ThisSet!Next
  <2>1. type' = type /\ SetInv' /\ SetElements' = SetElements
    BY <1>1, <1>6, LookStep
  <2>2. ret' = <<"is member", v, IF v \in SetElements THEN 1 ELSE 0>>
    BY <1>1, <1>6, MemberStep DEF SetTypeIsMember
  <2>3. ThisSet!IsMember(v)
    BY <1>1, <2>1, <2>2 DEF ThisSet!IsMember
  <2>4. QED
    BY <2>1, <2>3 DEF ThisSet!Next
<1>7. ASSUME SetTypeSize
      PROVE  type' = type /\ SetInv' /\ ThisSet!Next
  <2>1. type' = type /\ SetInv' /\ SetElements' = SetElements
    BY <1>1, <1>7, LookStep
  <2>2. ret' = <<"size", Cardinality(SetElements)>>
    <3>1. encoding = "intset" => GoodIntset(ptr) /\ SetElements = AsKeys(ptr) /\ ptr.length = Cardinality(AsKeys(ptr))
      BY LengthIs DEF SetInv, GoodSet, SetElements
    <3>2. encoding # "intset" => SetElements = ptr
      BY DEF SetElements
    <3>3. QED
      BY <1>7, <3>1, <3>2 DEF SetTypeSize
  <2>3. ThisSet!Size
    <3>1. \A S : ThisSet!Cardinality(S) = Cardinality(S)
      BY DEF ThisSet!Cardinality, Cardinality
    <3>2. QED
      BY <1>1, <2>1, <2>2, <3>1 DEF ThisSet!Size
  <2>4. QED
    BY <2>1, <2>3 DEF ThisSet!Next
<1>8. ASSUME SetTypeRandomElement
      PROVE  type' = type /\ SetInv' /\ ThisSet!Next
  <2>1. type' = type /\ SetInv' /\ SetElements' = SetElements
    BY <1>1, <1>8, LookStep
  <2>2. \E v \in SetElements : ret' = <<"random", v>>
    BY <1>8 DEF SetTypeRandomElement, SetElements, AsKeys, Elements
  <2>3. ThisSet!Draw
    BY <1>1, <2>1, <2>2 DEF ThisSet!Draw
  <2>4. QED
    BY <2>1, <2>3 DEF ThisSet!Next
<1>9. ASSUME SetTypeInitIterator \/ SetTypeNext \/ ReleaseIterator
      PROVE  type' = type /\ SetInv' /\ UNCHANGED ThisSet!setVars
  <2>1. type' = type /\ SetInv' /\ SetElements' = SetElements
    BY <1>1, <1>9, LookStep
  <2>2. ret' = ret
    BY <1>9 DEF SetTypeInitIterator, SetTypeNext, ReleaseIterator, Iterate
  <2>3. QED
    BY <1>1, <2>1, <2>2 DEF ThisSet!setVars
<1>10. QED
  BY <1>1, <1>4, <1>5, <1>6, <1>7, <1>8, <1>9 DEF SetNext

LEMMA OthersStep ==
  ASSUME SetInv, ListNext \/ HashNext \/ ZSetNext
  PROVE  type # "set" /\ type' = type /\ SetInv' /\ UNCHANGED ThisSet!setVars
<1>1. type # "set" /\ type' = type /\ encoding' # "intset"
  BY ListStep, HashStep, ZSetStep DEF SetInv
<1>2. QED
  BY <1>1 DEF SetInv, Encoded, GoodSet, ThisSet!setVars

LEMMA SetInitially ==
  ASSUME Init
  PROVE  SetInv /\ ThisSet!Init
<1>1. CASE type = "set"
  <2>1. (encoding = "intset" /\ ptr = IntsetNew) \/ (encoding = "ht" /\ ptr = {})
    BY <1>1 DEF Init, Create, SetTypeCreate
  <2>2. ret = <<>>
    BY DEF Init
  <2>3. GoodIntset(IntsetNew) /\ AsKeys(IntsetNew) = {}
    BY NewIs DEF AsKeys
  <2>4. SetElements = {}
    BY <2>1, <2>3 DEF SetElements
  <2>5. QED
    BY <1>1, <2>1, <2>2, <2>3, <2>4 DEF SetInv, Encoded, GoodSet, ThisSet!Init
<1>2. CASE type # "set"
  <2>1. encoding # "intset"
    BY <1>2 DEF Init, Create, CreateZiplistObject, CreateHashObject, CreateZsetObject
  <2>2. QED
    BY <1>2, <2>1 DEF SetInv, Encoded, GoodSet, ThisSet!Init
<1>3. QED
  BY <1>1, <1>2

LEMMA SetInvHolds == Spec => []SetInv
<1>1. Init => SetInv
  BY SetInitially
<1>2. SetInv /\ [Next]_vars => SetInv'
  <2>1. ASSUME SetInv, Next
        PROVE  SetInv'
    BY <2>1, SetStep, OthersStep DEF Next, Calls
  <2>2. ASSUME SetInv, UNCHANGED vars
        PROVE  SetInv'
    BY <2>2 DEF vars, SetInv, Encoded, GoodSet
  <2>3. QED
    BY <2>1, <2>2
<1>3. QED
  BY <1>1, <1>2, PTL DEF Spec

----------------------------------------------------------------------------
\* The theorems.

\* Whatever is added and removed, and whatever the width of a cell, the
\* integers of an intset are in ascending order and fill the block
\* (xmintset.c: intsetAdd, intsetUpgradeAndAdd, intsetRemove).
THEOREM IntsetsAlwaysSorted == Spec => []IntsetsSorted
<1>1. SetInv => IntsetsSorted
  BY GoodIsWellFormed DEF SetInv, GoodSet, IntsetsSorted
<1>2. QED
  BY <1>1, SetInvHolds, PTL

\* A set object is a set: every call of xmt_set.h does to its elements, and
\* returns, what ValueSet says, for both encodings and through the conversion.
THEOREM SetImplementsSet == Spec => ImplementsSet
<1>1. Init => ThisSet!Init
  BY SetInitially
<1>2. SetInv /\ [Next]_vars => [ThisSet!Next]_(ThisSet!setVars)
  <2>1. ASSUME SetInv, Next
        PROVE  [ThisSet!Next]_(ThisSet!setVars)
    BY <2>1, SetStep, OthersStep DEF Next, Calls
  <2>2. ASSUME UNCHANGED vars
        PROVE  UNCHANGED ThisSet!setVars
    BY <2>2 DEF vars, ThisSet!setVars, SetElements
  <2>3. QED
    BY <2>1, <2>2
<1>3. QED
  BY <1>1, <1>2, SetInvHolds, PTL DEF Spec, ImplementsSet, ThisSet!Spec

----------------------------------------------------------------------------
\* Ziplists of pairs: hashes and sorted sets.

Paired(zl) == \E m \in Nat : Len(zl.entries) = 2 * m

LEMMA OddIs ==
  \A k \in Nat : k % 2 = 1 <=> \E i \in Nat : k = 2 * i + 1
<1>1. ASSUME NEW k \in Nat
      PROVE  k = 2 * (k \div 2) + (k % 2) /\ k \div 2 \in Nat /\ k % 2 \in {0, 1}
  OBVIOUS
<1>2. ASSUME NEW i \in Nat
      PROVE  (2 * i + 1) % 2 = 1
  <2> DEFINE k == 2 * i + 1
  <2>1. k \in Nat /\ k = 2 * i + 1
    OBVIOUS
  <2> HIDE DEF k
  <2>2. k = 2 * (k \div 2) + (k % 2) /\ k \div 2 \in Nat /\ k % 2 \in {0, 1}
    BY <1>1, <2>1
  <2>3. k % 2 = 1
    BY <2>1, <2>2
  <2>4. QED
    BY <2>3 DEF k
<1>3. QED
  BY <1>1, <1>2

\* The first entry of a pair has a second one.
LEMMA PairIs ==
  ASSUME NEW zl, GoodZiplist(zl), Paired(zl), NEW k \in 1 .. Len(zl.entries), k % 2 = 1
  PROVE  /\ Len(zl.entries) \in Nat /\ k + 1 \in 1 .. Len(zl.entries) /\ (k + 2) % 2 = 1
         /\ k + 2 <= Len(zl.entries) \/ k + 1 = Len(zl.entries)
         /\ k # 1 => k - 2 \in 1 .. Len(zl.entries) /\ (k - 2) % 2 = 1
<1>1. PICK m \in Nat : Len(zl.entries) = 2 * m
  BY DEF Paired
<1>2. PICK i \in Nat : k = 2 * i + 1
  BY <1>1, OddIs
<1>3. k + 1 = 2 * (i + 1) /\ k + 2 = 2 * (i + 1) + 1 /\ i + 1 \in Nat
  BY <1>2
<1>4. i + 1 <= m
  BY <1>1, <1>2
<1>5. k # 1 => i - 1 \in Nat /\ k - 2 = 2 * (i - 1) + 1
  BY <1>2
<1>6. (k + 2) % 2 = 1
  BY <1>3, OddIs
<1>7. k # 1 => (k - 2) % 2 = 1
  BY <1>1, <1>5, OddIs
<1>8. QED
  BY <1>1, <1>2, <1>3, <1>4, <1>5, <1>6, <1>7

LEMMA MemberPtrsAre ==
  ASSUME NEW zl, GoodZiplist(zl)
  PROVE  /\ \A p \in MemberPtrs(zl) : \E k \in 1 .. Len(zl.entries) : k % 2 = 1 /\ p = Offset(zl, k)
         /\ \A k \in 1 .. Len(zl.entries) : k % 2 = 1 => Offset(zl, k) \in MemberPtrs(zl)
         /\ MemberPtrs(zl) \in SUBSET Nat /\ NULL \notin MemberPtrs(zl) /\ IsFiniteSet(MemberPtrs(zl))
<1>1. zl \in Ziplist /\ Len(zl.entries) \in Nat
  BY EndsAre
<1>2. DOMAIN zl.entries = 1 .. Len(zl.entries)
  BY <1>1, EntriesAre
<1>3. /\ \A p \in MemberPtrs(zl) : \E k \in 1 .. Len(zl.entries) : k % 2 = 1 /\ p = Offset(zl, k)
      /\ \A k \in 1 .. Len(zl.entries) : k % 2 = 1 => Offset(zl, k) \in MemberPtrs(zl)
  BY <1>2 DEF MemberPtrs
<1>4. \A k \in 1 .. Len(zl.entries) :
        Offset(zl, k) \in Nat /\ Offset(zl, Len(zl.entries) + 1) \in Nat /\ Offset(zl, k) + 2 <= Offset(zl, Len(zl.entries) + 1)
  <2>1. SUFFICES ASSUME NEW k \in 1 .. Len(zl.entries)
                 PROVE  Offset(zl, k) \in Nat /\ Offset(zl, Len(zl.entries) + 1) \in Nat /\ Offset(zl, k) + 2 <= Offset(zl, Len(zl.entries) + 1)
    OBVIOUS
  <2>2. k \in 1 .. Len(zl.entries) + 1 /\ Len(zl.entries) + 1 \in 1 .. Len(zl.entries) + 1 /\ k < Len(zl.entries) + 1
    BY <1>1
  <2>3. QED
    BY <1>1, <2>2, OffsetIs, OffsetsAscend
<1> DEFINE end == Offset(zl, Len(zl.entries) + 1)
<1>5. end \in Nat
  <2>1. Len(zl.entries) + 1 \in 1 .. Len(zl.entries) + 1
    BY <1>1
  <2>2. QED
    BY <1>1, <2>1, OffsetIs
<1>6. MemberPtrs(zl) \subseteq 0 .. end
  BY <1>3, <1>4
<1> HIDE DEF end
<1>7. IsFiniteSet(MemberPtrs(zl))
  <2>1. IsFiniteSet(0 .. end)
    BY <1>5, FS_Interval
  <2>2. QED
    BY <1>6, <2>1, FS_Subset
<1>8. MemberPtrs(zl) \in SUBSET Nat /\ NULL \notin MemberPtrs(zl)
  BY <1>5, <1>6, ZipListAssumption
<1>9. QED
  BY <1>3, <1>7, <1>8

\* From pair to pair.
LEMMA ZzlStepIs ==
  ASSUME NEW zl, GoodZiplist(zl), Paired(zl), NEW k \in 1 .. Len(zl.entries), k % 2 = 1
  PROVE  /\ ZzlNext(zl, Offset(zl, k)) = IF k + 2 <= Len(zl.entries) THEN Offset(zl, k + 2) ELSE NULL
         /\ ZzlPrev(zl, Offset(zl, k)) = IF k = 1 THEN NULL ELSE Offset(zl, k - 2)
<1> DEFINE n == Len(zl.entries)
<1>1. /\ n \in Nat /\ k + 1 \in 1 .. n
      /\ k # 1 => k - 2 \in 1 .. n
  BY PairIs
<1>2. k \in 1 .. n + 1 /\ k + 1 \in 1 .. n + 1 /\ k < n /\ (k + 1 < n <=> k + 2 <= n) /\ k + 1 + 1 = k + 2
  BY <1>1
<1>3. ZiplistNext(zl, Offset(zl, k)) = Offset(zl, k + 1)
  BY <1>2, NextIs
<1>4. ZiplistNext(zl, Offset(zl, k + 1)) = IF k + 2 <= n THEN Offset(zl, k + 2) ELSE NULL
  <2>1. ZiplistNext(zl, Offset(zl, k + 1)) = IF k + 1 < n THEN Offset(zl, k + 1 + 1) ELSE NULL
    BY <1>2, NextIs
  <2>2. QED
    BY <1>2, <2>1
<1>5. ZiplistPrev(zl, Offset(zl, k)) = IF k = 1 THEN NULL ELSE Offset(zl, k - 1)
  BY <1>2, PrevIs
<1>6. k # 1 => ZiplistPrev(zl, Offset(zl, k - 1)) = Offset(zl, k - 2) /\ Offset(zl, k - 1) # NULL
  <2>1. SUFFICES ASSUME k # 1
                 PROVE  ZiplistPrev(zl, Offset(zl, k - 1)) = Offset(zl, k - 2) /\ Offset(zl, k - 1) # NULL
    OBVIOUS
  <2>2. k - 1 \in 1 .. n + 1 /\ k - 1 # 1 /\ k - 1 - 1 = k - 2
    BY <1>1, <2>1
  <2>3. ZiplistPrev(zl, Offset(zl, k - 1)) = Offset(zl, k - 1 - 1)
    BY <2>2, PrevIs
  <2>4. Offset(zl, k - 1) # NULL
    BY <2>2, AtOffset
  <2>5. QED
    BY <2>2, <2>3, <2>4
<1>7. QED
  BY <1>3, <1>4, <1>5, <1>6 DEF ZzlNext, ZzlPrev

\* A pair is deleted as two entries; at the end there is nothing to delete.
LEMMA DeletedPairIs ==
  ASSUME NEW zl, GoodZiplist(zl), Paired(zl), NEW k \in 1 .. Len(zl.entries) + 1, k % 2 = 1
  PROVE  LET r == DeletedPair(zl, Offset(zl, k))
         IN /\ GoodZiplist(r) /\ Paired(r) /\ k \in 1 .. Len(r.entries) + 1
            /\ Offset(r, k) = Offset(zl, k)
<1> DEFINE n == Len(zl.entries)
           a == ZiplistDelete(zl, Offset(zl, k))
           r == ZiplistDelete(a, Offset(zl, k))
<1>1. n \in Nat
  BY EndsAre
<1>2. DeletedPair(zl, Offset(zl, k)) = r
  BY DEF DeletedPair
<1>3. CASE k = n + 1
  <2>1. ASSUME TRUE
        PROVE  ZiplistDelete(zl, Offset(zl, k)) = zl
    <3>1. zl \in Ziplist
      BY EndsAre
    <3>2. NextAfter(zl, k, 1) = k
      BY <1>1, <1>3 DEF NextAfter
    <3>3. DeleteFrom(zl, Offset(zl, k), 1) = zl
      BY <3>1, <3>2, DeleteCloses
    <3>4. QED
      BY <3>3 DEF ZiplistDelete
  <2>2. r = zl
    BY <2>1
  <2> HIDE DEF r
  <2>3. QED
    BY <1>2, <2>2
<1>4. CASE k # n + 1
  <2>1. k \in 1 .. n /\ k + 1 \in 1 .. n
    <3>1. k \in 1 .. n
      BY <1>1, <1>4
    <3>2. QED
      BY <3>1, PairIs
  <2>2. GoodZiplist(a) /\ Len(a.entries) = n - 1 /\ \A j \in 1 .. k : Offset(a, j) = Offset(zl, j)
    BY <2>1, DeleteOne
  <2> HIDE DEF a
  <2>3. k \in 1 .. Len(a.entries) /\ Offset(a, k) = Offset(zl, k)
    BY <1>1, <2>1, <2>2
  <2>4. r = ZiplistDelete(a, Offset(a, k))
    BY <2>3
  <2> HIDE DEF r
  <2>5. GoodZiplist(r) /\ Len(r.entries) = n - 1 - 1 /\ \A j \in 1 .. k : Offset(r, j) = Offset(a, j)
    <3>1. Len(a.entries) - 1 = n - 1 - 1
      BY <2>2
    <3>2. QED
      BY <2>2, <2>3, <2>4, <3>1, DeleteOne
  <2>6. Paired(r)
    <3>1. PICK m \in Nat : n = 2 * m
      BY DEF Paired
    <3>2. m - 1 \in Nat /\ n - 1 - 1 = 2 * (m - 1)
      BY <1>1, <2>1, <3>1
    <3>3. QED
      BY <2>5, <3>2 DEF Paired
  <2>7. k \in 1 .. Len(r.entries) + 1 /\ Offset(r, k) = Offset(zl, k)
    BY <1>1, <2>1, <2>3, <2>5
  <2>8. QED
    BY <1>2, <2>5, <2>6, <2>7
<1>5. QED
  BY <1>3, <1>4

----------------------------------------------------------------------------
\* The searches of a sorted set.

LEMMA OffsetOrder ==
  ASSUME NEW zl \in Ziplist, NEW j \in 1 .. Len(zl.entries) + 1, NEW k \in 1 .. Len(zl.entries) + 1
  PROVE  Offset(zl, j) \in Nat /\ Offset(zl, k) \in Nat /\ (Offset(zl, j) <= Offset(zl, k) <=> j <= k)
<1>1. Offset(zl, j) \in Nat /\ Offset(zl, k) \in Nat
  BY OffsetIs
<1>2. Len(zl.entries) \in Nat
  BY EntriesAre
<1>3. CASE j < k
  <2>1. Offset(zl, j) + 2 <= Offset(zl, k)
    BY <1>3, OffsetsAscend
  <2>2. QED
    BY <1>1, <1>2, <1>3, <2>1
<1>4. CASE k < j
  <2>1. Offset(zl, k) + 2 <= Offset(zl, j)
    BY <1>4, OffsetsAscend
  <2>2. QED
    BY <1>1, <1>2, <1>4, <2>1
<1>5. CASE j = k
  BY <1>1, <1>2, <1>5
<1>6. QED
  BY <1>2, <1>3, <1>4, <1>5

\* The stops that lie ahead of p.
Ahead(p, forward, stops) == {q \in stops : IF forward THEN p <= q ELSE q <= p}

\* The nearest of them.
Nearest(p, forward, stops) ==
  IF p = NULL \/ Ahead(p, forward, stops) = {} THEN NULL
  ELSE IF forward THEN Min(Ahead(p, forward, stops)) ELSE Max(Ahead(p, forward, stops))

SeekStep(f, zl, forward, stops, p) ==
  IF p = NULL \/ p \in stops THEN p
  ELSE f[IF forward THEN ZzlNext(zl, p) ELSE ZzlPrev(zl, p)]

LEMMA NearestIs ==
  ASSUME NEW p \in Nat, NEW forward \in BOOLEAN, NEW stops \in SUBSET Nat
  PROVE  LET q == Nearest(p, forward, stops)
         IN /\ Ahead(p, forward, stops) = {} => q = NULL
            /\ Ahead(p, forward, stops) # {} =>
                 /\ q \in Ahead(p, forward, stops)
                 /\ \A x \in Ahead(p, forward, stops) : IF forward THEN q <= x ELSE x <= q
<1> DEFINE A == Ahead(p, forward, stops)
<1>1. A \in SUBSET Nat /\ p # NULL
  <2>1. A \in SUBSET Nat
    BY DEF Ahead
  <2>2. p \in Int
    OBVIOUS
  <2>3. QED
    BY <2>1, <2>2, ZipListAssumption
<1>2. ASSUME A # {}, forward
      PROVE  Min(A) \in A /\ \A x \in A : Min(A) <= x
  <2> HIDE DEF A
  <2>1. \E x \in A : \A y \in A : x <= y
    BY <1>1, <1>2, LeastNatural
  <2>2. QED
    BY <2>1 DEF Min
<1>3. ASSUME A # {}, ~forward
      PROVE  Max(A) \in A /\ \A x \in A : x <= Max(A)
  <2> DEFINE D == {d \in Nat : \E x \in A : d = p - x}
  <2>1. \A x \in A : x \in Nat /\ x <= p
    BY <1>3 DEF Ahead
  <2> HIDE DEF A
  <2>2. D # {} /\ D \in SUBSET Nat
    <3>1. PICK x \in A : TRUE
      BY <1>3
    <3>2. p - x \in D
      BY <2>1, <3>1
    <3>3. QED
      BY <3>2
  <2>3. PICK d \in D : \A e \in D : d <= e
    <3> HIDE DEF D
    <3>1. QED
      BY <2>2, LeastNatural
  <2>4. PICK x \in A : d = p - x
    BY <2>3
  <2>5. ASSUME NEW y \in A
        PROVE  y <= x
    <3>1. p - y \in D
      BY <2>1, <2>5
    <3>2. p - x <= p - y /\ x \in Nat /\ y \in Nat
      BY <2>1, <2>3, <2>4, <3>1
    <3>3. QED
      BY <3>2
  <2>6. x \in A /\ \A y \in A : x >= y
    <3>1. \A y \in A : y \in Nat /\ x \in Nat
      BY <2>1, <2>4
    <3>2. QED
      BY <2>4, <2>5, <3>1
  <2>7. Max(A) \in A /\ \A y \in A : Max(A) >= y
    BY <2>6 DEF Max
  <2>8. QED
    BY <1>1, <2>7
<1> HIDE DEF A
<1>4. Nearest(p, forward, stops) = IF A = {} THEN NULL ELSE IF forward THEN Min(A) ELSE Max(A)
  BY <1>1 DEF Nearest, A
<1>5. QED
  BY <1>2, <1>3, <1>4 DEF A

\* At a stop the search ends; before one it goes on to the next pair.
LEMMA NearestSteps ==
  ASSUME NEW zl, GoodZiplist(zl), Paired(zl), NEW forward \in BOOLEAN, NEW stops \in SUBSET MemberPtrs(zl),
         NEW k \in 1 .. Len(zl.entries), k % 2 = 1
  PROVE  LET p == Offset(zl, k)
             x == IF forward THEN ZzlNext(zl, p) ELSE ZzlPrev(zl, p)
         IN /\ p \in stops => Nearest(p, forward, stops) = p
            /\ p \notin stops => Nearest(p, forward, stops) = Nearest(x, forward, stops)
            /\ x = IF forward THEN (IF k + 2 <= Len(zl.entries) THEN Offset(zl, k + 2) ELSE NULL)
                   ELSE IF k = 1 THEN NULL ELSE Offset(zl, k - 2)
<1> DEFINE n == Len(zl.entries)
           p == Offset(zl, k)
           x == IF forward THEN ZzlNext(zl, p) ELSE ZzlPrev(zl, p)
<1>1. /\ n \in Nat /\ k + 1 \in 1 .. n /\ (k + 2) % 2 = 1
      /\ k + 2 <= Len(zl.entries) \/ k + 1 = Len(zl.entries)
      /\ k # 1 => k - 2 \in 1 .. n /\ (k - 2) % 2 = 1
  BY PairIs
<1>2. zl \in Ziplist
  BY EndsAre
<1>3. x = IF forward THEN (IF k + 2 <= n THEN Offset(zl, k + 2) ELSE NULL)
          ELSE IF k = 1 THEN NULL ELSE Offset(zl, k - 2)
  BY ZzlStepIs
<1>4. /\ stops \in SUBSET Nat
      /\ \A q \in stops : \E j \in 1 .. n : j % 2 = 1 /\ q = Offset(zl, j)
  BY MemberPtrsAre
<1>5. p \in Nat /\ p # NULL
  <2>1. k \in 1 .. n + 1
    BY <1>1
  <2>2. QED
    BY <2>1, AtOffset
<1>6. ASSUME p \in stops
      PROVE  Nearest(p, forward, stops) = p
  <2>1. p \in Ahead(p, forward, stops) /\ \A q \in Ahead(p, forward, stops) : q \in Nat /\ IF forward THEN p <= q ELSE q <= p
    BY <1>4, <1>5, <1>6 DEF Ahead
  <2> HIDE DEF p
  <2> DEFINE q == Nearest(p, forward, stops)
  <2>2. q \in Ahead(p, forward, stops) /\ IF forward THEN q <= p ELSE p <= q
    BY <1>4, <1>5, <2>1, NearestIs
  <2> HIDE DEF q
  <2>3. q = p
    BY <1>5, <2>1, <2>2
  <2>4. QED
    BY <2>3 DEF q
\* Between two pairs there is none.
<1>7. ASSUME NEW j \in 1 .. n, j % 2 = 1
      PROVE  (k < j => k + 2 <= j) /\ (j < k => j <= k - 2)
  <2>1. PICK i \in Nat : k = 2 * i + 1
    BY <1>1, OddIs
  <2>2. PICK h \in Nat : j = 2 * h + 1
    BY <1>7, OddIs
  <2>3. QED
    BY <2>1, <2>2
<1>8. ASSUME p \notin stops, NEW q \in stops
      PROVE  /\ forward => (p <= q <=> k + 2 <= n /\ Offset(zl, k + 2) <= q)
             /\ ~forward => (q <= p <=> k # 1 /\ Offset(zl, k - 2) >= q)
  <2>1. PICK j \in 1 .. n : j % 2 = 1 /\ q = Offset(zl, j)
    BY <1>4, <1>8
  <2>2. j # k
    BY <1>8, <2>1
  <2>3. (k < j => k + 2 <= j) /\ (j < k => j <= k - 2)
    BY <1>7, <2>1
  <2>4. j \in 1 .. n + 1 /\ k \in 1 .. n + 1
    BY <1>1
  <2>5. p \in Nat /\ q \in Nat /\ (p <= q <=> k <= j) /\ (q <= p <=> j <= k)
    BY <1>2, <2>1, <2>4, OffsetOrder
  <2>6. k + 2 <= n => Offset(zl, k + 2) \in Nat /\ (Offset(zl, k + 2) <= q <=> k + 2 <= j)
    <3>1. SUFFICES ASSUME k + 2 <= n
                   PROVE  Offset(zl, k + 2) \in Nat /\ (Offset(zl, k + 2) <= q <=> k + 2 <= j)
      OBVIOUS
    <3>2. k + 2 \in 1 .. n + 1
      BY <1>1, <3>1
    <3>3. QED
      BY <1>2, <2>1, <2>4, <3>2, OffsetOrder
  <2>7. k # 1 => Offset(zl, k - 2) \in Nat /\ (q <= Offset(zl, k - 2) <=> j <= k - 2)
    <3>1. SUFFICES ASSUME k # 1
                   PROVE  Offset(zl, k - 2) \in Nat /\ (q <= Offset(zl, k - 2) <=> j <= k - 2)
      OBVIOUS
    <3>2. k - 2 \in 1 .. n + 1
      BY <1>1, <3>1
    <3>3. QED
      BY <1>2, <2>1, <2>4, <3>2, OffsetOrder
  <2>8. j \in Int /\ k \in Int /\ j >= 1 /\ j <= n
    BY <1>1
  <2>9. p <= q <=> k + 2 <= n /\ Offset(zl, k + 2) <= q
    <3> HIDE DEF p, n
    <3>1. p <= q <=> k + 2 <= j
      BY <2>2, <2>3, <2>5, <2>8
    <3>2. k + 2 <= j => k + 2 <= n
      BY <1>1, <2>8
    <3>3. QED
      BY <2>6, <3>1, <3>2
  <2>10. q <= p <=> k # 1 /\ Offset(zl, k - 2) >= q
    <3> HIDE DEF p, n
    <3>1. q <= p <=> j <= k - 2
      BY <2>2, <2>3, <2>5, <2>8
    <3>2. j <= k - 2 => k # 1
      BY <2>8
    <3>3. k # 1 => (Offset(zl, k - 2) >= q <=> q <= Offset(zl, k - 2))
      BY <2>5, <2>7
    <3>4. QED
      BY <2>7, <3>1, <3>2, <3>3
  <2>11. QED
    BY <2>9, <2>10
<1>9. ASSUME p \notin stops
      PROVE  Nearest(p, forward, stops) = Nearest(x, forward, stops)
  <2>1. x = NULL => Ahead(p, forward, stops) = {}
    <3>1. SUFFICES ASSUME x = NULL, NEW q \in Ahead(p, forward, stops)
                   PROVE  FALSE
      OBVIOUS
    <3>2. q \in stops /\ IF forward THEN p <= q ELSE q <= p
      BY <3>1 DEF Ahead
    <3>3. IF forward THEN k + 2 <= n ELSE k # 1
      BY <1>8, <1>9, <3>2
    <3>4. Offset(zl, IF forward THEN k + 2 ELSE k - 2) # NULL
      <4>1. (IF forward THEN k + 2 ELSE k - 2) \in 1 .. n + 1
        BY <1>1, <3>3
      <4>2. QED
        BY <4>1, AtOffset
    <3>5. QED
      BY <1>3, <3>1, <3>3, <3>4
  <2>2. x # NULL => Ahead(p, forward, stops) = Ahead(x, forward, stops)
    <3>1. SUFFICES ASSUME x # NULL
                   PROVE  Ahead(p, forward, stops) = Ahead(x, forward, stops)
      OBVIOUS
    <3>2. IF forward THEN k + 2 <= n /\ x = Offset(zl, k + 2) ELSE k # 1 /\ x = Offset(zl, k - 2)
      BY <1>3, <3>1
    <3>3. x \in Nat
      <4>1. (IF forward THEN k + 2 ELSE k - 2) \in 1 .. n + 1
        BY <1>1, <3>2
      <4>2. Offset(zl, IF forward THEN k + 2 ELSE k - 2) \in Nat
        BY <4>1, AtOffset
      <4>3. QED
        BY <3>2, <4>2
    <3> HIDE DEF x, p
    <3>4. \A q \in stops : (IF forward THEN p <= q ELSE q <= p) <=> (IF forward THEN x <= q ELSE q <= x)
      <4>1. SUFFICES ASSUME NEW q \in stops
                     PROVE  (IF forward THEN p <= q ELSE q <= p) <=> (IF forward THEN x <= q ELSE q <= x)
        OBVIOUS
      <4>2. /\ forward => (p <= q <=> x <= q)
            /\ ~forward => (q <= p <=> x >= q)
        BY <1>8, <1>9, <3>2
      <4>3. q \in Nat
        BY <1>4
      <4>4. QED
        BY <3>3, <4>2, <4>3
    <3>5. QED
      BY <3>4 DEF Ahead
  <2>3. QED
    BY <1>5, <2>1, <2>2 DEF Nearest
<1>10. QED
  BY <1>3, <1>6, <1>9

\* A search finds the nearest stop, or none.
LEMMA SeekIs ==
  ASSUME NEW zl, GoodZiplist(zl), Paired(zl), NEW forward \in BOOLEAN, NEW stops \in SUBSET MemberPtrs(zl),
         NEW eptr \in MemberPtrs(zl) \cup {NULL}
  PROVE  /\ Seek(zl, eptr, forward, stops) = Nearest(eptr, forward, stops)
         /\ Seek(zl, eptr, forward, stops) \in stops \cup {NULL}
<1> DEFINE n == Len(zl.entries)
           D == MemberPtrs(zl) \cup {NULL}
           walk == CHOOSE f : f = [p \in D |-> SeekStep(f, zl, forward, stops, p)]
           w == [p \in D |-> Nearest(p, forward, stops)]
           onwards(p) == IF forward THEN ZzlNext(zl, p) ELSE ZzlPrev(zl, p)
<1>1. n \in Nat /\ zl \in Ziplist
  BY EndsAre
<1>2. /\ \A p \in MemberPtrs(zl) : \E k \in 1 .. n : k % 2 = 1 /\ p = Offset(zl, k)
      /\ \A k \in 1 .. n : k % 2 = 1 => Offset(zl, k) \in MemberPtrs(zl)
      /\ MemberPtrs(zl) \in SUBSET Nat /\ NULL \notin MemberPtrs(zl)
  BY MemberPtrsAre
<1>3. ASSUME NEW k \in 1 .. n, k % 2 = 1
      PROVE  LET p == Offset(zl, k)
             IN /\ p \in stops => Nearest(p, forward, stops) = p
                /\ p \notin stops => Nearest(p, forward, stops) = Nearest(onwards(p), forward, stops)
                /\ onwards(p) = IF forward THEN (IF k + 2 <= n THEN Offset(zl, k + 2) ELSE NULL)
                                ELSE IF k = 1 THEN NULL ELSE Offset(zl, k - 2)
                /\ onwards(p) \in D
  <2> DEFINE p == Offset(zl, k)
  <2>1. /\ p \in stops => Nearest(p, forward, stops) = p
        /\ p \notin stops => Nearest(p, forward, stops) = Nearest(onwards(p), forward, stops)
        /\ onwards(p) = IF forward THEN (IF k + 2 <= n THEN Offset(zl, k + 2) ELSE NULL)
                        ELSE IF k = 1 THEN NULL ELSE Offset(zl, k - 2)
    BY <1>3, NearestSteps
  <2>2. (k + 2) % 2 = 1 /\ (k # 1 => k - 2 \in 1 .. n /\ (k - 2) % 2 = 1)
    BY <1>3, PairIs
  <2>3. k + 2 <= n => k + 2 \in 1 .. n
    BY <1>1
  <2>4. k + 2 <= n => Offset(zl, k + 2) \in D
    BY <1>2, <2>2, <2>3
  <2>5. k # 1 => Offset(zl, k - 2) \in D
    BY <1>2, <2>2
  <2> HIDE DEF D, p, onwards, n
  <2>6. onwards(p) \in D
    <3>1. NULL \in D
      BY DEF D
    <3>2. QED
      BY <2>1, <2>4, <2>5, <3>1
  <2>7. QED
    BY <2>1, <2>6 DEF p
<1>4. NULL \in D /\ Nearest(NULL, forward, stops) = NULL
  BY DEF Nearest
<1>5. ASSUME NEW p \in D
      PROVE  w[p] = SeekStep(w, zl, forward, stops, p)
  <2>1. CASE p = NULL
    BY <1>4, <2>1 DEF SeekStep
  <2>2. CASE p # NULL
    <3>1. PICK k \in 1 .. n : k % 2 = 1 /\ p = Offset(zl, k)
      BY <1>2, <2>2
    <3>2. /\ p \in stops => Nearest(p, forward, stops) = p
          /\ p \notin stops => Nearest(p, forward, stops) = Nearest(onwards(p), forward, stops)
          /\ onwards(p) \in D
      BY <1>3, <3>1
    <3>3. w[p] = Nearest(p, forward, stops) /\ w[onwards(p)] = Nearest(onwards(p), forward, stops)
      BY <3>2
    <3> HIDE DEF w, D
    <3>4. QED
      BY <2>2, <3>2, <3>3 DEF SeekStep
  <2>3. QED
    BY <2>1, <2>2
<1>6. w = [p \in D |-> SeekStep(w, zl, forward, stops, p)]
  <2>1. w = [p \in D |-> w[p]]
    OBVIOUS
  <2> HIDE DEF w, D
  <2>2. QED
    BY <1>5, <2>1
<1>7. walk = [p \in D |-> SeekStep(walk, zl, forward, stops, p)]
  <2> HIDE DEF w, D
  <2>1. QED
    BY <1>6
<1>8. Seek(zl, eptr, forward, stops) = walk[eptr]
  BY DEF Seek, SeekStep
<1> HIDE DEF walk, w
<1>9. \A p \in D : walk[p] = SeekStep(walk, zl, forward, stops, p)
  BY <1>7
<1>10. walk[NULL] = NULL
  BY <1>4, <1>9 DEF SeekStep
\* How many pairs lie ahead of entry k.
<1> DEFINE left(k) == IF forward THEN n - k ELSE k - 1
           Wrong == {d \in Nat : \E k \in 1 .. n : k % 2 = 1 /\ d = left(k)
                                   /\ walk[Offset(zl, k)] # Nearest(Offset(zl, k), forward, stops)}
<1>11. Wrong = {}
  <2>1. SUFFICES ASSUME Wrong # {}
                 PROVE  FALSE
    OBVIOUS
  <2>2. PICK d \in Wrong : \A c \in Wrong : d <= c
    BY <2>1, LeastNatural
  <2>3. PICK k \in 1 .. n : k % 2 = 1 /\ d = left(k) /\ walk[Offset(zl, k)] # Nearest(Offset(zl, k), forward, stops)
    BY <2>2
  <2> DEFINE p == Offset(zl, k)
             j == IF forward THEN k + 2 ELSE k - 2
  <2>4. /\ p \in stops => Nearest(p, forward, stops) = p
        /\ p \notin stops => Nearest(p, forward, stops) = Nearest(onwards(p), forward, stops)
        /\ onwards(p) = IF forward THEN (IF k + 2 <= n THEN Offset(zl, k + 2) ELSE NULL)
                        ELSE IF k = 1 THEN NULL ELSE Offset(zl, k - 2)
    BY <1>3, <2>3
  <2>5. p \in D /\ p # NULL
    BY <1>2, <2>3
  <2>6. p \notin stops
    BY <1>9, <2>3, <2>4, <2>5 DEF SeekStep
  <2>7. walk[p] = walk[onwards(p)]
    BY <1>9, <2>5, <2>6 DEF SeekStep
  <2>8. onwards(p) # NULL
    BY <1>4, <1>10, <2>3, <2>4, <2>6, <2>7
  <2>9. onwards(p) = Offset(zl, j) /\ j \in 1 .. n /\ j % 2 = 1
    <3>1. (k + 2) % 2 = 1 /\ (k # 1 => k - 2 \in 1 .. n /\ (k - 2) % 2 = 1)
      BY <2>3, PairIs
    <3>2. IF forward THEN k + 2 <= n ELSE k # 1
      BY <2>4, <2>8
    <3>3. k + 2 <= n => k + 2 \in 1 .. n
      BY <1>1
    <3> HIDE DEF onwards, p
    <3>4. QED
      BY <2>4, <3>1, <3>2, <3>3
  <2>10. left(j) \in Nat /\ ~(d <= left(j))
    BY <1>1, <2>3, <2>9
  <2>11. walk[Offset(zl, j)] = Nearest(Offset(zl, j), forward, stops)
    <3>1. left(j) \notin Wrong
      BY <2>2, <2>10
    <3> HIDE DEF j
    <3>2. QED
      BY <2>9, <2>10, <3>1
  <2> HIDE DEF onwards, p, j
  <2>12. walk[p] = Nearest(p, forward, stops)
    BY <2>4, <2>6, <2>7, <2>9, <2>11
  <2>13. QED
    BY <2>3, <2>12 DEF p
<1>12. walk[eptr] = Nearest(eptr, forward, stops)
  <2>1. CASE eptr = NULL
    BY <1>4, <1>10, <2>1
  <2>2. CASE eptr # NULL
    <3>1. PICK k \in 1 .. n : k % 2 = 1 /\ eptr = Offset(zl, k)
      BY <1>2, <2>2
    <3>2. left(k) \in Nat
      BY <1>1
    <3>3. left(k) \notin Wrong
      BY <1>11
    <3>4. QED
      BY <3>1, <3>2, <3>3
  <2>3. QED
    BY <2>1, <2>2
<1>13. Nearest(eptr, forward, stops) \in stops \cup {NULL}
  <2>1. CASE eptr = NULL
    BY <1>4, <2>1
  <2>2. CASE eptr # NULL
    <3>1. eptr \in Nat /\ stops \in SUBSET Nat
      BY <1>2, <2>2
    <3>2. Ahead(eptr, forward, stops) \subseteq stops
      BY DEF Ahead
    <3>3. QED
      BY <3>1, <3>2, NearestIs
  <2>3. QED
    BY <2>1, <2>2
<1>14. QED
  BY <1>8, <1>12, <1>13

----------------------------------------------------------------------------
\* The changes of a sorted set.

\* zzlInsertAt puts in a pair, or shows that bytes have been lost.
LEMMA ZzlInsertAtIs ==
  ASSUME NEW zl, GoodZiplist(zl), Paired(zl), NEW eptr \in MemberPtrs(zl) \cup {NULL}, NEW o \in Objs, NEW s \in Int
  PROVE  LET r == ZzlInsertAt(zl, eptr, o, s)
         IN /\ (GoodZiplist(r) /\ Paired(r)) \/ Ruined(r)
            /\ eptr = NULL => GoodZiplist(r) /\ Paired(r)
<1> DEFINE n == Len(zl.entries)
           x == MemberOf[o]
           y == Integer(s)
           r == ZzlInsertAt(zl, eptr, o, s)
<1>1. n \in Nat /\ zl \in Ziplist
  BY EndsAre
<1>2. x \in Value /\ y \in Value
  BY ZSetAssumption DEF Integer, Value
<1>3. \A z : Len(z.entries) = n + 1 + 1 => Paired(z)
  <2>1. PICK m \in Nat : n = 2 * m
    BY DEF Paired
  <2>2. n + 1 + 1 = 2 * (m + 1) /\ m + 1 \in Nat
    BY <2>1
  <2>3. QED
    BY <2>2 DEF Paired
<1>4. CASE eptr = NULL
  <2> DEFINE a == ZiplistPush(zl, x, ZIPLIST_TAIL)
             b == ZiplistPush(a, y, ZIPLIST_TAIL)
  <2>1. r = b
    BY <1>4 DEF ZzlInsertAt
  <2> HIDE DEF x, y, r
  <2>2. GoodZiplist(a) /\ Len(a.entries) = n + 1
    BY <1>2, AppendIs DEF InsertedIn
  <2> HIDE DEF a
  <2>3. GoodZiplist(b) /\ Len(b.entries) = Len(a.entries) + 1
    BY <1>2, <2>2, AppendIs DEF InsertedIn
  <2> HIDE DEF b
  <2>4. GoodZiplist(r) /\ Paired(r)
    BY <1>3, <2>1, <2>2, <2>3
  <2>5. QED
    BY <2>4 DEF r
<1>5. CASE eptr # NULL
  <2>1. PICK k \in 1 .. n : eptr = Offset(zl, k)
    BY <1>5, MemberPtrsAre
  <2> DEFINE z == ZiplistInsert(zl, Offset(zl, k), x)
             p == ZiplistNext(z, Offset(zl, k))
  <2>2. r = ZiplistInsert(z, p, y)
    BY <1>5, <2>1 DEF ZzlInsertAt
  <2>3. k \in 1 .. n + 1
    BY <1>1
  <2> HIDE DEF x, y, r
  <2>4. \/ InsertedIn(z, zl, k, x)
        \/ Spoilt(z) /\ Len(z.entries) = n + 1 /\ p = Offset(z, k + 1)
    BY <1>2, <2>3, InsertionIs
  <2> HIDE DEF z
  <2>5. ASSUME InsertedIn(z, zl, k, x)
        PROVE  (GoodZiplist(r) /\ Paired(r)) \/ Ruined(r)
    <3>1. GoodZiplist(z) /\ Len(z.entries) = n + 1 /\ \A j \in 1 .. k : Offset(z, j) = Offset(zl, j)
      BY <2>5 DEF InsertedIn
    <3>2. Offset(z, k) = Offset(zl, k) /\ k \in 1 .. Len(z.entries) + 1 /\ k < Len(z.entries) /\ k + 1 \in 1 .. Len(z.entries) + 1
      BY <1>1, <3>1
    <3>3. ZiplistNext(z, Offset(z, k)) = Offset(z, k + 1)
      BY <3>1, <3>2, NextIs
    <3>4. p = Offset(z, k + 1)
      BY <3>2, <3>3
    <3>5. r = ZiplistInsert(z, Offset(z, k + 1), y)
      BY <2>2, <3>4
    <3>6. InsertedIn(r, z, k + 1, y) \/ Spoilt(r)
      BY <1>2, <3>1, <3>2, <3>5, InsertionIs
    <3>7. QED
      BY <1>3, <3>1, <3>6, SpoiltIsRuined DEF InsertedIn
  <2>6. ASSUME Spoilt(z), Len(z.entries) = n + 1, p = Offset(z, k + 1)
        PROVE  Ruined(r)
    <3>1. k + 1 \in 1 .. Len(z.entries)
      BY <1>1, <2>6
    <3>2. Ruined(ZiplistInsert(z, Offset(z, k + 1), y))
      BY <1>2, <2>6, <3>1, SpoiltStays
    <3>3. QED
      BY <2>2, <2>6, <3>2
  <2>7. QED
    BY <1>5, <2>4, <2>5, <2>6 DEF r
<1>6. QED
  BY <1>4, <1>5

\* The first pair, and the last.
LEMMA EndPtrsAre ==
  ASSUME NEW zl, GoodZiplist(zl), Paired(zl)
  PROVE  ZiplistIndex(zl, 0) \in MemberPtrs(zl) \cup {NULL} /\ ZiplistIndex(zl, -2) \in MemberPtrs(zl) \cup {NULL}
<1> DEFINE n == Len(zl.entries)
<1>1. PICK m \in Nat : n = 2 * m
  BY DEF Paired
<1>2. \A k \in 1 .. n : k % 2 = 1 => Offset(zl, k) \in MemberPtrs(zl)
  BY MemberPtrsAre
<1>3. ZiplistIndex(zl, 0) = IF 0 < n THEN Offset(zl, 0 + 1) ELSE NULL
  BY IndexIs
<1>4. ZiplistIndex(zl, -2) = IF 2 <= n THEN Offset(zl, n + 1 + -2) ELSE NULL
  <2>1. -2 \in Int /\ ~(-2 >= 0) /\ -(-2) = 2
    <3> DEFINE x == -2
    <3>1. x \in Int /\ x + 2 = 0
      OBVIOUS
    <3> HIDE DEF x
    <3>2. x \in Int /\ ~(x >= 0) /\ -x = 2
      BY <3>1
    <3>3. QED
      BY <3>2 DEF x
  <2>2. ZiplistIndex(zl, -2) = IF -2 >= 0 THEN (IF -2 < n THEN Offset(zl, -2 + 1) ELSE NULL)
                               ELSE IF -(-2) <= n THEN Offset(zl, n + 1 + -2) ELSE NULL
    BY <2>1, IndexIs
  <2>3. QED
    BY <2>1, <2>2
<1>5. 0 < n => 0 + 1 \in 1 .. n /\ (0 + 1) % 2 = 1
  <2>1. 0 + 1 = 2 * 0 + 1 /\ 0 + 1 \in Nat
    OBVIOUS
  <2>2. (0 + 1) % 2 = 1
    BY <2>1, OddIs
  <2>3. QED
    BY <1>1, <2>2
<1>6. 2 <= n => n + 1 + -2 \in 1 .. n /\ (n + 1 + -2) % 2 = 1
  <2>1. SUFFICES ASSUME 2 <= n
                 PROVE  n + 1 + -2 \in 1 .. n /\ (n + 1 + -2) % 2 = 1
    OBVIOUS
  <2>2. m - 1 \in Nat /\ n + 1 + -2 = 2 * (m - 1) + 1 /\ n + 1 + -2 \in Nat
    BY <1>1, <2>1
  <2>3. (n + 1 + -2) % 2 = 1
    BY <2>2, OddIs
  <2>4. QED
    BY <1>1, <2>1, <2>3
<1> HIDE DEF n
<1>7. ZiplistIndex(zl, 0) \in MemberPtrs(zl) \cup {NULL}
  BY <1>2, <1>3, <1>5
<1>8. ZiplistIndex(zl, -2) \in MemberPtrs(zl) \cup {NULL}
  BY <1>2, <1>4, <1>6
<1>9. QED
  BY <1>7, <1>8

LEMMA PairInsertedIs ==
  ASSUME NEW zl, GoodZiplist(zl), Paired(zl), NEW o \in Objs, NEW s \in Int
  PROVE  (GoodZiplist(Inserted(zl, o, s)) /\ Paired(Inserted(zl, o, s))) \/ Ruined(Inserted(zl, o, s))
<1> DEFINE greater == {p \in MemberPtrs(zl) : ScoreAt(zl, p) > s \/ (ScoreAt(zl, p) = s /\ MemberAt(zl, p) > o)}
           eptr == Seek(zl, ZiplistIndex(zl, 0), TRUE, greater)
<1>1. greater \in SUBSET MemberPtrs(zl) /\ TRUE \in BOOLEAN /\ ZiplistIndex(zl, 0) \in MemberPtrs(zl) \cup {NULL}
  BY EndPtrsAre
<1>2. Inserted(zl, o, s) = ZzlInsertAt(zl, eptr, o, s)
  BY DEF Inserted
<1> HIDE DEF greater
<1>3. eptr \in greater \cup {NULL}
  BY <1>1, SeekIs
<1>4. eptr \in MemberPtrs(zl) \cup {NULL}
  BY <1>1, <1>3
<1> HIDE DEF eptr
<1> DEFINE r == ZzlInsertAt(zl, eptr, o, s)
<1>5. (GoodZiplist(r) /\ Paired(r)) \/ Ruined(r)
  BY <1>4, ZzlInsertAtIs
<1>6. Inserted(zl, o, s) = r
  BY <1>2
<1> HIDE DEF r
<1>7. QED
  BY <1>5, <1>6

\* The loop of the removals takes num pairs from eptr on, one after the other.
Shrinks(after, zl, eptr, num) ==
  \A i \in 0 .. num : after[i] = IF i = 0 THEN zl ELSE DeletedPair(after[i - 1], eptr)

LEMMA RemovalUnfolds ==
  ASSUME NEW zl, GoodZiplist(zl), Paired(zl), NEW eptr \in MemberPtrs(zl), NEW below
  PROVE  LET stop == Seek(zl, eptr, TRUE, MemberPtrs(zl) \ below)
             num == Cardinality({p \in MemberPtrs(zl) : p >= eptr /\ (stop = NULL \/ p < stop)})
         IN /\ num \in Nat /\ RemoveBelow(zl, eptr, below).deleted = num
            /\ \E after : RemoveBelow(zl, eptr, below).zl = after[num] /\ Shrinks(after, zl, eptr, num)
<1> DEFINE stop == Seek(zl, eptr, TRUE, MemberPtrs(zl) \ below)
           pairs == {p \in MemberPtrs(zl) : p >= eptr /\ (stop = NULL \/ p < stop)}
           num == Cardinality(pairs)
           after == CHOOSE f : f = [i \in 0 .. num |-> IF i = 0 THEN zl ELSE DeletedPair(f[i - 1], eptr)]
<1>1. eptr # NULL
  BY MemberPtrsAre
<1>2. RemoveBelow(zl, eptr, below) = [zl |-> after[num], deleted |-> num]
  BY <1>1 DEF RemoveBelow
<1>3. PICK k \in 1 .. Len(zl.entries) : k % 2 = 1 /\ eptr = Offset(zl, k)
  BY MemberPtrsAre
<1>4. num \in Nat
  <2>1. IsFiniteSet(MemberPtrs(zl)) /\ pairs \subseteq MemberPtrs(zl)
    BY MemberPtrsAre
  <2> HIDE DEF pairs
  <2>2. IsFiniteSet(pairs)
    BY <2>1, FS_Subset
  <2>3. QED
    BY <2>2, FS_CardinalityType
<1> HIDE DEF num
<1> DEFINE S == {z \in Ziplist : GoodZiplist(z) /\ Paired(z) /\ k \in 1 .. Len(z.entries) + 1 /\ Offset(z, k) = eptr}
           g == [x \in (1 .. num) \X S |-> DeletedPair(x[2], eptr)]
<1>5. ASSUME NEW z \in S
      PROVE  DeletedPair(z, eptr) \in S
  <2>1. GoodZiplist(z) /\ Paired(z) /\ k \in 1 .. Len(z.entries) + 1 /\ Offset(z, k) = eptr
    OBVIOUS
  <2> DEFINE r == DeletedPair(z, Offset(z, k))
  <2>2. GoodZiplist(r) /\ Paired(r) /\ k \in 1 .. Len(r.entries) + 1 /\ Offset(r, k) = Offset(z, k)
    BY <1>3, <2>1, DeletedPairIs
  <2>3. r = DeletedPair(z, eptr)
    BY <2>1
  <2> HIDE DEF r
  <2>4. r \in Ziplist
    BY <2>2, EndsAre
  <2>5. QED
    BY <2>1, <2>2, <2>3, <2>4
<1>6. zl \in S
  <2>1. zl \in Ziplist /\ Len(zl.entries) \in Nat
    BY EndsAre
  <2>2. k \in 1 .. Len(zl.entries) + 1
    BY <2>1
  <2>3. QED
    BY <1>3, <2>1, <2>2
<1> HIDE DEF S
<1>7. PICK h : IsRecursion(h, S, zl, num, g)
  <2>1. g \in [(1 .. num) \X S -> S]
    BY <1>5
  <2> HIDE DEF g
  <2>2. QED
    BY <1>4, <1>6, <2>1, Recursion
<1>8. h \in [0 .. num -> S] /\ h[0] = zl /\ \A i \in 1 .. num : h[i] = DeletedPair(h[i - 1], eptr)
  <2>1. h \in [0 .. num -> S] /\ h[0] = zl /\ \A i \in 1 .. num : h[i] = g[<<i, h[i - 1]>>]
    BY <1>7 DEF IsRecursion
  <2>2. \A i \in 1 .. num : i - 1 \in 0 .. num
    BY <1>4
  <2>3. \A i \in 1 .. num : h[i - 1] \in S
    BY <2>1, <2>2
  <2>4. QED
    BY <2>1, <2>3
<1> HIDE DEF g
<1>9. h = [i \in 0 .. num |-> IF i = 0 THEN zl ELSE DeletedPair(h[i - 1], eptr)]
  <2>1. \A i \in 0 .. num : i # 0 => i \in 1 .. num
    BY <1>4
  <2>2. \A i \in 0 .. num : h[i] = IF i = 0 THEN zl ELSE DeletedPair(h[i - 1], eptr)
    BY <1>8, <2>1
  <2>3. h = [i \in 0 .. num |-> h[i]]
    BY <1>8
  <2>4. QED
    BY <2>2, <2>3
<1>10. after = [i \in 0 .. num |-> IF i = 0 THEN zl ELSE DeletedPair(after[i - 1], eptr)]
  BY <1>9
<1> HIDE DEF after
<1>11. Shrinks(after, zl, eptr, num)
  BY <1>10 DEF Shrinks
<1>12. RemoveBelow(zl, eptr, below).deleted = num /\ RemoveBelow(zl, eptr, below).zl = after[num]
  BY <1>2
<1>13. \E f : RemoveBelow(zl, eptr, below).zl = f[num] /\ Shrinks(f, zl, eptr, num)
  BY <1>11, <1>12
<1>14. QED
  BY <1>4, <1>12, <1>13 DEF num

\* The removal of a range leaves pairs.
LEMMA RemoveBelowIs ==
  ASSUME NEW zl, GoodZiplist(zl), Paired(zl), NEW eptr \in MemberPtrs(zl) \cup {NULL}, NEW below
  PROVE  GoodZiplist(RemoveBelow(zl, eptr, below).zl) /\ Paired(RemoveBelow(zl, eptr, below).zl)
<1>1. CASE eptr = NULL
  <2>1. RemoveBelow(zl, eptr, below).zl = zl
    BY <1>1 DEF RemoveBelow
  <2>2. QED
    BY <2>1
<1>2. CASE eptr # NULL
  <2>1. PICK num \in Nat : \E after : RemoveBelow(zl, eptr, below).zl = after[num] /\ Shrinks(after, zl, eptr, num)
    BY <1>2, RemovalUnfolds
  <2>2. PICK after : RemoveBelow(zl, eptr, below).zl = after[num] /\ Shrinks(after, zl, eptr, num)
    BY <2>1
  <2>3. PICK k \in 1 .. Len(zl.entries) : k % 2 = 1 /\ eptr = Offset(zl, k)
    BY <1>2, MemberPtrsAre
  <2> DEFINE Kept(z) == GoodZiplist(z) /\ Paired(z) /\ k \in 1 .. Len(z.entries) + 1 /\ Offset(z, k) = eptr
  <2>4. Kept(zl)
    <3>1. Len(zl.entries) \in Nat
      BY EndsAre
    <3>2. k \in 1 .. Len(zl.entries) + 1
      BY <3>1
    <3>3. QED
      BY <2>3, <3>2
  <2>5. ASSUME NEW z, Kept(z)
        PROVE  Kept(DeletedPair(z, eptr))
    BY <2>3, <2>5, DeletedPairIs
  <2>6. \A z : Kept(z) => GoodZiplist(z) /\ Paired(z)
    OBVIOUS
  <2> HIDE DEF Kept
  <2> DEFINE Wrong == {i \in Nat : i <= num /\ ~Kept(after[i])}
  <2>7. Wrong = {}
    <3>1. SUFFICES ASSUME Wrong # {}
                   PROVE  FALSE
      OBVIOUS
    <3>2. PICK i \in Wrong : \A j \in Wrong : i <= j
      BY <3>1, LeastNatural
    <3>3. i \in 0 .. num
      BY <2>1, <3>2
    <3>4. i # 0
      BY <2>2, <2>4, <3>2, <3>3 DEF Shrinks
    <3>5. i - 1 \in Nat /\ i - 1 <= num /\ ~(i <= i - 1)
      BY <2>1, <3>2, <3>4
    <3>6. Kept(after[i - 1])
      BY <3>2, <3>5
    <3>7. after[i] = DeletedPair(after[i - 1], eptr)
      BY <2>2, <3>3, <3>4 DEF Shrinks
    <3>8. Kept(after[i])
      BY <2>5, <3>6, <3>7
    <3>9. QED
      BY <3>2, <3>8
  <2>8. Kept(after[num])
    BY <2>1, <2>7
  <2>9. QED
    BY <2>2, <2>6, <2>8
<1>3. QED
  BY <1>1, <1>2

----------------------------------------------------------------------------
\* zsetConvert

ScoreMap == [Objs -> Int \cup {NULL}]

NodesOf(scores) == {o \in Objs : scores[o] # NULL}

LEMMA PrecedesOrders ==
  ASSUME NEW scores \in ScoreMap
  PROVE  /\ \A o, p \in NodesOf(scores) : o = p \/ Precedes(scores, o, p) \/ Precedes(scores, p, o)
         /\ \A o, p, q \in NodesOf(scores) : Precedes(scores, o, p) /\ Precedes(scores, p, q) => Precedes(scores, o, q)
<1>1. Objs \subseteq Int
  BY ZSetAssumption, FS_CardinalityType
<1>2. \A o \in NodesOf(scores) : scores[o] \in Int /\ o \in Int
  BY <1>1 DEF ScoreMap, NodesOf
<1>3. QED
  BY <1>2 DEF Precedes

LEMMA LastNodeIs ==
  ASSUME NEW scores \in ScoreMap, NEW left \in SUBSET NodesOf(scores), left # {}
  PROVE  /\ LastNode(scores, left) \in left
         /\ \A p \in left \ {LastNode(scores, left)} : Precedes(scores, p, LastNode(scores, left))
<1> DEFINE Final(L, o) == o \in L /\ \A p \in L \ {o} : Precedes(scores, p, o)
           Wrong == {n \in Nat : \E L \in SUBSET NodesOf(scores) :
                                   L # {} /\ IsFiniteSet(L) /\ Cardinality(L) = n /\ \A o : ~Final(L, o)}
<1>1. Wrong = {}
  <2>1. SUFFICES ASSUME Wrong # {}
                 PROVE  FALSE
    OBVIOUS
  <2>2. PICK n \in Wrong : \A m \in Wrong : n <= m
    BY <2>1, LeastNatural
  <2>3. PICK L \in SUBSET NodesOf(scores) : L # {} /\ IsFiniteSet(L) /\ Cardinality(L) = n /\ \A o : ~Final(L, o)
    BY <2>2
  <2>4. PICK x \in L : TRUE
    BY <2>3
  <2> DEFINE M == L \ {x}
  <2>5. IsFiniteSet(M) /\ Cardinality(M) = n - 1 /\ n \in Nat /\ Cardinality(M) \in Nat
    BY <2>2, <2>3, <2>4, FS_RemoveElement, FS_CardinalityType
  <2>6. M # {}
    <3>1. ~Final(L, x)
      BY <2>3
    <3>2. QED
      BY <2>4, <3>1
  <2>7. n - 1 \notin Wrong
    BY <2>2, <2>5
  <2>8. PICK o : Final(M, o)
    BY <2>5, <2>6, <2>7
  <2>9. o \in L /\ o # x /\ o \in NodesOf(scores) /\ x \in NodesOf(scores) /\ \A p \in L : p # o /\ p # x => Precedes(scores, p, o)
    BY <2>4, <2>8
  <2>10. CASE Precedes(scores, x, o)
    <3>1. \A p \in L \ {o} : p = x \/ (p # o /\ p # x)
      OBVIOUS
    <3>2. \A p \in L \ {o} : Precedes(scores, p, o)
      BY <2>9, <2>10, <3>1
    <3>3. Final(L, o)
      BY <2>9, <3>2
    <3>4. QED
      BY <2>3, <3>3
  <2>11. CASE Precedes(scores, o, x)
    <3>0. \A p \in L : p # o /\ p # x => Precedes(scores, p, o) /\ p \in NodesOf(scores)
      BY <2>9
    <3>1. \A p \in L : p # x => Precedes(scores, p, x)
      <4>1. \A p \in L : p # o /\ p # x => Precedes(scores, p, x)
        BY <2>9, <2>11, <3>0, PrecedesOrders
      <4>2. QED
        BY <2>11, <4>1
    <3>2. Final(L, x)
      BY <2>4, <3>1
    <3>3. QED
      BY <2>3, <3>2
  <2>12. QED
    BY <2>9, <2>10, <2>11, PrecedesOrders
<1>2. IsFiniteSet(left)
  <2>1. left \subseteq Objs
    BY DEF NodesOf
  <2>2. QED
    BY <2>1, ZSetAssumption, FS_Subset
<1>3. Cardinality(left) \in Nat /\ Cardinality(left) \notin Wrong
  BY <1>1, <1>2, FS_CardinalityType
<1>4. \E o : Final(left, o)
  BY <1>2, <1>3
<1>5. QED
  BY <1>4 DEF LastNode

\* A function that is built element by element of a finite set.
SetBuilds(N, V, a, c, g) ==
  \E f \in [SUBSET N -> V] : \A s \in SUBSET N : f[s] = IF s = {} THEN a ELSE g[<<c[s], f[s \ {c[s]}]>>]

LEMMA SetRecursion ==
  ASSUME NEW N, IsFiniteSet(N), NEW V, NEW a \in V,
         NEW c, \A s \in SUBSET N : s # {} => c[s] \in s, NEW g \in [N \X V -> V]
  PROVE  SetBuilds(N, V, a, c, g)
<1> DEFINE S == [SUBSET N -> V]
           Step(F) == [s \in SUBSET N |-> IF s = {} THEN a ELSE g[<<c[s], F[s \ {c[s]}]>>]]
           m == Cardinality(N)
           start == [s \in SUBSET N |-> a]
           r == [x \in (1 .. m) \X S |-> Step(x[2])]
<1>1. m \in Nat /\ \A s \in SUBSET N : IsFiniteSet(s) /\ Cardinality(s) \in Nat /\ Cardinality(s) <= m
  BY FS_CardinalityType, FS_Subset
<1>2. start \in S
  OBVIOUS
<1>3. ASSUME NEW F \in S
      PROVE  Step(F) \in S
  <2>1. \A s \in SUBSET N : s # {} => g[<<c[s], F[s \ {c[s]}]>>] \in V
    <3>1. SUFFICES ASSUME NEW s \in SUBSET N, s # {}
                   PROVE  g[<<c[s], F[s \ {c[s]}]>>] \in V
      OBVIOUS
    <3>2. c[s] \in N /\ s \ {c[s]} \in SUBSET N
      BY <3>1
    <3>3. F[s \ {c[s]}] \in V
      BY <3>2
    <3>4. QED
      BY <3>2, <3>3
  <2>2. QED
    BY <2>1
<1>4. r \in [(1 .. m) \X S -> S]
  <2> HIDE DEF Step, S, m
  <2>1. QED
    BY <1>3
<1> HIDE DEF start, r, m
<1>5. PICK h : IsRecursion(h, S, start, m, r)
  <2> HIDE DEF S
  <2>1. QED
    BY <1>1, <1>2, <1>4, Recursion
<1>6. h \in [0 .. m -> S] /\ h[0] = start /\ \A i \in 1 .. m : h[i] = r[<<i, h[i - 1]>>]
  BY <1>5 DEF IsRecursion
<1>7. ASSUME NEW i \in 1 .. m
      PROVE  h[i] = Step(h[i - 1])
  <2>1. i - 1 \in 0 .. m
    BY <1>1
  <2>2. h[i - 1] \in S
    BY <1>6, <2>1
  <2>3. <<i, h[i - 1]>> \in (1 .. m) \X S
    BY <2>2
  <2> HIDE DEF S, Step
  <2>4. r[<<i, h[i - 1]>>] = Step(h[i - 1])
    BY <2>3 DEF r
  <2>5. QED
    BY <1>6, <2>4
<1> DEFINE f == [s \in SUBSET N |-> h[Cardinality(s)][s]]
<1>8. f \in S
  <2>1. SUFFICES ASSUME NEW s \in SUBSET N
                 PROVE  h[Cardinality(s)][s] \in V
    OBVIOUS
  <2>2. Cardinality(s) \in 0 .. m
    BY <1>1
  <2>3. h[Cardinality(s)] \in S
    BY <1>6, <2>2
  <2>4. QED
    BY <2>3
<1>9. ASSUME NEW s \in SUBSET N
      PROVE  f[s] = IF s = {} THEN a ELSE g[<<c[s], f[s \ {c[s]}]>>]
  <2>1. f[s] = h[Cardinality(s)][s]
    OBVIOUS
  <2>2. CASE s = {}
    <3>1. Cardinality(s) = 0
      BY <2>2, FS_EmptySet
    <3>2. h[0][s] = a
      BY <1>6 DEF start
    <3>3. QED
      BY <2>1, <2>2, <3>1, <3>2
  <2>3. CASE s # {}
    <3> DEFINE w == s \ {c[s]}
               n == Cardinality(s)
    <3>1. c[s] \in s /\ w \in SUBSET N
      BY <2>3
    <3>2. Cardinality(w) = n - 1 /\ n \in Nat /\ n <= m /\ Cardinality(w) \in Nat
      BY <1>1, <3>1, FS_RemoveElement
    <3>3. n \in 1 .. m
      BY <1>1, <3>2
    <3> HIDE DEF w, n, f
    <3>4. h[n] = Step(h[n - 1])
      BY <1>7, <3>3
    <3>5. h[n][s] = g[<<c[s], h[n - 1][w]>>]
      BY <2>3, <3>4 DEF w
    <3>6. f[w] = h[n - 1][w]
      BY <3>1, <3>2 DEF f
    <3>7. f[s] = g[<<c[s], f[w]>>]
      BY <2>1, <3>5, <3>6 DEF n
    <3>8. QED
      BY <2>3, <3>7 DEF w
  <2>4. QED
    BY <2>2, <2>3
<1> HIDE DEF f
<1>10. QED
  BY <1>8, <1>9 DEF SetBuilds

\* What the loop of zsetConvert makes of the nodes s, f being what it makes of fewer.
FilledWith(f, scores, s) ==
  IF s = {} THEN ZiplistNew
  ELSE ZzlInsertAt(f[s \ {LastNode(scores, s)}], NULL, LastNode(scores, s), scores[LastNode(scores, s)])

Filled(f, scores) == \A s \in SUBSET NodesOf(scores) : f[s] = FilledWith(f, scores, s)

LEMMA AsZiplistUnfolds ==
  ASSUME NEW scores \in ScoreMap
  PROVE  /\ IsFiniteSet(NodesOf(scores))
         /\ \E f : AsZiplist(scores) = f[NodesOf(scores)] /\ Filled(f, scores)
<1> DEFINE N == NodesOf(scores)
           iter == CHOOSE f : f = [s \in SUBSET N |-> FilledWith(f, scores, s)]
           V == {z \in Ziplist : GoodZiplist(z) /\ Paired(z)}
           c == [s \in SUBSET N |-> LastNode(scores, s)]
           g == [x \in N \X V |-> ZzlInsertAt(x[2], NULL, x[1], scores[x[1]])]
<1>1. IsFiniteSet(N)
  <2>1. N \subseteq Objs
    BY DEF NodesOf
  <2>2. QED
    BY <2>1, ZSetAssumption, FS_Subset
<1>2. AsZiplist(scores) = iter[N]
  BY DEF AsZiplist, MapThenFoldSet, FilledWith, NodesOf
<1>3. \A s \in SUBSET N : s # {} => c[s] \in s
  BY LastNodeIs
<1>4. ZiplistNew \in V
  <2>1. GoodZiplist(ZiplistNew) /\ ZiplistNew.entries = <<>> /\ ZiplistNew \in Ziplist
    BY NewZiplistIs, EndsAre
  <2>2. Len(ZiplistNew.entries) = 2 * 0
    <3>1. Len(<<>>) = 0
      OBVIOUS
    <3>2. QED
      BY <2>1, <3>1
  <2>3. Paired(ZiplistNew)
    BY <2>2 DEF Paired
  <2>4. QED
    BY <2>1, <2>3
<1>5. g \in [N \X V -> V]
  <2>1. SUFFICES ASSUME NEW o \in N, NEW z \in V
                 PROVE  ZzlInsertAt(z, NULL, o, scores[o]) \in V
    OBVIOUS
  <2>2. o \in Objs /\ scores[o] \in Int
    BY DEF NodesOf, ScoreMap
  <2>3. NULL \in MemberPtrs(z) \cup {NULL} /\ GoodZiplist(z) /\ Paired(z)
    OBVIOUS
  <2> DEFINE r == ZzlInsertAt(z, NULL, o, scores[o])
  <2>4. GoodZiplist(r) /\ Paired(r)
    BY <2>2, <2>3, ZzlInsertAtIs
  <2> HIDE DEF r
  <2>5. r \in V
    BY <2>4, EndsAre
  <2>6. QED
    BY <2>5 DEF r
<1> HIDE DEF V
<1>6. PICK f \in [SUBSET N -> V] : \A s \in SUBSET N : f[s] = IF s = {} THEN ZiplistNew ELSE g[<<c[s], f[s \ {c[s]}]>>]
  <2> HIDE DEF N, c, g
  <2>1. SetBuilds(N, V, ZiplistNew, c, g)
    BY <1>1, <1>3, <1>4, <1>5, SetRecursion
  <2>2. QED
    BY <2>1 DEF SetBuilds
<1>7. f = [s \in SUBSET N |-> FilledWith(f, scores, s)]
  <2>1. ASSUME NEW s \in SUBSET N
        PROVE  f[s] = FilledWith(f, scores, s)
    <3>1. CASE s = {}
      BY <1>6, <3>1 DEF FilledWith
    <3>2. CASE s # {}
      <4> DEFINE o == LastNode(scores, s)
      <4>1. c[s] = o /\ o \in N /\ s \ {o} \in SUBSET N
        BY <1>3, <3>2
      <4>2. f[s \ {o}] \in V
        BY <1>6, <4>1
      <4>3. f[s] = g[<<o, f[s \ {o}]>>]
        BY <1>6, <3>2, <4>1
      <4> HIDE DEF o, N
      <4>4. g[<<o, f[s \ {o}]>>] = ZzlInsertAt(f[s \ {o}], NULL, o, scores[o])
        BY <4>1, <4>2
      <4>5. QED
        BY <3>2, <4>3, <4>4 DEF FilledWith, o
    <3>3. QED
      BY <3>1, <3>2
  <2>2. f = [s \in SUBSET N |-> f[s]]
    BY <1>6
  <2> HIDE DEF N
  <2>3. QED
    BY <2>1, <2>2
<1>8. iter = [s \in SUBSET N |-> FilledWith(iter, scores, s)]
  BY <1>7
<1> HIDE DEF iter
<1>9. Filled(iter, scores)
  BY <1>8 DEF Filled
<1>10. QED
  BY <1>1, <1>2, <1>9

LEMMA AsZiplistIs ==
  ASSUME NEW scores \in ScoreMap
  PROVE  GoodZiplist(AsZiplist(scores)) /\ Paired(AsZiplist(scores))
<1> DEFINE N == NodesOf(scores)
<1>1. PICK f : AsZiplist(scores) = f[N] /\ Filled(f, scores)
  BY AsZiplistUnfolds
<1>2. IsFiniteSet(N)
  BY AsZiplistUnfolds
<1> DEFINE Wrong == {n \in Nat : \E s \in SUBSET N : IsFiniteSet(s) /\ Cardinality(s) = n /\ ~(GoodZiplist(f[s]) /\ Paired(f[s]))}
<1>3. Wrong = {}
  <2>1. SUFFICES ASSUME Wrong # {}
                 PROVE  FALSE
    OBVIOUS
  <2>2. PICK n \in Wrong : \A m \in Wrong : n <= m
    BY <2>1, LeastNatural
  <2>3. PICK s \in SUBSET N : IsFiniteSet(s) /\ Cardinality(s) = n /\ ~(GoodZiplist(f[s]) /\ Paired(f[s]))
    BY <2>2
  <2>4. f[s] = FilledWith(f, scores, s)
    BY <1>1 DEF Filled
  <2>5. CASE s = {}
    <3>1. GoodZiplist(ZiplistNew) /\ ZiplistNew.entries = <<>>
      BY NewZiplistIs
    <3>2. Len(<<>>) = 2 * 0
      OBVIOUS
    <3>3. Paired(ZiplistNew)
      BY <3>1, <3>2 DEF Paired
    <3>4. QED
      BY <2>3, <2>4, <2>5, <3>1, <3>3 DEF FilledWith
  <2>6. CASE s # {}
    <3> DEFINE o == LastNode(scores, s)
               w == s \ {o}
    <3>1. o \in s /\ w \in SUBSET N
      BY <2>6, LastNodeIs
    <3>2. IsFiniteSet(w) /\ Cardinality(w) = n - 1 /\ n \in Nat /\ Cardinality(w) \in Nat
      BY <2>2, <2>3, <3>1, FS_RemoveElement, FS_CardinalityType
    <3>3. n - 1 \notin Wrong
      BY <2>2, <3>2
    <3>4. GoodZiplist(f[w]) /\ Paired(f[w])
      BY <3>1, <3>2, <3>3
    <3>5. o \in Objs /\ scores[o] \in Int /\ NULL \in MemberPtrs(f[w]) \cup {NULL}
      BY <3>1 DEF NodesOf, ScoreMap
    <3>6. f[s] = ZzlInsertAt(f[w], NULL, o, scores[o])
      BY <2>4, <2>6 DEF FilledWith
    <3> HIDE DEF o, w
    <3>7. QED
      BY <2>3, <3>4, <3>5, <3>6, ZzlInsertAtIs
  <2>7. QED
    BY <2>5, <2>6
<1>4. Cardinality(N) \in Nat
  BY <1>2, FS_CardinalityType
<1>5. QED
  BY <1>1, <1>2, <1>3, <1>4

\* The places of the pairs of one member, from place k on.
PlacesOf(zl, k, o) == {j \in k .. Len(zl.entries) : j % 2 = 1 /\ MemberAt(zl, Offset(zl, j)) = o}

\* The pairs from place k on as a map: of two pairs of a member the first counts.
Gathered(zl, k) ==
  [o \in Objs |-> IF PlacesOf(zl, k, o) = {} THEN NULL ELSE ScoreAt(zl, Offset(zl, Min(PlacesOf(zl, k, o))))]

NoScores == [o \in Objs |-> NULL]

GatherStep(f, zl, p) ==
  IF p = NULL THEN NoScores ELSE [f[ZzlNext(zl, p)] EXCEPT ![MemberAt(zl, p)] = ScoreAt(zl, p)]

\* One pair more.
LEMMA GatheredSteps ==
  ASSUME NEW zl, GoodZiplist(zl), Paired(zl), NEW k \in Nat, k % 2 = 1
  PROVE  /\ k > Len(zl.entries) => Gathered(zl, k) = NoScores
         /\ k <= Len(zl.entries) =>
              Gathered(zl, k) = [Gathered(zl, k + 2) EXCEPT ![MemberAt(zl, Offset(zl, k))] = ScoreAt(zl, Offset(zl, k))]
<1> DEFINE n == Len(zl.entries)
           x == MemberAt(zl, Offset(zl, k))
           s == ScoreAt(zl, Offset(zl, k))
           F == Gathered(zl, k + 2)
<1>1. n \in Nat /\ k \in Int
  BY EndsAre
<1>2. ASSUME k > n
      PROVE  Gathered(zl, k) = NoScores
  <2>1. \A o : PlacesOf(zl, k, o) = {}
    BY <1>1, <1>2 DEF PlacesOf
  <2>2. QED
    BY <2>1 DEF Gathered, NoScores
<1>3. ASSUME k <= n
      PROVE  Gathered(zl, k) = [F EXCEPT ![x] = s]
  <2>1. \A j \in k .. n : j % 2 = 1 => j = k \/ j \in k + 2 .. n
    <3>1. SUFFICES ASSUME NEW j \in k .. n, j % 2 = 1
                   PROVE  j = k \/ j \in k + 2 .. n
      OBVIOUS
    <3>2. j \in Nat
      BY <1>1, <3>1
    <3>3. PICK i \in Nat : k = 2 * i + 1
      BY OddIs
    <3>4. PICK h \in Nat : j = 2 * h + 1
      BY <3>1, <3>2, OddIs
    <3>5. QED
      BY <1>1, <3>1, <3>3, <3>4
  <2>2. k \in k .. n /\ \A j \in k + 2 .. n : j \in k .. n /\ j \in Int /\ k <= j
    BY <1>1, <1>3
  <2>3. PlacesOf(zl, k, x) = {k} \cup PlacesOf(zl, k + 2, x)
    BY <2>1, <2>2 DEF PlacesOf
  <2>4. \A o : o # x => PlacesOf(zl, k, o) = PlacesOf(zl, k + 2, o)
    BY <2>1, <2>2 DEF PlacesOf
  <2>5. Min(PlacesOf(zl, k, x)) = k
    <3> DEFINE P == PlacesOf(zl, k, x)
    <3>1. k \in P /\ \A j \in P : j \in Int /\ k <= j
      BY <1>1, <2>2, <2>3 DEF PlacesOf
    <3> HIDE DEF P
    <3>2. Min(P) \in P /\ \A j \in P : Min(P) <= j
      BY <3>1 DEF Min
    <3> DEFINE h == Min(P)
    <3>3. h \in Int /\ k <= h /\ h <= k
      BY <3>1, <3>2
    <3> HIDE DEF h
    <3>4. h = k
      BY <1>1, <3>3
    <3>5. QED
      BY <3>4 DEF P, h
  <2>6. PlacesOf(zl, k, x) # {}
    BY <2>3
  <2>7. F = [o \in Objs |-> F[o]] /\ \A o \in Objs : o # x => Gathered(zl, k)[o] = F[o]
    BY <2>4 DEF Gathered
  <2>8. x \in Objs => Gathered(zl, k)[x] = s
    BY <2>5, <2>6 DEF Gathered
  <2>9. Gathered(zl, k) = [o \in Objs |-> Gathered(zl, k)[o]]
    BY DEF Gathered
  <2> HIDE DEF F, x, s
  <2>10. \A o \in Objs : Gathered(zl, k)[o] = IF o = x THEN s ELSE F[o]
    BY <2>7, <2>8
  <2>11. [F EXCEPT ![x] = s] = [o \in Objs |-> IF o = x THEN s ELSE F[o]]
    BY <2>7
  <2>12. QED
    BY <2>9, <2>10, <2>11
<1>4. QED
  BY <1>2, <1>3

\* The conversion gathers the pairs.
LEMMA AsSkiplistIs ==
  ASSUME NEW zl, GoodZiplist(zl), Paired(zl)
  PROVE  AsSkiplist(zl) = Gathered(zl, 1)
<1> DEFINE n == Len(zl.entries)
           D == MemberPtrs(zl) \cup {NULL}
           walk == CHOOSE f : f = [p \in D |-> GatherStep(f, zl, p)]
           w == [p \in D |-> IF p = NULL THEN NoScores ELSE Gathered(zl, PosOf(zl, p))]
<1>1. n \in Nat /\ zl \in Ziplist
  BY EndsAre
<1>2. /\ \A p \in MemberPtrs(zl) : \E k \in 1 .. n : k % 2 = 1 /\ p = Offset(zl, k)
      /\ \A k \in 1 .. n : k % 2 = 1 => Offset(zl, k) \in MemberPtrs(zl)
      /\ NULL \notin MemberPtrs(zl)
  BY MemberPtrsAre
<1>3. ASSUME NEW k \in 1 .. n, k % 2 = 1
      PROVE  LET p == Offset(zl, k)
             IN /\ p \in D /\ p # NULL /\ PosOf(zl, p) = k
                /\ ZzlNext(zl, p) = IF k + 2 <= n THEN Offset(zl, k + 2) ELSE NULL
                /\ Gathered(zl, k) = [Gathered(zl, k + 2) EXCEPT ![MemberAt(zl, p)] = ScoreAt(zl, p)]
                /\ (k + 2) % 2 = 1 /\ (k + 2 > n => Gathered(zl, k + 2) = NoScores) /\ (k + 2 <= n => k + 2 \in 1 .. n)
  <2> DEFINE p == Offset(zl, k)
  <2>1. k \in 1 .. n + 1 /\ k \in Nat /\ k + 2 \in Nat /\ k <= n /\ (k + 2 <= n => k + 2 \in 1 .. n) /\ n \in Nat
    BY <1>1
  <2>2. (k + 2) % 2 = 1
    BY <1>3, PairIs
  <2>3. p \in D /\ p # NULL /\ PosOf(zl, p) = k
    BY <1>2, <1>3, <2>1, AtOffset
  <2>4. ZzlNext(zl, p) = IF k + 2 <= n THEN Offset(zl, k + 2) ELSE NULL
    <3> DEFINE forward == TRUE
               x == IF forward THEN ZzlNext(zl, p) ELSE ZzlPrev(zl, p)
    <3>1. x = IF forward THEN (IF k + 2 <= n THEN Offset(zl, k + 2) ELSE NULL)
              ELSE IF k = 1 THEN NULL ELSE Offset(zl, k - 2)
      BY <1>3, ZzlStepIs
    <3>2. QED
      BY <3>1
  <2>5. Gathered(zl, k) = [Gathered(zl, k + 2) EXCEPT ![MemberAt(zl, p)] = ScoreAt(zl, p)]
    BY <1>3, <2>1, GatheredSteps
  <2>6. k + 2 > n => Gathered(zl, k + 2) = NoScores
    BY <2>1, <2>2, GatheredSteps
  <2> HIDE DEF D, n, p
  <2>7. QED
    BY <2>1, <2>2, <2>3, <2>4, <2>5, <2>6 DEF p
<1>4. ASSUME NEW p \in D
      PROVE  w[p] = GatherStep(w, zl, p)
  <2>1. CASE p = NULL
    BY <2>1 DEF GatherStep
  <2>2. CASE p # NULL
    <3>1. PICK k \in 1 .. n : k % 2 = 1 /\ p = Offset(zl, k)
      BY <1>2, <2>2
    <3>2. /\ PosOf(zl, p) = k
          /\ ZzlNext(zl, p) = IF k + 2 <= n THEN Offset(zl, k + 2) ELSE NULL
          /\ Gathered(zl, k) = [Gathered(zl, k + 2) EXCEPT ![MemberAt(zl, p)] = ScoreAt(zl, p)]
          /\ (k + 2) % 2 = 1 /\ (k + 2 > n => Gathered(zl, k + 2) = NoScores) /\ (k + 2 <= n => k + 2 \in 1 .. n)
      BY <1>3, <3>1
    <3>3. w[ZzlNext(zl, p)] = Gathered(zl, k + 2)
      <4>1. CASE k + 2 <= n
        <5>1. Offset(zl, k + 2) \in D /\ Offset(zl, k + 2) # NULL /\ PosOf(zl, Offset(zl, k + 2)) = k + 2
          BY <1>3, <3>2, <4>1
        <5>2. w[Offset(zl, k + 2)] = Gathered(zl, k + 2)
          BY <5>1
        <5> HIDE DEF w
        <5>3. QED
          BY <3>2, <4>1, <5>2
      <4>2. CASE ~(k + 2 <= n)
        <5>1. k + 2 > n
          BY <1>1, <4>2
        <5>2. w[NULL] = NoScores
          OBVIOUS
        <5> HIDE DEF w, n
        <5>3. QED
          BY <3>2, <4>2, <5>1, <5>2
      <4>3. QED
        BY <4>1, <4>2
    <3>4. w[p] = Gathered(zl, k)
      BY <2>2, <3>2
    <3> HIDE DEF w, D, n
    <3>5. QED
      BY <2>2, <3>2, <3>3, <3>4 DEF GatherStep
  <2>3. QED
    BY <2>1, <2>2
<1>5. w = [p \in D |-> GatherStep(w, zl, p)]
  <2>1. w = [p \in D |-> w[p]]
    OBVIOUS
  <2> HIDE DEF w, D
  <2>2. QED
    BY <1>4, <2>1
<1>6. walk = [p \in D |-> GatherStep(walk, zl, p)]
  <2> HIDE DEF w, D
  <2>1. QED
    BY <1>5
<1>7. AsSkiplist(zl) = walk[ZiplistIndex(zl, 0)]
  BY DEF AsSkiplist, GatherStep, NoScores
<1> HIDE DEF walk, w
<1>8. \A p \in D : walk[p] = GatherStep(walk, zl, p)
  BY <1>6
<1>9. walk[NULL] = NoScores
  BY <1>8 DEF GatherStep
\* How many entries lie ahead of the pair at k.
<1> DEFINE Wrong == {d \in Nat : \E k \in 1 .. n : k % 2 = 1 /\ d = n - k /\ walk[Offset(zl, k)] # Gathered(zl, k)}
<1>10. Wrong = {}
  <2>1. SUFFICES ASSUME Wrong # {}
                 PROVE  FALSE
    OBVIOUS
  <2>2. PICK d \in Wrong : \A c \in Wrong : d <= c
    BY <2>1, LeastNatural
  <2>3. PICK k \in 1 .. n : k % 2 = 1 /\ d = n - k /\ walk[Offset(zl, k)] # Gathered(zl, k)
    BY <2>2
  <2> DEFINE p == Offset(zl, k)
  <2>4. /\ p \in D /\ p # NULL
        /\ ZzlNext(zl, p) = IF k + 2 <= n THEN Offset(zl, k + 2) ELSE NULL
        /\ Gathered(zl, k) = [Gathered(zl, k + 2) EXCEPT ![MemberAt(zl, p)] = ScoreAt(zl, p)]
        /\ (k + 2) % 2 = 1 /\ (k + 2 > n => Gathered(zl, k + 2) = NoScores) /\ (k + 2 <= n => k + 2 \in 1 .. n)
    BY <1>3, <2>3
  <2>5. walk[p] = [walk[ZzlNext(zl, p)] EXCEPT ![MemberAt(zl, p)] = ScoreAt(zl, p)]
    BY <1>8, <2>4 DEF GatherStep
  <2>6. walk[ZzlNext(zl, p)] # Gathered(zl, k + 2)
    BY <2>3, <2>4, <2>5
  <2>7. k + 2 <= n
    <3>1. SUFFICES ASSUME ~(k + 2 <= n)
                   PROVE  FALSE
      OBVIOUS
    <3>2. k + 2 > n
      BY <1>1, <3>1
    <3> HIDE DEF n, p
    <3>3. QED
      BY <1>9, <2>4, <2>6, <3>1, <3>2
  <2>8. walk[Offset(zl, k + 2)] # Gathered(zl, k + 2)
    BY <2>4, <2>6, <2>7
  <2>9. n - (k + 2) \in Nat /\ ~(d <= n - (k + 2))
    BY <1>1, <2>3, <2>7
  <2>10. n - (k + 2) \in Wrong
    BY <2>4, <2>7, <2>8, <2>9
  <2>11. QED
    BY <2>2, <2>9, <2>10
<1>11. CASE n = 0
  <2>1. ZiplistIndex(zl, 0) = NULL
    BY <1>11, IndexIs
  <2>2. 1 \in Nat /\ 1 % 2 = 1 /\ 1 > n
    BY <1>11
  <2>3. Gathered(zl, 1) = NoScores
    BY <2>2, GatheredSteps
  <2>4. QED
    BY <1>7, <1>9, <2>1, <2>3
<1>12. CASE n # 0
  <2>1. ZiplistIndex(zl, 0) = Offset(zl, 1)
    <3>1. 0 < n /\ 0 + 1 = 1
      BY <1>1, <1>12
    <3>2. ZiplistIndex(zl, 0) = Offset(zl, 0 + 1)
      BY <3>1, IndexIs
    <3>3. QED
      BY <3>1, <3>2
  <2>2. 1 \in 1 .. n /\ 1 % 2 = 1 /\ n - 1 \in Nat
    BY <1>1, <1>12
  <2>3. n - 1 \notin Wrong
    BY <1>10
  <2>4. walk[Offset(zl, 1)] = Gathered(zl, 1)
    BY <2>2, <2>3
  <2>5. QED
    BY <1>7, <2>1, <2>4
<1>13. QED
  BY <1>11, <1>12

\* The scores of the pairs.
LEMMA AsSkiplistScores ==
  ASSUME NEW zl, GoodZiplist(zl), Paired(zl)
  PROVE  AsSkiplist(zl) \in ScoreMap
<1> DEFINE n == Len(zl.entries)
<1>1. n \in Nat /\ zl \in Ziplist
  BY EndsAre
<1>2. \A k \in 1 .. n : zl.entries[k] \in Entry
  BY <1>1, EntriesAre
<1>3. ASSUME NEW k \in 1 .. n, k % 2 = 1
      PROVE  ScoreAt(zl, Offset(zl, k)) \in Int
  <2>1. k + 1 \in 1 .. n /\ k \in 1 .. n + 1 /\ k + 1 \in 1 .. n + 1 /\ k < n /\ k + 1 <= n
    BY <1>1, <1>3, PairIs
  <2>2. ZiplistNext(zl, Offset(zl, k)) = Offset(zl, k + 1)
    BY <2>1, NextIs
  <2>3. ZiplistGet(zl, Offset(zl, k + 1)) = zl.entries[k + 1].val
    BY <2>1, GetIs
  <2>4. zl.entries[k + 1].val.n \in Int
    BY <1>2, <2>1 DEF Entry, Value
  <2>5. QED
    BY <2>2, <2>3, <2>4 DEF ScoreAt
<1>4. ASSUME NEW o \in Objs, PlacesOf(zl, 1, o) # {}
      PROVE  ScoreAt(zl, Offset(zl, Min(PlacesOf(zl, 1, o)))) \in Int
  <2> DEFINE P == PlacesOf(zl, 1, o)
  <2>1. P \in SUBSET Nat /\ \A k \in P : k \in 1 .. n /\ k % 2 = 1
    BY <1>1 DEF PlacesOf
  <2> HIDE DEF P, n
  <2>2. P # {}
    BY <1>4 DEF P
  <2>3. \E x \in P : \A y \in P : x <= y
    BY <2>1, <2>2, LeastNatural
  <2>4. Min(P) \in P
    BY <2>3 DEF Min
  <2>5. ScoreAt(zl, Offset(zl, Min(P))) \in Int
    BY <1>3, <2>1, <2>4
  <2>6. QED
    BY <2>5 DEF P
<1>5. AsSkiplist(zl) = Gathered(zl, 1)
  BY AsSkiplistIs
<1>6. QED
  BY <1>4, <1>5 DEF Gathered, ScoreMap

\* zzlDeleteRangeByRank: ranks that exist.
LEMMA RankRangeIs ==
  ASSUME NEW zl, GoodZiplist(zl), Paired(zl), NEW start \in Int, NEW end \in Int, start >= 1, start <= end, end <= ZzlLength(zl)
  PROVE  LET r == ZiplistDeleteRange(zl, 2 * (start - 1), 2 * (end - start + 1))
         IN GoodZiplist(r) /\ Paired(r)
<1> DEFINE n == Len(zl.entries)
           k == 2 * start - 1
           num == 2 * (end - start + 1)
           r == DeleteFrom(zl, Offset(zl, k), num)
<1>1. PICK m \in Nat : n = 2 * m
  BY DEF Paired
<1>2. end <= m
  <2>1. ZiplistLen(zl) = n
    BY LengthAgrees
  <2>2. n \div 2 = m
    BY <1>1
  <2>3. QED
    BY <2>1, <2>2 DEF ZzlLength
<1>3. 2 * (start - 1) \in Int /\ 2 * (start - 1) >= 0 /\ 2 * (start - 1) < n /\ 2 * (start - 1) + 1 = k
  BY <1>1, <1>2
<1>4. ZiplistIndex(zl, 2 * (start - 1)) = Offset(zl, k)
  <2> DEFINE i == 2 * (start - 1)
  <2> HIDE DEF i, k
  <2>1. i \in Int /\ i >= 0 /\ i < n /\ i + 1 = k
    BY <1>3 DEF i
  <2>2. ZiplistIndex(zl, i) = Offset(zl, i + 1)
    BY <2>1, IndexIs
  <2>3. QED
    BY <2>1, <2>2 DEF i
<1>5. k \in 1 .. n + 1 /\ num \in Nat
  BY <1>1, <1>2
<1>6. Offset(zl, k) # NULL
  BY <1>5, AtOffset
<1>7. ZiplistDeleteRange(zl, 2 * (start - 1), 2 * (end - start + 1)) = r
  BY <1>4, <1>6 DEF ZiplistDeleteRange
<1>8. NextAfter(zl, k, num) = k + num
  BY <1>1, <1>2 DEF NextAfter
<1> HIDE DEF k, num
<1>9. DeletedIn(r, zl, k, num)
  BY <1>5, DeleteAt
<1> HIDE DEF r
<1>10. GoodZiplist(r) /\ Len(r.entries) = n + k - (k + num)
  BY <1>8, <1>9 DEF DeletedIn
<1>11. Paired(r)
  <2>1. m - (end - start + 1) \in Nat /\ n + k - (k + num) = 2 * (m - (end - start + 1))
    BY <1>1, <1>2, <1>5 DEF k, num
  <2>2. QED
    BY <1>10, <2>1 DEF Paired
<1>12. QED
  BY <1>7, <1>10, <1>11 DEF r, num

GoodZSet ==
  type = "zset" =>
    /\ encoding \in {"ziplist", "skiplist"}
    /\ encoding = "ziplist" => GoodZiplist(ptr) /\ Paired(ptr)
    /\ encoding = "skiplist" => ptr \in ScoreMap

\* The step is one that loses no bytes.
LEMMA NotRuined ==
  ASSUME Intact', encoding' = "ziplist"
  PROVE  ~Ruined(ptr')
BY DEF Intact, Ruined

LEMMA StoreKeeps ==
  ASSUME Intact', NEW zl, Store(zl), (GoodZiplist(zl) /\ Paired(zl)) \/ Ruined(zl)
  PROVE  GoodZSet'
<1>1. type' = type /\ encoding' = "ziplist" /\ ptr' = zl
  BY DEF Store, Become
<1>2. GoodZiplist(zl) /\ Paired(zl)
  BY <1>1, NotRuined
<1>3. QED
  BY <1>1, <1>2 DEF GoodZSet

LEMMA ZSetKeeps ==
  ASSUME ZSetNext, GoodZSet, Intact'
  PROVE  GoodZSet'
<1>1. /\ type = "zset" /\ encoding \in {"ziplist", "skiplist"}
      /\ encoding = "ziplist" => GoodZiplist(ptr) /\ Paired(ptr)
      /\ encoding = "skiplist" => ptr \in ScoreMap
  BY DEF ZSetNext, GoodZSet
<1>2. ASSUME NEW o \in Objs, NEW s \in Scores, ZzlInsert(o, s)
      PROVE  GoodZSet'
  <2>1. encoding = "ziplist" /\ Store(Inserted(ptr, o, s)) /\ s \in Int
    BY <1>2, ZSetAssumption DEF ZzlInsert
  <2>2. (GoodZiplist(Inserted(ptr, o, s)) /\ Paired(Inserted(ptr, o, s))) \/ Ruined(Inserted(ptr, o, s))
    BY <1>1, <2>1, PairInsertedIs
  <2>3. QED
    BY <2>1, <2>2, StoreKeeps
<1>3. ASSUME NEW o \in Objs, ZzlDelete(o)
      PROVE  GoodZSet'
  <2> DEFINE hits == {p \in MemberPtrs(ptr) : ZiplistCompare(ptr, p, MemberOf[o])}
             eptr == ZzlFind(ptr, o)
  <2>1. encoding = "ziplist" /\ eptr # NULL /\ Store(DeletedPair(ptr, eptr))
    BY <1>3 DEF ZzlDelete
  <2>2. eptr \in MemberPtrs(ptr)
    <3>1. hits \in SUBSET MemberPtrs(ptr) /\ TRUE \in BOOLEAN /\ ZiplistIndex(ptr, 0) \in MemberPtrs(ptr) \cup {NULL}
      BY <1>1, <2>1, EndPtrsAre
    <3>2. eptr = Seek(ptr, ZiplistIndex(ptr, 0), TRUE, hits)
      BY DEF ZzlFind
    <3> HIDE DEF hits, eptr
    <3>3. eptr \in hits \cup {NULL}
      BY <1>1, <2>1, <3>1, <3>2, SeekIs
    <3>4. QED
      BY <2>1, <3>1, <3>3
  <2> HIDE DEF eptr
  <2>3. PICK k \in 1 .. Len(ptr.entries) : k % 2 = 1 /\ eptr = Offset(ptr, k)
    BY <1>1, <2>1, <2>2, MemberPtrsAre
  <2>4. k \in 1 .. Len(ptr.entries) + 1
    BY <1>1, <2>1, EndsAre
  <2>5. GoodZiplist(DeletedPair(ptr, eptr)) /\ Paired(DeletedPair(ptr, eptr))
    BY <1>1, <2>1, <2>3, <2>4, DeletedPairIs
  <2>6. QED
    BY <2>1, <2>5, StoreKeeps
<1>4. ASSUME NEW r, ZzlDeleteRangeByScore(r)
      PROVE  GoodZSet'
  <2> DEFINE eptr == ZzlFirstInRange(ptr, r)
             x == Seek(ptr, ZiplistIndex(ptr, 0), TRUE, AboveMin(ptr, r))
  <2>1. encoding = "ziplist" /\ Store(RemoveBelow(ptr, eptr, BelowMax(ptr, r)).zl)
    BY <1>4 DEF ZzlDeleteRangeByScore
  <2>2. eptr \in MemberPtrs(ptr) \cup {NULL}
    <3>1. AboveMin(ptr, r) \in SUBSET MemberPtrs(ptr) /\ TRUE \in BOOLEAN /\ ZiplistIndex(ptr, 0) \in MemberPtrs(ptr) \cup {NULL}
      BY <1>1, <2>1, EndPtrsAre DEF AboveMin
    <3>2. x \in AboveMin(ptr, r) \cup {NULL}
      BY <1>1, <2>1, <3>1, SeekIs
    <3>3. eptr \in {x, NULL}
      BY DEF ZzlFirstInRange
    <3>4. QED
      BY <3>1, <3>2, <3>3
  <2> HIDE DEF eptr
  <2>3. GoodZiplist(RemoveBelow(ptr, eptr, BelowMax(ptr, r)).zl) /\ Paired(RemoveBelow(ptr, eptr, BelowMax(ptr, r)).zl)
    BY <1>1, <2>1, <2>2, RemoveBelowIs
  <2>4. QED
    BY <2>1, <2>3, StoreKeeps
<1>5. ASSUME NEW r, ZzlDeleteRangeByLex(r)
      PROVE  GoodZSet'
  <2> DEFINE eptr == ZzlFirstInLexRange(ptr, r)
             x == Seek(ptr, ZiplistIndex(ptr, 0), TRUE, LexAboveMin(ptr, r))
  <2>1. encoding = "ziplist" /\ Store(RemoveBelow(ptr, eptr, LexBelowMax(ptr, r)).zl)
    BY <1>5 DEF ZzlDeleteRangeByLex
  <2>2. eptr \in MemberPtrs(ptr) \cup {NULL}
    <3>1. LexAboveMin(ptr, r) \in SUBSET MemberPtrs(ptr) /\ TRUE \in BOOLEAN /\ ZiplistIndex(ptr, 0) \in MemberPtrs(ptr) \cup {NULL}
      BY <1>1, <2>1, EndPtrsAre DEF LexAboveMin
    <3>2. x \in LexAboveMin(ptr, r) \cup {NULL}
      BY <1>1, <2>1, <3>1, SeekIs
    <3>3. eptr \in {x, NULL}
      BY DEF ZzlFirstInLexRange
    <3>4. QED
      BY <3>1, <3>2, <3>3
  <2> HIDE DEF eptr
  <2>3. GoodZiplist(RemoveBelow(ptr, eptr, LexBelowMax(ptr, r)).zl) /\ Paired(RemoveBelow(ptr, eptr, LexBelowMax(ptr, r)).zl)
    BY <1>1, <2>1, <2>2, RemoveBelowIs
  <2>4. QED
    BY <2>1, <2>3, StoreKeeps
<1>6. ASSUME NEW start \in 1 .. Cardinality(Objs), NEW end \in 1 .. Cardinality(Objs), ZzlDeleteRangeByRank(start, end)
      PROVE  GoodZSet'
  <2> DEFINE r == ZiplistDeleteRange(ptr, 2 * (start - 1), 2 * (end - start + 1))
  <2>1. encoding = "ziplist" /\ start <= end /\ end <= ZzlLength(ptr) /\ Store(r)
    BY <1>6 DEF ZzlDeleteRangeByRank
  <2>2. start \in Int /\ end \in Int /\ start >= 1
    BY ZSetAssumption, FS_CardinalityType
  <2> HIDE DEF r
  <2>3. GoodZiplist(r) /\ Paired(r)
    BY <1>1, <2>1, <2>2, RankRangeIs DEF r
  <2>4. QED
    BY <2>1, <2>3, StoreKeeps
<1>7. ASSUME ZsetLength
      PROVE  GoodZSet'
  <2>1. CASE encoding = "ziplist"
    <3>1. encoding' = "ziplist" /\ ptr' = Recounted(ptr) /\ type' = type
      BY <1>7, <2>1 DEF ZsetLength, Become
    <3>2. GoodZiplist(Recounted(ptr)) /\ Recounted(ptr).entries = ptr.entries /\ Paired(ptr)
      BY <1>1, <2>1, RecountedIs
    <3>3. Paired(Recounted(ptr))
      BY <3>2 DEF Paired
    <3>4. QED
      BY <3>1, <3>2, <3>3 DEF GoodZSet
  <2>2. CASE encoding # "ziplist"
    <3>1. encoding' = encoding /\ ptr' = ptr /\ type' = type
      BY <1>7, <2>2 DEF ZsetLength, SameObject
    <3>2. QED
      BY <1>1, <3>1 DEF GoodZSet
  <2>3. QED
    BY <2>1, <2>2
<1>8. ASSUME ZsetConvert
      PROVE  GoodZSet'
  <2>1. CASE encoding = "ziplist"
    <3>1. encoding' = "skiplist" /\ ptr' = AsSkiplist(ptr) /\ type' = type
      BY <1>8, <2>1 DEF ZsetConvert, Become
    <3>2. AsSkiplist(ptr) \in ScoreMap
      BY <1>1, <2>1, AsSkiplistScores
    <3>3. QED
      BY <3>1, <3>2 DEF GoodZSet
  <2>2. CASE encoding # "ziplist"
    <3>1. encoding = "skiplist" /\ encoding' = "ziplist" /\ ptr' = AsZiplist(ptr) /\ type' = type
      BY <1>8, <2>2 DEF ZsetConvert, Become
    <3>2. GoodZiplist(AsZiplist(ptr)) /\ Paired(AsZiplist(ptr))
      BY <1>1, <3>1, AsZiplistIs
    <3>3. QED
      BY <3>1, <3>2 DEF GoodZSet
  <2>3. QED
    BY <2>1, <2>2
<1>9. QED
  BY <1>2, <1>3, <1>4, <1>5, <1>6, <1>7, <1>8 DEF ZSetNext

----------------------------------------------------------------------------
\* The changes of a hash.

\* The search for a field ends at a field.
LEMMA FieldPtrIs ==
  ASSUME NEW zl, GoodZiplist(zl), NEW f, FieldPtr(zl, f) # NULL
  PROVE  \E k \in 1 .. Len(zl.entries) : k % 2 = 1 /\ FieldPtr(zl, f) = Offset(zl, k)
<1> DEFINE n == Len(zl.entries)
           hits == {j \in 1 .. n : (j - 1) % (1 + 1) = 0 /\ zl.entries[j].val = f}
           p == ZiplistFind(zl, Offset(zl, 1), f, 1)
<1>1. n \in Nat /\ Offset(zl, 1) # NULL
  BY EndsAre, AtOffset
<1>2. ZiplistIndex(zl, 0) = IF 0 < n THEN Offset(zl, 0 + 1) ELSE NULL
  BY IndexIs
<1>3. FieldPtr(zl, f) = p
  BY <1>1, <1>2 DEF FieldPtr
<1>4. 1 \in 1 .. n + 1 /\ 1 \in Nat
  BY <1>1
<1>5. /\ hits = {} => p = NULL
      /\ hits # {} => \E j \in hits : p = Offset(zl, j)
  <2>1. FindsFirst(zl, 1, f, 1)
    BY <1>4, FoundIs
  <2>2. QED
    BY <2>1 DEF FindsFirst
<1> HIDE DEF p
<1>6. PICK k \in hits : p = Offset(zl, k)
  BY <1>3, <1>5
<1>7. k \in 1 .. n /\ k % 2 = 1
  BY <1>1, <1>6
<1>8. QED
  BY <1>3, <1>6, <1>7

\* An update takes the value after the field out and puts the new one at its
\* place; a new pair goes to the end.
LEMMA WithFieldIs ==
  ASSUME NEW zl, GoodZiplist(zl), Paired(zl), NEW f \in Value, NEW v \in Value
  PROVE  LET r == WithField(zl, f, v) IN (GoodZiplist(r) /\ Paired(r)) \/ Spoilt(r)
<1> DEFINE n == Len(zl.entries)
           fptr == FieldPtr(zl, f)
           vptr == ZiplistNext(zl, fptr)
           r == WithField(zl, f, v)
<1>1. n \in Nat
  BY EndsAre
<1>2. CASE fptr = NULL
  <2> DEFINE a == ZiplistPush(zl, f, ZIPLIST_TAIL)
             b == ZiplistPush(a, v, ZIPLIST_TAIL)
  <2>1. r = b
    BY <1>2 DEF WithField
  <2>2. GoodZiplist(a) /\ Len(a.entries) = n + 1
    BY AppendIs DEF InsertedIn
  <2> HIDE DEF a
  <2>3. GoodZiplist(b) /\ Len(b.entries) = n + 1 + 1
    BY <2>2, AppendIs DEF InsertedIn
  <2> HIDE DEF b
  <2>4. Paired(b)
    <3>1. PICK m \in Nat : n = 2 * m
      BY DEF Paired
    <3>2. Len(b.entries) = 2 * (m + 1) /\ m + 1 \in Nat
      BY <2>3, <3>1
    <3>3. QED
      BY <3>2 DEF Paired
  <2>5. QED
    BY <2>1, <2>3, <2>4
<1>3. CASE fptr # NULL
  <2>1. PICK k \in 1 .. n : k % 2 = 1 /\ fptr = Offset(zl, k)
    BY <1>3, FieldPtrIs
  <2>2. k + 1 \in 1 .. n /\ k \in 1 .. n + 1
    BY <1>1, <2>1, PairIs
  <2>3. vptr = Offset(zl, k + 1)
    BY <1>1, <2>1, <2>2, NextIs
  <2> DEFINE z == ZiplistDelete(zl, Offset(zl, k + 1))
  <2>4. r = ZiplistInsert(z, Offset(zl, k + 1), v)
    BY <1>3, <2>3 DEF WithField
  <2>5. GoodZiplist(z) /\ Len(z.entries) = n - 1 /\ \A j \in 1 .. k + 1 : Offset(z, j) = Offset(zl, j)
    BY <2>2, DeleteOne
  <2> HIDE DEF z, r
  <2>6. Offset(z, k + 1) = Offset(zl, k + 1) /\ k + 1 \in 1 .. Len(z.entries) + 1
    BY <1>1, <2>2, <2>5
  <2>7. r = ZiplistInsert(z, Offset(z, k + 1), v)
    BY <2>4, <2>6
  <2>8. InsertedIn(r, z, k + 1, v) \/ Spoilt(r)
    BY <2>5, <2>6, <2>7, InsertionIs
  <2>9. InsertedIn(r, z, k + 1, v) => GoodZiplist(r) /\ Len(r.entries) = n
    BY <1>1, <2>5 DEF InsertedIn
  <2>10. QED
    BY <2>8, <2>9 DEF Paired, r
<1>4. QED
  BY <1>2, <1>3

GoodHash ==
  type = "hash" =>
    /\ encoding \in {"ziplist", "ht"}
    /\ encoding = "ziplist" => GoodZiplist(ptr) /\ Paired(ptr)

LEMMA HashKeeps ==
  ASSUME HashNext, GoodHash, Intact'
  PROVE  GoodHash'
<1>1. /\ type = "hash" /\ encoding \in {"ziplist", "ht"}
      /\ encoding = "ziplist" => GoodZiplist(ptr) /\ Paired(ptr)
  BY DEF HashNext, GoodHash
<1>2. ASSUME SameObject
      PROVE  GoodHash'
  BY <1>1, <1>2 DEF SameObject, GoodHash
<1>3. ASSUME NEW x, Become("ht", x)
      PROVE  GoodHash'
  BY <1>3 DEF Become, GoodHash
<1>4. ASSUME NEW zl, Become("ziplist", zl), (GoodZiplist(zl) /\ Paired(zl)) \/ Ruined(zl)
      PROVE  GoodHash'
  <2>1. type' = type /\ encoding' = "ziplist" /\ ptr' = zl
    BY <1>4 DEF Become
  <2>2. GoodZiplist(zl) /\ Paired(zl)
    BY <1>4, <2>1, NotRuined
  <2>3. QED
    BY <2>1, <2>2 DEF GoodHash
<1>5. ASSUME NEW v, HashTypeTryConversion(v)
      PROVE  GoodHash'
  BY <1>2, <1>3, <1>5 DEF HashTypeTryConversion
<1>6. ASSUME NEW zl, GoodZiplist(zl), Paired(zl)
      PROVE  GoodZiplist(Recounted(zl)) /\ Paired(Recounted(zl))
  BY <1>6, RecountedIs DEF Paired
<1>7. ASSUME NEW f \in HashFields, NEW v \in HashValues, HashTypeSet(f, v)
      PROVE  GoodHash'
  <2> DEFINE r == WithField(ptr, f, v)
  <2>1. CASE encoding = "ht"
    BY <1>3, <1>7, <2>1 DEF HashTypeSet
  <2>2. CASE encoding = "ziplist"
    <3>1. Become("ht", PairsAsDict(r)) \/ Become("ziplist", Recounted(r))
      BY <1>7, <2>2 DEF HashTypeSet
    <3>2. f \in Value /\ v \in Value
      BY HashTypeAssumption
    <3>3. (GoodZiplist(r) /\ Paired(r)) \/ Spoilt(r)
      BY <1>1, <2>2, <3>2, WithFieldIs
    <3> HIDE DEF r
    <3>4. (GoodZiplist(Recounted(r)) /\ Paired(Recounted(r))) \/ Ruined(Recounted(r))
      BY <1>6, <3>3, SpoiltIsRuined
    <3>5. QED
      BY <1>3, <1>4, <3>1, <3>4
  <2>3. QED
    BY <1>1, <2>1, <2>2
<1>8. ASSUME NEW f, HashTypeDelete(f)
      PROVE  GoodHash'
  <2> DEFINE fptr == FieldPtr(ptr, f)
  <2>1. CASE encoding = "ht"
    BY <1>3, <1>8, <2>1 DEF HashTypeDelete
  <2>2. CASE encoding = "ziplist" /\ fptr = NULL
    <3>1. Become("ziplist", ptr)
      BY <1>8, <2>2 DEF HashTypeDelete
    <3>2. QED
      BY <1>1, <1>4, <2>2, <3>1
  <2>3. CASE encoding = "ziplist" /\ fptr # NULL
    <3>1. Become("ziplist", DeletedPair(ptr, fptr))
      BY <1>8, <2>3 DEF HashTypeDelete
    <3>2. PICK k \in 1 .. Len(ptr.entries) : k % 2 = 1 /\ fptr = Offset(ptr, k)
      BY <1>1, <2>3, FieldPtrIs
    <3>3. k \in 1 .. Len(ptr.entries) + 1
      BY <1>1, <2>3, EndsAre
    <3>4. GoodZiplist(DeletedPair(ptr, fptr)) /\ Paired(DeletedPair(ptr, fptr))
      BY <1>1, <2>3, <3>2, <3>3, DeletedPairIs
    <3>5. QED
      BY <1>4, <3>1, <3>4
  <2>4. QED
    BY <1>1, <2>1, <2>2, <2>3
<1>9. ASSUME HashTypeLength
      PROVE  GoodHash'
  <2>1. CASE encoding = "ziplist"
    <3>1. Become("ziplist", Recounted(ptr))
      BY <1>9, <2>1 DEF HashTypeLength
    <3>2. QED
      BY <1>1, <1>4, <1>6, <2>1, <3>1
  <2>2. CASE encoding # "ziplist"
    BY <1>2, <1>9, <2>2 DEF HashTypeLength
  <2>3. QED
    BY <2>1, <2>2
<1>10. ASSUME HashTypeInitIterator \/ HashTypeNext \/ ReleaseIterator \/ \E f \in HashFields : HashTypeGetObject(f)
       PROVE  GoodHash'
  BY <1>2, <1>10 DEF HashTypeInitIterator, Iterate, HashTypeNext, ReleaseIterator, HashTypeGetObject
<1>11. QED
  BY <1>5, <1>7, <1>8, <1>9, <1>10 DEF HashNext

----------------------------------------------------------------------------
\* The values of a ziplist as a sequence.

LEMMA SameSequence ==
  ASSUME NEW S, NEW s \in Seq(S), NEW t \in Seq(S), Len(s) = Len(t), \A j \in 1 .. Len(s) : s[j] = t[j]
  PROVE  s = t
OBVIOUS

LEMMA ValuesAre ==
  ASSUME NEW zl, GoodZiplist(zl)
  PROVE  /\ Values(zl) \in Seq(Value) /\ Len(Values(zl)) = Len(zl.entries)
         /\ \A k \in 1 .. Len(zl.entries) : Values(zl)[k] = zl.entries[k].val /\ zl.entries[k].val \in Value
<1>1. zl \in Ziplist /\ Len(zl.entries) \in Nat
  BY EndsAre
<1>2. DOMAIN zl.entries = 1 .. Len(zl.entries) /\ \A k \in 1 .. Len(zl.entries) : zl.entries[k] \in Entry
  BY <1>1, EntriesAre
<1>3. \A k \in 1 .. Len(zl.entries) : zl.entries[k].val \in Value
  BY <1>2 DEF Entry
<1>4. Values(zl) = [k \in 1 .. Len(zl.entries) |-> zl.entries[k].val]
  BY <1>2 DEF Values
<1> DEFINE n == Len(zl.entries)
           e(k) == zl.entries[k].val
<1>5. n \in Nat /\ (\A k \in 1 .. n : e(k) \in Value) /\ Values(zl) = [k \in 1 .. n |-> e(k)]
  BY <1>1, <1>3, <1>4
<1> HIDE DEF n, e
<1>6. Values(zl) \in Seq(Value) /\ Len(Values(zl)) = n /\ \A k \in 1 .. n : Values(zl)[k] = e(k)
  BY <1>5
<1>7. QED
  BY <1>3, <1>6 DEF n, e

\* A sequence without what is at position k.
Without(s, k) == SubSeq(s, 1, k - 1) \o SubSeq(s, k + 1, Len(s))

LEMMA WithoutIs ==
  ASSUME NEW S, NEW s \in Seq(S), NEW k \in 1 .. Len(s)
  PROVE  /\ Without(s, k) \in Seq(S) /\ Len(Without(s, k)) = Len(s) - 1
         /\ \A j \in 1 .. Len(s) - 1 : Without(s, k)[j] = IF j < k THEN s[j] ELSE s[j + 1]
<1> DEFINE t == SubSeq(s, 1, k - 1) \o SubSeq(s, k + 1, Len(s))
           m == Len(s) + k - (k + 1)
<1>1. Len(s) \in Nat /\ k \in 1 .. Len(s) + 1 /\ k + 1 \in k .. Len(s) + 1
  OBVIOUS
<1>2. m = Len(s) - 1
  BY <1>1
<1>3. t \in Seq(S) /\ Len(t) = m /\ \A j \in 1 .. m : t[j] = IF j < k THEN s[j] ELSE s[j + (k + 1) - k]
  BY <1>1, CutIs
<1>4. \A j \in Nat : j + (k + 1) - k = j + 1
  BY <1>1
<1> HIDE DEF t, m
<1>5. \A j \in 1 .. Len(s) - 1 : t[j] = IF j < k THEN s[j] ELSE s[j + 1]
  BY <1>2, <1>3, <1>4
<1>6. QED
  BY <1>2, <1>3, <1>5 DEF Without, t

LEMMA InsertedValues ==
  ASSUME NEW zl, GoodZiplist(zl), NEW k \in 1 .. Len(zl.entries) + 1, NEW v \in Value, NEW r, InsertedIn(r, zl, k, v)
  PROVE  Values(r) = With(Values(zl), k, v)
<1> DEFINE n == Len(zl.entries)
           s == Values(zl)
           t == Values(r)
           w == With(s, k, v)
<1>1. n \in Nat /\ s \in Seq(Value) /\ Len(s) = n /\ \A j \in 1 .. n : s[j] = zl.entries[j].val
  BY EndsAre, ValuesAre
<1>2. GoodZiplist(r) /\ Len(r.entries) = n + 1
  BY DEF InsertedIn
<1>3. \A j \in 1 .. n + 1 : r.entries[j].val = IF j < k THEN zl.entries[j].val ELSE IF j = k THEN v ELSE zl.entries[j - 1].val
  BY DEF InsertedIn
<1>4. t \in Seq(Value) /\ Len(t) = n + 1 /\ \A j \in 1 .. n + 1 : t[j] = r.entries[j].val
  BY <1>2, ValuesAre
<1>5. w \in Seq(Value) /\ Len(w) = n + 1 /\ \A j \in 1 .. n + 1 : w[j] = IF j < k THEN s[j] ELSE IF j = k THEN v ELSE s[j - 1]
  <2> HIDE DEF s
  <2>1. k \in 1 .. Len(s) + 1
    BY <1>1
  <2>2. IsWith(w, Value, s, k, v)
    BY <1>1, <2>1, WithIs
  <2>3. Len(s) = n
    BY <1>1
  <2> HIDE DEF w
  <2>4. QED
    BY <2>2, <2>3 DEF IsWith
<1> HIDE DEF w, s, t
<1>6. \A j \in 1 .. n + 1 : t[j] = w[j]
  <2> TAKE j \in 1 .. n + 1
  <2>1. CASE j < k
    BY <1>1, <1>3, <1>4, <1>5, <2>1
  <2>2. CASE j = k
    <3>1. ~(j < k) /\ j \in Int
      BY <2>2
    <3>2. r.entries[j].val = v /\ w[j] = v /\ t[j] = r.entries[j].val
      BY <1>3, <1>4, <1>5, <2>2, <3>1
    <3>3. QED
      BY <3>2
  <2>3. CASE j > k
    <3>1. j - 1 \in 1 .. n
      BY <1>1, <2>3
    <3>2. QED
      BY <1>1, <1>3, <1>4, <1>5, <2>3, <3>1
  <2>4. QED
    BY <1>1, <2>1, <2>2, <2>3
<1> HIDE DEF n
<1>7. t = w
  BY <1>4, <1>5, <1>6, SameSequence
<1>8. QED
  BY <1>7 DEF t, w, s

LEMMA DeletedValues ==
  ASSUME NEW zl, GoodZiplist(zl), NEW k \in 1 .. Len(zl.entries)
  PROVE  Values(ZiplistDelete(zl, Offset(zl, k))) = Without(Values(zl), k)
<1> DEFINE n == Len(zl.entries)
           s == Values(zl)
           r == ZiplistDelete(zl, Offset(zl, k))
           t == Values(r)
           w == Without(s, k)
<1>1. n \in Nat /\ s \in Seq(Value) /\ Len(s) = n /\ \A j \in 1 .. n : s[j] = zl.entries[j].val
  BY EndsAre, ValuesAre
<1>2. /\ GoodZiplist(r) /\ Len(r.entries) = n - 1
      /\ \A j \in 1 .. n - 1 : r.entries[j].val = IF j < k THEN zl.entries[j].val ELSE zl.entries[j + 1].val
  BY DeleteOne
<1> HIDE DEF r
<1>3. t \in Seq(Value) /\ Len(t) = n - 1 /\ \A j \in 1 .. n - 1 : t[j] = r.entries[j].val
  BY <1>2, ValuesAre
<1> HIDE DEF s
<1>4. w \in Seq(Value) /\ Len(w) = n - 1 /\ \A j \in 1 .. n - 1 : w[j] = IF j < k THEN s[j] ELSE s[j + 1]
  <2>1. k \in 1 .. Len(s)
    BY <1>1
  <2>2. QED
    BY <1>1, <2>1, WithoutIs
<1> HIDE DEF w, t
<1>5. \A j \in 1 .. n - 1 : t[j] = w[j]
  <2> TAKE j \in 1 .. n - 1
  <2>1. j \in 1 .. n /\ j + 1 \in 1 .. n
    BY <1>1
  <2>2. QED
    BY <1>1, <1>2, <1>3, <1>4, <2>1
<1> HIDE DEF n
<1>6. t = w
  BY <1>3, <1>4, <1>5, SameSequence
<1>7. QED
  BY <1>6 DEF t, w, s, r

LEMMA RecountedValues ==
  ASSUME NEW zl, GoodZiplist(zl)
  PROVE  /\ GoodZiplist(Recounted(zl)) /\ Recounted(zl).entries = zl.entries /\ Values(Recounted(zl)) = Values(zl)
         /\ \A k \in 1 .. Len(zl.entries) + 1 : Offset(Recounted(zl), k) = Offset(zl, k)
<1> DEFINE r == Recounted(zl)
           n == Len(zl.entries)
<1>1. GoodZiplist(r) /\ r.entries = zl.entries
  BY RecountedIs
<1>2. zl \in Ziplist /\ r \in Ziplist /\ n \in Nat
  BY <1>1, EndsAre
<1> HIDE DEF r
<1>3. n <= Len(zl.entries) /\ n <= Len(r.entries) /\ \A j \in 1 .. n : RawLength(r.entries[j]) = RawLength(zl.entries[j])
  BY <1>1, <1>2
<1>4. \A j \in 1 .. n + 1 : Offset(r, j) = Offset(zl, j)
  BY <1>2, <1>3, SameOffsets
<1>5. QED
  BY <1>1, <1>4 DEF Values, r

----------------------------------------------------------------------------
\* The changes of a list.

GoodListObject ==
  /\ encoding \in {"ziplist", "linkedlist"}
  /\ encoding = "ziplist" => GoodZiplist(ptr)
  /\ encoding = "linkedlist" => ptr \in Seq(Value)

LEMMA ListItemsAre ==
  ASSUME GoodListObject
  PROVE  /\ ListItems \in Seq(Value) /\ Len(ListItems) \in Nat
         /\ encoding = "ziplist" => GoodZiplist(ptr) /\ ListItems = Values(ptr) /\ Len(ListItems) = Len(ptr.entries)
         /\ encoding # "ziplist" => encoding = "linkedlist" /\ ListItems = ptr
<1>1. CASE encoding = "ziplist"
  <2>1. GoodZiplist(ptr) /\ ListItems = Values(ptr)
    BY <1>1 DEF GoodListObject, ListItems
  <2>2. Values(ptr) \in Seq(Value) /\ Len(Values(ptr)) = Len(ptr.entries) /\ Len(ptr.entries) \in Nat
    BY <2>1, ValuesAre, EndsAre
  <2>3. QED
    BY <1>1, <2>1, <2>2
<1>2. CASE encoding # "ziplist"
  <2>1. encoding = "linkedlist" /\ ListItems = ptr /\ ptr \in Seq(Value)
    BY <1>2 DEF GoodListObject, ListItems
  <2>2. QED
    BY <1>2, <2>1
<1>3. QED
  BY <1>1, <1>2

LEMMA BecomesZiplist ==
  ASSUME NEW zl, Become("ziplist", zl), GoodZiplist(zl)
  PROVE  GoodListObject' /\ ListItems' = Values(zl) /\ type' = type
<1>1. encoding' = "ziplist" /\ ptr' = zl /\ type' = type
  BY DEF Become
<1>2. GoodListObject'
  BY <1>1 DEF GoodListObject
<1>3. ListItems' = Values(zl)
  BY <1>1 DEF ListItems
<1>4. QED
  BY <1>1, <1>2, <1>3

LEMMA BecomesLinkedList ==
  ASSUME NEW s \in Seq(Value), Become("linkedlist", s)
  PROVE  GoodListObject' /\ ListItems' = s /\ type' = type
BY DEF Become, GoodListObject, ListItems

LEMMA PushedIs ==
  ASSUME NEW s \in Seq(Value), NEW v \in Value, NEW where \in {REDIS_HEAD, REDIS_TAIL}
  PROVE  Pushed(s, v, where) = With(s, IF where = REDIS_HEAD THEN 1 ELSE Len(s) + 1, v)
<1> DEFINE k == IF where = REDIS_HEAD THEN 1 ELSE Len(s) + 1
           t == Pushed(s, v, where)
           w == With(s, k, v)
<1>1. k \in 1 .. Len(s) + 1 /\ Len(s) \in Nat
  OBVIOUS
<1>0. s \in Seq(Value) /\ v \in Value
  OBVIOUS
<1> HIDE DEF k
<1>2. w \in Seq(Value) /\ Len(w) = Len(s) + 1 /\ \A j \in 1 .. Len(s) + 1 : w[j] = IF j < k THEN s[j] ELSE IF j = k THEN v ELSE s[j - 1]
  <2>1. IsWith(w, Value, s, k, v)
    BY <1>0, <1>1, WithIs
  <2> HIDE DEF w
  <2>2. QED
    BY <2>1 DEF IsWith
<1> HIDE DEF w
<1>3. t \in Seq(Value) /\ Len(t) = Len(s) + 1
  BY DEF Pushed
<1>4. CASE where = REDIS_HEAD
  <2>1. t = <<v>> \o s /\ k = 1
    BY <1>4 DEF Pushed, k
  <2> HIDE DEF t
  <2>2. \A j \in 1 .. Len(s) + 1 : t[j] = IF j = 1 THEN v ELSE s[j - 1]
    BY <2>1
  <2>3. \A j \in 1 .. Len(s) + 1 : t[j] = w[j]
    BY <1>2, <2>1, <2>2
  <2>4. QED
    BY <1>2, <1>3, <2>3, SameSequence DEF t, w, k
<1>5. CASE where # REDIS_HEAD
  <2>1. t = Append(s, v) /\ k = Len(s) + 1
    BY <1>5 DEF Pushed, k
  <2> HIDE DEF t
  <2>2. \A j \in 1 .. Len(s) + 1 : t[j] = IF j = Len(s) + 1 THEN v ELSE s[j]
    BY <2>1
  <2>3. \A j \in 1 .. Len(s) + 1 : t[j] = w[j]
    BY <1>2, <2>1, <2>2
  <2>4. QED
    BY <1>2, <1>3, <2>3, SameSequence DEF t, w, k
<1>6. QED
  BY <1>4, <1>5

LEMMA ListPushIs ==
  ASSUME NEW v \in Value, NEW where \in {REDIS_HEAD, REDIS_TAIL}, GoodListObject, ListTypePush(v, where), Intact'
  PROVE  /\ GoodListObject' /\ type' = type /\ it' = NULL /\ ret' = <<"push", v, where>>
         /\ ListItems' = With(ListItems, IF where = REDIS_HEAD THEN 1 ELSE Len(ListItems) + 1, v)
<1> DEFINE n == Len(ListItems)
           k == IF where = REDIS_HEAD THEN 1 ELSE n + 1
<1>1. it' = NULL /\ ret' = <<"push", v, where>>
  BY DEF ListTypePush, NoIterator
<1>2. ListItems \in Seq(Value) /\ n \in Nat /\ k \in 1 .. n + 1
  BY ListItemsAre
<1>3. Pushed(ListItems, v, where) = With(ListItems, k, v) /\ With(ListItems, k, v) \in Seq(Value)
  <2>1. IsWith(With(ListItems, k, v), Value, ListItems, k, v)
    BY <1>2, WithIs
  <2>2. Pushed(ListItems, v, where) = With(ListItems, k, v)
    BY <1>2, PushedIs
  <2>3. QED
    BY <2>1, <2>2 DEF IsWith
<1> HIDE DEF n, k
<1>4. CASE Become("linkedlist", Pushed(ListItems, v, where))
  <2>1. Become("linkedlist", With(ListItems, k, v))
    BY <1>3, <1>4
  <2>2. GoodListObject' /\ ListItems' = With(ListItems, k, v) /\ type' = type
    BY <1>3, <2>1, BecomesLinkedList
  <2>3. QED
    BY <1>1, <2>2 DEF k, n
<1>5. CASE encoding = "ziplist" /\ Become("ziplist", ZiplistPush(Recounted(ptr), v, IF where = REDIS_HEAD THEN ZIPLIST_HEAD ELSE ZIPLIST_TAIL))
  <2> DEFINE z == Recounted(ptr)
             r == ZiplistPush(z, v, IF where = REDIS_HEAD THEN ZIPLIST_HEAD ELSE ZIPLIST_TAIL)
  <2>1. GoodZiplist(ptr) /\ ListItems = Values(ptr) /\ n = Len(ptr.entries)
    BY <1>5, ListItemsAre DEF n
  <2>2. GoodZiplist(z) /\ z.entries = ptr.entries /\ Values(z) = ListItems
    BY <2>1, RecountedValues
  <2> HIDE DEF z
  <2>3. InsertedIn(r, z, k, v) \/ Spoilt(r)
    <3>1. CASE where = REDIS_HEAD
      <4>1. r = ZiplistPush(z, v, ZIPLIST_HEAD) /\ k = 1
        BY <3>1 DEF k
      <4>2. QED
        BY <2>2, <4>1, PrependIs
    <3>2. CASE where # REDIS_HEAD
      <4>1. r = ZiplistPush(z, v, ZIPLIST_TAIL) /\ k = Len(z.entries) + 1
        BY <2>1, <2>2, <3>2 DEF k
      <4>2. QED
        BY <2>2, <4>1, AppendIs
    <3>3. QED
      BY <3>1, <3>2
  <2>4. Become("ziplist", r)
    BY <1>5 DEF z
  <2> HIDE DEF r
  <2>5. ptr' = r /\ ~Ruined(r)
    BY <2>4, NotRuined DEF Become
  <2>6. InsertedIn(r, z, k, v)
    BY <2>3, <2>5, SpoiltIsRuined
  <2>7. GoodZiplist(r) /\ Values(r) = With(ListItems, k, v)
    <3>1. k \in 1 .. Len(z.entries) + 1
      BY <1>2, <2>1, <2>2
    <3>2. QED
      BY <2>2, <2>6, <3>1, InsertedValues DEF InsertedIn
  <2>8. QED
    BY <1>1, <2>4, <2>7, BecomesZiplist DEF k, n
<1>6. QED
  BY <1>4, <1>5 DEF ListTypePush, ListItems

LEMMA ListPopIs ==
  ASSUME NEW where \in {REDIS_HEAD, REDIS_TAIL}, GoodListObject, ListTypePop(where)
  PROVE  LET k == IF where = REDIS_HEAD THEN 1 ELSE Len(ListItems)
         IN /\ GoodListObject' /\ type' = type /\ it' = NULL
            /\ ListItems = <<>> => ListItems' = ListItems /\ ret' = <<"pop", where, NULL>>
            /\ ListItems # <<>> => ListItems' = Without(ListItems, k) /\ ret' = <<"pop", where, ListItems[k]>>
<1> DEFINE n == Len(ListItems)
           k == IF where = REDIS_HEAD THEN 1 ELSE n
<1>1. it' = NULL
  BY DEF ListTypePop, NoIterator
<1>2. ListItems \in Seq(Value) /\ n \in Nat /\ (ListItems = <<>> <=> n = 0) /\ (ListItems # <<>> => k \in 1 .. n)
  <2>1. ListItems \in Seq(Value)
    BY ListItemsAre
  <2> HIDE DEF k
  <2>2. n \in Nat /\ (ListItems = <<>> <=> n = 0)
    BY <2>1
  <2>3. n \in Nat /\ n # 0 => k \in 1 .. n
    BY DEF k
  <2>4. QED
    BY <2>1, <2>2, <2>3
<1>3. CASE encoding = "linkedlist"
  <2>1. ListItems = ptr
    BY <1>3 DEF ListItems
  <2>2. Become("linkedlist", IF ptr = <<>> THEN ptr ELSE RemoveAt(ptr, k)) /\ ret' = <<"pop", where, IF ptr = <<>> THEN NULL ELSE ptr[k]>>
    BY <1>3, <2>1 DEF ListTypePop
  <2>3. RemoveAt(ListItems, k) = Without(ListItems, k)
    BY DEF RemoveAt, Without
  <2>4. ListItems # <<>> => Without(ListItems, k) \in Seq(Value)
    BY <1>2, WithoutIs
  <2> HIDE DEF k, n
  <2>5. CASE ListItems = <<>>
    <3>1. Become("linkedlist", ListItems) /\ ret' = <<"pop", where, NULL>>
      BY <2>1, <2>2, <2>5
    <3>2. GoodListObject' /\ ListItems' = ListItems /\ type' = type
      BY <1>2, <3>1, BecomesLinkedList
    <3>3. QED
      BY <1>1, <2>5, <3>1, <3>2
  <2>6. CASE ListItems # <<>>
    <3>1. Become("linkedlist", Without(ListItems, k)) /\ ret' = <<"pop", where, ListItems[k]>>
      BY <2>1, <2>2, <2>3, <2>6
    <3>2. GoodListObject' /\ ListItems' = Without(ListItems, k) /\ type' = type
      BY <2>4, <2>6, <3>1, BecomesLinkedList
    <3>3. QED
      BY <1>1, <2>6, <3>1, <3>2 DEF k, n
  <2>7. QED
    BY <2>5, <2>6 DEF k, n
<1>4. CASE encoding # "linkedlist"
  <2> DEFINE index == IF where = REDIS_HEAD THEN 0 ELSE -1
             p == ZiplistIndex(ptr, index)
  <2>1. encoding = "ziplist" /\ GoodZiplist(ptr) /\ ListItems = Values(ptr) /\ n = Len(ptr.entries)
    BY <1>4, ListItemsAre DEF GoodListObject
  <2>2. Become("ziplist", IF p = NULL THEN ptr ELSE ZiplistDelete(ptr, p)) /\ ret' = <<"pop", where, ZiplistGet(ptr, p)>>
    BY <1>4 DEF ListTypePop
  <2>3. p = IF n = 0 THEN NULL ELSE Offset(ptr, k)
    <3>1. CASE where = REDIS_HEAD
      <4>1. ZiplistIndex(ptr, 0) = IF 0 < n THEN Offset(ptr, 0 + 1) ELSE NULL
        BY <2>1, IndexIs
      <4>2. QED
        BY <1>2, <3>1, <4>1
    <3>2. CASE where # REDIS_HEAD
      <4> DEFINE x == -1
      <4>1. x \in Int /\ x + 1 = 0
        OBVIOUS
      <4> HIDE DEF x
      <4>2. ~(x >= 0) /\ -x = 1 /\ n + 1 + x = n
        BY <1>2, <4>1
      <4>3. ZiplistIndex(ptr, x) = IF x >= 0 THEN (IF x < n THEN Offset(ptr, x + 1) ELSE NULL)
                                   ELSE IF -x <= n THEN Offset(ptr, n + 1 + x) ELSE NULL
        BY <2>1, <4>1, IndexIs
      <4>4. ZiplistIndex(ptr, x) = IF n = 0 THEN NULL ELSE Offset(ptr, n)
        BY <1>2, <4>2, <4>3
      <4>5. QED
        BY <3>2, <4>4 DEF x
    <3>3. QED
      BY <3>1, <3>2
  <2> HIDE DEF p
  <2>4. CASE ListItems = <<>>
    <3>1. p = NULL /\ Become("ziplist", ptr) /\ ret' = <<"pop", where, NULL>>
      BY <1>2, <2>1, <2>2, <2>3, <2>4, GetIs
    <3>2. QED
      BY <1>1, <2>1, <2>4, <3>1, BecomesZiplist
  <2>5. CASE ListItems # <<>>
    <3>1. k \in 1 .. n /\ n # 0 /\ k \in 1 .. n + 1
      BY <1>2, <2>5
    <3> HIDE DEF k
    <3>2. p = Offset(ptr, k) /\ p # NULL
      BY <2>1, <2>3, <3>1, AtOffset
    <3>3. Become("ziplist", ZiplistDelete(ptr, Offset(ptr, k))) /\ ret' = <<"pop", where, ptr.entries[k].val>>
      BY <2>1, <2>2, <3>1, <3>2, GetIs
    <3>4. ptr.entries[k].val = ListItems[k]
      BY <2>1, <3>1, ValuesAre
    <3>5. GoodZiplist(ZiplistDelete(ptr, Offset(ptr, k))) /\ Values(ZiplistDelete(ptr, Offset(ptr, k))) = Without(ListItems, k)
      BY <2>1, <3>1, DeleteOne, DeletedValues
    <3>6. GoodListObject' /\ ListItems' = Without(ListItems, k) /\ type' = type
      BY <3>3, <3>5, BecomesZiplist
    <3>7. ret' = <<"pop", where, ListItems[k]>>
      BY <3>3, <3>4
    <3>8. QED
      BY <1>1, <2>5, <3>6, <3>7 DEF k, n
  <2>6. QED
    BY <2>4, <2>5
<1>5. QED
  BY <1>3, <1>4

LEMMA ListLengthIs ==
  ASSUME GoodListObject, ListTypeLength
  PROVE  /\ GoodListObject' /\ type' = type /\ encoding' = encoding /\ it' = it /\ due' = due
         /\ ListItems' = ListItems /\ ret' = <<"length", Len(ListItems)>>
         /\ encoding = "ziplist" => \A k \in 1 .. Len(ListItems) + 1 : Offset(ptr', k) = Offset(ptr, k)
<1>1. it' = it /\ due' = due
  BY DEF ListTypeLength
<1>2. CASE encoding = "ziplist"
  <2>1. GoodZiplist(ptr) /\ ListItems = Values(ptr) /\ Len(ListItems) = Len(ptr.entries)
    BY <1>2, ListItemsAre
  <2>2. Become("ziplist", Recounted(ptr)) /\ ret' = <<"length", ZiplistLen(ptr)>>
    BY <1>2 DEF ListTypeLength
  <2>3. /\ GoodZiplist(Recounted(ptr)) /\ Values(Recounted(ptr)) = Values(ptr)
        /\ \A k \in 1 .. Len(ptr.entries) + 1 : Offset(Recounted(ptr), k) = Offset(ptr, k)
    BY <2>1, RecountedValues
  <2>4. ZiplistLen(ptr) = Len(ptr.entries)
    BY <2>1, LengthAgrees
  <2>5. GoodListObject' /\ ListItems' = ListItems /\ type' = type
    BY <2>1, <2>2, <2>3, BecomesZiplist
  <2>6. encoding' = "ziplist" /\ ptr' = Recounted(ptr)
    BY <2>2 DEF Become
  <2>7. QED
    BY <1>1, <1>2, <2>1, <2>2, <2>3, <2>4, <2>5, <2>6
<1>3. CASE encoding # "ziplist"
  <2>1. type' = type /\ encoding' = encoding /\ ptr' = ptr /\ ret' = <<"length", Len(ptr)>>
    BY <1>3 DEF ListTypeLength, SameObject
  <2>2. ListItems = ptr /\ ListItems' = ptr /\ GoodListObject'
    BY <1>3, <2>1 DEF ListItems, GoodListObject
  <2>3. QED
    BY <1>1, <1>3, <2>1, <2>2
<1>4. QED
  BY <1>2, <1>3

----------------------------------------------------------------------------
\* Iterations over lists.

\* What is left of a sequence from position i on.
RestOf(items, direction, i) ==
  IF direction = REDIS_TAIL THEN SubSeq(items, i, Len(items)) ELSE Reverse(SubSeq(items, 1, i))

\* The position after i.
Onward(direction, i) == IF direction = REDIS_TAIL THEN i + 1 ELSE i - 1

\* The positions of an iterator: one of an element, or the one behind the last.
Stands(direction, n) == IF direction = REDIS_TAIL THEN 1 .. n + 1 ELSE 0 .. n

\* The pointer to position i.
At(i) == IF encoding = "ziplist" THEN Offset(ptr, i) ELSE i

LEMMA ReverseIs ==
  ASSUME NEW s \in Seq(Value)
  PROVE  /\ Reverse(s) \in Seq(Value) /\ Len(Reverse(s)) = Len(s)
         /\ \A j \in 1 .. Len(s) : Reverse(s)[j] = s[Len(s) - j + 1]
<1> DEFINE n == Len(s)
           r == [i \in 1 .. n |-> s[(n - i) + 1]]
<1>1. n \in Nat /\ \A i \in 1 .. n : (n - i) + 1 \in 1 .. n /\ s[(n - i) + 1] \in Value
  OBVIOUS
<1>2. Reverse(s) = r
  BY DEF Reverse
<1> HIDE DEF n
<1>3. r \in Seq(Value) /\ Len(r) = n /\ \A j \in 1 .. n : r[j] = s[(n - j) + 1]
  BY <1>1
<1> HIDE DEF r
<1>4. QED
  BY <1>2, <1>3 DEF n

LEMMA RestIsSeq ==
  ASSUME NEW items \in Seq(Value), NEW direction \in {REDIS_HEAD, REDIS_TAIL}, NEW i \in Stands(direction, Len(items))
  PROVE  LET r == RestOf(items, direction, i)
             m == IF direction = REDIS_TAIL THEN Len(items) + 1 - i ELSE i
         IN /\ r \in Seq(Value) /\ Len(r) = m /\ m \in Nat
            /\ \A j \in 1 .. m : r[j] = items[IF direction = REDIS_TAIL THEN i + j - 1 ELSE i - j + 1]
<1> DEFINE r == RestOf(items, direction, i)
           n == Len(items)
<1>1. n \in Nat
  OBVIOUS
<1>2. CASE direction = REDIS_TAIL
  <2>1. r = SubSeq(items, i, n) /\ i \in 1 .. n + 1
    BY <1>2 DEF RestOf, Stands
  <2> HIDE DEF r
  <2>2. r \in Seq(Value) /\ Len(r) = n + 1 - i /\ n + 1 - i \in Nat /\ \A j \in 1 .. n + 1 - i : r[j] = items[i + j - 1]
    BY <1>1, <2>1
  <2>3. QED
    BY <1>2, <2>2 DEF r
<1>3. CASE direction # REDIS_TAIL
  <2> DEFINE s == SubSeq(items, 1, i)
  <2>1. r = Reverse(s) /\ i \in 0 .. n
    BY <1>3 DEF RestOf, Stands
  <2>2. s \in Seq(Value) /\ Len(s) = i /\ i \in Nat /\ \A j \in 1 .. i : s[j] = items[j]
    BY <1>1, <2>1
  <2> HIDE DEF s, r
  <2>3. r \in Seq(Value) /\ Len(r) = i /\ \A j \in 1 .. i : r[j] = s[i - j + 1]
    BY <2>1, <2>2, ReverseIs
  <2>4. \A j \in 1 .. i : r[j] = items[i - j + 1]
    <3> TAKE j \in 1 .. i
    <3>1. i - j + 1 \in 1 .. i
      BY <2>2
    <3>2. QED
      BY <2>2, <2>3, <3>1
  <2>5. QED
    BY <1>3, <2>2, <2>3, <2>4 DEF r
<1>4. QED
  BY <1>2, <1>3

LEMMA RestSteps ==
  ASSUME NEW items \in Seq(Value), NEW direction \in {REDIS_HEAD, REDIS_TAIL}, NEW i \in 1 .. Len(items)
  PROVE  LET r == RestOf(items, direction, i)
         IN /\ r # <<>> /\ r[1] = items[i] /\ SubSeq(r, 2, Len(r)) = RestOf(items, direction, Onward(direction, i))
            /\ i \in Stands(direction, Len(items)) /\ Onward(direction, i) \in Stands(direction, Len(items))
<1> DEFINE n == Len(items)
           h == Onward(direction, i)
           r == RestOf(items, direction, i)
           q == RestOf(items, direction, h)
           m == IF direction = REDIS_TAIL THEN n + 1 - i ELSE i
           l == IF direction = REDIS_TAIL THEN n + 1 - h ELSE h
           t == SubSeq(r, 2, Len(r))
<1>1. n \in Nat /\ i \in 1 .. n /\ i \in Int
  OBVIOUS
<1>2. i \in Stands(direction, n) /\ h \in Stands(direction, n) /\ l = m - 1 /\ m >= 1
  BY <1>1 DEF Stands, Onward
<1>3. r \in Seq(Value) /\ Len(r) = m /\ m \in Nat /\ \A j \in 1 .. m : r[j] = items[IF direction = REDIS_TAIL THEN i + j - 1 ELSE i - j + 1]
  BY <1>2, RestIsSeq
<1> HIDE DEF h
<1>4. q \in Seq(Value) /\ Len(q) = l /\ l \in Nat /\ \A j \in 1 .. l : q[j] = items[IF direction = REDIS_TAIL THEN h + j - 1 ELSE h - j + 1]
  BY <1>2, RestIsSeq
<1> HIDE DEF r, q, m, l, n
<1>5. r # <<>> /\ r[1] = items[i]
  <2>1. 1 \in 1 .. m /\ i + 1 - 1 = i /\ i - 1 + 1 = i
    BY <1>1, <1>2, <1>3
  <2>2. r[1] = items[i]
    BY <1>3, <2>1
  <2>3. QED
    BY <1>2, <1>3, <2>2
<1>6. t \in Seq(Value) /\ Len(t) = m - 1 /\ \A j \in 1 .. m - 1 : t[j] = r[j + 1]
  BY <1>2, <1>3
<1> HIDE DEF t
<1>7. \A j \in 1 .. l : t[j] = q[j]
  <2> TAKE j \in 1 .. l
  <2>1. j + 1 \in 1 .. m /\ j \in 1 .. m - 1 /\ j \in Int
    BY <1>2, <1>3, <1>4
  <2>2. t[j] = items[IF direction = REDIS_TAIL THEN i + (j + 1) - 1 ELSE i - (j + 1) + 1]
    BY <1>3, <1>6, <2>1
  <2>3. q[j] = items[IF direction = REDIS_TAIL THEN h + j - 1 ELSE h - j + 1]
    BY <1>4
  <2>4. (direction = REDIS_TAIL => i + (j + 1) - 1 = h + j - 1) /\ (direction # REDIS_TAIL => i - (j + 1) + 1 = h - j + 1)
    BY <1>1, <2>1 DEF h, Onward
  <2>5. QED
    BY <2>2, <2>3, <2>4
<1>8. t = q
  BY <1>2, <1>4, <1>6, <1>7, SameSequence
<1>9. QED
  BY <1>2, <1>5, <1>8 DEF t, r, q, h, n

LEMMA RestEnds ==
  ASSUME NEW items \in Seq(Value), NEW direction \in {REDIS_HEAD, REDIS_TAIL}, NEW i \in Stands(direction, Len(items)), i \notin 1 .. Len(items)
  PROVE  RestOf(items, direction, i) = <<>>
<1> DEFINE r == RestOf(items, direction, i)
           m == IF direction = REDIS_TAIL THEN Len(items) + 1 - i ELSE i
<1>1. r \in Seq(Value) /\ Len(r) = m
  BY RestIsSeq
<1>2. Len(items) \in Nat
  OBVIOUS
<1>3. m = 0
  BY <1>2 DEF Stands
<1> HIDE DEF r, m
<1>4. r = <<>>
  BY <1>1, <1>3
<1>5. QED
  BY <1>4 DEF r

\* The element that the iterator has returned last can leave the list.
LEMMA RestAfterRemoval ==
  ASSUME NEW items \in Seq(Value), NEW direction \in {REDIS_HEAD, REDIS_TAIL}, NEW k \in 1 .. Len(items)
  PROVE  LET i == IF direction = REDIS_TAIL THEN k ELSE k - 1
         IN /\ i \in Stands(direction, Len(items) - 1)
            /\ RestOf(Without(items, k), direction, i) = RestOf(items, direction, Onward(direction, k))
<1> DEFINE n == Len(items)
           i == IF direction = REDIS_TAIL THEN k ELSE k - 1
           h == Onward(direction, k)
           w == Without(items, k)
           r == RestOf(w, direction, i)
           q == RestOf(items, direction, h)
           m == IF direction = REDIS_TAIL THEN n - k ELSE k - 1
<1>1. n \in Nat /\ k \in 1 .. n /\ k \in Int
  OBVIOUS
<1>2. w \in Seq(Value) /\ Len(w) = n - 1 /\ \A j \in 1 .. n - 1 : w[j] = IF j < k THEN items[j] ELSE items[j + 1]
  BY WithoutIs
<1> HIDE DEF w
<1>3. i \in Stands(direction, n - 1) /\ h \in Stands(direction, n) /\ i \in Int /\ h \in Int
  BY <1>1 DEF Stands, Onward
<1>4. /\ m \in Nat /\ (IF direction = REDIS_TAIL THEN n - 1 + 1 - i ELSE i) = m
      /\ (IF direction = REDIS_TAIL THEN n + 1 - h ELSE h) = m
  BY <1>1 DEF Onward
<1> HIDE DEF i
<1>5. r \in Seq(Value) /\ Len(r) = m /\ \A j \in 1 .. m : r[j] = w[IF direction = REDIS_TAIL THEN i + j - 1 ELSE i - j + 1]
  <2> DEFINE l == IF direction = REDIS_TAIL THEN Len(w) + 1 - i ELSE i
  <2>1. i \in Stands(direction, Len(w)) /\ l = m
    BY <1>2, <1>3, <1>4
  <2>2. r \in Seq(Value) /\ Len(r) = l /\ \A j \in 1 .. l : r[j] = w[IF direction = REDIS_TAIL THEN i + j - 1 ELSE i - j + 1]
    BY <1>2, <2>1, RestIsSeq
  <2> HIDE DEF l, m, r
  <2>3. QED
    BY <2>1, <2>2
<1> HIDE DEF h
<1>6. q \in Seq(Value) /\ Len(q) = m /\ \A j \in 1 .. m : q[j] = items[IF direction = REDIS_TAIL THEN h + j - 1 ELSE h - j + 1]
  <2> DEFINE l == IF direction = REDIS_TAIL THEN n + 1 - h ELSE h
  <2>1. h \in Stands(direction, n) /\ l = m
    BY <1>3, <1>4
  <2>2. q \in Seq(Value) /\ Len(q) = l /\ \A j \in 1 .. l : q[j] = items[IF direction = REDIS_TAIL THEN h + j - 1 ELSE h - j + 1]
    BY <2>1, RestIsSeq
  <2> HIDE DEF l, m, q
  <2>3. QED
    BY <2>1, <2>2
<1> HIDE DEF r, q
<1>7. \A j \in 1 .. m : r[j] = q[j]
  <2> TAKE j \in 1 .. m
  <2>1. CASE direction = REDIS_TAIL
    <3>1. i = k /\ h = k + 1 /\ m = n - k /\ j \in 1 .. n - k
      BY <2>1 DEF i, h, m, Onward
    <3>2. k + j - 1 \in 1 .. n - 1 /\ ~(k + j - 1 < k) /\ k + j - 1 + 1 = k + 1 + j - 1
      BY <1>1, <3>1
    <3>3. r[j] = w[k + j - 1] /\ q[j] = items[k + 1 + j - 1]
      BY <1>5, <1>6, <2>1, <3>1
    <3>4. w[k + j - 1] = items[k + j - 1 + 1]
      BY <1>2, <3>2
    <3>5. QED
      BY <3>2, <3>3, <3>4
  <2>2. CASE direction # REDIS_TAIL
    <3>1. i = k - 1 /\ h = k - 1 /\ m = k - 1 /\ j \in 1 .. k - 1
      BY <2>2 DEF i, h, m, Onward
    <3>2. k - 1 - j + 1 \in 1 .. n - 1 /\ k - 1 - j + 1 < k
      BY <1>1, <3>1
    <3>3. r[j] = w[k - 1 - j + 1] /\ q[j] = items[k - 1 - j + 1]
      BY <1>5, <1>6, <2>2, <3>1
    <3>4. w[k - 1 - j + 1] = items[k - 1 - j + 1]
      BY <1>2, <3>2
    <3>5. QED
      BY <3>3, <3>4
  <2>3. QED
    BY <2>1, <2>2
<1> HIDE DEF m
<1>8. r = q
  BY <1>5, <1>6, <1>7, SameSequence
<1>9. QED
  BY <1>3, <1>8 DEF r, q, i, h, w

\* The iterator stands at position i: it points there, and what is due is what
\* is left from there on; the entry it has returned last is the one before.
StandsAt(i) ==
  LET n == Len(ListItems)
  IN /\ it = [encoding |-> encoding, direction |-> it.direction, entry |-> it.entry, end |-> it.end, pos |-> it.pos]
     /\ it.direction \in {REDIS_HEAD, REDIS_TAIL}
     /\ i \in Stands(it.direction, n)
     /\ due = RestOf(ListItems, it.direction, i)
     /\ i \in 1 .. n => it.pos = At(i)
     /\ i \notin 1 .. n => it.pos = NULL \/ (encoding = "ziplist" /\ it.pos = Offset(ptr, n + 1))
     /\ it.entry = NULL \/ \E k \in 1 .. n : it.entry = At(k) /\ i = Onward(it.direction, k)
     /\ it.end => it.entry = NULL /\ i \notin 1 .. n

GoodList ==
  type = "list" => GoodListObject /\ (it # NULL => \E i \in Int : StandsAt(i))

LEMMA EntryIs ==
  ASSUME GoodListObject, it.encoding = encoding
  PROVE  /\ \A k \in 1 .. Len(ListItems) : /\ At(k) # NULL /\ EntryValue(At(k)) = ListItems[k] /\ PlaceOf(At(k)) = k
                                           /\ ListItems[k] # NULL
         /\ encoding = "ziplist" => EntryValue(Offset(ptr, Len(ListItems) + 1)) = NULL
<1> DEFINE n == Len(ListItems)
<1>1. n \in Nat /\ ListItems \in Seq(Value)
  BY ListItemsAre
<1>2. \A k \in 1 .. n : ListItems[k] # NULL
  BY <1>1, ObjectsAssumption
<1>3. CASE encoding = "ziplist"
  <2>1. GoodZiplist(ptr) /\ ListItems = Values(ptr) /\ n = Len(ptr.entries)
    BY <1>3, ListItemsAre
  <2>2. \A x : EntryValue(x) = ZiplistGet(ptr, x) /\ PlaceOf(x) = PosOf(ptr, x)
    BY <1>3 DEF EntryValue, PlaceOf
  <2>3. \A k : At(k) = Offset(ptr, k)
    BY <1>3 DEF At
  <2> HIDE DEF n
  <2>4. ASSUME NEW k \in 1 .. n
        PROVE  At(k) # NULL /\ EntryValue(At(k)) = ListItems[k] /\ PlaceOf(At(k)) = k
    <3>1. k \in 1 .. Len(ptr.entries) /\ k \in 1 .. Len(ptr.entries) + 1 /\ k <= Len(ptr.entries)
      BY <1>1, <2>1, <2>4
    <3>2. Offset(ptr, k) # NULL /\ PosOf(ptr, Offset(ptr, k)) = k
      BY <2>1, <3>1, AtOffset
    <3>3. ZiplistGet(ptr, Offset(ptr, k)) = ptr.entries[k].val
      BY <2>1, <3>1, GetIs
    <3>4. ListItems[k] = ptr.entries[k].val
      BY <2>1, <3>1, ValuesAre
    <3>5. QED
      BY <2>2, <2>3, <3>2, <3>3, <3>4
  <2>5. EntryValue(Offset(ptr, n + 1)) = NULL
    <3>1. n + 1 \in 1 .. Len(ptr.entries) + 1 /\ ~(n + 1 <= Len(ptr.entries))
      BY <1>1, <2>1
    <3>2. QED
      BY <2>1, <2>2, <3>1, GetIs
  <2>6. QED
    BY <1>2, <2>4, <2>5 DEF n
<1>4. CASE encoding # "ziplist"
  <2>1. ListItems = ptr /\ \A x : EntryValue(x) = ptr[x] /\ PlaceOf(x) = x /\ At(x) = x
    BY <1>4 DEF ListItems, EntryValue, PlaceOf, At
  <2>2. \A k \in 1 .. n : k # NULL
    BY ZipListAssumption
  <2>3. QED
    BY <1>2, <1>4, <2>1, <2>2
<1>5. QED
  BY <1>3, <1>4

LEMMA NodeAtIs ==
  ASSUME NEW items \in Seq(Value), NEW index \in Int
  PROVE  LET i == IF index < 0 THEN Len(items) + 1 + index ELSE index + 1
         IN NodeAt(items, index) = IF i \in 1 .. Len(items) THEN i ELSE NULL
<1>1. DOMAIN items = 1 .. Len(items)
  OBVIOUS
<1>2. QED
  BY <1>1 DEF NodeAt

LEMMA OnwardsIs ==
  ASSUME GoodListObject, it.encoding = encoding, it.direction \in {REDIS_HEAD, REDIS_TAIL}, NEW k \in 1 .. Len(ListItems)
  PROVE  LET i == Onward(it.direction, k)
         IN Onwards(At(k)) = IF i \in 1 .. Len(ListItems) THEN At(i) ELSE NULL
<1> DEFINE n == Len(ListItems)
           i == Onward(it.direction, k)
<1>1. n \in Nat /\ ListItems \in Seq(Value) /\ k \in 1 .. n /\ k \in Int
  BY ListItemsAre
<1>2. CASE encoding = "ziplist"
  <2>1. GoodZiplist(ptr) /\ n = Len(ptr.entries)
    BY <1>2, ListItemsAre
  <2>2. At(k) = Offset(ptr, k) /\ At(i) = Offset(ptr, i)
    BY <1>2 DEF At
  <2>3. k \in 1 .. Len(ptr.entries) + 1
    BY <1>1, <2>1
  <2>4. ZiplistNext(ptr, Offset(ptr, k)) = IF k < n THEN Offset(ptr, k + 1) ELSE NULL
    BY <2>1, <2>3, NextIs
  <2>5. ZiplistPrev(ptr, Offset(ptr, k)) = IF k = 1 THEN NULL ELSE Offset(ptr, k - 1)
    BY <2>1, <2>3, PrevIs
  <2>6. Onwards(At(k)) = IF it.direction = REDIS_TAIL THEN ZiplistNext(ptr, Offset(ptr, k)) ELSE ZiplistPrev(ptr, Offset(ptr, k))
    BY <1>2, <2>2 DEF Onwards
  <2> HIDE DEF n
  <2>7. CASE it.direction = REDIS_TAIL
    <3>1. i = k + 1 /\ (k < n <=> i \in 1 .. n)
      BY <1>1, <2>7 DEF Onward
    <3>2. QED
      BY <2>2, <2>4, <2>6, <2>7, <3>1 DEF n
  <2>8. CASE it.direction # REDIS_TAIL
    <3>1. i = k - 1 /\ (k # 1 <=> i \in 1 .. n)
      BY <1>1, <2>8 DEF Onward
    <3>2. QED
      BY <2>2, <2>5, <2>6, <2>8, <3>1 DEF n
  <2>9. QED
    BY <2>7, <2>8
<1>3. CASE encoding # "ziplist"
  <2>1. ListItems = ptr /\ At(i) = i
    BY <1>3 DEF ListItems, At
  <2>2. At(k) = k /\ i = IF it.direction = REDIS_TAIL THEN k + 1 ELSE k - 1
    BY <1>3 DEF At, Onward
  <2>3. DOMAIN ptr = 1 .. n
    BY <1>1, <2>1
  <2> HIDE DEF n
  <2>4. Onwards(At(k)) = IF i \in DOMAIN ptr THEN i ELSE NULL
    BY <1>3, <2>2 DEF Onwards
  <2> HIDE DEF i
  <2>5. QED
    BY <2>1, <2>3, <2>4 DEF n, i
<1>4. QED
  BY <1>2, <1>3

LEMMA IteratorIs ==
  ASSUME NEW x, NEW enc, NEW dir, NEW entry, NEW end, NEW pos, NEW p, NEW q,
         x = [encoding |-> enc, direction |-> dir, entry |-> entry, end |-> end, pos |-> pos]
  PROVE  /\ x.encoding = enc /\ x.direction = dir /\ x.entry = entry /\ x.end = end /\ x.pos = pos
         /\ x = [encoding |-> enc, direction |-> x.direction, entry |-> x.entry, end |-> x.end, pos |-> x.pos]
         /\ [x EXCEPT !.entry = p, !.pos = q] = [encoding |-> enc, direction |-> dir, entry |-> p, end |-> end, pos |-> q]
         /\ [x EXCEPT !.end = p, !.entry = q] = [encoding |-> enc, direction |-> dir, entry |-> q, end |-> p, pos |-> pos]
<1>1. x.encoding = enc /\ x.direction = dir /\ x.entry = entry /\ x.end = end /\ x.pos = pos
  OBVIOUS
<1>2. x = [encoding |-> enc, direction |-> x.direction, entry |-> x.entry, end |-> x.end, pos |-> x.pos]
  BY <1>1
<1> DEFINE y == [encoding |-> enc, direction |-> dir, entry |-> p, end |-> end, pos |-> pos]
           z == [encoding |-> enc, direction |-> dir, entry |-> entry, end |-> p, pos |-> pos]
<1>3. [x EXCEPT !.entry = p, !.pos = q] = [encoding |-> enc, direction |-> dir, entry |-> p, end |-> end, pos |-> q]
  <2>1. [x EXCEPT !.entry = p] = y
    OBVIOUS
  <2>2. [y EXCEPT !.pos = q] = [encoding |-> enc, direction |-> dir, entry |-> p, end |-> end, pos |-> q]
    OBVIOUS
  <2>3. [x EXCEPT !.entry = p, !.pos = q] = [[x EXCEPT !.entry = p] EXCEPT !.pos = q]
    OBVIOUS
  <2>4. QED
    BY <2>1, <2>2, <2>3
<1>4. [x EXCEPT !.end = p, !.entry = q] = [encoding |-> enc, direction |-> dir, entry |-> q, end |-> p, pos |-> pos]
  <2>1. [x EXCEPT !.end = p] = z
    OBVIOUS
  <2>2. [z EXCEPT !.entry = q] = [encoding |-> enc, direction |-> dir, entry |-> q, end |-> p, pos |-> pos]
    OBVIOUS
  <2>3. [x EXCEPT !.end = p, !.entry = q] = [[x EXCEPT !.end = p] EXCEPT !.entry = q]
    OBVIOUS
  <2>4. QED
    BY <2>1, <2>2, <2>3
<1>5. QED
  BY <1>1, <1>2, <1>3, <1>4

\* A step of the iterator, while the object stays as it is.
LEMMA SameList ==
  ASSUME SameObject, GoodListObject
  PROVE  /\ GoodListObject' /\ ListItems' = ListItems /\ type' = type /\ encoding' = encoding /\ ptr' = ptr
         /\ \A k : At(k)' = At(k)
BY DEF SameObject, GoodListObject, ListItems, At

LEMMA ListIterates ==
  ASSUME GoodListObject, NEW index \in Int, NEW direction \in {REDIS_HEAD, REDIS_TAIL}, ListTypeInitIterator(index, direction)
  PROVE  GoodListObject' /\ type' = type /\ ListItems' = ListItems /\ ret' = ret /\ \E i \in Int : StandsAt(i)'
<1> DEFINE n == Len(ListItems)
           h == NodeAt(ListItems, index)
           pos == IF encoding = "ziplist" THEN ZiplistIndex(ptr, index) ELSE h
           j == IF index < 0 THEN n + 1 + index ELSE index + 1
           i == IF j \in 1 .. n THEN j ELSE IF direction = REDIS_TAIL THEN n + 1 ELSE 0
           x == [encoding |-> encoding, direction |-> direction, entry |-> NULL, end |-> FALSE, pos |-> pos]
<1>1. /\ it' = x /\ SameObject /\ ret' = ret
      /\ due' = IF h = NULL THEN <<>> ELSE RestOf(ListItems, direction, h)
  BY DEF ListTypeInitIterator, Iterate, RestOf
<1>2. n \in Nat /\ ListItems \in Seq(Value) /\ j \in Int
  BY ListItemsAre
<1>3. h = IF j \in 1 .. n THEN j ELSE NULL
  BY <1>2, NodeAtIs
<1>4. encoding = "ziplist" => ZiplistIndex(ptr, index) = IF j \in 1 .. n THEN Offset(ptr, j) ELSE NULL
  <2>1. SUFFICES ASSUME encoding = "ziplist"
                 PROVE  ZiplistIndex(ptr, index) = IF j \in 1 .. n THEN Offset(ptr, j) ELSE NULL
    OBVIOUS
  <2>2. GoodZiplist(ptr) /\ n = Len(ptr.entries)
    BY <2>1, ListItemsAre
  <2> DEFINE m == Len(ptr.entries)
  <2>3. ZiplistIndex(ptr, index) = IF index >= 0 THEN (IF index < m THEN Offset(ptr, index + 1) ELSE NULL)
                                   ELSE IF -index <= m THEN Offset(ptr, m + 1 + index) ELSE NULL
    BY <2>2, IndexIs
  <2>4. (index >= 0 => j = index + 1 /\ (index < m <=> j \in 1 .. n)) /\ (~(index >= 0) => j = m + 1 + index /\ (-index <= m <=> j \in 1 .. n))
    BY <1>2, <2>2
  <2> HIDE DEF m, j, n
  <2>5. QED
    BY <2>3, <2>4
<1>5. i \in Stands(direction, n) /\ i \in Int /\ (i \in 1 .. n <=> j \in 1 .. n) /\ (j \in 1 .. n => i = j /\ h = j /\ h # NULL) /\ (j \notin 1 .. n => h = NULL)
  BY <1>2, <1>3, ZipListAssumption DEF Stands
<1> HIDE DEF n, h, j, i
<1>6. i \in 1 .. n => pos = At(i)
  BY <1>4, <1>5 DEF At
<1>7. i \notin 1 .. n => pos = NULL
  BY <1>4, <1>5
<1> HIDE DEF pos
<1>8. due' = RestOf(ListItems, direction, i)
  <2>1. i \notin 1 .. n => RestOf(ListItems, direction, i) = <<>>
    BY <1>2, <1>5, RestEnds DEF n
  <2>2. QED
    BY <1>1, <1>5, <2>1
<1>9. GoodListObject' /\ ListItems' = ListItems /\ type' = type /\ encoding' = encoding /\ ptr' = ptr /\ \A k : At(k)' = At(k)
  BY <1>1, SameList
<1>10. /\ it'.direction = direction /\ it'.entry = NULL /\ it'.end = FALSE /\ it'.pos = pos
       /\ it' = [encoding |-> encoding, direction |-> it'.direction, entry |-> it'.entry, end |-> it'.end, pos |-> it'.pos]
  BY <1>1, IteratorIs
<1> HIDE DEF x
<1>11. PICK c \in Int : c = i
  BY <1>5
<1>12. At(c) = At(i)
  BY <1>11 DEF At
<1>13. StandsAt(c)'
  BY <1>5, <1>6, <1>7, <1>8, <1>9, <1>10, <1>11, <1>12 DEF StandsAt, n
<1>14. QED
  BY <1>1, <1>9, <1>13

LEMMA ListNextIs ==
  ASSUME GoodListObject, NEW i \in Int, StandsAt(i), ListTypeNext
  PROVE  GoodListObject' /\ type' = type /\ ListItems' = ListItems /\ ret' = ret /\ \E j \in Int : StandsAt(j)'
<1> DEFINE n == Len(ListItems)
           dir == it.direction
<1>1. /\ it = [encoding |-> encoding, direction |-> it.direction, entry |-> it.entry, end |-> it.end, pos |-> it.pos]
      /\ dir \in {REDIS_HEAD, REDIS_TAIL} /\ i \in Stands(dir, n) /\ due = RestOf(ListItems, dir, i)
      /\ i \in 1 .. n => it.pos = At(i)
      /\ i \notin 1 .. n => it.pos = NULL \/ (encoding = "ziplist" /\ it.pos = Offset(ptr, n + 1))
  BY DEF StandsAt
<1>2. it.encoding = encoding
  BY <1>1
<1>3. n \in Nat /\ ListItems \in Seq(Value)
  BY ListItemsAre
<1>4. ~it.end /\ SameObject /\ ret' = ret
  BY DEF ListTypeNext
<1>5. GoodListObject' /\ ListItems' = ListItems /\ type' = type /\ encoding' = encoding /\ ptr' = ptr /\ \A k : At(k)' = At(k)
  BY <1>4, SameList
<1>6. CASE i \in 1 .. n
  <2> DEFINE j == Onward(dir, i)
             pos == Onwards(it.pos)
  <2>1. it.pos = At(i) /\ At(i) # NULL /\ EntryValue(At(i)) = ListItems[i] /\ ListItems[i] # NULL
    BY <1>1, <1>2, <1>6, EntryIs
  <2>2. it' = [it EXCEPT !.entry = it.pos, !.pos = pos] /\ due' = DueInSeq(ListItems[i])
    BY <2>1 DEF ListTypeNext
  <2>3. pos = IF j \in 1 .. n THEN At(j) ELSE NULL
    BY <1>1, <1>2, <1>6, <2>1, OnwardsIs
  <2>4. /\ due # <<>> /\ due[1] = ListItems[i] /\ SubSeq(due, 2, Len(due)) = RestOf(ListItems, dir, j)
        /\ j \in Stands(dir, n)
    BY <1>1, <1>3, <1>6, RestSteps
  <2>5. due' = RestOf(ListItems, dir, j)
    BY <2>2, <2>4 DEF DueInSeq
  <2>6. j \in Int
    BY <1>6 DEF Onward
  <2> HIDE DEF pos
  <2>7. it' = [encoding |-> encoding, direction |-> dir, entry |-> At(i), end |-> it.end, pos |-> pos]
    <3> DEFINE e == it.encoding
               a == it.entry
               b == it.end
               c == it.pos
    <3>1. it = [encoding |-> e, direction |-> dir, entry |-> a, end |-> b, pos |-> c] /\ it' = [it EXCEPT !.entry = At(i), !.pos = pos] /\ e = encoding
      BY <1>1, <2>1, <2>2
    <3> HIDE DEF e, a, b, c, dir
    <3>2. it' = [encoding |-> e, direction |-> dir, entry |-> At(i), end |-> b, pos |-> pos]
      BY <3>1, IteratorIs
    <3>3. QED
      BY <3>1, <3>2 DEF b
  <2> HIDE DEF dir, j
  <2>8. /\ it'.direction = dir /\ it'.entry = At(i) /\ it'.end = it.end /\ it'.pos = pos
        /\ it' = [encoding |-> encoding, direction |-> it'.direction, entry |-> it'.entry, end |-> it'.end, pos |-> it'.pos]
    BY <2>7, IteratorIs
  <2>9. PICK c \in Int : c = j
    BY <2>6
  <2>10. it'.entry = At(i) /\ c = Onward(it'.direction, i) /\ At(c) = At(j)
    BY <2>8, <2>9 DEF j, At
  <2>11. StandsAt(c)'
    BY <1>1, <1>4, <1>5, <1>6, <2>3, <2>4, <2>5, <2>8, <2>9, <2>10 DEF StandsAt, dir
  <2>12. QED
    BY <1>4, <1>5, <2>11
<1>7. CASE i \notin 1 .. n
  <2>1. it.pos = NULL \/ EntryValue(it.pos) = NULL
    BY <1>1, <1>2, <1>7, EntryIs
  <2>2. it' = [it EXCEPT !.end = TRUE, !.entry = NULL] /\ due' = due
    BY <2>1 DEF ListTypeNext
  <2>3. it' = [encoding |-> encoding, direction |-> it.direction, entry |-> NULL, end |-> TRUE, pos |-> it.pos]
    <3> DEFINE e == it.encoding
               a == it.entry
               b == it.end
               c == it.pos
    <3>1. it = [encoding |-> e, direction |-> dir, entry |-> a, end |-> b, pos |-> c] /\ e = encoding
      BY <1>1
    <3> HIDE DEF e, a, b, c, dir
    <3>2. it' = [encoding |-> e, direction |-> dir, entry |-> NULL, end |-> TRUE, pos |-> c]
      BY <2>2, <3>1, IteratorIs
    <3>3. QED
      BY <3>1, <3>2 DEF c, dir
  <2>4. /\ it'.direction = it.direction /\ it'.entry = NULL /\ it'.end = TRUE /\ it'.pos = it.pos
        /\ it' = [encoding |-> encoding, direction |-> it'.direction, entry |-> it'.entry, end |-> it'.end, pos |-> it'.pos]
    BY <2>3, IteratorIs
  <2>5. StandsAt(i)'
    BY <1>1, <1>5, <1>7, <2>2, <2>4 DEF StandsAt
  <2>6. QED
    BY <1>4, <1>5, <2>5
<1>8. QED
  BY <1>6, <1>7

LEMMA ListDeleteIs ==
  ASSUME GoodListObject, NEW i \in Int, StandsAt(i), ListTypeDelete
  PROVE  /\ GoodListObject' /\ type' = type /\ \E j \in Int : StandsAt(j)'
         /\ \E k \in 1 .. Len(ListItems) : ListItems' = Without(ListItems, k) /\ ret' = <<"delete", k>>
<1> DEFINE n == Len(ListItems)
           dir == it.direction
           entry == it.entry
           end == it.end
           pos == it.pos
<1>1. /\ it = [encoding |-> encoding, direction |-> dir, entry |-> entry, end |-> end, pos |-> pos]
      /\ dir \in {REDIS_HEAD, REDIS_TAIL} /\ i \in Stands(dir, n) /\ due = RestOf(ListItems, dir, i)
      /\ entry = NULL \/ \E k \in 1 .. n : entry = At(k) /\ i = Onward(dir, k)
      /\ end => entry = NULL
  BY DEF StandsAt
<1>2. it.encoding = encoding
  BY <1>1
<1>3. n \in Nat /\ ListItems \in Seq(Value)
  BY ListItemsAre
<1>4. entry # NULL /\ ret' = <<"delete", PlaceOf(entry)>> /\ due' = due
  BY DEF ListTypeDelete
<1>5. PICK k \in 1 .. n : entry = At(k) /\ i = Onward(dir, k)
  BY <1>1, <1>4
<1>6. PlaceOf(entry) = k /\ ~end
  BY <1>1, <1>2, <1>4, <1>5, EntryIs
<1> DEFINE w == Without(ListItems, k)
<1>j. PICK j \in Int : j = IF dir = REDIS_TAIL THEN k ELSE k - 1
  OBVIOUS
<1>7. w \in Seq(Value) /\ Len(w) = n - 1
  BY <1>3, WithoutIs
<1>8. j \in Stands(dir, n - 1) /\ RestOf(w, dir, j) = due
  BY <1>1, <1>3, <1>5, <1>j, RestAfterRemoval
<1> HIDE DEF w
\* What is left to show of both encodings.
<1>9. ASSUME NEW x, GoodListObject', ListItems' = w, type' = type, encoding' = encoding,
             it' = [it EXCEPT !.entry = NULL, !.pos = x],
             j \in 1 .. n - 1 => x = At(j)',
             j \notin 1 .. n - 1 => x = NULL \/ (encoding = "ziplist" /\ x = Offset(ptr', n - 1 + 1))
      PROVE  GoodListObject' /\ type' = type /\ (\E h \in Int : StandsAt(h)') /\ ListItems' = w
  <2> HIDE DEF dir, entry, end, pos
  <2>1. it' = [encoding |-> encoding, direction |-> dir, entry |-> NULL, end |-> end, pos |-> x]
    BY <1>1, <1>9, IteratorIs
  <2>2. /\ it'.direction = dir /\ it'.entry = NULL /\ it'.end = end /\ it'.pos = x
        /\ it' = [encoding |-> encoding, direction |-> it'.direction, entry |-> it'.entry, end |-> it'.end, pos |-> it'.pos]
    BY <2>1, IteratorIs
  <2>3. StandsAt(j)'
    BY <1>1, <1>4, <1>6, <1>7, <1>8, <1>9, <2>2 DEF StandsAt
  <2>4. QED
    BY <1>9, <2>3
<1>10. CASE encoding = "ziplist"
  <2> DEFINE zl == ZiplistDelete(ptr, Offset(ptr, k))
             x == PosAfterDelete(zl, entry)
  <2>1. GoodZiplist(ptr) /\ ListItems = Values(ptr) /\ n = Len(ptr.entries) /\ entry = Offset(ptr, k)
    BY <1>5, <1>10, ListItemsAre DEF At
  <2>2. Become("ziplist", zl) /\ it' = [it EXCEPT !.entry = NULL, !.pos = x]
    BY <1>2, <1>10, <2>1 DEF ListTypeDelete
  <2>3. GoodZiplist(zl) /\ Len(zl.entries) = n - 1 /\ \A h \in 1 .. k : Offset(zl, h) = Offset(ptr, h)
    BY <2>1, DeleteOne
  <2>4. Values(zl) = w
    BY <2>1, DeletedValues DEF w
  <2> HIDE DEF zl, n
  <2>5. GoodListObject' /\ ListItems' = w /\ type' = type /\ encoding' = "ziplist" /\ ptr' = zl
    BY <2>2, <2>3, <2>4, BecomesZiplist DEF Become
  <2>6. k \in 1 .. Len(zl.entries) + 1 /\ k \in 1 .. k /\ k \in Int
    BY <1>3, <2>3
  <2>7. x = IF dir = REDIS_TAIL THEN Offset(zl, k) ELSE IF k = 1 THEN NULL ELSE Offset(zl, k - 1)
    <3>1. ZiplistPrev(zl, Offset(zl, k)) = IF k = 1 THEN NULL ELSE Offset(zl, k - 1)
      BY <2>3, <2>6, PrevIs
    <3>2. entry = Offset(zl, k)
      BY <2>1, <2>3, <2>6
    <3>3. QED
      BY <3>1, <3>2 DEF PosAfterDelete
  <2> HIDE DEF x
  <2>8. At(j)' = Offset(zl, j)
    BY <2>5 DEF At
  <2>9. (j \in 1 .. n - 1 => x = Offset(zl, j)) /\ (j \notin 1 .. n - 1 => x = NULL \/ x = Offset(zl, n - 1 + 1))
    <3>1. CASE dir = REDIS_TAIL
      <4>1. j = k /\ (k \notin 1 .. n - 1 => k = n - 1 + 1)
        BY <1>3, <1>j, <3>1 DEF n
      <4>2. QED
        BY <2>7, <3>1, <4>1
    <3>2. CASE dir # REDIS_TAIL
      <4>1. j = k - 1 /\ (j \notin 1 .. n - 1 => k = 1)
        BY <1>3, <1>j, <3>2 DEF n
      <4>2. j \in 1 .. n - 1 => k # 1
        BY <4>1
      <4>3. QED
        BY <2>7, <3>2, <4>1, <4>2
    <3>3. QED
      BY <3>1, <3>2
  <2>10. encoding' = encoding
    BY <1>10, <2>5
  <2>11. GoodListObject' /\ type' = type /\ (\E h \in Int : StandsAt(h)') /\ ListItems' = w
    BY <1>9, <1>10, <2>2, <2>5, <2>8, <2>9, <2>10
  <2>12. QED
    BY <1>4, <1>6, <2>11 DEF w, n
<1>11. CASE encoding # "ziplist"
  <2> DEFINE next == Onwards(entry)
             x == IF next = NULL \/ dir = REDIS_HEAD THEN next ELSE entry
  <2>1. encoding = "linkedlist" /\ ListItems = ptr /\ entry = k /\ \A h : At(h) = h
    BY <1>5, <1>11, ListItemsAre DEF At
  <2>2. Become("linkedlist", RemoveAt(ptr, k)) /\ it' = [it EXCEPT !.entry = NULL, !.pos = x]
    BY <1>2, <2>1 DEF ListTypeDelete
  <2>3. RemoveAt(ptr, k) = w
    BY <2>1 DEF RemoveAt, Without, w
  <2>4. GoodListObject' /\ ListItems' = w /\ type' = type /\ encoding' = encoding
    BY <1>7, <2>1, <2>2, <2>3, BecomesLinkedList DEF Become
  <2>5. next = IF i \in 1 .. n THEN i ELSE NULL
    BY <1>1, <1>2, <1>5, <2>1, OnwardsIs
  <2>6. At(j)' = j
    BY <1>11, <2>4 DEF At
  <2> HIDE DEF next
  <2>7. (j \in 1 .. n - 1 => x = j) /\ (j \notin 1 .. n - 1 => x = NULL)
    <3> HIDE DEF n
    <3>1. CASE dir = REDIS_TAIL
      <4>1. j = k /\ i = k + 1 /\ dir # REDIS_HEAD /\ (i \in 1 .. n <=> j \in 1 .. n - 1)
        BY <1>3, <1>5, <1>j, <3>1 DEF Onward, REDIS_HEAD, REDIS_TAIL
      <4>2. i # NULL
        BY ZipListAssumption
      <4>3. QED
        BY <2>1, <2>5, <4>1, <4>2
    <3>2. CASE dir # REDIS_TAIL
      <4>1. j = i /\ dir = REDIS_HEAD /\ (i \in 1 .. n <=> j \in 1 .. n - 1)
        BY <1>1, <1>3, <1>5, <1>j, <3>2 DEF Onward
      <4>2. QED
        BY <2>5, <4>1
    <3>3. QED
      BY <3>1, <3>2
  <2> HIDE DEF x
  <2>8. GoodListObject' /\ type' = type /\ (\E h \in Int : StandsAt(h)') /\ ListItems' = w
    BY <1>9, <2>2, <2>4, <2>6, <2>7
  <2>9. QED
    BY <1>4, <1>6, <2>8 DEF w, n
<1>12. QED
  BY <1>10, <1>11

LEMMA ReturnedIs ==
  ASSUME GoodListObject, NEW i \in Int, StandsAt(i), it.entry # NULL
  PROVE  it.encoding = encoding /\ \E k \in 1 .. Len(ListItems) : it.entry = At(k) /\ PlaceOf(it.entry) = k
<1>1. it = [encoding |-> encoding, direction |-> it.direction, entry |-> it.entry, end |-> it.end, pos |-> it.pos]
  BY DEF StandsAt
<1>2. it.encoding = encoding
  BY <1>1
<1>3. PICK k \in 1 .. Len(ListItems) : it.entry = At(k)
  BY DEF StandsAt
<1>4. PlaceOf(At(k)) = k
  BY <1>2, EntryIs
<1>5. QED
  BY <1>2, <1>3, <1>4

LEMMA ListInsertIs ==
  ASSUME GoodListObject, NEW i \in Int, StandsAt(i), NEW v \in Value, NEW where \in {REDIS_HEAD, REDIS_TAIL},
         ListTypeInsert(v, where), Intact'
  PROVE  /\ GoodListObject' /\ type' = type /\ it' = NULL
         /\ \E k \in 1 .. Len(ListItems) :
              /\ ListItems' = With(ListItems, IF where = REDIS_HEAD THEN k ELSE k + 1, v)
              /\ ret' = <<"insert", k, v, where>>
<1> DEFINE n == Len(ListItems)
<1>1. it.entry # NULL /\ it' = NULL /\ ret' = <<"insert", PlaceOf(it.entry), v, where>>
  BY DEF ListTypeInsert
<1>2. PICK k \in 1 .. n : it.entry = At(k) /\ PlaceOf(it.entry) = k
  BY <1>1, ReturnedIs
<1>3. n \in Nat /\ ListItems \in Seq(Value)
  BY ListItemsAre
<1>4. PICK h \in 1 .. n + 1 : h = IF where = REDIS_HEAD THEN k ELSE k + 1
  BY <1>3
<1> DEFINE w == With(ListItems, h, v)
<1>5. w \in Seq(Value)
  <2>1. IsWith(w, Value, ListItems, h, v)
    BY <1>3, WithIs
  <2>2. QED
    BY <2>1 DEF IsWith
<1>6. CASE encoding = "ziplist"
  <2> DEFINE r == InsertedAt(it.entry, v, where)
  <2>1. GoodZiplist(ptr) /\ ListItems = Values(ptr) /\ n = Len(ptr.entries) /\ it.entry = Offset(ptr, k)
    BY <1>2, <1>6, ListItemsAre DEF At
  <2>2. Become("ziplist", r)
    BY <1>6 DEF ListTypeInsert
  <2>3. k \in 1 .. Len(ptr.entries) + 1 /\ h \in 1 .. Len(ptr.entries) + 1 /\ k \in Int
    BY <1>3, <2>1
  <2>4. InsertedIn(r, ptr, h, v) \/ Spoilt(r)
    <3>1. CASE where = REDIS_HEAD
      <4>1. r = ZiplistInsert(ptr, Offset(ptr, h), v)
        BY <1>4, <2>1, <3>1 DEF InsertedAt
      <4>2. QED
        BY <2>1, <2>3, <4>1, InsertionIs
    <3>2. CASE where # REDIS_HEAD
      <4>1. ZiplistNext(ptr, Offset(ptr, k)) = IF k < n THEN Offset(ptr, k + 1) ELSE NULL
        BY <2>1, <2>3, NextIs
      <4>2. h = k + 1 /\ Offset(ptr, h) # NULL
        BY <1>4, <2>1, <2>3, <3>2, AtOffset
      <4>3. CASE k < n
        <5>1. r = ZiplistInsert(ptr, Offset(ptr, h), v)
          BY <2>1, <3>2, <4>1, <4>2, <4>3 DEF InsertedAt
        <5>2. QED
          BY <2>1, <2>3, <5>1, InsertionIs
      <4>4. CASE ~(k < n)
        <5>1. r = ZiplistPush(ptr, v, ZIPLIST_TAIL)
          BY <2>1, <3>2, <4>1, <4>4 DEF InsertedAt
        <5>2. h = Len(ptr.entries) + 1
          BY <1>2, <1>3, <2>1, <4>2, <4>4
        <5>3. QED
          BY <2>1, <5>1, <5>2, AppendIs
      <4>5. QED
        BY <4>3, <4>4
    <3>3. QED
      BY <3>1, <3>2
  <2> HIDE DEF r, n
  <2>5. ptr' = r /\ ~Ruined(r)
    BY <2>2, NotRuined DEF Become
  <2>6. InsertedIn(r, ptr, h, v)
    BY <2>4, <2>5, SpoiltIsRuined
  <2>7. GoodZiplist(r) /\ Values(r) = w
    BY <2>1, <2>3, <2>6, InsertedValues DEF InsertedIn
  <2>8. GoodListObject' /\ ListItems' = w /\ type' = type
    BY <2>2, <2>7, BecomesZiplist
  <2>9. QED
    BY <1>1, <1>2, <1>4, <2>8 DEF n
<1>7. CASE encoding # "ziplist"
  <2>1. encoding = "linkedlist" /\ ListItems = ptr /\ it.entry = k
    BY <1>2, <1>7, ListItemsAre DEF At
  <2>2. where = REDIS_TAIL /\ Become("linkedlist", SubSeq(ptr, 1, k) \o <<v>> \o SubSeq(ptr, k + 1, Len(ptr)))
    BY <1>7, <2>1 DEF ListTypeInsert
  <2>3. h = k + 1 /\ h - 1 = k
    BY <1>2, <1>4, <2>2 DEF REDIS_HEAD, REDIS_TAIL
  <2>4. w = SubSeq(ptr, 1, k) \o <<v>> \o SubSeq(ptr, k + 1, Len(ptr))
    BY <2>1, <2>3 DEF With
  <2> HIDE DEF w
  <2>5. Become("linkedlist", w)
    BY <2>2, <2>4
  <2>6. GoodListObject' /\ ListItems' = w /\ type' = type
    BY <1>5, <2>5, BecomesLinkedList
  <2>7. QED
    BY <1>1, <1>2, <1>4, <2>6 DEF w
<1>8. QED
  BY <1>6, <1>7

LEMMA ListEqualIs ==
  ASSUME GoodListObject, NEW i \in Int, StandsAt(i), NEW v, ListTypeEqual(v)
  PROVE  /\ SameObject /\ it' = it /\ due' = due
         /\ \E k \in 1 .. Len(ListItems) : ret' = <<"equal", k, v, ListItems[k] = v>>
<1> DEFINE n == Len(ListItems)
<1>1. /\ it.entry # NULL /\ SameObject /\ it' = it /\ due' = due
      /\ ret' = <<"equal", PlaceOf(it.entry), v, IF it.encoding = "ziplist" THEN ZiplistCompare(ptr, it.entry, v) ELSE ptr[it.entry] = v>>
  BY DEF ListTypeEqual
<1>2. PICK k \in 1 .. n : it.entry = At(k) /\ PlaceOf(it.entry) = k /\ it.encoding = encoding
  BY <1>1, ReturnedIs
<1>3. CASE encoding = "ziplist"
  <2>1. GoodZiplist(ptr) /\ ListItems = Values(ptr) /\ n = Len(ptr.entries) /\ it.entry = Offset(ptr, k) /\ n \in Nat
    BY <1>2, <1>3, ListItemsAre DEF At
  <2>2. k \in 1 .. Len(ptr.entries) + 1 /\ k # Len(ptr.entries) + 1
    BY <1>2, <2>1
  <2>3. ZiplistCompare(ptr, Offset(ptr, k), v) <=> ptr.entries[k].val = v
    BY <2>1, <2>2, AtOffset DEF ZiplistCompare
  <2>4. ListItems[k] = ptr.entries[k].val
    BY <1>2, <2>1, ValuesAre
  <2>5. ZiplistCompare(ptr, it.entry, v) = (ListItems[k] = v)
    <3>1. ZiplistCompare(ptr, it.entry, v) \in BOOLEAN
      BY DEF ZiplistCompare
    <3>2. QED
      BY <2>1, <2>3, <2>4, <3>1
  <2>6. ret' = <<"equal", k, v, ListItems[k] = v>>
    BY <1>1, <1>2, <1>3, <2>5
  <2>7. QED
    BY <1>1, <2>6
<1>4. CASE encoding # "ziplist"
  <2>1. ListItems = ptr /\ it.entry = k
    BY <1>2, <1>4 DEF ListItems, At
  <2>2. ret' = <<"equal", k, v, ListItems[k] = v>>
    BY <1>1, <1>2, <1>4, <2>1
  <2>3. QED
    BY <1>1, <2>2
<1>5. QED
  BY <1>3, <1>4

LEMMA StandsStill ==
  ASSUME GoodListObject, NEW i \in Int, StandsAt(i), it' = it, due' = due, ListItems' = ListItems, encoding' = encoding,
         encoding = "ziplist" => \A k \in 1 .. Len(ListItems) + 1 : Offset(ptr', k) = Offset(ptr, k)
  PROVE  StandsAt(i)'
<1> DEFINE n == Len(ListItems)
<1>1. n \in Nat
  BY ListItemsAre
<1>2. \A k \in 1 .. n : At(k)' = At(k)
  <2>1. ASSUME NEW k \in 1 .. n
        PROVE  At(k)' = At(k)
    <3>1. k \in 1 .. n + 1
      BY <1>1, <2>1
    <3>2. QED
      BY <3>1 DEF At
  <2>2. QED
    BY <2>1
<1>3. n + 1 \in 1 .. n + 1
  BY <1>1
<1> HIDE DEF n
<1>4. encoding = "ziplist" => Offset(ptr', n + 1) = Offset(ptr, n + 1)
  BY <1>3 DEF n
<1>5. QED
  BY <1>2, <1>4 DEF StandsAt, n

\* Every call on a list does what ValueSeq says, and an iterator keeps its place.
LEMMA ListKeeps ==
  ASSUME ListNext, GoodList, Intact'
  PROVE  type = "list" /\ type' = type /\ GoodList' /\ (ThisList!Next \/ UNCHANGED ThisList!seqVars)
<1>1. type = "list" /\ GoodListObject /\ (it # NULL => \E i \in Int : StandsAt(i))
  BY DEF ListNext, GoodList
<1>2. ListItems \in Seq(Value) /\ Len(ListItems) \in Nat /\ DOMAIN ListItems = 1 .. Len(ListItems)
  <2>1. ListItems \in Seq(Value)
    BY <1>1, ListItemsAre
  <2>2. QED
    BY <2>1
<1>3. ThisList!HEAD = REDIS_HEAD /\ ThisList!TAIL = REDIS_TAIL
  BY DEF ThisList!HEAD, ThisList!TAIL, REDIS_HEAD, REDIS_TAIL
<1>4. ASSUME NEW v \in ListValues, NEW where \in {REDIS_HEAD, REDIS_TAIL}, ListTypePush(v, where)
      PROVE  type' = type /\ GoodList' /\ (ThisList!Next \/ UNCHANGED ThisList!seqVars)
  <2>1. v \in Value
    BY ListTypeAssumption
  <2>2. /\ GoodListObject' /\ type' = type /\ it' = NULL /\ ret' = <<"push", v, where>>
        /\ ListItems' = With(ListItems, IF where = REDIS_HEAD THEN 1 ELSE Len(ListItems) + 1, v)
    BY <1>1, <1>4, <2>1, ListPushIs
  <2>3. ThisList!Push(v, where)
    BY <1>1, <1>3, <2>2 DEF ThisList!Push, ThisList!PutAt, With
  <2>4. ThisList!Next
    BY <1>3, <2>3 DEF ThisList!Next
  <2>5. QED
    BY <2>2, <2>4 DEF GoodList
<1>5. ASSUME NEW v \in ListValues, NEW where \in {REDIS_HEAD, REDIS_TAIL}, ListTypeInsert(v, where)
      PROVE  type' = type /\ GoodList' /\ (ThisList!Next \/ UNCHANGED ThisList!seqVars)
  <2>1. v \in Value /\ it # NULL
    BY <1>5, ListTypeAssumption DEF ListTypeInsert
  <2>2. PICK i \in Int : StandsAt(i)
    BY <1>1, <2>1
  <2>3. /\ GoodListObject' /\ type' = type /\ it' = NULL
        /\ \E k \in 1 .. Len(ListItems) :
             /\ ListItems' = With(ListItems, IF where = REDIS_HEAD THEN k ELSE k + 1, v)
             /\ ret' = <<"insert", k, v, where>>
    BY <1>1, <1>5, <2>1, <2>2, ListInsertIs
  <2>4. PICK k \in 1 .. Len(ListItems) : /\ ListItems' = With(ListItems, IF where = REDIS_HEAD THEN k ELSE k + 1, v)
                                         /\ ret' = <<"insert", k, v, where>>
    BY <2>3
  <2>5. ThisList!Insert(k, v, where)
    BY <1>1, <1>3, <2>3, <2>4 DEF ThisList!Insert, ThisList!PutAt, With
  <2>6. ThisList!Next
    BY <1>1, <1>2, <1>3, <2>5 DEF ThisList!Next
  <2>7. QED
    BY <2>3, <2>6 DEF GoodList
<1>6. ASSUME NEW where \in {REDIS_HEAD, REDIS_TAIL}, ListTypePop(where)
      PROVE  type' = type /\ GoodList' /\ (ThisList!Next \/ UNCHANGED ThisList!seqVars)
  <2> DEFINE k == IF where = REDIS_HEAD THEN 1 ELSE Len(ListItems)
  <2>1. /\ GoodListObject' /\ type' = type /\ it' = NULL
        /\ ListItems = <<>> => ListItems' = ListItems /\ ret' = <<"pop", where, NULL>>
        /\ ListItems # <<>> => ListItems' = Without(ListItems, k) /\ ret' = <<"pop", where, ListItems[k]>>
    BY <1>1, <1>6, ListPopIs
  <2>2. ThisList!Pop(where)
    BY <1>1, <1>3, <2>1 DEF ThisList!Pop, ThisList!RemoveAt, Without
  <2>3. ThisList!Next
    BY <1>3, <2>2 DEF ThisList!Next
  <2>4. QED
    BY <2>1, <2>3 DEF GoodList
<1>7. ASSUME ListTypeLength
      PROVE  type' = type /\ GoodList' /\ (ThisList!Next \/ UNCHANGED ThisList!seqVars)
  <2>1. /\ GoodListObject' /\ type' = type /\ encoding' = encoding /\ it' = it /\ due' = due
        /\ ListItems' = ListItems /\ ret' = <<"length", Len(ListItems)>>
        /\ encoding = "ziplist" => \A k \in 1 .. Len(ListItems) + 1 : Offset(ptr', k) = Offset(ptr, k)
    BY <1>1, <1>7, ListLengthIs
  <2>2. \A i \in Int : StandsAt(i) => StandsAt(i)'
    BY <1>1, <2>1, StandsStill
  <2>3. ThisList!Length
    BY <1>1, <2>1 DEF ThisList!Length
  <2>4. GoodList'
    BY <1>1, <2>1, <2>2 DEF GoodList
  <2>5. QED
    BY <2>1, <2>3, <2>4 DEF ThisList!Next
<1>8. ASSUME NEW index \in -2 .. 1, NEW direction \in {REDIS_HEAD, REDIS_TAIL}, ListTypeInitIterator(index, direction)
      PROVE  type' = type /\ GoodList' /\ (ThisList!Next \/ UNCHANGED ThisList!seqVars)
  <2>1. index \in Int
    OBVIOUS
  <2>2. GoodListObject' /\ type' = type /\ ListItems' = ListItems /\ ret' = ret /\ \E i \in Int : StandsAt(i)'
    BY <1>1, <1>8, <2>1, ListIterates
  <2>3. UNCHANGED ThisList!seqVars
    BY <1>1, <2>2 DEF ThisList!seqVars
  <2>4. QED
    BY <2>2, <2>3 DEF GoodList
<1>9. ASSUME ListTypeNext
      PROVE  type' = type /\ GoodList' /\ (ThisList!Next \/ UNCHANGED ThisList!seqVars)
  <2>1. it # NULL
    BY <1>9 DEF ListTypeNext
  <2>2. PICK i \in Int : StandsAt(i)
    BY <1>1, <2>1
  <2>3. GoodListObject' /\ type' = type /\ ListItems' = ListItems /\ ret' = ret /\ \E j \in Int : StandsAt(j)'
    BY <1>1, <1>9, <2>2, ListNextIs
  <2>4. UNCHANGED ThisList!seqVars
    BY <1>1, <2>3 DEF ThisList!seqVars
  <2>5. QED
    BY <2>3, <2>4 DEF GoodList
<1>10. ASSUME ListTypeDelete
       PROVE  type' = type /\ GoodList' /\ (ThisList!Next \/ UNCHANGED ThisList!seqVars)
  <2>1. it # NULL
    BY <1>10 DEF ListTypeDelete
  <2>2. PICK i \in Int : StandsAt(i)
    BY <1>1, <2>1
  <2>3. /\ GoodListObject' /\ type' = type /\ \E j \in Int : StandsAt(j)'
        /\ \E k \in 1 .. Len(ListItems) : ListItems' = Without(ListItems, k) /\ ret' = <<"delete", k>>
    BY <1>1, <1>10, <2>2, ListDeleteIs
  <2>4. PICK k \in 1 .. Len(ListItems) : ListItems' = Without(ListItems, k) /\ ret' = <<"delete", k>>
    BY <2>3
  <2>5. ThisList!Delete(k)
    BY <1>1, <2>3, <2>4 DEF ThisList!Delete, ThisList!RemoveAt, Without
  <2>6. ThisList!Next
    BY <1>1, <1>2, <2>5 DEF ThisList!Next
  <2>7. QED
    BY <2>3, <2>6 DEF GoodList
<1>11. ASSUME ReleaseIterator
       PROVE  type' = type /\ GoodList' /\ (ThisList!Next \/ UNCHANGED ThisList!seqVars)
  <2>1. SameObject /\ it' = NULL /\ ret' = ret
    BY <1>11 DEF ReleaseIterator
  <2>2. GoodListObject' /\ type' = type /\ ListItems' = ListItems
    BY <1>1, <2>1, SameList
  <2>3. UNCHANGED ThisList!seqVars
    BY <1>1, <2>1, <2>2 DEF ThisList!seqVars
  <2>4. QED
    BY <2>1, <2>2, <2>3 DEF GoodList
<1>12. ASSUME NEW v \in ListValues, ListTypeEqual(v)
       PROVE  type' = type /\ GoodList' /\ (ThisList!Next \/ UNCHANGED ThisList!seqVars)
  <2>1. it # NULL
    BY <1>12 DEF ListTypeEqual
  <2>2. PICK i \in Int : StandsAt(i)
    BY <1>1, <2>1
  <2>3. /\ SameObject /\ it' = it /\ due' = due
        /\ \E k \in 1 .. Len(ListItems) : ret' = <<"equal", k, v, ListItems[k] = v>>
    BY <1>1, <1>12, <2>2, ListEqualIs
  <2>4. PICK k \in 1 .. Len(ListItems) : ret' = <<"equal", k, v, ListItems[k] = v>>
    BY <2>3
  <2>5. GoodListObject' /\ ListItems' = ListItems /\ type' = type /\ encoding' = encoding /\ ptr' = ptr
    BY <1>1, <2>3, SameList
  <2>6. ThisList!Equal(k, v)
    BY <1>1, <2>4, <2>5 DEF ThisList!Equal
  <2>7. ThisList!Next
    BY <1>1, <1>2, <2>6 DEF ThisList!Next
  <2>8. StandsAt(i)'
    BY <1>1, <2>2, <2>3, <2>5, StandsStill
  <2>9. QED
    BY <2>5, <2>7, <2>8 DEF GoodList
<1>13. QED
  BY <1>1, <1>4, <1>5, <1>6, <1>7, <1>8, <1>9, <1>10, <1>11, <1>12 DEF ListNext

----------------------------------------------------------------------------
\* All types together.

ZiplistInv == type \in {"set", "list", "hash", "zset"} /\ Encoded /\ GoodList /\ GoodHash /\ GoodZSet

LEMMA ObjectsInitially ==
  ASSUME Init
  PROVE  ZiplistInv /\ ThisList!Init
<1>1. Encoded
  BY SetInitially DEF SetInv
<1>2. GoodZiplist(ZiplistNew)
  BY NewZiplistIs
<1>3. it = NULL /\ ret = <<>> /\ Create
  BY DEF Init
<1>4. type = "list" => GoodListObject /\ ListItems = <<>>
  <2>1. SUFFICES ASSUME type = "list"
                 PROVE  GoodListObject /\ ListItems = <<>>
    OBVIOUS
  <2>2. encoding = "ziplist" /\ ptr = ZiplistNew
    BY <1>3, <2>1 DEF Create, CreateZiplistObject
  <2>3. Values(ZiplistNew) = <<>>
    BY DEF Values, ZiplistNew
  <2>4. QED
    BY <1>2, <2>2, <2>3 DEF GoodListObject, ListItems
<1>5. GoodList
  BY <1>3, <1>4 DEF GoodList
<1>6. Paired(ZiplistNew)
  <2>1. Len(ZiplistNew.entries) = 2 * 0
    BY NewZiplistIs
  <2>2. QED
    BY <2>1 DEF Paired
<1>7. GoodHash
  BY <1>2, <1>3, <1>6 DEF GoodHash, Create, CreateHashObject
<1>8. [o \in Objs |-> NULL] \in ScoreMap
  BY DEF ScoreMap
<1>9. GoodZSet
  BY <1>2, <1>3, <1>6, <1>8 DEF GoodZSet, Create, CreateZsetObject
<1>10. ThisList!Init
  BY <1>3, <1>4 DEF ThisList!Init
<1>11. type \in {"set", "list", "hash", "zset"}
  BY <1>3 DEF Create
<1>12. QED
  BY <1>1, <1>5, <1>7, <1>9, <1>10, <1>11 DEF ZiplistInv

LEMMA ObjectsStep ==
  ASSUME ZiplistInv, SetInv, Next
  PROVE  ZiplistInv' /\ (ThisList!Next \/ UNCHANGED ThisList!seqVars)
<1>1. Encoded /\ GoodList /\ GoodHash /\ GoodZSet /\ Intact'
  BY DEF ZiplistInv, Next
<1>2. Encoded'
  BY SetStep, OthersStep DEF Next, Calls, SetInv
<1>3. CASE ListNext
  <2>1. type = "list" /\ type' = type /\ GoodList' /\ (ThisList!Next \/ UNCHANGED ThisList!seqVars)
    BY <1>1, <1>3, ListKeeps
  <2>2. QED
    BY <1>2, <2>1 DEF ZiplistInv, GoodHash, GoodZSet
<1>4. CASE HashNext
  <2>1. type = "hash" /\ type' = type
    BY <1>1, <1>4, HashStep
  <2>2. GoodHash'
    BY <1>1, <1>4, HashKeeps
  <2>3. QED
    BY <1>2, <2>1, <2>2 DEF ZiplistInv, GoodList, GoodZSet, ThisList!seqVars
<1>5. CASE ZSetNext
  <2>1. type = "zset" /\ type' = type
    BY <1>1, <1>5, ZSetStep
  <2>2. GoodZSet'
    BY <1>1, <1>5, ZSetKeeps
  <2>3. QED
    BY <1>2, <2>1, <2>2 DEF ZiplistInv, GoodList, GoodHash, ThisList!seqVars
<1>6. CASE SetNext
  <2>1. type = "set" /\ type' = type
    BY <1>6, SetStep DEF SetNext
  <2>2. QED
    BY <1>2, <2>1 DEF ZiplistInv, GoodList, GoodHash, GoodZSet, ThisList!seqVars
<1>7. QED
  BY <1>3, <1>4, <1>5, <1>6 DEF Next, Calls

LEMMA ZiplistInvHolds == Spec => []ZiplistInv
<1>1. Init => ZiplistInv
  BY ObjectsInitially
<1>2. ZiplistInv /\ SetInv /\ [Next]_vars => ZiplistInv'
  <2>1. ASSUME ZiplistInv, SetInv, Next
        PROVE  ZiplistInv'
    BY <2>1, ObjectsStep
  <2>2. ASSUME ZiplistInv, UNCHANGED vars
        PROVE  ZiplistInv'
    <3>1. type' = type /\ encoding' = encoding /\ ptr' = ptr /\ it' = it /\ due' = due
      BY <2>2 DEF vars
    <3>2. Encoded' /\ GoodHash' /\ GoodZSet'
      BY <2>2, <3>1 DEF ZiplistInv, Encoded, GoodHash, GoodZSet
    <3>3. GoodList'
      <4>1. CASE type # "list"
        BY <3>1, <4>1 DEF GoodList
      <4>2. CASE type = "list"
        <5>1. GoodListObject /\ (it # NULL => \E i \in Int : StandsAt(i))
          BY <2>2, <4>2 DEF ZiplistInv, GoodList
        <5>2. GoodListObject' /\ ListItems' = ListItems
          BY <3>1, <5>1, SameList DEF SameObject
        <5>3. \A i \in Int : StandsAt(i) => StandsAt(i)'
          BY <3>1, <5>1, <5>2, StandsStill
        <5>4. QED
          BY <3>1, <5>1, <5>2, <5>3 DEF GoodList
      <4>3. QED
        BY <4>1, <4>2
    <3>4. QED
      BY <2>2, <3>1, <3>2, <3>3 DEF ZiplistInv
  <2>3. QED
    BY <2>1, <2>2
<1>3. QED
  BY <1>1, <1>2, SetInvHolds, PTL DEF Spec

\* Header and entries of every ziplist agree after every call on a list, a hash
\* or a sorted set: after an insertion or a deletion, whatever __ziplistCascadeUpdate
\* has to widen, and after a conversion (xmzplist.c).
THEOREM ZiplistsAlwaysWellFormed == Spec => []ZiplistsWellFormed
<1>1. ZiplistInv => ZiplistsWellFormed
  BY DEF ZiplistInv, Encoded, GoodList, GoodListObject, GoodHash, GoodZSet, GoodZiplist, ZiplistsWellFormed
<1>2. QED
  BY <1>1, ZiplistInvHolds, PTL

\* A list object is a sequence of values: every call of xmt_list.h does to its
\* elements, and returns, what ValueSeq says, for both encodings, through the
\* conversion and in the middle of an iteration.  The clients do not read the tail
\* of an emptied linked list (TailUsable), which is a freed node.
THEOREM ListImplementsList == Spec => ImplementsList
<1>1. Init => ThisList!Init
  BY ObjectsInitially
<1>2. ZiplistInv /\ SetInv /\ [Next]_vars => [ThisList!Next]_(ThisList!seqVars)
  <2>1. ASSUME ZiplistInv, SetInv, Next
        PROVE  [ThisList!Next]_(ThisList!seqVars)
    BY <2>1, ObjectsStep
  <2>2. ASSUME UNCHANGED vars
        PROVE  UNCHANGED ThisList!seqVars
    BY <2>2 DEF vars, ThisList!seqVars, ListItems
  <2>3. QED
    BY <2>1, <2>2
<1>3. QED
  BY <1>1, <1>2, ZiplistInvHolds, SetInvHolds, PTL DEF Spec, ImplementsList, ThisList!Spec

----------------------------------------------------------------------------
\* The pairs of a hash as a sequence and as a dict.

IsOdd(k) == k % 2 = 1

\* At odd places the fields, all different, each followed by its value.
FieldsOnce(s) ==
  /\ \A k \in 1 .. Len(s) : IsOdd(k) => k + 1 \in 1 .. Len(s) /\ s[k] \in HashFields /\ s[k + 1] \in HashValues
  /\ \A j, k \in 1 .. Len(s) : IsOdd(j) /\ IsOdd(k) /\ s[j] = s[k] => j = k

FieldMap == [HashFields -> HashValues \cup {NULL}]

\* m gives every field of s its value, and NULL to all others.
IsMapOf(m, s) ==
  /\ m \in FieldMap
  /\ \A k \in 1 .. Len(s) : IsOdd(k) => m[s[k]] = s[k + 1]
  /\ \A f \in HashFields : m[f] # NULL => \E k \in 1 .. Len(s) : IsOdd(k) /\ s[k] = f

LEMMA OddNext ==
  /\ \A k \in Int : IsOdd(k) => ~IsOdd(k + 1) /\ ~IsOdd(k - 1) /\ IsOdd(k + 2) /\ IsOdd(k - 2)
  /\ \A k \in Int : ~IsOdd(k) => IsOdd(k + 1) /\ IsOdd(k - 1) /\ ~IsOdd(k + 2)
  /\ IsOdd(1) /\ ~IsOdd(0)
BY DEF IsOdd

\* Strings are no null pointers.
LEMMA HashNulls ==
  NULL \notin HashValues /\ HashFields \subseteq Value /\ HashValues \subseteq Value
BY HashTypeAssumption, ObjectsAssumption

\* There is only one such map.
LEMMA MapIsUnique ==
  ASSUME NEW s, NEW m, NEW n, IsMapOf(m, s), IsMapOf(n, s)
  PROVE  m = n
<1>1. m \in FieldMap /\ n \in FieldMap
  BY DEF IsMapOf
<1>2. ASSUME NEW f \in HashFields
      PROVE  m[f] = n[f]
  <2>1. CASE \E k \in 1 .. Len(s) : IsOdd(k) /\ s[k] = f
    BY <2>1 DEF IsMapOf
  <2>2. CASE ~\E k \in 1 .. Len(s) : IsOdd(k) /\ s[k] = f
    BY <2>2 DEF IsMapOf
  <2>3. QED
    BY <2>1, <2>2
<1>3. QED
  BY <1>1, <1>2 DEF FieldMap

LEMMA FieldIsIn ==
  ASSUME NEW s, NEW m, FieldsOnce(s), IsMapOf(m, s), NEW f \in HashFields
  PROVE  m[f] # NULL <=> \E k \in 1 .. Len(s) : IsOdd(k) /\ s[k] = f
BY HashNulls DEF FieldsOnce, IsMapOf

\* The value of a field is replaced.
LEMMA ValueReplaced ==
  ASSUME NEW s \in Seq(Value), NEW t \in Seq(Value), NEW m, FieldsOnce(s), IsMapOf(m, s),
         NEW k \in 1 .. Len(s), IsOdd(k), NEW v \in HashValues, Len(t) = Len(s),
         \A j \in 1 .. Len(s) : t[j] = IF j = k + 1 THEN v ELSE s[j]
  PROVE  FieldsOnce(t) /\ IsMapOf([m EXCEPT ![s[k]] = v], t)
<1> DEFINE r == [m EXCEPT ![s[k]] = v]
           n == Len(s)
<1>1. n \in Nat /\ k \in Nat /\ k + 1 \in 1 .. n /\ s[k] \in HashFields
  BY DEF FieldsOnce
<1>2. \A j \in 1 .. n : IsOdd(j) => j # k + 1 /\ t[j] = s[j] /\ j + 1 \in 1 .. n /\ (j + 1 = k + 1 <=> j = k)
                                    /\ t[j + 1] = IF j = k THEN v ELSE s[j + 1]
  <2> TAKE j \in 1 .. n
  <2> HAVE IsOdd(j)
  <2>1. j # k + 1 /\ j \in Int
    BY <1>1, OddNext
  <2>2. j + 1 \in 1 .. n
    BY DEF FieldsOnce
  <2>3. j + 1 = k + 1 <=> j = k
    BY <1>1
  <2>4. QED
    BY <2>1, <2>2, <2>3
<1>3. \A j \in 1 .. n : IsOdd(j) => s[j] \in HashFields /\ s[j + 1] \in HashValues /\ (s[j] = s[k] => j = k)
  BY DEF FieldsOnce
<1>4. FieldsOnce(t)
  <2>1. \A j \in 1 .. n : IsOdd(j) => j + 1 \in 1 .. n /\ t[j] \in HashFields /\ t[j + 1] \in HashValues
    BY <1>2, <1>3
  <2>2. \A i, j \in 1 .. n : IsOdd(i) /\ IsOdd(j) /\ t[i] = t[j] => i = j
    BY <1>2 DEF FieldsOnce
  <2>3. QED
    BY <2>1, <2>2 DEF FieldsOnce
<1>5. m \in FieldMap /\ r \in FieldMap /\ \A f \in HashFields : r[f] = IF f = s[k] THEN v ELSE m[f]
  BY <1>1 DEF IsMapOf, FieldMap
<1> HIDE DEF r, n
<1>6. \A j \in 1 .. n : IsOdd(j) => r[t[j]] = t[j + 1]
  <2> TAKE j \in 1 .. n
  <2> HAVE IsOdd(j)
  <2>1. m[s[j]] = s[j + 1]
    BY DEF IsMapOf, n
  <2>2. QED
    BY <1>2, <1>3, <1>5, <2>1
<1>7. \A f \in HashFields : r[f] # NULL => \E j \in 1 .. n : IsOdd(j) /\ t[j] = f
  <2> TAKE f \in HashFields
  <2> HAVE r[f] # NULL
  <2>1. CASE f = s[k]
    <3>1. k \in 1 .. n /\ IsOdd(k) /\ t[k] = s[k]
      BY <1>2 DEF n
    <3>2. QED
      BY <2>1, <3>1
  <2>2. CASE f # s[k]
    <3>1. PICK j \in 1 .. n : IsOdd(j) /\ s[j] = f
      BY <1>5, <2>2 DEF IsMapOf, n
    <3>2. QED
      BY <1>2, <3>1
  <2>3. QED
    BY <2>1, <2>2
<1>8. Len(t) = n
  BY DEF n
<1>9. IsMapOf(r, t)
  BY <1>5, <1>6, <1>7, <1>8 DEF IsMapOf
<1>10. QED
  BY <1>4, <1>9 DEF r

\* A new pair comes to the end.
LEMMA PairAdded ==
  ASSUME NEW s \in Seq(Value), NEW t \in Seq(Value), NEW m, FieldsOnce(s), IsMapOf(m, s),
         ~IsOdd(Len(s)), NEW f \in HashFields, m[f] = NULL, NEW v \in HashValues, Len(t) = Len(s) + 2,
         \A j \in 1 .. Len(s) : t[j] = s[j], t[Len(s) + 1] = f, t[Len(s) + 2] = v
  PROVE  FieldsOnce(t) /\ IsMapOf([m EXCEPT ![f] = v], t)
<1> DEFINE r == [m EXCEPT ![f] = v]
           n == Len(s)
<1>1. n \in Nat /\ n + 1 \in Int /\ n + 2 \in Int /\ n + 1 + 1 = n + 2
  OBVIOUS
<1>2. IsOdd(n + 1) /\ ~IsOdd(n + 2)
  <2>1. n \in Int /\ ~IsOdd(n)
    OBVIOUS
  <2> HIDE DEF n
  <2>2. QED
    BY <2>1, OddNext
<1>3. \A j \in 1 .. n + 2 : IsOdd(j) => j \in 1 .. n \/ j = n + 1
  <2> TAKE j \in 1 .. n + 2
  <2> HAVE IsOdd(j)
  <2>1. j # n + 2
    BY <1>2
  <2>2. QED
    BY <1>1, <2>1
<1>4. \A j \in 1 .. n : IsOdd(j) => /\ j + 1 \in 1 .. n /\ t[j] = s[j] /\ t[j + 1] = s[j + 1]
                                    /\ s[j] \in HashFields /\ s[j + 1] \in HashValues /\ s[j] # f
                                    /\ m[s[j]] = s[j + 1]
  <2> TAKE j \in 1 .. n
  <2> HAVE IsOdd(j)
  <2>1. j + 1 \in 1 .. n /\ s[j] \in HashFields /\ s[j + 1] \in HashValues
    BY DEF FieldsOnce
  <2>2. m[s[j]] = s[j + 1]
    BY DEF IsMapOf
  <2>3. s[j] # f
    BY <2>1, <2>2, HashNulls
  <2>4. QED
    BY <2>1, <2>2, <2>3
<1>5. m \in FieldMap /\ r \in FieldMap /\ \A g \in HashFields : r[g] = IF g = f THEN v ELSE m[g]
  BY DEF IsMapOf, FieldMap
<1>6. t[n + 1] = f /\ t[n + 1 + 1] = v /\ Len(t) = n + 2
  BY <1>1
<1>7. \A j \in 1 .. n : j \in 1 .. n + 2 /\ j + 1 \in 1 .. n + 2
  BY <1>1
<1>8. n + 1 \in 1 .. n + 2 /\ n + 1 + 1 \in 1 .. n + 2
  BY <1>1
<1>9. FieldsOnce(s) /\ IsMapOf(m, s) /\ Len(s) = n
  OBVIOUS
<1> HIDE DEF r, n
<1>10. FieldsOnce(t)
  <2>1. \A j \in 1 .. n + 2 : IsOdd(j) => j + 1 \in 1 .. n + 2 /\ t[j] \in HashFields /\ t[j + 1] \in HashValues
    BY <1>3, <1>4, <1>6, <1>7, <1>8
  <2>2. \A i, j \in 1 .. n : IsOdd(i) /\ IsOdd(j) /\ t[i] = t[j] => i = j
    BY <1>4, <1>9 DEF FieldsOnce
  <2>3. \A i, j \in 1 .. n + 2 : IsOdd(i) /\ IsOdd(j) /\ t[i] = t[j] => i = j
    <3> TAKE i, j \in 1 .. n + 2
    <3> HAVE IsOdd(i) /\ IsOdd(j) /\ t[i] = t[j]
    <3>1. (i \in 1 .. n \/ i = n + 1) /\ (j \in 1 .. n \/ j = n + 1)
      BY <1>3
    <3>2. ~(i \in 1 .. n /\ j = n + 1) /\ ~(j \in 1 .. n /\ i = n + 1)
      BY <1>4, <1>6
    <3>3. QED
      BY <2>2, <3>1, <3>2
  <2>4. QED
    BY <1>6, <2>1, <2>3 DEF FieldsOnce
<1>11. \A j \in 1 .. n + 2 : IsOdd(j) => r[t[j]] = t[j + 1]
  <2> TAKE j \in 1 .. n + 2
  <2> HAVE IsOdd(j)
  <2>1. CASE j \in 1 .. n
    BY <1>4, <1>5, <2>1
  <2>2. CASE j = n + 1
    BY <1>5, <1>6, <2>2
  <2>3. QED
    BY <1>3, <2>1, <2>2
<1>12. \A g \in HashFields : r[g] # NULL => \E j \in 1 .. n + 2 : IsOdd(j) /\ t[j] = g
  <2> TAKE g \in HashFields
  <2> HAVE r[g] # NULL
  <2>1. CASE g = f
    BY <1>2, <1>6, <1>8, <2>1
  <2>2. CASE g # f
    <3>1. PICK j \in 1 .. n : IsOdd(j) /\ s[j] = g
      BY <1>5, <1>9, <2>2 DEF IsMapOf
    <3>2. QED
      BY <1>4, <1>7, <3>1
  <2>3. QED
    BY <2>1, <2>2
<1>13. IsMapOf(r, t)
  BY <1>5, <1>6, <1>11, <1>12 DEF IsMapOf
<1>14. QED
  BY <1>10, <1>13 DEF r

\* A pair leaves.
LEMMA PairRemoved ==
  ASSUME NEW s \in Seq(Value), NEW t \in Seq(Value), NEW m, FieldsOnce(s), IsMapOf(m, s),
         NEW k \in 1 .. Len(s), IsOdd(k), Len(t) = Len(s) - 2,
         \A j \in 1 .. Len(s) - 2 : t[j] = IF j < k THEN s[j] ELSE s[j + 2]
  PROVE  FieldsOnce(t) /\ IsMapOf([m EXCEPT ![s[k]] = NULL], t)
<1> DEFINE r == [m EXCEPT ![s[k]] = NULL]
           n == Len(s)
           old(j) == IF j < k THEN j ELSE j + 2
<1>1. n \in Nat /\ k \in Nat /\ k + 1 \in 1 .. n /\ s[k] \in HashFields
  BY DEF FieldsOnce
<1>2. \A j \in 1 .. n - 2 : IsOdd(j) =>
        /\ j + 1 \in 1 .. n - 2
        /\ old(j) \in 1 .. n /\ IsOdd(old(j)) /\ old(j) # k /\ t[j] = s[old(j)] /\ t[j + 1] = s[old(j) + 1]
  <2> TAKE j \in 1 .. n - 2
  <2> HAVE IsOdd(j)
  <2>1. j \in Int /\ old(j) \in 1 .. n /\ old(j) # k
    BY <1>1
  <2>2. IsOdd(old(j))
    BY <2>1, OddNext
  <2>3. old(j) + 1 \in 1 .. n /\ j + 1 # k
    <3>1. ~IsOdd(j + 1)
      BY <2>1, OddNext
    <3> HIDE DEF old
    <3>2. QED
      BY <2>1, <2>2, <3>1 DEF FieldsOnce
  <2>4. j + 1 \in 1 .. n - 2
    BY <1>1, <2>1, <2>3
  <2>5. t[j + 1] = s[old(j) + 1]
    BY <1>1, <2>3, <2>4
  <2>6. QED
    BY <2>1, <2>2, <2>4, <2>5
<1>3. \A i \in 1 .. n : IsOdd(i) /\ i # k => \E j \in 1 .. n - 2 : IsOdd(j) /\ old(j) = i
  <2> TAKE i \in 1 .. n
  <2> HAVE IsOdd(i) /\ i # k
  <2>1. CASE i < k
    <3>1. i \in 1 .. n - 2 /\ old(i) = i
      <4>1. i # k - 1
        BY <1>1, OddNext
      <4>2. QED
        BY <1>1, <2>1, <4>1
    <3>2. QED
      BY <3>1
  <2>2. CASE i > k
    <3>1. i - 2 \in 1 .. n - 2 /\ ~(i - 2 < k) /\ old(i - 2) = i /\ IsOdd(i - 2)
      <4>1. i # k + 1
        BY <1>1, OddNext
      <4>2. QED
        BY <1>1, <2>2, <4>1, OddNext
    <3>2. QED
      BY <3>1
  <2>3. QED
    BY <1>1, <2>1, <2>2
<1>4. \A i, j \in 1 .. n - 2 : old(i) = old(j) => i = j
  BY <1>1
<1>5. \A j \in 1 .. n : IsOdd(j) => /\ j + 1 \in 1 .. n /\ s[j] \in HashFields /\ s[j + 1] \in HashValues
                                    /\ (s[j] = s[k] => j = k) /\ m[s[j]] = s[j + 1]
  BY DEF FieldsOnce, IsMapOf
<1>6. \A i, j \in 1 .. n : IsOdd(i) /\ IsOdd(j) /\ s[i] = s[j] => i = j
  BY DEF FieldsOnce
<1>7. m \in FieldMap /\ r \in FieldMap /\ \A f \in HashFields : r[f] = IF f = s[k] THEN NULL ELSE m[f]
  BY <1>1 DEF IsMapOf, FieldMap
<1>8. \A f \in HashFields : m[f] # NULL => \E j \in 1 .. n : IsOdd(j) /\ s[j] = f
  BY DEF IsMapOf
<1>9. Len(t) = n - 2
  OBVIOUS
<1> HIDE DEF r, n, old
<1>10. FieldsOnce(t)
  <2>1. \A j \in 1 .. n - 2 : IsOdd(j) => j + 1 \in 1 .. n - 2 /\ t[j] \in HashFields /\ t[j + 1] \in HashValues
    BY <1>2, <1>5
  <2>2. \A i, j \in 1 .. n - 2 : IsOdd(i) /\ IsOdd(j) /\ t[i] = t[j] => i = j
    BY <1>2, <1>4, <1>6
  <2>3. QED
    BY <1>9, <2>1, <2>2 DEF FieldsOnce
<1>11. \A j \in 1 .. n - 2 : IsOdd(j) => r[t[j]] = t[j + 1]
  <2> TAKE j \in 1 .. n - 2
  <2> HAVE IsOdd(j)
  <2>1. old(j) \in 1 .. n /\ IsOdd(old(j)) /\ old(j) # k /\ t[j] = s[old(j)] /\ t[j + 1] = s[old(j) + 1]
    BY <1>2
  <2>2. s[old(j)] \in HashFields /\ s[old(j)] # s[k] /\ m[s[old(j)]] = s[old(j) + 1]
    BY <1>5, <2>1
  <2>3. r[s[old(j)]] = m[s[old(j)]]
    BY <1>7, <2>2
  <2>4. QED
    BY <2>1, <2>2, <2>3
<1>12. \A f \in HashFields : r[f] # NULL => \E j \in 1 .. n - 2 : IsOdd(j) /\ t[j] = f
  <2> TAKE f \in HashFields
  <2> HAVE r[f] # NULL
  <2>1. PICK i \in 1 .. n : IsOdd(i) /\ s[i] = f
    BY <1>7, <1>8
  <2>2. i # k
    BY <1>7, <2>1
  <2>3. PICK j \in 1 .. n - 2 : IsOdd(j) /\ old(j) = i
    BY <1>3, <2>1, <2>2
  <2>4. t[j] = f
    BY <1>2, <2>1, <2>3
  <2>5. QED
    BY <2>3, <2>4
<1>13. IsMapOf(r, t)
  BY <1>7, <1>9, <1>11, <1>12 DEF IsMapOf
<1>14. QED
  BY <1>10, <1>13 DEF r
----------------------------------------------------------------------------
\* The ziplist of a hash.

LEMMA PairsAreMap ==
  ASSUME NEW zl, GoodZiplist(zl), FieldsOnce(Values(zl))
  PROVE  IsMapOf(PairsAsDict(zl), Values(zl))
<1> DEFINE n == Len(zl.entries)
           s == Values(zl)
           at(f) == {k \in DOMAIN zl.entries : k % 2 = 1 /\ zl.entries[k].val = f}
           value(f) == IF at(f) = {} THEN NULL ELSE zl.entries[Min(at(f)) + 1].val
           m == PairsAsDict(zl)
<1>1. zl \in Ziplist /\ n \in Nat /\ DOMAIN zl.entries = 1 .. n
  BY EndsAre, EntriesAre
<1>2. Len(s) = n /\ \A k \in 1 .. n : s[k] = zl.entries[k].val
  BY ValuesAre
<1>3. m = [f \in HashFields |-> value(f)]
  BY DEF PairsAsDict
<1>4. \A f : at(f) = {k \in 1 .. n : IsOdd(k) /\ s[k] = f}
  BY <1>1, <1>2 DEF IsOdd
<1> HIDE DEF m, s, at
<1>5. \A k \in 1 .. n : IsOdd(k) => /\ k + 1 \in 1 .. n /\ s[k] \in HashFields /\ s[k + 1] \in HashValues
                                    /\ zl.entries[k + 1].val = s[k + 1]
  BY <1>2 DEF FieldsOnce, s
<1>6. \A k \in 1 .. n : IsOdd(k) => at(s[k]) = {k}
  <2>1. \A j, k \in 1 .. n : IsOdd(j) /\ IsOdd(k) /\ s[j] = s[k] => j = k
    BY <1>2 DEF FieldsOnce, s
  <2>2. QED
    BY <1>4, <2>1
<1>7. \A k \in 1 .. n : IsOdd(k) => value(s[k]) = s[k + 1]
  <2> TAKE k \in 1 .. n
  <2> HAVE IsOdd(k)
  <2>1. at(s[k]) = {k} /\ k \in Int
    BY <1>6
  <2>2. Min(at(s[k])) = k
    BY <2>1 DEF Min
  <2>3. QED
    BY <1>5, <2>1, <2>2
<1>8. \A f : value(f) # NULL => \E k \in 1 .. n : IsOdd(k) /\ s[k] = f
  BY <1>4
<1> HIDE DEF value
<1>9. \A f \in HashFields : value(f) \in HashValues \cup {NULL}
  BY <1>5, <1>7, <1>8
<1>10. m \in FieldMap /\ \A f \in HashFields : m[f] = value(f)
  BY <1>3, <1>9 DEF FieldMap
<1>11. IsMapOf(m, s)
  <2>1. \A k \in 1 .. n : IsOdd(k) => m[s[k]] = s[k + 1]
    BY <1>5, <1>7, <1>10
  <2>2. \A f \in HashFields : m[f] # NULL => \E k \in 1 .. n : IsOdd(k) /\ s[k] = f
    BY <1>8, <1>10
  <2>3. QED
    BY <1>2, <1>10, <2>1, <2>2 DEF IsMapOf
<1>12. QED
  BY <1>11 DEF m, s

\* The search for a field finds it, if it is there, and no value that is equal.
LEMMA FieldPtrFinds ==
  ASSUME NEW zl, GoodZiplist(zl), Paired(zl), FieldsOnce(Values(zl)), NEW m, IsMapOf(m, Values(zl)), NEW f \in HashFields
  PROVE  /\ FieldPtr(zl, f) = NULL <=> m[f] = NULL
         /\ m[f] # NULL =>
              \E k \in 1 .. Len(zl.entries) :
                /\ IsOdd(k) /\ k + 1 \in 1 .. Len(zl.entries) /\ Values(zl)[k] = f /\ Values(zl)[k + 1] = m[f]
                /\ FieldPtr(zl, f) = Offset(zl, k) /\ ZiplistNext(zl, FieldPtr(zl, f)) = Offset(zl, k + 1)
<1> DEFINE n == Len(zl.entries)
           s == Values(zl)
           hits == {j \in 1 .. n : (j - 1) % (1 + 1) = 0 /\ zl.entries[j].val = f}
           p == ZiplistFind(zl, Offset(zl, 1), f, 1)
<1>1. n \in Nat /\ Offset(zl, 1) # NULL
  BY EndsAre, AtOffset
<1>2. Len(s) = n /\ \A k \in 1 .. n : s[k] = zl.entries[k].val
  BY ValuesAre
<1>3. FieldPtr(zl, f) = IF 0 < n THEN p ELSE NULL
  <2>1. ZiplistIndex(zl, 0) = IF 0 < n THEN Offset(zl, 0 + 1) ELSE NULL
    BY IndexIs
  <2>2. QED
    BY <1>1, <2>1 DEF FieldPtr
<1>4. 1 \in 1 .. n + 1 /\ 1 \in Nat
  BY <1>1
<1>5. /\ hits = {} => p = NULL
      /\ hits # {} => \E j \in hits : p = Offset(zl, j)
  <2>1. FindsFirst(zl, 1, f, 1)
    BY <1>4, FoundIs
  <2>2. QED
    BY <2>1 DEF FindsFirst
<1> HIDE DEF p
<1>6. hits = {j \in 1 .. n : IsOdd(j) /\ s[j] = f}
  <2>1. \A j \in 1 .. n : (j - 1) % (1 + 1) = 0 <=> IsOdd(j)
    BY <1>1 DEF IsOdd
  <2> HIDE DEF s
  <2>2. QED
    BY <1>2, <2>1
<1>7. hits # {} <=> m[f] # NULL
  BY <1>2, <1>6, FieldIsIn
<1>8. hits # {} => 0 < n
  BY <1>1
<1> HIDE DEF hits, s
<1>9. ASSUME m[f] # NULL
      PROVE  \E k \in 1 .. n :
               /\ IsOdd(k) /\ k + 1 \in 1 .. n /\ s[k] = f /\ s[k + 1] = m[f]
               /\ FieldPtr(zl, f) = Offset(zl, k) /\ FieldPtr(zl, f) # NULL
               /\ ZiplistNext(zl, FieldPtr(zl, f)) = Offset(zl, k + 1)
  <2>1. PICK k \in hits : p = Offset(zl, k)
    BY <1>5, <1>7, <1>9
  <2>2. k \in 1 .. n /\ IsOdd(k) /\ s[k] = f /\ FieldPtr(zl, f) = Offset(zl, k)
    BY <1>3, <1>6, <1>7, <1>8, <1>9, <2>1
  <2>3. k + 1 \in 1 .. n
    BY <1>2, <2>2 DEF FieldsOnce, s
  <2>4. s[k + 1] = m[f]
    BY <1>2, <2>2 DEF IsMapOf, s
  <2>5. k \in 1 .. n + 1 /\ k < n
    BY <1>1, <2>2, <2>3
  <2>6. ZiplistNext(zl, Offset(zl, k)) = Offset(zl, k + 1) /\ Offset(zl, k) # NULL
    BY <2>5, NextIs, AtOffset
  <2>7. QED
    BY <2>2, <2>3, <2>4, <2>6
<1>10. m[f] = NULL => FieldPtr(zl, f) = NULL
  BY <1>3, <1>5, <1>7
<1>11. QED
  BY <1>9, <1>10 DEF s

\* An insertion counts the entry, also one that spoils another.
LEMMA InsertionCounts ==
  ASSUME NEW zl, GoodZiplist(zl), NEW k \in 1 .. Len(zl.entries) + 1, NEW v \in Value
  PROVE  ZiplistLen(ZiplistInsert(zl, Offset(zl, k), v)) = Len(zl.entries) + 1
<1> DEFINE n == Len(zl.entries)
           z == Opened(zl, k, v)
           r == ZiplistInsert(zl, Offset(zl, k), v)
<1>1. zl \in Ziplist /\ zl.bytes >= 2 /\ zl.tail >= 2 /\ n \in Nat /\ zl.length \in Nat
  BY GoodBounds, EndsAre, EntriesAre
<1>2. PrevlenAt(zl, k) \in Nat
  BY PrevlenAtIs
<1>3. z \in Ziplist /\ Len(z.entries) = n + 1 /\ z.length = IncrLength(zl, 1)
  BY <1>1, <1>2, OpenedIs
<1>4. r = IF NextDiff(zl, k, v) # 0 THEN Cascade(z, k + 1) ELSE z
  BY <1>1, InsertOpens
<1>5. NextDiff(zl, k, v) # 0 => k + 1 \in 1 .. n + 1
  <2>1. k = n + 1 => NextDiff(zl, k, v) = 0
    BY <1>1, <1>2, NextDiffIs
  <2>2. QED
    BY <1>1, <2>1
<1> HIDE DEF z, r
<1>6. Len(r.entries) = n + 1 /\ r.length = IncrLength(zl, 1)
  <2>1. CASE NextDiff(zl, k, v) = 0
    BY <1>3, <1>4, <2>1
  <2>2. CASE NextDiff(zl, k, v) # 0
    <3>1. r = Cascade(z, k + 1) /\ k + 1 \in 1 .. Len(z.entries)
      BY <1>3, <1>4, <1>5, <2>2
    <3>2. QED
      BY <1>3, <3>1, CascadeKeeps
  <2>3. QED
    BY <2>1, <2>2
<1>7. zl.length < UINT16_MAX => zl.length = n
  BY <1>1, GoodIs
<1>8. ZiplistLen(r) = n + 1
  BY <1>1, <1>6, <1>7, ZipListAssumption DEF ZiplistLen, IncrLength
<1>9. QED
  BY <1>8 DEF r

\* A field gets a value: the other pairs stay, unless the insertion spoils one.
LEMMA FieldSetIs ==
  ASSUME NEW zl, GoodZiplist(zl), Paired(zl), FieldsOnce(Values(zl)), NEW m, IsMapOf(m, Values(zl)),
         NEW f \in HashFields, NEW v \in HashValues
  PROVE  LET r == WithField(zl, f, v)
         IN \/ /\ GoodZiplist(r) /\ FieldsOnce(Values(r)) /\ IsMapOf([m EXCEPT ![f] = v], Values(r))
               /\ ZiplistLen(r) = Len(r.entries)
            \/ Spoilt(r) /\ ZiplistLen(r) = Len(zl.entries)
<1> DEFINE n == Len(zl.entries)
           s == Values(zl)
           fptr == FieldPtr(zl, f)
           vptr == ZiplistNext(zl, fptr)
           r == WithField(zl, f, v)
<1>1. n \in Nat /\ f \in Value /\ v \in Value
  BY EndsAre, HashNulls
<1>2. s \in Seq(Value) /\ Len(s) = n /\ \A j \in 1 .. n : s[j] = zl.entries[j].val
  BY ValuesAre
<1>3. CASE m[f] = NULL
  <2> DEFINE a == ZiplistPush(zl, f, ZIPLIST_TAIL)
             b == ZiplistPush(a, v, ZIPLIST_TAIL)
             t == Values(b)
  <2>1. r = b
    BY <1>3, FieldPtrFinds DEF WithField
  <2>2. /\ GoodZiplist(a) /\ Len(a.entries) = n + 1
        /\ \A j \in 1 .. n + 1 : a.entries[j].val = IF j < n + 1 THEN zl.entries[j].val ELSE IF j = n + 1 THEN f ELSE zl.entries[j - 1].val
    BY <1>1, AppendIs DEF InsertedIn
  <2> HIDE DEF a
  <2>3. n + 1 + 1 = n + 2
    BY <1>1
  <2>4. /\ GoodZiplist(b) /\ Len(b.entries) = n + 2
        /\ \A j \in 1 .. n + 2 : b.entries[j].val = IF j < n + 2 THEN a.entries[j].val ELSE IF j = n + 2 THEN v ELSE a.entries[j - 1].val
    <3>1. InsertedIn(b, a, n + 2, v)
      BY <1>1, <2>2, <2>3, AppendIs
    <3>2. QED
      BY <2>2, <2>3, <3>1 DEF InsertedIn
  <2> HIDE DEF b
  <2>5. t \in Seq(Value) /\ Len(t) = n + 2 /\ \A j \in 1 .. n + 2 : t[j] = b.entries[j].val
    BY <2>4, ValuesAre
  <2>6. \A j \in 1 .. n : j \in 1 .. n + 1 /\ j \in 1 .. n + 2 /\ j < n + 1 /\ j < n + 2
    BY <1>1
  <2>7. n + 1 \in 1 .. n + 1 /\ n + 1 \in 1 .. n + 2 /\ n + 2 \in 1 .. n + 2 /\ n + 1 < n + 2 /\ ~(n + 1 < n + 1) /\ ~(n + 2 < n + 2)
    BY <1>1
  <2> HIDE DEF t, s
  <2>8. (\A j \in 1 .. n : t[j] = s[j]) /\ t[n + 1] = f /\ t[n + 2] = v
    <3>1. ASSUME NEW j \in 1 .. n PROVE t[j] = s[j]
      <4>1. t[j] = a.entries[j].val
        BY <2>4, <2>5, <2>6
      <4>2. a.entries[j].val = zl.entries[j].val
        BY <2>2, <2>6
      <4>3. QED
        BY <1>2, <4>1, <4>2
    <3>2. t[n + 1] = a.entries[n + 1].val
      BY <2>4, <2>5, <2>7
    <3>3. a.entries[n + 1].val = f
      BY <2>2, <2>7
    <3>4. t[n + 2] = v
      BY <2>4, <2>5, <2>7
    <3>5. QED
      BY <3>1, <3>2, <3>3, <3>4
  <2>9. ~IsOdd(n)
    <3>1. PICK i \in Nat : n = 2 * i
      BY DEF Paired
    <3>2. QED
      BY <3>1 DEF IsOdd
  <2>10. FieldsOnce(s) /\ IsMapOf(m, s)
    BY DEF s
  <2> HIDE DEF n
  <2>11. FieldsOnce(t) /\ IsMapOf([m EXCEPT ![f] = v], t)
    BY <1>2, <1>3, <2>5, <2>8, <2>9, <2>10, PairAdded
  <2>12. ZiplistLen(b) = Len(b.entries)
    BY <2>4, LengthAgrees
  <2>13. QED
    BY <2>1, <2>4, <2>11, <2>12 DEF t
<1>4. CASE m[f] # NULL
  <2>1. PICK k \in 1 .. n : /\ IsOdd(k) /\ k + 1 \in 1 .. n /\ s[k] = f
                            /\ fptr = Offset(zl, k) /\ fptr # NULL /\ vptr = Offset(zl, k + 1)
    BY <1>4, FieldPtrFinds
  <2> DEFINE z == ZiplistDelete(zl, Offset(zl, k + 1))
             t == Values(r)
  <2>2. r = ZiplistInsert(z, Offset(zl, k + 1), v)
    BY <2>1 DEF WithField
  <2>3. /\ GoodZiplist(z) /\ Len(z.entries) = n - 1 /\ \A j \in 1 .. k + 1 : Offset(z, j) = Offset(zl, j)
        /\ \A j \in 1 .. n - 1 : z.entries[j].val = IF j < k + 1 THEN zl.entries[j].val ELSE zl.entries[j + 1].val
    BY <2>1, DeleteOne
  <2> HIDE DEF z, r, vptr, fptr
  <2>4. k + 1 \in 1 .. Len(z.entries) + 1 /\ Offset(z, k + 1) = Offset(zl, k + 1) /\ n - 1 + 1 = n
    BY <1>1, <2>1, <2>3
  <2>5. r = ZiplistInsert(z, Offset(z, k + 1), v)
    BY <2>2, <2>4
  <2>6. InsertedIn(r, z, k + 1, v) \/ Spoilt(r)
    BY <1>1, <2>3, <2>4, <2>5, InsertionIs
  <2>7. ZiplistLen(r) = n
    BY <1>1, <2>3, <2>4, <2>5, InsertionCounts
  <2>8. ASSUME InsertedIn(r, z, k + 1, v)
        PROVE  /\ GoodZiplist(r) /\ Len(r.entries) = n
               /\ FieldsOnce(t) /\ IsMapOf([m EXCEPT ![f] = v], t)
    <3>1. /\ GoodZiplist(r) /\ Len(r.entries) = n
          /\ \A j \in 1 .. n : r.entries[j].val = IF j < k + 1 THEN z.entries[j].val ELSE IF j = k + 1 THEN v ELSE z.entries[j - 1].val
      BY <2>3, <2>4, <2>8 DEF InsertedIn
    <3>2. t \in Seq(Value) /\ Len(t) = n /\ \A j \in 1 .. n : t[j] = r.entries[j].val
      BY <3>1, ValuesAre
    <3> HIDE DEF t, s
    <3>3. \A j \in 1 .. n : t[j] = IF j = k + 1 THEN v ELSE s[j]
      <4> TAKE j \in 1 .. n
      <4>1. CASE j < k + 1
        <5>1. j \in 1 .. n - 1 /\ j # k + 1
          BY <1>1, <2>1, <4>1
        <5>2. QED
          BY <1>2, <2>3, <3>1, <3>2, <4>1, <5>1
      <4>2. CASE j = k + 1
        BY <1>1, <3>1, <3>2, <4>2
      <4>3. CASE j > k + 1
        <5>1. j - 1 \in 1 .. n - 1 /\ ~(j < k + 1) /\ j # k + 1 /\ ~(j - 1 < k + 1) /\ j - 1 + 1 = j
          BY <1>1, <2>1, <4>3
        <5>2. r.entries[j].val = z.entries[j - 1].val /\ z.entries[j - 1].val = zl.entries[j - 1 + 1].val
          BY <2>3, <3>1, <5>1
        <5>3. QED
          BY <1>2, <3>2, <5>1, <5>2
      <4>4. QED
        BY <1>1, <4>1, <4>2, <4>3
    <3>4. FieldsOnce(s) /\ IsMapOf(m, s)
      BY DEF s
    <3> HIDE DEF n
    <3>5. FieldsOnce(t) /\ IsMapOf([m EXCEPT ![s[k]] = v], t)
      BY <1>2, <2>1, <3>2, <3>3, <3>4, ValueReplaced
    <3>6. QED
      BY <2>1, <3>1, <3>5
  <2>9. QED
    BY <2>6, <2>7, <2>8 DEF t, r
<1>5. QED
  BY <1>3, <1>4

\* A field leaves with its value.
LEMMA FieldDeletedIs ==
  ASSUME NEW zl, GoodZiplist(zl), Paired(zl), FieldsOnce(Values(zl)), NEW m, IsMapOf(m, Values(zl)),
         NEW f \in HashFields, m[f] # NULL
  PROVE  LET r == DeletedPair(zl, FieldPtr(zl, f))
         IN /\ GoodZiplist(r) /\ FieldsOnce(Values(r)) /\ IsMapOf([m EXCEPT ![f] = NULL], Values(r))
            /\ Len(r.entries) = Len(zl.entries) - 2
<1> DEFINE n == Len(zl.entries)
           s == Values(zl)
           p == FieldPtr(zl, f)
<1>1. n \in Nat
  BY EndsAre
<1>2. s \in Seq(Value) /\ Len(s) = n /\ \A j \in 1 .. n : s[j] = zl.entries[j].val
  BY ValuesAre
<1>3. PICK k \in 1 .. n : IsOdd(k) /\ k + 1 \in 1 .. n /\ s[k] = f /\ p = Offset(zl, k)
  BY FieldPtrFinds
<1> DEFINE a == ZiplistDelete(zl, p)
           b == ZiplistDelete(a, p)
           t == Values(b)
<1>4. DeletedPair(zl, p) = b
  BY DEF DeletedPair
<1> HIDE DEF p
<1>5. /\ GoodZiplist(a) /\ Len(a.entries) = n - 1 /\ \A j \in 1 .. k : Offset(a, j) = Offset(zl, j)
      /\ \A j \in 1 .. n - 1 : a.entries[j].val = IF j < k THEN zl.entries[j].val ELSE zl.entries[j + 1].val
  <2>1. a = ZiplistDelete(zl, Offset(zl, k))
    BY <1>3
  <2> HIDE DEF a
  <2>2. QED
    BY <2>1, DeleteOne
<1> HIDE DEF a
<1>6. k \in 1 .. Len(a.entries) /\ p = Offset(a, k) /\ n - 1 - 1 = n - 2
  BY <1>1, <1>3, <1>5
<1>7. /\ GoodZiplist(b) /\ Len(b.entries) = n - 2
      /\ \A j \in 1 .. n - 2 : b.entries[j].val = IF j < k THEN a.entries[j].val ELSE a.entries[j + 1].val
  <2>1. /\ GoodZiplist(b) /\ Len(b.entries) = Len(a.entries) - 1
        /\ \A j \in 1 .. Len(a.entries) - 1 : b.entries[j].val = IF j < k THEN a.entries[j].val ELSE a.entries[j + 1].val
    BY <1>5, <1>6, DeleteOne
  <2>2. QED
    BY <1>5, <1>6, <2>1
<1> HIDE DEF b
<1>8. t \in Seq(Value) /\ Len(t) = n - 2 /\ \A j \in 1 .. n - 2 : t[j] = b.entries[j].val
  BY <1>7, ValuesAre
<1> HIDE DEF t, s
<1>9. \A j \in 1 .. n - 2 : t[j] = IF j < k THEN s[j] ELSE s[j + 2]
  <2> TAKE j \in 1 .. n - 2
  <2>1. j \in 1 .. n - 1 /\ j + 1 \in 1 .. n - 1 /\ j \in 1 .. n /\ j + 2 \in 1 .. n /\ j + 1 + 1 = j + 2
    BY <1>1
  <2>2. CASE j < k
    BY <1>2, <1>5, <1>7, <1>8, <2>1, <2>2
  <2>3. CASE ~(j < k)
    <3>1. ~(j + 1 < k)
      BY <1>1, <2>3
    <3>2. QED
      BY <1>2, <1>5, <1>7, <1>8, <2>1, <2>3, <3>1
  <2>4. QED
    BY <2>2, <2>3
<1>10. FieldsOnce(s) /\ IsMapOf(m, s)
  BY DEF s
<1>11. FieldsOnce(t) /\ IsMapOf([m EXCEPT ![s[k]] = NULL], t)
  <2> HIDE DEF n
  <2>1. QED
    BY <1>2, <1>3, <1>8, <1>9, <1>10, PairRemoved
<1>12. QED
  BY <1>3, <1>4, <1>7, <1>11 DEF t, p
----------------------------------------------------------------------------
\* The calls on a hash.

\* The pairs from place i on.
PairsFrom(s, i) == {<<s[k], s[k + 1]>> : k \in {j \in i .. Len(s) : IsOdd(j)}}

\* An iterator over a ziplist has the pair at i before it.
PairsStandAt(i) ==
  /\ i \in 1 .. Len(ptr.entries) + 1 /\ IsOdd(i)
  /\ due = PairsFrom(Values(ptr), i)
  /\ \/ it.fptr = NULL /\ i = 1
     \/ it.fptr # NULL /\ i # 1 /\ it.vptr = Offset(ptr, i - 1)
  /\ it.end => i = Len(ptr.entries) + 1

HashIteratorInv ==
  it # NULL =>
    /\ it = [encoding |-> encoding, fptr |-> it.fptr, vptr |-> it.vptr, end |-> it.end]
    /\ encoding = "ziplist" => \E i \in Int : PairsStandAt(i)
    /\ encoding = "ht" => due \in SUBSET (HashFields \X HashValues) /\ (it.end => due = {})

HashMapInv ==
  /\ encoding = "ziplist" => FieldsOnce(Values(ptr)) /\ Len(ptr.entries) \div 2 <= hash_max_ziplist_entries
  /\ encoding = "ht" => ptr \in FieldMap

GoodFields == type = "hash" => HashMapInv /\ HashIteratorInv

LEMMA HashMapIs ==
  ASSUME type = "hash", GoodHash, HashMapInv
  PROVE  /\ HashMap \in FieldMap
         /\ encoding = "ziplist" => IsMapOf(HashMap, Values(ptr)) /\ GoodZiplist(ptr) /\ Paired(ptr) /\ FieldsOnce(Values(ptr))
         /\ encoding # "ziplist" => encoding = "ht" /\ HashMap = ptr
<1>1. CASE encoding = "ziplist"
  <2>1. GoodZiplist(ptr) /\ Paired(ptr) /\ FieldsOnce(Values(ptr))
    BY <1>1 DEF GoodHash, HashMapInv
  <2>2. IsMapOf(HashMap, Values(ptr))
    BY <1>1, <2>1, PairsAreMap DEF HashMap
  <2>3. QED
    BY <1>1, <2>1, <2>2 DEF IsMapOf
<1>2. CASE encoding # "ziplist"
  BY <1>2 DEF GoodHash, HashMapInv, HashMap
<1>3. QED
  BY <1>1, <1>2

LEMMA BecomesPairs ==
  ASSUME NEW zl, Become("ziplist", zl), GoodZiplist(zl), FieldsOnce(Values(zl)), NEW m, IsMapOf(m, Values(zl)),
         Len(zl.entries) \div 2 <= hash_max_ziplist_entries
  PROVE  HashMapInv' /\ HashMap' = m
<1>1. encoding' = "ziplist" /\ ptr' = zl
  BY DEF Become
<1>2. HashMapInv'
  BY <1>1 DEF HashMapInv
<1>3. IsMapOf(PairsAsDict(zl), Values(zl))
  BY PairsAreMap
<1>4. PairsAsDict(zl) = m
  BY <1>3, MapIsUnique
<1>5. QED
  BY <1>1, <1>2, <1>4 DEF HashMap

LEMMA BecomesMap ==
  ASSUME NEW m \in FieldMap, Become("ht", m)
  PROVE  HashMapInv' /\ HashMap' = m
BY DEF Become, HashMapInv, HashMap

LEMMA SameHash ==
  ASSUME SameObject, HashMapInv
  PROVE  HashMapInv' /\ HashMap' = HashMap
BY DEF SameObject, HashMapInv, HashMap

\* A count that is stored changes nothing else.
LEMMA HashRecounted ==
  ASSUME NEW zl, GoodZiplist(zl), FieldsOnce(Values(zl)), NEW m, IsMapOf(m, Values(zl))
  PROVE  LET r == Recounted(zl)
         IN /\ GoodZiplist(r) /\ FieldsOnce(Values(r)) /\ IsMapOf(m, Values(r)) /\ Len(r.entries) = Len(zl.entries)
            /\ Values(r) = Values(zl) /\ \A k \in 1 .. Len(zl.entries) + 1 : Offset(r, k) = Offset(zl, k)
BY RecountedValues

LEMMA ConversionIs ==
  ASSUME type = "hash", GoodHash, HashMapInv, NEW v, HashTypeTryConversion(v)
  PROVE  HashMapInv' /\ HashMap' = HashMap /\ type' = type /\ it' = NULL /\ ret' = ret
<1>1. it' = NULL /\ ret' = ret
  BY DEF HashTypeTryConversion, NoIterator
<1>2. CASE SameObject
  BY <1>1, <1>2, SameHash DEF SameObject
<1>3. CASE ~SameObject
  <2>1. encoding = "ziplist" /\ Become("ht", PairsAsDict(ptr))
    BY <1>3 DEF HashTypeTryConversion
  <2>2. HashMap = PairsAsDict(ptr) /\ HashMap \in FieldMap
    BY <2>1, HashMapIs DEF HashMap
  <2>3. HashMapInv' /\ HashMap' = HashMap
    BY <2>1, <2>2, BecomesMap
  <2>4. type' = type
    BY <2>1 DEF Become
  <2>5. QED
    BY <1>1, <2>3, <2>4
<1>4. QED
  BY <1>2, <1>3

LEMMA HalfIs ==
  ASSUME NEW n \in Nat, NEW max \in Nat
  PROVE  n \div 2 > max <=> ~(n \div 2 <= max)
OBVIOUS

\* hashTypeSet: the map gets the pair, also when the call converts the hash.  An
\* update does not make a ziplist longer, so that one it spoils is not converted.
LEMMA HashSetIs ==
  ASSUME type = "hash", GoodHash, HashMapInv, NEW f \in HashFields, NEW v \in HashValues, HashTypeSet(f, v), Intact'
  PROVE  /\ HashMapInv' /\ HashMap' = [HashMap EXCEPT ![f] = v] /\ type' = type /\ it' = NULL
         /\ ret' = <<"set", f, v, IF HashMap[f] = NULL THEN 0 ELSE 1>>
<1> DEFINE r == WithField(ptr, f, v)
           x == IF encoding = "ht" THEN ptr[f] ELSE FieldPtr(ptr, f)
<1>1. it' = NULL /\ ret' = <<"set", f, v, IF x = NULL THEN 0 ELSE 1>>
  BY DEF HashTypeSet, NoIterator
<1>2. HashMap \in FieldMap /\ [HashMap EXCEPT ![f] = v] \in FieldMap
  BY HashMapIs DEF FieldMap
<1>3. CASE encoding = "ht"
  <2>1. HashMap = ptr
    BY <1>3 DEF HashMap
  <2>2. Become("ht", [HashMap EXCEPT ![f] = v])
    BY <1>3, <2>1 DEF HashTypeSet
  <2>3. HashMapInv' /\ HashMap' = [HashMap EXCEPT ![f] = v]
    BY <1>2, <2>2, BecomesMap
  <2>4. x = HashMap[f]
    BY <1>3, <2>1
  <2>5. QED
    BY <1>1, <2>2, <2>3, <2>4 DEF Become
<1>4. CASE encoding # "ht"
  <2>1. encoding = "ziplist"
    BY <1>4, HashMapIs
  <2>2. IsMapOf(HashMap, Values(ptr)) /\ GoodZiplist(ptr) /\ Paired(ptr) /\ FieldsOnce(Values(ptr))
    BY <2>1, HashMapIs
  <2>3. x = NULL <=> HashMap[f] = NULL
    BY <1>4, <2>2, FieldPtrFinds
  <2>4. \/ ZiplistLen(r) \div 2 > hash_max_ziplist_entries /\ Become("ht", PairsAsDict(r))
        \/ ~(ZiplistLen(r) \div 2 > hash_max_ziplist_entries) /\ Become("ziplist", Recounted(r))
    BY <2>1 DEF HashTypeSet
  <2>5. \/ /\ GoodZiplist(r) /\ FieldsOnce(Values(r)) /\ IsMapOf([HashMap EXCEPT ![f] = v], Values(r))
           /\ ZiplistLen(r) = Len(r.entries)
        \/ Spoilt(r) /\ ZiplistLen(r) = Len(ptr.entries)
    BY <2>2, FieldSetIs
  <2>6. Len(ptr.entries) \in Nat /\ Len(ptr.entries) \div 2 <= hash_max_ziplist_entries
    BY <2>1, <2>2, EndsAre DEF HashMapInv
  <2> HIDE DEF r, x
  <2> DEFINE m == [HashMap EXCEPT ![f] = v]
  <2>7. CASE Spoilt(r) /\ ZiplistLen(r) = Len(ptr.entries)
    <3>1. ~(ZiplistLen(r) \div 2 > hash_max_ziplist_entries)
      BY <2>6, <2>7, HalfIs, HashTypeAssumption
    <3>2. encoding' = "ziplist" /\ ptr' = Recounted(r)
      BY <2>4, <3>1 DEF Become
    <3>3. Ruined(Recounted(r))
      BY <2>7, SpoiltIsRuined
    <3>4. QED
      BY <3>2, <3>3, NotRuined
  <2>8. CASE /\ GoodZiplist(r) /\ FieldsOnce(Values(r)) /\ IsMapOf(m, Values(r))
             /\ ZiplistLen(r) = Len(r.entries)
    <3>1. CASE ZiplistLen(r) \div 2 > hash_max_ziplist_entries
      <4>1. Become("ht", PairsAsDict(r))
        BY <2>4, <3>1
      <4>2. PairsAsDict(r) = m
        BY <2>8, PairsAreMap, MapIsUnique
      <4> HIDE DEF m
      <4>3. HashMapInv' /\ HashMap' = m
        BY <1>2, <4>1, <4>2, BecomesMap DEF m
      <4>4. QED
        BY <1>1, <2>3, <4>1, <4>3 DEF Become, m
    <3>2. CASE ~(ZiplistLen(r) \div 2 > hash_max_ziplist_entries)
      <4> DEFINE z == Recounted(r)
      <4>1. Become("ziplist", z)
        BY <2>4, <3>2
      <4>2. GoodZiplist(z) /\ FieldsOnce(Values(z)) /\ IsMapOf(m, Values(z)) /\ Len(z.entries) = Len(r.entries)
        BY <2>8, HashRecounted
      <4>3. Len(z.entries) \div 2 <= hash_max_ziplist_entries
        <5>1. Len(r.entries) \in Nat
          BY <2>8, EndsAre
        <5>2. ~(Len(r.entries) \div 2 > hash_max_ziplist_entries)
          BY <2>8, <3>2
        <5>3. Len(r.entries) \div 2 <= hash_max_ziplist_entries
          BY <5>1, <5>2, HalfIs, HashTypeAssumption
        <5>4. QED
          BY <4>2, <5>3
      <4> HIDE DEF m, z
      <4>4. HashMapInv' /\ HashMap' = m
        BY <4>1, <4>2, <4>3, BecomesPairs
      <4>5. QED
        BY <1>1, <2>3, <4>1, <4>4 DEF Become, m
    <3>3. QED
      BY <3>1, <3>2
  <2>9. QED
    BY <2>5, <2>7, <2>8
<1>5. QED
  BY <1>3, <1>4

\* hashTypeDelete
LEMMA HashDeleteIs ==
  ASSUME type = "hash", GoodHash, HashMapInv, NEW f \in HashFields, HashTypeDelete(f)
  PROVE  /\ HashMapInv' /\ HashMap' = [HashMap EXCEPT ![f] = NULL] /\ type' = type /\ it' = NULL
         /\ ret' = <<"delete", f, IF HashMap[f] = NULL THEN 0 ELSE 1>>
<1> DEFINE fptr == FieldPtr(ptr, f)
           m == [HashMap EXCEPT ![f] = NULL]
<1>1. it' = NULL
  BY DEF HashTypeDelete, NoIterator
<1>2. HashMap \in FieldMap /\ m \in FieldMap /\ (HashMap[f] = NULL => m = HashMap)
  BY HashMapIs DEF FieldMap
<1>3. CASE encoding = "ht"
  <2>1. HashMap = ptr
    BY <1>3 DEF HashMap
  <2>2. Become("ht", m) /\ ret' = <<"delete", f, IF ptr[f] = NULL THEN 0 ELSE 1>>
    BY <1>3, <2>1 DEF HashTypeDelete
  <2> HIDE DEF m
  <2>3. HashMapInv' /\ HashMap' = m
    BY <1>2, <2>2, BecomesMap
  <2>4. QED
    BY <1>1, <2>1, <2>2, <2>3 DEF Become, m
<1>4. CASE encoding # "ht"
  <2>1. encoding = "ziplist"
    BY <1>4, HashMapIs
  <2>2. IsMapOf(HashMap, Values(ptr)) /\ GoodZiplist(ptr) /\ Paired(ptr) /\ FieldsOnce(Values(ptr))
    BY <2>1, HashMapIs
  <2>3. fptr = NULL <=> HashMap[f] = NULL
    BY <2>2, FieldPtrFinds
  <2>4. /\ Become("ziplist", IF fptr = NULL THEN ptr ELSE DeletedPair(ptr, fptr))
        /\ ret' = <<"delete", f, IF fptr = NULL THEN 0 ELSE 1>>
    BY <2>1 DEF HashTypeDelete
  <2>5. Len(ptr.entries) \in Nat /\ Len(ptr.entries) \div 2 <= hash_max_ziplist_entries
    BY <2>1, <2>2, EndsAre DEF HashMapInv
  <2>6. CASE HashMap[f] = NULL
    <3>1. Become("ziplist", ptr)
      BY <2>3, <2>4, <2>6
    <3>2. HashMapInv' /\ HashMap' = HashMap
      BY <2>2, <2>5, <3>1, BecomesPairs
    <3>3. QED
      BY <1>1, <1>2, <2>3, <2>4, <2>6, <3>1, <3>2 DEF Become
  <2>7. CASE HashMap[f] # NULL
    <3> DEFINE r == DeletedPair(ptr, fptr)
    <3>1. Become("ziplist", r)
      BY <2>3, <2>4, <2>7
    <3>2. /\ GoodZiplist(r) /\ FieldsOnce(Values(r)) /\ IsMapOf(m, Values(r))
          /\ Len(r.entries) = Len(ptr.entries) - 2
      BY <2>2, <2>7, FieldDeletedIs
    <3> HIDE DEF r, fptr, m
    <3>3. Len(r.entries) \div 2 <= hash_max_ziplist_entries
      <4>1. Len(r.entries) \in Nat
        BY <3>2, EndsAre
      <4>2. ASSUME NEW a \in Nat, NEW b \in Nat, a = b - 2, NEW max \in Nat, b \div 2 <= max
            PROVE  a \div 2 <= max
        BY <4>2
      <4>3. QED
        BY <2>5, <3>2, <4>1, <4>2, HashTypeAssumption
    <3>4. HashMapInv' /\ HashMap' = m
      BY <3>1, <3>2, <3>3, BecomesPairs
    <3>5. QED
      BY <1>1, <2>3, <2>4, <2>7, <3>1, <3>4 DEF Become, m
  <2>8. QED
    BY <2>6, <2>7
<1>5. QED
  BY <1>3, <1>4

\* hashTypeGetObject
LEMMA HashGetIs ==
  ASSUME type = "hash", GoodHash, HashMapInv, NEW f \in HashFields
  PROVE  Got(f) = HashMap[f]
<1>1. CASE encoding = "ht"
  BY <1>1 DEF Got, HashMap
<1>2. CASE encoding # "ht"
  <2>1. encoding = "ziplist"
    BY <1>2, HashMapIs
  <2>2. IsMapOf(HashMap, Values(ptr)) /\ GoodZiplist(ptr) /\ Paired(ptr) /\ FieldsOnce(Values(ptr))
    BY <2>1, HashMapIs
  <2>3. Got(f) = IF FieldPtr(ptr, f) = NULL THEN NULL ELSE ZiplistGet(ptr, ZiplistNext(ptr, FieldPtr(ptr, f)))
    BY <1>2 DEF Got
  <2>4. CASE HashMap[f] = NULL
    BY <2>2, <2>3, <2>4, FieldPtrFinds
  <2>5. CASE HashMap[f] # NULL
    <3>1. FieldPtr(ptr, f) # NULL
      BY <2>2, <2>5, FieldPtrFinds
    <3>2. PICK k \in 1 .. Len(ptr.entries) :
            /\ k + 1 \in 1 .. Len(ptr.entries) /\ Values(ptr)[k + 1] = HashMap[f]
            /\ ZiplistNext(ptr, FieldPtr(ptr, f)) = Offset(ptr, k + 1)
      BY <2>2, <2>5, FieldPtrFinds
    <3>3. Len(ptr.entries) \in Nat /\ k + 1 \in 1 .. Len(ptr.entries) + 1
      BY <2>2, <3>2, EndsAre
    <3>4. ZiplistGet(ptr, Offset(ptr, k + 1)) = ptr.entries[k + 1].val
      BY <2>2, <3>2, <3>3, GetIs
    <3>5. ptr.entries[k + 1].val = Values(ptr)[k + 1]
      BY <2>2, <3>2, ValuesAre
    <3>6. QED
      BY <2>3, <3>1, <3>2, <3>4, <3>5
  <2>6. QED
    BY <2>4, <2>5
<1>3. QED
  BY <1>1, <1>2

\* hashTypeLength
LEMMA HashLengthIs ==
  ASSUME type = "hash", GoodHash, HashMapInv, HashTypeLength
  PROVE  /\ HashMapInv' /\ HashMap' = HashMap /\ type' = type /\ it' = it /\ due' = due /\ ret' = ret /\ encoding' = encoding
         /\ encoding = "ziplist" =>
              /\ Values(ptr') = Values(ptr) /\ Len(ptr'.entries) = Len(ptr.entries)
              /\ \A k \in 1 .. Len(ptr.entries) + 1 : Offset(ptr', k) = Offset(ptr, k)
<1>1. it' = it /\ due' = due /\ ret' = ret
  BY DEF HashTypeLength
<1>2. CASE encoding = "ziplist"
  <2> DEFINE r == Recounted(ptr)
  <2>1. IsMapOf(HashMap, Values(ptr)) /\ GoodZiplist(ptr) /\ Paired(ptr) /\ FieldsOnce(Values(ptr))
    BY <1>2, HashMapIs
  <2>2. Become("ziplist", r)
    BY <1>2 DEF HashTypeLength
  <2>3. /\ GoodZiplist(r) /\ FieldsOnce(Values(r)) /\ IsMapOf(HashMap, Values(r)) /\ Len(r.entries) = Len(ptr.entries)
        /\ Values(r) = Values(ptr) /\ \A k \in 1 .. Len(ptr.entries) + 1 : Offset(r, k) = Offset(ptr, k)
    BY <2>1, HashRecounted
  <2> HIDE DEF r
  <2>4. Len(r.entries) \div 2 <= hash_max_ziplist_entries
    BY <1>2, <2>3 DEF HashMapInv
  <2>5. HashMapInv' /\ HashMap' = HashMap
    BY <2>2, <2>3, <2>4, BecomesPairs
  <2>6. type' = type /\ encoding' = encoding /\ ptr' = r
    BY <1>2, <2>2 DEF Become
  <2>7. QED
    BY <1>1, <2>3, <2>5, <2>6
<1>3. CASE encoding # "ziplist"
  <2>1. SameObject
    BY <1>3 DEF HashTypeLength
  <2>2. QED
    BY <1>1, <1>3, <2>1, SameHash DEF SameObject
<1>4. QED
  BY <1>2, <1>3

----------------------------------------------------------------------------
\* Iterations over a hash.

LEMMA PairsFromAre ==
  ASSUME NEW s \in Seq(Value), FieldsOnce(s), NEW i \in Int, i >= 1, IsOdd(i)
  PROVE  /\ i <= Len(s) => /\ <<s[i], s[i + 1]>> \in PairsFrom(s, i)
                           /\ PairsFrom(s, i) \ {<<s[i], s[i + 1]>>} = PairsFrom(s, i + 2)
         /\ i > Len(s) => PairsFrom(s, i) = {}
         /\ PairsFrom(s, i) \in SUBSET (HashFields \X HashValues)
<1> DEFINE n == Len(s)
<1>1. n \in Nat
  OBVIOUS
<1>2. \A k \in 1 .. n : IsOdd(k) => k + 1 \in 1 .. n /\ s[k] \in HashFields /\ s[k + 1] \in HashValues
  BY DEF FieldsOnce
<1>3. \A j, k \in 1 .. n : IsOdd(j) /\ IsOdd(k) /\ s[j] = s[k] => j = k
  BY DEF FieldsOnce
<1>4. i > n => i .. n = {}
  BY <1>1
<1>5. \A k \in i .. n : k \in 1 .. n
  BY <1>1
<1>6. i <= n => i \in i .. n /\ i \in 1 .. n
  BY <1>1
<1>7. \A k \in i .. n : IsOdd(k) => k = i \/ k \in i + 2 .. n
  <2> TAKE k \in i .. n
  <2> HAVE IsOdd(k)
  <2>1. k # i + 1
    BY OddNext
  <2>2. QED
    BY <1>1, <2>1
<1>8. \A k \in i + 2 .. n : k \in i .. n /\ k # i
  BY <1>1
<1> DEFINE pair(k) == <<s[k], s[k + 1]>>
<1>9. \A j : PairsFrom(s, j) = {pair(k) : k \in {l \in j .. n : IsOdd(l)}}
  BY DEF PairsFrom
<1>10. \A j, k \in 1 .. n : IsOdd(j) /\ IsOdd(k) /\ pair(j) = pair(k) => j = k
  BY <1>3
<1>11. \A k \in 1 .. n : IsOdd(k) => pair(k) \in HashFields \X HashValues
  BY <1>2
<1> HIDE DEF n, pair
<1>12. i <= n => pair(i) \in PairsFrom(s, i) /\ PairsFrom(s, i) \ {pair(i)} = PairsFrom(s, i + 2)
  <2> HAVE i <= n
  <2>1. pair(i) \in PairsFrom(s, i)
    BY <1>6, <1>9
  <2>2. \A x \in PairsFrom(s, i) \ {pair(i)} : x \in PairsFrom(s, i + 2)
    BY <1>7, <1>9
  <2>3. \A x \in PairsFrom(s, i + 2) : x \in PairsFrom(s, i) /\ x # pair(i)
    BY <1>5, <1>6, <1>8, <1>9, <1>10
  <2>4. QED
    BY <2>1, <2>2, <2>3
<1>13. i > n => PairsFrom(s, i) = {}
  BY <1>4, <1>9
<1>14. PairsFrom(s, i) \in SUBSET (HashFields \X HashValues)
  BY <1>5, <1>9, <1>11
<1>15. QED
  BY <1>12, <1>13, <1>14 DEF n, pair

\* What an iteration has to return at its begin.
LEMMA AllPairs ==
  ASSUME type = "hash", GoodHash, HashMapInv
  PROVE  /\ HashPairs \in SUBSET (HashFields \X HashValues)
         /\ encoding = "ziplist" => HashPairs = PairsFrom(Values(ptr), 1)
<1>1. HashMap \in FieldMap
  BY HashMapIs
<1>2. HashPairs \in SUBSET (HashFields \X HashValues)
  BY <1>1 DEF HashPairs, FieldMap
<1>3. ASSUME encoding = "ziplist"
      PROVE  HashPairs = PairsFrom(Values(ptr), 1)
  <2> DEFINE s == Values(ptr)
             m == HashMap
  <2>1. IsMapOf(m, s) /\ FieldsOnce(s)
    BY <1>3, HashMapIs
  <2> HIDE DEF s, m
  <2>2. \A k \in 1 .. Len(s) : IsOdd(k) => s[k] \in HashFields /\ m[s[k]] = s[k + 1] /\ m[s[k]] # NULL
    BY <2>1, HashNulls DEF IsMapOf, FieldsOnce
  <2>3. \A f \in HashFields : m[f] # NULL => \E k \in 1 .. Len(s) : IsOdd(k) /\ s[k] = f
    BY <2>1 DEF IsMapOf
  <2>4. HashPairs = {<<f, m[f]>> : f \in {g \in HashFields : m[g] # NULL}}
    BY DEF HashPairs, m
  <2>5. PairsFrom(s, 1) = {<<s[k], s[k + 1]>> : k \in {j \in 1 .. Len(s) : IsOdd(j)}}
    BY DEF PairsFrom
  <2>6. \A x \in HashPairs : x \in PairsFrom(s, 1)
    BY <2>2, <2>3, <2>4, <2>5
  <2>7. \A x \in PairsFrom(s, 1) : x \in HashPairs
    BY <2>2, <2>4, <2>5
  <2>8. QED
    BY <2>6, <2>7 DEF s
<1>4. QED
  BY <1>2, <1>3

LEMMA HashIteratorMoves ==
  ASSUME it = [encoding |-> encoding, fptr |-> it.fptr, vptr |-> it.vptr, end |-> it.end], NEW p, NEW q
  PROVE  /\ [it EXCEPT !.fptr = p, !.vptr = q] = [encoding |-> encoding, fptr |-> p, vptr |-> q, end |-> it.end]
         /\ [it EXCEPT !.end = p] = [encoding |-> encoding, fptr |-> it.fptr, vptr |-> it.vptr, end |-> p]
<1> DEFINE a == it.fptr
           b == it.vptr
           c == it.end
           y == [encoding |-> encoding, fptr |-> p, vptr |-> b, end |-> c]
<1>1. it = [encoding |-> encoding, fptr |-> a, vptr |-> b, end |-> c]
  OBVIOUS
<1> HIDE DEF a, b, c
<1>2. [it EXCEPT !.fptr = p] = y
  BY <1>1
<1>3. [y EXCEPT !.vptr = q] = [encoding |-> encoding, fptr |-> p, vptr |-> q, end |-> c]
  OBVIOUS
<1>4. [it EXCEPT !.fptr = p, !.vptr = q] = [[it EXCEPT !.fptr = p] EXCEPT !.vptr = q]
  BY <1>1
<1>5. [it EXCEPT !.end = p] = [encoding |-> encoding, fptr |-> a, vptr |-> b, end |-> p]
  BY <1>1
<1>6. QED
  BY <1>2, <1>3, <1>4, <1>5 DEF a, b, c

LEMMA HashIterates ==
  ASSUME type = "hash", GoodHash, HashMapInv, HashTypeInitIterator
  PROVE  HashIteratorInv'
<1> DEFINE x == [encoding |-> encoding, fptr |-> NULL, vptr |-> NULL, end |-> FALSE]
<1>1. it' = x /\ due' = HashPairs /\ encoding' = encoding /\ ptr' = ptr
  BY DEF HashTypeInitIterator, Iterate, SameObject
<1>2. x.encoding = encoding /\ x.fptr = NULL /\ x.vptr = NULL /\ x.end = FALSE
  OBVIOUS
<1>3. it' = [encoding |-> encoding', fptr |-> (it').fptr, vptr |-> (it').vptr, end |-> (it').end]
  BY <1>1
<1> HIDE DEF x
<1>4. ASSUME encoding' = "ziplist"
      PROVE  PairsStandAt(1)'
  <2>1. Len(ptr.entries) \in Nat /\ due' = PairsFrom(Values(ptr), 1)
    BY <1>1, <1>4, AllPairs, HashMapIs, EndsAre
  <2>2. 1 \in 1 .. Len(ptr.entries) + 1
    BY <2>1
  <2>3. QED
    BY <1>1, <1>2, <2>1, <2>2, OddNext DEF PairsStandAt
<1>5. encoding' = "ht" => due' \in SUBSET (HashFields \X HashValues) /\ ((it').end => due' = {})
  BY <1>1, <1>2, AllPairs
<1>6. QED
  BY <1>3, <1>4, <1>5 DEF HashIteratorInv

LEMMA HashNextIs ==
  ASSUME type = "hash", GoodHash, HashMapInv, HashIteratorInv, HashTypeNext
  PROVE  HashIteratorInv'
<1> DEFINE fptr == IF it.fptr = NULL THEN ZiplistIndex(ptr, 0) ELSE ZiplistNext(ptr, it.vptr)
           vptr == ZiplistNext(ptr, fptr)
           ends == UNCHANGED due /\ it' = [it EXCEPT !.end = TRUE]
           n == Len(ptr.entries)
           s == Values(ptr)
<1>1. it # NULL /\ ~it.end /\ encoding' = encoding /\ ptr' = ptr
  BY DEF HashTypeNext, SameObject
<1>2. it = [encoding |-> encoding, fptr |-> it.fptr, vptr |-> it.vptr, end |-> it.end]
  BY <1>1 DEF HashIteratorInv
<1>3. it.encoding = encoding
  BY <1>2
<1>4. CASE encoding = "ziplist"
  <2>1. PICK i \in Int : PairsStandAt(i)
    BY <1>1, <1>4 DEF HashIteratorInv
  <2>2. GoodZiplist(ptr) /\ Paired(ptr) /\ FieldsOnce(s) /\ n \in Nat
    BY <1>4, HashMapIs, EndsAre
  <2>3. i \in 1 .. n + 1 /\ IsOdd(i) /\ due = PairsFrom(s, i) /\ i >= 1
    BY <2>1, <2>2 DEF PairsStandAt
  <2>4. s \in Seq(Value) /\ Len(s) = n /\ \A k \in 1 .. n : s[k] = ptr.entries[k].val
    BY <2>2, ValuesAre
  <2>5. fptr = IF i <= n THEN Offset(ptr, i) ELSE NULL
    <3>1. CASE it.fptr = NULL /\ i = 1
      <4>1. ZiplistIndex(ptr, 0) = IF 0 < n THEN Offset(ptr, 0 + 1) ELSE NULL
        BY <2>2, IndexIs
      <4>2. QED
        BY <2>2, <3>1, <4>1
    <3>2. CASE it.fptr # NULL /\ i # 1 /\ it.vptr = Offset(ptr, i - 1)
      <4>1. i - 1 \in 1 .. n + 1 /\ (i - 1 < n <=> i <= n) /\ i - 1 + 1 = i
        BY <2>2, <2>3, <3>2
      <4>2. ZiplistNext(ptr, Offset(ptr, i - 1)) = IF i - 1 < n THEN Offset(ptr, i - 1 + 1) ELSE NULL
        BY <2>2, <4>1, NextIs
      <4>3. QED
        BY <3>2, <4>1, <4>2
    <3>3. QED
      BY <2>1, <3>1, <3>2 DEF PairsStandAt
  <2>6. Offset(ptr, i) # NULL
    BY <2>2, <2>3, AtOffset
  <2>7. IF fptr = NULL THEN ends
        ELSE /\ due' = DueInSet(<<ZiplistGet(ptr, fptr), ZiplistGet(ptr, vptr)>>)
             /\ it' = [it EXCEPT !.fptr = fptr, !.vptr = vptr]
    BY <1>3, <1>4 DEF HashTypeNext
  <2>8. CASE i <= n
    <3>1. i + 1 \in 1 .. n
      BY <2>2, <2>3, <2>4, <2>8 DEF FieldsOnce
    <3>2. i \in 1 .. n /\ i < n /\ i + 1 \in 1 .. n + 1 /\ i + 2 \in 1 .. n + 1 /\ i + 2 # 1 /\ i + 2 - 1 = i + 1
      BY <2>2, <2>3, <3>1
    <3>3. vptr = Offset(ptr, i + 1)
      BY <2>2, <2>3, <2>5, <2>8, <3>2, NextIs
    <3>4. ZiplistGet(ptr, fptr) = s[i] /\ ZiplistGet(ptr, vptr) = s[i + 1]
      <4>1. ZiplistGet(ptr, Offset(ptr, i)) = ptr.entries[i].val /\ ZiplistGet(ptr, Offset(ptr, i + 1)) = ptr.entries[i + 1].val
        BY <2>2, <2>3, <2>8, <3>1, <3>2, GetIs
      <4>2. QED
        BY <2>4, <2>5, <2>8, <3>1, <3>2, <3>3, <4>1
    <3>5. fptr = Offset(ptr, i) /\ fptr # NULL
      BY <2>5, <2>6, <2>8
    <3>6. due' = DueInSet(<<s[i], s[i + 1]>>) /\ it' = [it EXCEPT !.fptr = fptr, !.vptr = vptr]
      BY <2>7, <3>4, <3>5
    <3>7. IsOdd(i + 2)
      BY <2>3, OddNext
    <3> HIDE DEF fptr, vptr, s, n
    <3>8. due' = PairsFrom(s, i + 2)
      <4>1. <<s[i], s[i + 1]>> \in PairsFrom(s, i) /\ PairsFrom(s, i) \ {<<s[i], s[i + 1]>>} = PairsFrom(s, i + 2)
        BY <2>2, <2>3, <2>4, <2>8, PairsFromAre
      <4>2. QED
        BY <2>3, <3>6, <4>1 DEF DueInSet
    <3>9. it' = [encoding |-> encoding, fptr |-> fptr, vptr |-> vptr, end |-> it.end]
      BY <1>2, <3>6, HashIteratorMoves
    <3>10. (it').fptr = fptr /\ (it').vptr = vptr /\ (it').end = it.end
      BY <3>9
    <3>11. PairsStandAt(i + 2)'
      BY <1>1, <3>2, <3>3, <3>5, <3>7, <3>8, <3>10 DEF PairsStandAt, s, n
    <3>12. i + 2 \in Int
      BY <3>2
    <3>13. QED
      BY <1>1, <1>4, <3>9, <3>10, <3>11, <3>12 DEF HashIteratorInv
  <2>9. CASE ~(i <= n)
    <3>1. i = n + 1
      BY <2>2, <2>3, <2>9
    <3>2. due' = due /\ it' = [it EXCEPT !.end = TRUE]
      BY <2>5, <2>7, <2>9
    <3>3. it' = [encoding |-> encoding, fptr |-> it.fptr, vptr |-> it.vptr, end |-> TRUE]
      BY <1>2, <3>2, HashIteratorMoves
    <3>4. (it').fptr = it.fptr /\ (it').vptr = it.vptr
      BY <3>3
    <3>5. PairsStandAt(i)'
      BY <1>1, <2>1, <3>1, <3>2, <3>4 DEF PairsStandAt
    <3>6. QED
      BY <1>1, <1>4, <3>3, <3>4, <3>5 DEF HashIteratorInv
  <2>10. QED
    BY <2>8, <2>9
<1>5. CASE encoding # "ziplist"
  <2>1. encoding = "ht" /\ due \in SUBSET (HashFields \X HashValues)
    BY <1>1, <1>5, HashMapIs DEF HashIteratorInv
  <2>2. IF due = {} THEN ends ELSE \E x \in due : due' = DueInSet(x) /\ UNCHANGED it
    BY <1>3, <2>1 DEF HashTypeNext
  <2>3. CASE due = {}
    <3>1. due' = {} /\ it' = [it EXCEPT !.end = TRUE]
      BY <2>2, <2>3
    <3>2. it' = [encoding |-> encoding, fptr |-> it.fptr, vptr |-> it.vptr, end |-> TRUE]
      BY <1>2, <3>1, HashIteratorMoves
    <3>3. QED
      BY <1>1, <1>5, <3>1, <3>2 DEF HashIteratorInv
  <2>4. CASE due # {}
    <3>1. PICK x \in due : due' = DueInSet(x) /\ it' = it
      BY <2>2, <2>4
    <3>2. due' \in SUBSET (HashFields \X HashValues)
      BY <2>1, <3>1 DEF DueInSet
    <3>3. QED
      BY <1>1, <1>2, <1>5, <3>1, <3>2 DEF HashIteratorInv
  <2>5. QED
    BY <2>3, <2>4
<1>6. QED
  BY <1>4, <1>5

LEMMA HashIteratorStays ==
  ASSUME HashIteratorInv, it' = it, due' = due, encoding' = encoding, encoding \in {"ziplist", "ht"},
         encoding = "ziplist" => /\ Values(ptr') = Values(ptr) /\ Len(ptr'.entries) = Len(ptr.entries) /\ Len(ptr.entries) \in Nat
                                 /\ \A k \in 1 .. Len(ptr.entries) + 1 : Offset(ptr', k) = Offset(ptr, k)
  PROVE  HashIteratorInv'
<1>1. ASSUME it # NULL, encoding = "ziplist"
      PROVE  \E i \in Int : PairsStandAt(i)'
  <2>1. PICK i \in Int : PairsStandAt(i)
    BY <1>1 DEF HashIteratorInv
  <2>2. i # 1 => i - 1 \in 1 .. Len(ptr.entries) + 1
    BY <1>1, <2>1 DEF PairsStandAt
  <2>3. PairsStandAt(i)'
    BY <1>1, <2>1, <2>2 DEF PairsStandAt
  <2>4. QED
    BY <2>3
<1>2. QED
  BY <1>1 DEF HashIteratorInv

\* One step of a hash object, seen as a map.
LEMMA HashStepMaps ==
  ASSUME HashNext, GoodHash, GoodFields, Intact'
  PROVE  type = "hash" /\ type' = type /\ GoodFields' /\ [ThisHash!Next]_(ThisHash!mapVars)
<1>1. type = "hash" /\ HashMapInv /\ HashIteratorInv
  BY DEF HashNext, GoodFields
<1>2. HashMap \in FieldMap
  BY <1>1, HashMapIs
<1> DEFINE shown == IF type = "hash" THEN HashMap ELSE [f \in HashFields |-> NULL]
<1>3. shown = HashMap /\ (type' = type => shown' = HashMap')
  BY <1>1
<1>4. HashMap' = HashMap /\ HashRet' = HashRet /\ type' = type => UNCHANGED ThisHash!mapVars
  BY <1>3 DEF ThisHash!mapVars
<1>5. ASSUME it' = NULL
      PROVE  HashIteratorInv'
  BY <1>5 DEF HashIteratorInv
<1>6. ASSUME NEW v, HashTypeTryConversion(v)
      PROVE  type' = type /\ GoodFields' /\ UNCHANGED ThisHash!mapVars
  <2>1. HashMapInv' /\ HashMap' = HashMap /\ type' = type /\ it' = NULL /\ ret' = ret
    BY <1>1, <1>6, ConversionIs
  <2>2. HashRet' = HashRet
    BY <2>1 DEF HashRet
  <2>3. QED
    BY <1>3, <1>4, <1>5, <2>1, <2>2 DEF GoodFields
<1>7. ASSUME NEW f \in HashFields, NEW v \in HashValues, HashTypeSet(f, v)
      PROVE  type' = type /\ GoodFields' /\ ThisHash!Next
  <2>1. /\ HashMapInv' /\ HashMap' = [HashMap EXCEPT ![f] = v] /\ type' = type /\ it' = NULL
        /\ ret' = <<"set", f, v, IF HashMap[f] = NULL THEN 0 ELSE 1>>
    BY <1>1, <1>7, HashSetIs
  <2>2. HashRet' = <<"replace", f, v, IF HashMap[f] = NULL THEN 1 ELSE 0>>
    BY <1>1, <2>1 DEF HashRet
  <2>3. f \in ThisHash!Present <=> HashMap[f] # NULL
    BY <1>3 DEF ThisHash!Present
  <2>4. ThisHash!Replace(f, v)
    BY <1>3, <2>1, <2>2, <2>3 DEF ThisHash!Replace
  <2>5. QED
    BY <1>5, <2>1, <2>4 DEF GoodFields, ThisHash!Next
<1>8. ASSUME NEW f \in HashFields, HashTypeDelete(f)
      PROVE  type' = type /\ GoodFields' /\ ThisHash!Next
  <2>1. /\ HashMapInv' /\ HashMap' = [HashMap EXCEPT ![f] = NULL] /\ type' = type /\ it' = NULL
        /\ ret' = <<"delete", f, IF HashMap[f] = NULL THEN 0 ELSE 1>>
    BY <1>1, <1>8, HashDeleteIs
  <2>2. HashRet' = <<"delete", f, IF HashMap[f] = NULL THEN 1 ELSE 0>>
    BY <1>1, <2>1 DEF HashRet
  <2>3. f \in ThisHash!Present <=> HashMap[f] # NULL
    BY <1>3 DEF ThisHash!Present
  <2>4. ThisHash!Delete(f)
    BY <1>3, <2>1, <2>2, <2>3 DEF ThisHash!Delete
  <2>5. QED
    BY <1>5, <2>1, <2>4 DEF GoodFields, ThisHash!Next
<1>9. ASSUME SameObject
      PROVE  HashMapInv' /\ HashMap' = HashMap /\ type' = type
  BY <1>1, <1>9, SameHash DEF SameObject
<1>10. ASSUME NEW f \in HashFields, HashTypeGetObject(f)
       PROVE  type' = type /\ GoodFields' /\ ThisHash!Next
  <2>1. SameObject /\ it' = it /\ due' = due /\ ret' = <<"get", f, HashMap[f]>>
    BY <1>1, <1>10, HashGetIs DEF HashTypeGetObject
  <2>2. HashRet' = <<"fetch", f, HashMap[f]>>
    BY <1>1, <1>9, <2>1 DEF HashRet
  <2>3. ThisHash!Fetch(f)
    BY <1>3, <1>9, <2>1, <2>2 DEF ThisHash!Fetch
  <2>4. encoding \in {"ziplist", "ht"} /\ (encoding = "ziplist" => Len(ptr.entries) \in Nat)
    BY <1>1, HashMapIs, EndsAre
  <2>5. HashIteratorInv'
    BY <1>1, <2>1, <2>4, HashIteratorStays DEF SameObject
  <2>6. QED
    BY <1>9, <2>1, <2>3, <2>5 DEF GoodFields, ThisHash!Next
<1>11. ASSUME HashTypeLength
       PROVE  type' = type /\ GoodFields' /\ UNCHANGED ThisHash!mapVars
  <2>1. /\ HashMapInv' /\ HashMap' = HashMap /\ type' = type /\ it' = it /\ due' = due /\ ret' = ret /\ encoding' = encoding
        /\ encoding = "ziplist" =>
             /\ Values(ptr') = Values(ptr) /\ Len(ptr'.entries) = Len(ptr.entries)
             /\ \A k \in 1 .. Len(ptr.entries) + 1 : Offset(ptr', k) = Offset(ptr, k)
    BY <1>1, <1>11, HashLengthIs
  <2>2. encoding \in {"ziplist", "ht"} /\ (encoding = "ziplist" => Len(ptr.entries) \in Nat)
    BY <1>1, HashMapIs, EndsAre
  <2>3. HashIteratorInv'
    BY <1>1, <2>1, <2>2, HashIteratorStays
  <2>4. HashRet' = HashRet
    BY <2>1 DEF HashRet
  <2>5. QED
    BY <1>3, <1>4, <2>1, <2>3, <2>4 DEF GoodFields
<1>12. ASSUME HashTypeInitIterator \/ HashTypeNext \/ ReleaseIterator
       PROVE  type' = type /\ GoodFields' /\ UNCHANGED ThisHash!mapVars
  <2>1. SameObject /\ ret' = ret
    BY <1>12 DEF HashTypeInitIterator, HashTypeNext, ReleaseIterator, Iterate
  <2>2. HashMapInv' /\ HashMap' = HashMap /\ type' = type
    BY <1>9, <2>1
  <2>3. HashRet' = HashRet
    BY <2>1, <2>2 DEF HashRet
  <2>4. HashIteratorInv'
    BY <1>1, <1>5, <1>12, HashIterates, HashNextIs DEF ReleaseIterator
  <2>5. QED
    BY <1>4, <2>2, <2>3, <2>4 DEF GoodFields
<1>13. QED
  BY <1>1, <1>6, <1>7, <1>8, <1>10, <1>11, <1>12 DEF HashNext
----------------------------------------------------------------------------
\* Iterations over a set.

\* The integers of an intset from position i on.
ElementsFrom(is, i) == {Integer(IsGet(is, p)) : p \in i .. is.length - 1}

SetIteratorInv ==
  it # NULL =>
    /\ it = [encoding |-> encoding, ii |-> it.ii, end |-> it.end]
    /\ encoding = "intset" =>
         it.ii \in Nat /\ due = ElementsFrom(ptr, it.ii) /\ (it.end => it.ii >= ptr.length)
    /\ encoding = "ht" => due \in SUBSET SetValues /\ (it.end => due = {})

GoodIteration == type = "set" => SetElements \in SUBSET SetValues /\ SetIteratorInv

LEMMA ElementsFromAre ==
  ASSUME NEW is, GoodIntset(is), NEW i \in Nat
  PROVE  /\ i < is.length =>
              /\ IsGet(is, i) \in Int /\ Integer(IsGet(is, i)) \in ElementsFrom(is, i)
              /\ ElementsFrom(is, i) \ {Integer(IsGet(is, i))} = ElementsFrom(is, i + 1)
         /\ i >= is.length => ElementsFrom(is, i) = {}
         /\ ElementsFrom(is, i) \in SUBSET AsKeys(is)
         /\ ElementsFrom(is, 0) = AsKeys(is)
<1> DEFINE n == is.length
           x(p) == Integer(IsGet(is, p))
<1>1. n \in Nat /\ \A p \in 0 .. n - 1 : IsGet(is, p) \in Int
  BY GoodCells DEF GoodIntset
<1>2. \A p, q \in 0 .. n - 1 : p < q => IsGet(is, p) < IsGet(is, q)
  BY DEF GoodIntset
<1>3. \A p, q \in 0 .. n - 1 : x(p) = x(q) => p = q
  <2>1. SUFFICES ASSUME NEW p \in 0 .. n - 1, NEW q \in 0 .. n - 1, x(p) = x(q), p # q
                 PROVE  FALSE
    OBVIOUS
  <2>2. IsGet(is, p) = IsGet(is, q)
    <3>1. \A m : Integer(m).n = m
      BY DEF Integer
    <3>2. QED
      BY <2>1, <3>1
  <2>3. p < q \/ q < p
    BY <1>1, <2>1
  <2>4. QED
    BY <1>1, <1>2, <2>2, <2>3
<1>4. \A j : ElementsFrom(is, j) = {x(p) : p \in j .. n - 1}
  BY DEF ElementsFrom
<1>5. AsKeys(is) = {x(p) : p \in 0 .. n - 1}
  BY DEF AsKeys, Elements
<1>6. i < n => i \in 0 .. n - 1 /\ i \in i .. n - 1
  BY <1>1
<1>7. i >= n => i .. n - 1 = {}
  BY <1>1
<1>8. \A p \in i .. n - 1 : p \in 0 .. n - 1 /\ (p = i \/ p \in i + 1 .. n - 1)
  BY <1>1
<1>9. \A p \in i + 1 .. n - 1 : p \in i .. n - 1 /\ p # i
  BY <1>1
<1> HIDE DEF n, x
<1>10. i < n => ElementsFrom(is, i) \ {x(i)} = ElementsFrom(is, i + 1)
  <2> HAVE i < n
  <2>1. \A y \in ElementsFrom(is, i) \ {x(i)} : y \in ElementsFrom(is, i + 1)
    BY <1>4, <1>8
  <2>2. \A y \in ElementsFrom(is, i + 1) : y \in ElementsFrom(is, i) /\ y # x(i)
    BY <1>3, <1>4, <1>6, <1>8, <1>9
  <2>3. QED
    BY <2>1, <2>2
<1>11. i < n => x(i) \in ElementsFrom(is, i)
  BY <1>4, <1>6
<1>12. i >= n => ElementsFrom(is, i) = {}
  BY <1>4, <1>7
<1>13. ElementsFrom(is, i) \in SUBSET AsKeys(is) /\ ElementsFrom(is, 0) = AsKeys(is)
  BY <1>4, <1>5, <1>8
<1>14. i < n => IsGet(is, i) \in Int
  BY <1>1, <1>6
<1>15. QED
  BY <1>10, <1>11, <1>12, <1>13, <1>14 DEF n, x

LEMMA SetIteratorMoves ==
  ASSUME it = [encoding |-> encoding, ii |-> it.ii, end |-> it.end], NEW e
  PROVE  /\ [it EXCEPT !.ii = @ + 1] = [encoding |-> encoding, ii |-> it.ii + 1, end |-> it.end]
         /\ [it EXCEPT !.ii = @ + 1, !.end = e] = [encoding |-> encoding, ii |-> it.ii + 1, end |-> e]
<1> DEFINE a == it.ii
           b == it.end
           y == [encoding |-> encoding, ii |-> a + 1, end |-> b]
<1>1. it = [encoding |-> encoding, ii |-> a, end |-> b] /\ it.ii = a
  OBVIOUS
<1> HIDE DEF a, b
<1>2. [it EXCEPT !.ii = @ + 1] = y
  BY <1>1
<1>3. [y EXCEPT !.end = e] = [encoding |-> encoding, ii |-> a + 1, end |-> e]
  OBVIOUS
<1>4. [it EXCEPT !.ii = @ + 1, !.end = e] = [[it EXCEPT !.ii = @ + 1] EXCEPT !.end = e]
  BY <1>1
<1>5. QED
  BY <1>2, <1>3, <1>4 DEF a, b

LEMMA SetIterates ==
  ASSUME type = "set", SetInv, SetElements \in SUBSET SetValues, SetTypeInitIterator
  PROVE  SetIteratorInv'
<1> DEFINE x == [encoding |-> encoding, ii |-> 0, end |-> FALSE]
<1>1. it' = x /\ due' = SetElements /\ encoding' = encoding /\ ptr' = ptr
  BY DEF SetTypeInitIterator, Iterate, SameObject
<1>2. x.encoding = encoding /\ x.ii = 0 /\ x.end = FALSE
  OBVIOUS
<1>3. it' = [encoding |-> encoding', ii |-> (it').ii, end |-> (it').end]
  BY <1>1
<1> HIDE DEF x
<1>4. encoding = "intset" => due' = ElementsFrom(ptr, 0)
  BY <1>1, ElementsFromAre DEF SetInv, GoodSet, SetElements
<1>5. QED
  BY <1>1, <1>2, <1>3, <1>4 DEF SetIteratorInv

LEMMA SetNextIs ==
  ASSUME type = "set", SetInv, SetElements \in SUBSET SetValues, SetIteratorInv, SetTypeNext
  PROVE  SetIteratorInv'
<1> DEFINE n == IntsetGet(ptr, it.ii, NULL)
           returns(x) == due' = DueInSet(x) /\ it' = [it EXCEPT !.ii = @ + 1]
           ends == UNCHANGED due /\ it' = [it EXCEPT !.ii = @ + 1, !.end = TRUE]
<1>1. it # NULL /\ ~it.end /\ encoding' = encoding /\ ptr' = ptr
  BY DEF SetTypeNext, SameObject
<1>2. it = [encoding |-> encoding, ii |-> it.ii, end |-> it.end]
  BY <1>1 DEF SetIteratorInv
<1>3. it.encoding = encoding
  BY <1>2
<1>4. ASSUME NEW x, returns(x)
      PROVE  it' = [encoding |-> encoding', ii |-> it.ii + 1, end |-> it.end] /\ (it').ii = it.ii + 1 /\ (it').end = it.end
  <2>1. it' = [encoding |-> encoding', ii |-> it.ii + 1, end |-> it.end]
    BY <1>1, <1>2, <1>4, SetIteratorMoves
  <2>2. QED
    BY <2>1
<1>5. ASSUME ends
      PROVE  it' = [encoding |-> encoding', ii |-> it.ii + 1, end |-> TRUE] /\ (it').ii = it.ii + 1 /\ (it').end = TRUE
  <2>1. it' = [encoding |-> encoding', ii |-> it.ii + 1, end |-> TRUE]
    BY <1>1, <1>2, <1>5, SetIteratorMoves
  <2>2. QED
    BY <2>1
<1>6. CASE encoding = "intset"
  <2>1. GoodIntset(ptr) /\ it.ii \in Nat /\ due = ElementsFrom(ptr, it.ii) /\ ptr.length \in Nat
    BY <1>1, <1>6 DEF SetInv, GoodSet, SetIteratorInv, GoodIntset
  <2>2. IF n = NULL THEN ends ELSE returns(Integer(n))
    BY <1>3, <1>6 DEF SetTypeNext
  <2>3. it.ii + 1 \in Nat
    BY <2>1
  <2>4. CASE it.ii < ptr.length
    <3>1. n = IsGet(ptr, it.ii) /\ n \in Int /\ n # NULL
      BY <2>1, <2>4, ElementsFromAre, ZipListAssumption DEF IntsetGet
    <3>2. returns(Integer(n))
      BY <2>2, <3>1
    <3>3. Integer(n) \in due /\ due \ {Integer(n)} = ElementsFrom(ptr, it.ii + 1)
      BY <2>1, <2>4, <3>1, ElementsFromAre
    <3>4. due' = ElementsFrom(ptr, it.ii + 1)
      BY <3>2, <3>3 DEF DueInSet
    <3> HIDE DEF returns, n
    <3>5. it' = [encoding |-> encoding', ii |-> it.ii + 1, end |-> it.end] /\ (it').ii = it.ii + 1 /\ (it').end = it.end
      BY <1>4, <3>2
    <3>6. QED
      BY <1>1, <1>6, <2>3, <3>4, <3>5 DEF SetIteratorInv
  <2>5. CASE ~(it.ii < ptr.length)
    <3>1. n = NULL
      BY <2>5 DEF IntsetGet
    <3>2. ends
      BY <2>2, <3>1
    <3>3. it.ii >= ptr.length /\ it.ii + 1 >= ptr.length
      BY <2>1, <2>5
    <3>4. ElementsFrom(ptr, it.ii) = {} /\ ElementsFrom(ptr, it.ii + 1) = {}
      BY <2>1, <2>3, <3>3, ElementsFromAre
    <3>5. due' = ElementsFrom(ptr, it.ii + 1)
      BY <2>1, <3>2, <3>4
    <3> HIDE DEF ends, n
    <3>6. it' = [encoding |-> encoding', ii |-> it.ii + 1, end |-> TRUE] /\ (it').ii = it.ii + 1 /\ (it').end = TRUE
      BY <1>5, <3>2
    <3>7. QED
      BY <1>1, <1>6, <2>3, <3>3, <3>5, <3>6 DEF SetIteratorInv
  <2>6. QED
    BY <2>4, <2>5
<1>7. CASE encoding # "intset"
  <2>1. encoding = "ht" /\ due \in SUBSET SetValues
    BY <1>1, <1>7 DEF SetInv, Encoded, SetIteratorInv
  <2>2. IF due = {} THEN ends ELSE \E x \in due : returns(x)
    BY <1>3, <2>1 DEF SetTypeNext
  <2>3. CASE due = {}
    <3>1. ends /\ due' = {}
      BY <2>2, <2>3
    <3> HIDE DEF ends
    <3>2. QED
      BY <1>1, <1>5, <1>7, <3>1 DEF SetIteratorInv
  <2>4. CASE due # {}
    <3>1. PICK x \in due : returns(x)
      BY <2>2, <2>4
    <3>2. due' \in SUBSET SetValues
      BY <2>1, <3>1 DEF DueInSet
    <3>3. it.end = FALSE \/ ~it.end
      BY <1>1
    <3> HIDE DEF returns
    <3>4. QED
      BY <1>1, <1>4, <1>7, <3>1, <3>2 DEF SetIteratorInv
  <2>5. QED
    BY <2>3, <2>4
<1>8. QED
  BY <1>6, <1>7

LEMMA SetIterationKeeps ==
  ASSUME SetNext, SetInv, GoodIteration
  PROVE  type = "set" /\ type' = type /\ GoodIteration'
<1>1. type = "set" /\ SetElements \in SUBSET SetValues /\ SetIteratorInv
  BY DEF SetNext, GoodIteration
<1>2. type' = type
  BY SetStep
<1>3. ASSUME NEW v \in SetValues, SetTypeAdd(v) \/ SetTypeRemove(v)
      PROVE  GoodIteration'
  <2>1. it' = NULL
    BY <1>3 DEF SetTypeAdd, SetTypeRemove, NoIterator
  <2>2. SetElements' = SetElements \cup {v} \/ SetElements' = SetElements \ {v}
    BY <1>1, <1>3, AddStep, RemoveStep
  <2>3. QED
    BY <1>1, <2>1, <2>2 DEF GoodIteration, SetIteratorInv
<1>4. ASSUME \/ SetTypeSize \/ SetTypeRandomElement \/ SetTypeInitIterator \/ SetTypeNext \/ ReleaseIterator
             \/ \E v \in SetValues : SetTypeIsMember(v)
      PROVE  GoodIteration'
  <2>1. encoding' = encoding /\ ptr' = ptr /\ SetElements' = SetElements
    BY <1>1, <1>4, LookStep
  <2>2. CASE it' = it /\ due' = due
    BY <1>1, <2>1, <2>2 DEF GoodIteration, SetIteratorInv
  <2>3. CASE SetTypeInitIterator \/ SetTypeNext
    BY <1>1, <2>1, <2>3, SetIterates, SetNextIs DEF GoodIteration
  <2>4. CASE ReleaseIterator
    BY <1>1, <2>1, <2>4 DEF ReleaseIterator, GoodIteration, SetIteratorInv
  <2>5. QED
    BY <1>4, <2>2, <2>3, <2>4 DEF SetTypeSize, SetTypeRandomElement, SetTypeIsMember
<1>5. QED
  BY <1>1, <1>2, <1>3, <1>4 DEF SetNext
----------------------------------------------------------------------------
\* Iterations over all types.

\* No iterator is made on a sorted set.
NoZSetIterator == type = "zset" => it = NULL

IterationInv == SetInv /\ ZiplistInv /\ GoodFields /\ GoodIteration /\ NoZSetIterator

LEMMA ZSetHasNoIterator ==
  ASSUME ZSetNext, NoZSetIterator
  PROVE  it' = NULL
<1>1. it = NULL
  BY DEF ZSetNext, NoZSetIterator
<1>2. \A zl : Store(zl) => it' = NULL
  BY DEF Store, NoIterator
<1>3. ASSUME NEW o \in Objs, ZzlDelete(o) \/ \E s \in Scores : ZzlInsert(o, s)
      PROVE  it' = NULL
  BY <1>2, <1>3 DEF ZzlDelete, ZzlInsert
<1>4. ASSUME NEW r, ZzlDeleteRangeByScore(r) \/ ZzlDeleteRangeByLex(r)
      PROVE  it' = NULL
  BY <1>2, <1>4 DEF ZzlDeleteRangeByScore, ZzlDeleteRangeByLex
<1>5. ASSUME NEW start, NEW end, ZzlDeleteRangeByRank(start, end)
      PROVE  it' = NULL
  BY <1>2, <1>5 DEF ZzlDeleteRangeByRank
<1>6. ASSUME ZsetLength \/ ZsetConvert
      PROVE  it' = NULL
  BY <1>1, <1>6 DEF ZsetLength, ZsetConvert, NoIterator
<1>7. QED
  BY <1>3, <1>4, <1>5, <1>6 DEF ZSetNext

LEMMA IterationInitially ==
  ASSUME Init
  PROVE  IterationInv /\ ThisHash!Init
<1>1. SetInv /\ ZiplistInv /\ it = NULL /\ ret = <<>> /\ Create
  BY SetInitially, ObjectsInitially DEF Init
<1>2. GoodZiplist(ZiplistNew) /\ ZiplistNew.entries = <<>>
  BY NewZiplistIs
<1>3. FieldsOnce(Values(ZiplistNew))
  <2>1. Len(Values(ZiplistNew)) = 0
    BY <1>2 DEF Values
  <2>2. QED
    BY <2>1 DEF FieldsOnce
<1>4. type = "hash" => HashMapInv
  <2>1. SUFFICES ASSUME type = "hash"
                 PROVE  HashMapInv
    OBVIOUS
  <2>2. encoding = "ziplist" /\ ptr = ZiplistNew
    BY <1>1, <2>1 DEF Create, CreateHashObject
  <2>3. Len(ptr.entries) \div 2 <= hash_max_ziplist_entries
    <3>1. Len(ptr.entries) = 0 /\ 0 \div 2 = 0
      BY <1>2, <2>2
    <3>2. QED
      BY <3>1, HashTypeAssumption
  <2>4. QED
    BY <1>3, <2>2, <2>3 DEF HashMapInv
<1>5. type = "hash" => HashMap = [f \in HashFields |-> NULL]
  <2>1. SUFFICES ASSUME type = "hash"
                 PROVE  HashMap = [f \in HashFields |-> NULL]
    OBVIOUS
  <2>2. encoding = "ziplist" /\ ptr = ZiplistNew
    BY <1>1, <2>1 DEF Create, CreateHashObject
  <2>3. DOMAIN ZiplistNew.entries = {}
    BY <1>2
  <2>4. QED
    BY <2>2, <2>3 DEF HashMap, PairsAsDict
<1>6. type = "set" => SetElements = {}
  BY SetInitially, <1>1 DEF ThisSet!Init
<1>7. GoodFields /\ GoodIteration /\ NoZSetIterator
  BY <1>1, <1>4, <1>6 DEF GoodFields, HashIteratorInv, GoodIteration, SetIteratorInv, NoZSetIterator
<1>8. ThisHash!Init
  BY <1>1, <1>5 DEF ThisHash!Init, HashRet
<1>9. QED
  BY <1>1, <1>7, <1>8 DEF IterationInv

LEMMA IterationStep ==
  ASSUME IterationInv, Next
  PROVE  GoodFields' /\ GoodIteration' /\ NoZSetIterator' /\ [ThisHash!Next]_(ThisHash!mapVars)
<1>1. /\ SetInv /\ ZiplistInv /\ GoodFields /\ GoodIteration /\ NoZSetIterator
      /\ Encoded /\ GoodList /\ GoodHash /\ GoodZSet /\ Intact'
  BY DEF IterationInv, ZiplistInv, Next
<1>2. ASSUME type # "hash", type' = type
      PROVE  GoodFields' /\ UNCHANGED ThisHash!mapVars
  BY <1>2 DEF GoodFields, ThisHash!mapVars, HashRet
<1>3. CASE ListNext
  <2>1. type = "list" /\ type' = type
    BY <1>1, <1>3, ListStep
  <2>2. QED
    BY <1>2, <2>1 DEF GoodIteration, NoZSetIterator
<1>4. CASE HashNext
  <2>1. type = "hash" /\ type' = type /\ GoodFields' /\ [ThisHash!Next]_(ThisHash!mapVars)
    BY <1>1, <1>4, HashStepMaps
  <2>2. QED
    BY <2>1 DEF GoodIteration, NoZSetIterator
<1>5. CASE ZSetNext
  <2>1. type = "zset" /\ type' = type /\ it' = NULL
    BY <1>1, <1>5, ZSetStep, ZSetHasNoIterator
  <2>2. QED
    BY <1>2, <2>1 DEF GoodIteration, NoZSetIterator
<1>6. CASE SetNext
  <2>1. type = "set" /\ type' = type /\ GoodIteration'
    BY <1>1, <1>6, SetIterationKeeps
  <2>2. QED
    BY <1>2, <2>1 DEF NoZSetIterator
<1>7. QED
  BY <1>3, <1>4, <1>5, <1>6 DEF Next, Calls

LEMMA IterationInvHolds == Spec => []IterationInv
<1> DEFINE Inv == GoodFields /\ GoodIteration /\ NoZSetIterator
<1>1. Init => Inv
  BY IterationInitially DEF IterationInv
<1>2. Inv /\ SetInv /\ ZiplistInv /\ [Next]_vars => Inv'
  <2>1. ASSUME Inv, SetInv, ZiplistInv, Next
        PROVE  Inv'
    BY <2>1, IterationStep DEF IterationInv
  <2>2. ASSUME Inv, UNCHANGED vars
        PROVE  Inv'
    BY <2>2 DEF vars, GoodFields, HashMapInv, HashIteratorInv, PairsStandAt, GoodIteration, SetElements, SetIteratorInv,
                NoZSetIterator
  <2>3. QED
    BY <2>1, <2>2
<1>3. IterationInv <=> SetInv /\ ZiplistInv /\ Inv
  BY DEF IterationInv
<1> HIDE DEF Inv
<1>4. QED
  BY <1>1, <1>2, <1>3, SetInvHolds, ZiplistInvHolds, PTL DEF Spec

\* An iteration over a list, a set or a hash returns what was in it when the
\* iteration began, each element once and nothing else, whatever its encoding;
\* over a list in order, also while the client deletes what was returned.  No
\* iteration begins at the tail of an emptied linked list (TailUsable).
THEOREM IterationsComplete == Spec => []IterationComplete
<1>1. ASSUME IterationInv
      PROVE  IterationComplete
  <2>1. type \in {"set", "list", "hash", "zset"} /\ Encoded /\ GoodList /\ GoodHash /\ SetInv
        /\ GoodFields /\ GoodIteration /\ NoZSetIterator
    BY <1>1 DEF IterationInv, ZiplistInv
  <2>2. SUFFICES ASSUME it # NULL
                 PROVE  due # NULL /\ (it.end => due = (IF type = "list" THEN <<>> ELSE {}))
    BY DEF IterationComplete
  <2>3. CASE type = "list"
    <3>1. GoodListObject
      BY <2>1, <2>3 DEF GoodList
    <3>2. PICK i \in Int : StandsAt(i)
      BY <2>1, <2>2, <2>3 DEF GoodList
    <3>3. ListItems \in Seq(Value) /\ it.direction \in {REDIS_HEAD, REDIS_TAIL} /\ i \in Stands(it.direction, Len(ListItems))
          /\ due = RestOf(ListItems, it.direction, i) /\ (it.end => i \notin 1 .. Len(ListItems))
      BY <3>1, <3>2, ListItemsAre DEF StandsAt
    <3>4. due \in Seq(Value) /\ (it.end => due = <<>>)
      BY <3>3, RestIsSeq, RestEnds
    <3>5. QED
      BY <2>3, <3>4, ObjectsAssumption
  <2>4. CASE type = "set"
    <3>1. SetElements \in SUBSET SetValues /\ SetIteratorInv
      BY <2>1, <2>4 DEF GoodIteration
    <3>2. CASE encoding = "intset"
      <4>1. GoodIntset(ptr) /\ it.ii \in Nat /\ due = ElementsFrom(ptr, it.ii) /\ (it.end => it.ii >= ptr.length)
        BY <2>1, <2>2, <3>1, <3>2 DEF SetInv, GoodSet, SetIteratorInv
      <4>2. due \in SUBSET SetElements /\ (it.end => due = {})
        BY <3>2, <4>1, ElementsFromAre DEF SetElements
      <4>3. due \in SUBSET SetValues
        BY <3>1, <4>2
      <4>4. QED
        BY <2>4, <4>2, <4>3, ObjectsAssumption
    <3>3. CASE encoding # "intset"
      <4>1. encoding = "ht"
        BY <2>1, <2>4, <3>3 DEF Encoded
      <4>2. due \in SUBSET SetValues /\ (it.end => due = {})
        BY <2>2, <3>1, <4>1 DEF SetIteratorInv
      <4>3. QED
        BY <2>4, <4>2, ObjectsAssumption
    <3>4. QED
      BY <3>2, <3>3
  <2>5. CASE type = "hash"
    <3>1. HashMapInv /\ HashIteratorInv
      BY <2>1, <2>5 DEF GoodFields
    <3>2. CASE encoding = "ziplist"
      <4> DEFINE s == Values(ptr)
      <4>1. GoodZiplist(ptr) /\ FieldsOnce(s) /\ Len(ptr.entries) \in Nat
        BY <2>1, <2>5, <3>1, <3>2, HashMapIs, EndsAre
      <4>2. PICK i \in Int : PairsStandAt(i)
        BY <2>2, <3>1, <3>2 DEF HashIteratorInv
      <4>3. s \in Seq(Value) /\ Len(s) = Len(ptr.entries)
        BY <4>1, ValuesAre
      <4>4. i >= 1 /\ IsOdd(i) /\ due = PairsFrom(s, i) /\ (it.end => i > Len(s))
        BY <4>1, <4>2, <4>3 DEF PairsStandAt
      <4> HIDE DEF s
      <4>5. due \in SUBSET (HashFields \X HashValues) /\ (it.end => due = {})
        BY <4>1, <4>3, <4>4, PairsFromAre
      <4>6. QED
        BY <2>5, <4>5, ObjectsAssumption
    <3>3. CASE encoding # "ziplist"
      <4>1. encoding = "ht"
        BY <2>1, <2>5, <3>3 DEF GoodHash
      <4>2. due \in SUBSET (HashFields \X HashValues) /\ (it.end => due = {})
        BY <2>2, <3>1, <4>1 DEF HashIteratorInv
      <4>3. QED
        BY <2>5, <4>2, ObjectsAssumption
    <3>4. QED
      BY <3>2, <3>3
  <2>6. CASE type = "zset"
    BY <2>1, <2>2, <2>6 DEF NoZSetIterator
  <2>7. QED
    BY <2>1, <2>3, <2>4, <2>5, <2>6
<1>2. QED
  BY <1>1, IterationInvHolds, PTL

\* A hash object is a map from fields to values: every call of xmt_hash.h does
\* to it, and returns, what DictMap says of a dict, for both encodings; the
\* conversion in the middle of hashTypeSet does not show.
THEOREM HashImplementsMap == Spec => ImplementsHash
<1>1. Init => ThisHash!Init
  BY IterationInitially
<1>2. IterationInv /\ [Next]_vars => [ThisHash!Next]_(ThisHash!mapVars)
  <2>1. ASSUME IterationInv, Next
        PROVE  [ThisHash!Next]_(ThisHash!mapVars)
    BY <2>1, IterationStep
  <2>2. ASSUME UNCHANGED vars
        PROVE  UNCHANGED ThisHash!mapVars
    BY <2>2 DEF vars, ThisHash!mapVars, HashMap, HashRet
  <2>3. QED
    BY <2>1, <2>2
<1>3. QED
  BY <1>1, <1>2, IterationInvHolds, PTL DEF Spec, ImplementsHash, ThisHash!Spec

----------------------------------------------------------------------------
\* A sorted set as a sequence of members.

ZMap == [Objs -> Scores \cup {NULL}]

\* q has the members of m, in their order.
InOrder(q, m) ==
  /\ q \in Seq(Objs) /\ m \in ZMap
  /\ \A i \in 1 .. Len(q) : m[q[i]] # NULL
  /\ \A o \in Objs : m[o] # NULL => \E i \in 1 .. Len(q) : q[i] = o
  /\ \A i, j \in 1 .. Len(q) : i < j => Precedes(m, q[i], q[j])

LEMMA ZSetNulls == Objs \subseteq Int /\ NULL \notin Objs /\ NULL \notin Scores /\ Scores \subseteq Int
<1>1. Objs \subseteq Int
  BY ZSetAssumption, FS_CardinalityType
<1>2. QED
  BY <1>1, ZSetAssumption, ZipListAssumption

\* A place has one member, and a member one place.
LEMMA PlacesAre ==
  ASSUME NEW q, NEW m, InOrder(q, m)
  PROVE  /\ Len(q) \in Nat
         /\ \A i \in 1 .. Len(q) : q[i] \in Objs /\ q[i] \in Int /\ m[q[i]] \in Scores /\ m[q[i]] \in Int
         /\ \A i, j \in 1 .. Len(q) : q[i] = q[j] => i = j
         /\ \A i, j \in 1 .. Len(q) : Precedes(m, q[i], q[j]) <=> i < j
<1>1. q \in Seq(Objs) /\ m \in ZMap /\ Len(q) \in Nat
  BY DEF InOrder
<1>2. \A i \in 1 .. Len(q) : q[i] \in Objs /\ q[i] \in Int /\ m[q[i]] \in Scores /\ m[q[i]] \in Int
  <2>1. SUFFICES ASSUME NEW i \in 1 .. Len(q)
                 PROVE  q[i] \in Objs /\ q[i] \in Int /\ m[q[i]] \in Scores /\ m[q[i]] \in Int
    OBVIOUS
  <2>2. q[i] \in Objs /\ m[q[i]] # NULL
    BY <1>1 DEF InOrder
  <2>3. m[q[i]] \in Scores
    BY <1>1, <2>2 DEF ZMap
  <2>4. QED
    BY <2>2, <2>3, ZSetNulls
<1>3. ASSUME NEW i \in 1 .. Len(q), NEW j \in 1 .. Len(q), i < j
      PROVE  Precedes(m, q[i], q[j]) /\ ~Precedes(m, q[j], q[i]) /\ q[i] # q[j]
  <2>1. Precedes(m, q[i], q[j])
    BY <1>3 DEF InOrder
  <2>2. q[i] \in Int /\ q[j] \in Int /\ m[q[i]] \in Int /\ m[q[j]] \in Int
    BY <1>2
  <2>3. QED
    BY <2>1, <2>2 DEF Precedes
<1>4. \A i \in 1 .. Len(q) : ~Precedes(m, q[i], q[i])
  BY <1>2 DEF Precedes
<1>5. ASSUME NEW i \in 1 .. Len(q), NEW j \in 1 .. Len(q)
      PROVE  (q[i] = q[j] => i = j) /\ (Precedes(m, q[i], q[j]) <=> i < j)
  <2>1. i \in Int /\ j \in Int
    BY <1>1
  <2>2. CASE i < j
    BY <1>3, <2>2
  <2>3. CASE j < i
    BY <1>3, <2>1, <2>3
  <2>4. CASE i = j
    BY <1>4, <2>1, <2>4
  <2>5. QED
    BY <2>1, <2>2, <2>3, <2>4
<1>6. QED
  BY <1>1, <1>2, <1>5

\* How many there are from one place to another.
LEMMA PlacesCount ==
  ASSUME NEW q, NEW m, InOrder(q, m), NEW a \in Int, NEW b \in Int, a >= 1, b <= Len(q), a <= b + 1
  PROVE  LET S == {q[i] : i \in a .. b}
         IN IsFiniteSet(S) /\ Cardinality(S) = b - a + 1 /\ S \in SUBSET Objs /\ b - a + 1 \in 0 .. Cardinality(Objs)
<1> DEFINE S == {q[i] : i \in a .. b}
           f == [i \in a .. b |-> q[i]]
<1>1. Len(q) \in Nat /\ (\A i \in 1 .. Len(q) : q[i] \in Objs) /\ \A i, j \in 1 .. Len(q) : q[i] = q[j] => i = j
  BY PlacesAre
<1>2. \A i \in a .. b : i \in 1 .. Len(q)
  BY <1>1
<1>3. IsFiniteSet(a .. b) /\ Cardinality(a .. b) = b - a + 1
  <2>1. Cardinality(a .. b) = IF a > b THEN 0 ELSE b - a + 1
    BY FS_Interval
  <2>2. a > b => b - a + 1 = 0
    OBVIOUS
  <2>3. QED
    BY <2>1, <2>2, FS_Interval
<1>4. f \in Bijection(a .. b, S)
  <2>1. f \in [a .. b -> S]
    OBVIOUS
  <2>2. \A i, j \in a .. b : f[i] = f[j] => i = j
    BY <1>1, <1>2
  <2>3. \A s \in S : \E i \in a .. b : f[i] = s
    OBVIOUS
  <2> HIDE DEF f, S
  <2>4. QED
    BY <2>1, <2>2, <2>3 DEF Bijection, Injection, Surjection, IsInjective
<1>5. S \in SUBSET Objs
  BY <1>1, <1>2
<1> HIDE DEF f, S
<1>6. IsFiniteSet(S) /\ Cardinality(S) = b - a + 1
  <2>1. ExistsBijection(a .. b, S)
    BY <1>4 DEF ExistsBijection
  <2>2. QED
    BY <1>3, <2>1, FS_Bijection
<1>7. b - a + 1 \in 0 .. Cardinality(Objs)
  <2>1. Cardinality(S) <= Cardinality(Objs) /\ Cardinality(Objs) \in Nat
    BY <1>5, ZSetAssumption, FS_Subset, FS_CardinalityType
  <2>2. QED
    BY <1>6, <2>1
<1>8. QED
  BY <1>5, <1>6, <1>7 DEF S

\* A member comes to place k.
LEMMA MemberAdded ==
  ASSUME NEW q, NEW m, InOrder(q, m), NEW o \in Objs, m[o] = NULL, NEW s \in Scores, NEW k \in 1 .. Len(q) + 1,
         \A i \in 1 .. Len(q) : IF i < k THEN m[q[i]] < s \/ (m[q[i]] = s /\ q[i] < o)
                                ELSE s < m[q[i]] \/ (m[q[i]] = s /\ o < q[i])
  PROVE  InOrder(With(q, k, o), [m EXCEPT ![o] = s])
<1> DEFINE n == Len(q)
           t == With(q, k, o)
           r == [m EXCEPT ![o] = s]
           old(j) == IF j < k THEN j ELSE j - 1
<1>1. n \in Nat /\ k \in Int /\ q \in Seq(Objs) /\ m \in ZMap
  BY DEF InOrder
<1>2. t \in Seq(Objs) /\ Len(t) = n + 1 /\ \A j \in 1 .. n + 1 : t[j] = IF j < k THEN q[j] ELSE IF j = k THEN o ELSE q[j - 1]
  BY <1>1, WithIs DEF IsWith
<1> HIDE DEF t
<1>3. /\ \A i \in 1 .. n : q[i] \in Objs /\ q[i] \in Int /\ m[q[i]] \in Scores /\ m[q[i]] \in Int
      /\ \A i, j \in 1 .. n : Precedes(m, q[i], q[j]) <=> i < j
  BY PlacesAre
<1>4. r \in ZMap /\ r[o] = s /\ \A p \in Objs : p # o => r[p] = m[p]
  BY <1>1 DEF ZMap
<1>5. \A i \in 1 .. n : q[i] # o /\ r[q[i]] = m[q[i]]
  BY <1>3, <1>4 DEF InOrder
<1>6. \A j \in 1 .. n + 1 : j # k => old(j) \in 1 .. n /\ t[j] = q[old(j)]
  BY <1>1, <1>2
<1>7. s \in Int /\ s # NULL /\ o \in Int /\ t[k] = o
  BY <1>1, <1>2, ZSetNulls
<1> HIDE DEF r
<1>8. \A j \in 1 .. n + 1 : r[t[j]] # NULL
  <2>1. SUFFICES ASSUME NEW j \in 1 .. n + 1
                 PROVE  r[t[j]] # NULL
    OBVIOUS
  <2>2. CASE j = k
    BY <1>4, <1>7, <2>2
  <2>3. CASE j # k
    BY <1>3, <1>5, <1>6, <2>3, ZSetNulls
  <2>4. QED
    BY <2>2, <2>3
<1>9. ASSUME NEW p \in Objs, r[p] # NULL
      PROVE  \E j \in 1 .. n + 1 : t[j] = p
  <2>1. CASE p = o
    BY <1>7, <2>1
  <2>2. CASE p # o
    <3>1. PICK i \in 1 .. n : q[i] = p
      BY <1>4, <1>9, <2>2 DEF InOrder
    <3>2. CASE i < k
      BY <1>1, <1>2, <3>1, <3>2
    <3>3. CASE ~(i < k)
      <4>1. i + 1 \in 1 .. n + 1 /\ ~(i + 1 < k) /\ i + 1 # k /\ i + 1 - 1 = i
        BY <1>1, <3>3
      <4>2. t[i + 1] = q[i]
        BY <1>2, <4>1
      <4>3. QED
        BY <3>1, <4>1, <4>2
    <3>4. QED
      BY <3>2, <3>3
  <2>3. QED
    BY <2>1, <2>2
<1>10. ASSUME NEW i \in 1 .. n + 1, NEW j \in 1 .. n + 1, i < j
       PROVE  Precedes(r, t[i], t[j])
  <2>1. CASE i # k /\ j # k
    <3>1. old(i) \in 1 .. n /\ old(j) \in 1 .. n /\ old(i) < old(j)
      BY <1>1, <1>6, <1>10, <2>1
    <3>2. t[i] = q[old(i)] /\ t[j] = q[old(j)]
      BY <1>6, <2>1
    <3> HIDE DEF old
    <3>3. Precedes(m, q[old(i)], q[old(j)])
      BY <1>3, <3>1
    <3>4. r[q[old(i)]] = m[q[old(i)]] /\ r[q[old(j)]] = m[q[old(j)]]
      BY <1>5, <3>1
    <3>5. QED
      BY <3>2, <3>3, <3>4 DEF Precedes
  <2>2. CASE i = k
    <3>1. j # k /\ old(j) \in 1 .. n /\ ~(old(j) < k)
      BY <1>1, <1>10, <2>2
    <3>2. t[i] = o /\ t[j] = q[old(j)]
      BY <1>6, <1>7, <2>2, <3>1
    <3> HIDE DEF old
    <3>3. s < m[q[old(j)]] \/ (m[q[old(j)]] = s /\ o < q[old(j)])
      BY <3>1
    <3>4. r[t[i]] = s /\ r[t[j]] = m[q[old(j)]]
      BY <1>4, <1>5, <3>1, <3>2
    <3>5. QED
      BY <3>2, <3>3, <3>4 DEF Precedes
  <2>3. CASE j = k
    <3>1. i # k /\ old(i) \in 1 .. n /\ old(i) < k
      BY <1>1, <1>10, <2>3
    <3>2. t[j] = o /\ t[i] = q[old(i)]
      BY <1>6, <1>7, <2>3, <3>1
    <3> HIDE DEF old
    <3>3. m[q[old(i)]] < s \/ (m[q[old(i)]] = s /\ q[old(i)] < o)
      BY <3>1
    <3>4. r[t[j]] = s /\ r[t[i]] = m[q[old(i)]]
      BY <1>4, <1>5, <3>1, <3>2
    <3>5. QED
      BY <3>2, <3>3, <3>4 DEF Precedes
  <2>4. QED
    BY <2>1, <2>2, <2>3
<1>11. QED
  BY <1>2, <1>4, <1>8, <1>9, <1>10 DEF InOrder, t, r

\* The members of some places leave.
Removed(m, S) == [o \in Objs |-> IF o \in S THEN NULL ELSE m[o]]

LEMMA MembersRemoved ==
  ASSUME NEW q, NEW m, InOrder(q, m), NEW a \in Int, NEW b \in Int, a >= 1, b <= Len(q), a <= b + 1,
         NEW t \in Seq(Objs), Len(t) = Len(q) - (b - a + 1),
         \A j \in 1 .. Len(t) : t[j] = IF j < a THEN q[j] ELSE q[j + (b - a + 1)]
  PROVE  InOrder(t, Removed(m, {q[i] : i \in a .. b}))
<1> DEFINE n == Len(q)
           S == {q[i] : i \in a .. b}
           r == Removed(m, S)
           old(j) == IF j < a THEN j ELSE j + (b - a + 1)
<1>1. n \in Nat /\ Len(t) \in Nat /\ q \in Seq(Objs) /\ m \in ZMap
  BY DEF InOrder
<1>2. /\ \A i \in 1 .. n : q[i] \in Objs /\ m[q[i]] \in Scores
      /\ \A i, j \in 1 .. n : q[i] = q[j] => i = j
      /\ \A i, j \in 1 .. n : Precedes(m, q[i], q[j]) <=> i < j
  BY PlacesAre
<1>3. \A j \in 1 .. Len(t) : old(j) \in 1 .. n /\ old(j) \notin a .. b /\ t[j] = q[old(j)]
  BY <1>1
<1>4. \A i, j \in 1 .. Len(t) : i < j => old(i) < old(j)
  BY <1>1
<1>5. \A i \in 1 .. n : i \notin a .. b => \E j \in 1 .. Len(t) : old(j) = i
  <2>1. SUFFICES ASSUME NEW i \in 1 .. n, i \notin a .. b
                 PROVE  \E j \in 1 .. Len(t) : old(j) = i
    OBVIOUS
  <2>2. CASE i < a
    <3>1. i \in 1 .. Len(t) /\ old(i) = i
      BY <1>1, <2>2
    <3>2. QED
      BY <3>1
  <2>3. CASE i > b
    <3>1. i - (b - a + 1) \in 1 .. Len(t) /\ old(i - (b - a + 1)) = i
      BY <1>1, <2>3
    <3>2. QED
      BY <3>1
  <2>4. QED
    BY <1>1, <2>1, <2>2, <2>3
<1>6. r \in ZMap /\ \A p \in Objs : r[p] = IF p \in S THEN NULL ELSE m[p]
  BY <1>1 DEF ZMap, Removed
<1>7. \A i \in 1 .. n : q[i] \in S <=> i \in a .. b
  BY <1>1, <1>2
<1> HIDE DEF r, S, old
<1>8. \A j \in 1 .. Len(t) : r[t[j]] = m[t[j]] /\ m[t[j]] \in Scores
  <2>1. SUFFICES ASSUME NEW j \in 1 .. Len(t)
                 PROVE  r[t[j]] = m[t[j]] /\ m[t[j]] \in Scores
    OBVIOUS
  <2>2. t[j] = q[old(j)] /\ q[old(j)] \notin S /\ q[old(j)] \in Objs /\ m[q[old(j)]] \in Scores
    BY <1>2, <1>3, <1>7
  <2>3. QED
    BY <1>6, <2>2
<1>9. \A j \in 1 .. Len(t) : r[t[j]] # NULL
  BY <1>8, ZSetNulls
<1>10. ASSUME NEW p \in Objs, r[p] # NULL
       PROVE  \E j \in 1 .. Len(t) : t[j] = p
  <2>1. p \notin S /\ m[p] # NULL
    BY <1>6, <1>10
  <2>2. PICK i \in 1 .. n : q[i] = p
    BY <2>1 DEF InOrder
  <2>3. i \notin a .. b
    BY <1>7, <2>1, <2>2
  <2>4. PICK j \in 1 .. Len(t) : old(j) = i
    BY <1>5, <2>3
  <2>5. QED
    BY <1>3, <2>2, <2>4
<1>11. ASSUME NEW i \in 1 .. Len(t), NEW j \in 1 .. Len(t), i < j
       PROVE  Precedes(r, t[i], t[j])
  <2>1. old(i) \in 1 .. n /\ old(j) \in 1 .. n /\ old(i) < old(j) /\ t[i] = q[old(i)] /\ t[j] = q[old(j)]
    BY <1>3, <1>4, <1>11
  <2>2. Precedes(m, t[i], t[j])
    BY <1>2, <2>1
  <2>3. r[t[i]] = m[t[i]] /\ r[t[j]] = m[t[j]]
    BY <1>8
  <2>4. QED
    BY <2>2, <2>3 DEF Precedes
<1>12. QED
  BY <1>6, <1>9, <1>10, <1>11 DEF InOrder, r, S

----------------------------------------------------------------------------
\* The ziplist of a sorted set.

\* zl has the members q, each followed by its score.
PairsOf(zl, q, m) ==
  /\ GoodZiplist(zl) /\ InOrder(q, m) /\ Len(zl.entries) = 2 * Len(q)
  /\ \A i \in 1 .. Len(q) : zl.entries[2 * i - 1].val = MemberOf[q[i]] /\ zl.entries[2 * i].val = Integer(m[q[i]])

PtrTo(zl, i) == Offset(zl, 2 * i - 1)

LEMMA PairsArePaired ==
  ASSUME NEW zl, NEW q, NEW m, PairsOf(zl, q, m)
  PROVE  /\ GoodZiplist(zl) /\ Paired(zl) /\ InOrder(q, m) /\ Len(q) \in Nat /\ Len(zl.entries) = 2 * Len(q)
         /\ \A i \in 1 .. Len(q) : /\ 2 * i - 1 \in 1 .. Len(zl.entries) /\ (2 * i - 1) % 2 = 1 /\ 2 * i \in 1 .. Len(zl.entries)
                                   /\ 2 * i - 1 \in 1 .. Len(zl.entries) + 1 /\ 2 * i \in 1 .. Len(zl.entries) + 1
         /\ \A k \in 1 .. Len(zl.entries) : k % 2 = 1 => \E i \in 1 .. Len(q) : k = 2 * i - 1
<1>1. GoodZiplist(zl) /\ InOrder(q, m) /\ Len(zl.entries) = 2 * Len(q)
  BY DEF PairsOf
<1>2. Len(q) \in Nat
  BY <1>1, PlacesAre
<1>3. Paired(zl)
  BY <1>1, <1>2 DEF Paired
<1> DEFINE n == Len(q)
<1> HIDE DEF n
<1>4. ASSUME NEW i \in 1 .. n
      PROVE  2 * i - 1 \in 1 .. 2 * n /\ 2 * i \in 1 .. 2 * n /\ 2 * i - 1 \in 1 .. 2 * n + 1 /\ 2 * i \in 1 .. 2 * n + 1 /\ (2 * i - 1) % 2 = 1
  <2>1. n \in Nat
    BY <1>2 DEF n
  <2>2. i - 1 \in Nat /\ 2 * i - 1 = 2 * (i - 1) + 1 /\ 2 * i - 1 \in Nat
    BY <2>1
  <2>3. (2 * i - 1) % 2 = 1
    BY <2>2, OddIs
  <2>4. QED
    BY <2>1, <2>3
<1>5. ASSUME NEW k \in 1 .. 2 * n, k % 2 = 1
      PROVE  \E i \in 1 .. n : k = 2 * i - 1
  <2>1. n \in Nat
    BY <1>2 DEF n
  <2>2. PICK i \in Nat : k = 2 * i + 1
    BY <1>5, <2>1, OddIs
  <2>3. i + 1 \in 1 .. n /\ k = 2 * (i + 1) - 1
    BY <2>1, <2>2
  <2>4. QED
    BY <2>3
<1>6. QED
  BY <1>1, <1>2, <1>3, <1>4, <1>5 DEF n

LEMMA PairIsAt ==
  ASSUME NEW zl, NEW q, NEW m, PairsOf(zl, q, m), NEW i \in 1 .. Len(q)
  PROVE  /\ PtrTo(zl, i) \in MemberPtrs(zl) /\ PtrTo(zl, i) \in Nat /\ PtrTo(zl, i) # NULL
         /\ MemberAt(zl, PtrTo(zl, i)) = q[i] /\ ScoreAt(zl, PtrTo(zl, i)) = m[q[i]]
         /\ \A o \in Objs : ZiplistCompare(zl, PtrTo(zl, i), MemberOf[o]) <=> q[i] = o
<1> DEFINE k == 2 * i - 1
           p == Offset(zl, k)
<1>1. /\ GoodZiplist(zl) /\ Paired(zl) /\ InOrder(q, m) /\ Len(q) \in Nat /\ Len(zl.entries) = 2 * Len(q)
      /\ k \in 1 .. Len(zl.entries) /\ k % 2 = 1 /\ 2 * i \in 1 .. Len(zl.entries)
      /\ k \in 1 .. Len(zl.entries) + 1 /\ 2 * i \in 1 .. Len(zl.entries) + 1
  BY PairsArePaired
<1>2. zl.entries[k].val = MemberOf[q[i]] /\ zl.entries[2 * i].val = Integer(m[q[i]])
  BY DEF PairsOf
<1>3. k < Len(zl.entries) /\ k + 1 = 2 * i /\ k # Len(zl.entries) + 1 /\ k <= Len(zl.entries) /\ 2 * i <= Len(zl.entries)
  BY <1>1
<1>4. q[i] \in Objs /\ m[q[i]] \in Int
  BY <1>1, PlacesAre
<1> HIDE DEF k
<1>5. p \in MemberPtrs(zl)
  BY <1>1, MemberPtrsAre
<1>6. p \in Nat /\ p # NULL /\ EntryAt(zl, p) = zl.entries[k] /\ ~IsEnd(zl, p)
  BY <1>1, <1>3, AtOffset
<1>7. ZiplistGet(zl, p) = MemberOf[q[i]]
  BY <1>1, <1>2, <1>3, GetIs
<1>8. ZiplistNext(zl, p) = Offset(zl, 2 * i)
  BY <1>1, <1>3, NextIs
<1>9. ZiplistGet(zl, Offset(zl, 2 * i)) = Integer(m[q[i]])
  BY <1>1, <1>2, <1>3, GetIs
<1>10. Integer(m[q[i]]).n = m[q[i]]
  BY DEF Integer
<1> HIDE DEF p
<1>11. ScoreAt(zl, p) = m[q[i]]
  BY <1>8, <1>9, <1>10 DEF ScoreAt
<1>12. MemberAt(zl, p) = q[i]
  BY <1>4, <1>7, ZSetAssumption DEF MemberAt
<1>13. \A o \in Objs : ZiplistCompare(zl, p, MemberOf[o]) <=> q[i] = o
  BY <1>2, <1>4, <1>6, ZSetAssumption DEF ZiplistCompare
<1>14. p = PtrTo(zl, i)
  BY DEF PtrTo, p, k
<1>15. QED
  BY <1>5, <1>6, <1>11, <1>12, <1>13, <1>14

LEMMA PtrsAre ==
  ASSUME NEW zl, NEW q, NEW m, PairsOf(zl, q, m)
  PROVE  /\ MemberPtrs(zl) = {PtrTo(zl, i) : i \in 1 .. Len(q)}
         /\ \A i, j \in 1 .. Len(q) : /\ PtrTo(zl, i) <= PtrTo(zl, j) <=> i <= j
                                      /\ PtrTo(zl, i) = PtrTo(zl, j) => i = j
<1>1. /\ GoodZiplist(zl) /\ Len(q) \in Nat
      /\ \A i \in 1 .. Len(q) : 2 * i - 1 \in 1 .. Len(zl.entries) + 1
      /\ \A k \in 1 .. Len(zl.entries) : k % 2 = 1 => \E i \in 1 .. Len(q) : k = 2 * i - 1
  BY PairsArePaired
<1>2. zl \in Ziplist
  BY <1>1, EndsAre
<1>3. ASSUME NEW p \in MemberPtrs(zl)
      PROVE  \E i \in 1 .. Len(q) : p = PtrTo(zl, i)
  <2>1. PICK k \in 1 .. Len(zl.entries) : k % 2 = 1 /\ p = Offset(zl, k)
    BY <1>1, MemberPtrsAre
  <2>2. QED
    BY <1>1, <2>1 DEF PtrTo
<1>4. \A i \in 1 .. Len(q) : PtrTo(zl, i) \in MemberPtrs(zl)
  BY PairIsAt
<1>5. ASSUME NEW i \in 1 .. Len(q), NEW j \in 1 .. Len(q)
      PROVE  (PtrTo(zl, i) <= PtrTo(zl, j) <=> i <= j) /\ (PtrTo(zl, i) = PtrTo(zl, j) => i = j)
  <2>1. \A k, l \in 1 .. Len(zl.entries) + 1 : Offset(zl, k) \in Nat /\ (Offset(zl, k) <= Offset(zl, l) <=> k <= l)
    BY <1>2, OffsetOrder
  <2>2. 2 * i - 1 \in 1 .. Len(zl.entries) + 1 /\ 2 * j - 1 \in 1 .. Len(zl.entries) + 1
    BY <1>1
  <2>3. PtrTo(zl, i) \in Nat /\ PtrTo(zl, j) \in Nat
    BY PairIsAt
  <2>4. (PtrTo(zl, i) <= PtrTo(zl, j) <=> 2 * i - 1 <= 2 * j - 1) /\ (PtrTo(zl, j) <= PtrTo(zl, i) <=> 2 * j - 1 <= 2 * i - 1)
    BY <2>1, <2>2 DEF PtrTo
  <2>5. i \in Int /\ j \in Int
    BY <1>1
  <2>6. (2 * i - 1 <= 2 * j - 1 <=> i <= j) /\ (2 * j - 1 <= 2 * i - 1 <=> j <= i)
    BY <2>5
  <2>7. QED
    BY <2>3, <2>4, <2>5, <2>6
<1>6. QED
  BY <1>3, <1>4, <1>5

\* The scores that the model reads off are those of the pairs.
ScoresOf(zl) ==
  LET vals == Values(zl)
      pairs(o) == {k \in DOMAIN vals : k % 2 = 1 /\ vals[k] = MemberOf[o]}
  IN [o \in Objs |-> IF pairs(o) = {} THEN NULL ELSE vals[Min(pairs(o)) + 1].n]

LEMMA ScoresAre ==
  ASSUME NEW zl, NEW q, NEW m, PairsOf(zl, q, m)
  PROVE  ScoresOf(zl) = m
<1> DEFINE n == Len(zl.entries)
           vals == Values(zl)
           pairs(o) == {k \in DOMAIN vals : k % 2 = 1 /\ vals[k] = MemberOf[o]}
           at(o) == IF pairs(o) = {} THEN NULL ELSE vals[Min(pairs(o)) + 1].n
<1>1. /\ GoodZiplist(zl) /\ InOrder(q, m) /\ n \in Nat
      /\ \A i \in 1 .. Len(q) : 2 * i - 1 \in 1 .. n /\ (2 * i - 1) % 2 = 1 /\ 2 * i \in 1 .. n
      /\ \A k \in 1 .. n : k % 2 = 1 => \E i \in 1 .. Len(q) : k = 2 * i - 1
  BY PairsArePaired
<1>2. \A i \in 1 .. Len(q) : zl.entries[2 * i - 1].val = MemberOf[q[i]] /\ zl.entries[2 * i].val = Integer(m[q[i]])
  BY DEF PairsOf
<1>3. DOMAIN vals = 1 .. n /\ \A k \in 1 .. n : vals[k] = zl.entries[k].val
  <2>1. vals \in Seq(Value) /\ Len(vals) = n
    BY <1>1, ValuesAre
  <2>2. \A k \in 1 .. n : vals[k] = zl.entries[k].val
    BY <1>1, ValuesAre
  <2> HIDE DEF vals, n
  <2>3. QED
    BY <2>1, <2>2
<1>4. ScoresOf(zl) = [o \in Objs |-> at(o)]
  BY DEF ScoresOf
<1> HIDE DEF vals, n
<1>5. \A i \in 1 .. Len(q) : q[i] \in Objs /\ m[q[i]] \in Int /\ \A j \in 1 .. Len(q) : q[i] = q[j] => i = j
  BY <1>1, PlacesAre
<1>6. ASSUME NEW o \in Objs, NEW k \in pairs(o)
      PROVE  \E i \in 1 .. Len(q) : k = 2 * i - 1 /\ q[i] = o
  <2>1. k \in 1 .. n /\ k % 2 = 1 /\ vals[k] = MemberOf[o]
    BY <1>3, <1>6
  <2>2. PICK i \in 1 .. Len(q) : k = 2 * i - 1
    BY <1>1, <2>1
  <2>3. MemberOf[q[i]] = MemberOf[o]
    BY <1>2, <1>3, <2>1, <2>2
  <2>4. QED
    BY <1>5, <2>2, <2>3, ZSetAssumption
<1>7. ASSUME NEW o \in Objs
      PROVE  at(o) = m[o]
  <2>1. CASE m[o] = NULL
    <3>1. pairs(o) = {}
      BY <1>1, <1>6, <2>1 DEF InOrder
    <3>2. QED
      BY <2>1, <3>1
  <2>2. CASE m[o] # NULL
    <3>1. PICK i \in 1 .. Len(q) : q[i] = o
      BY <1>1, <2>2 DEF InOrder
    <3> DEFINE k == 2 * i - 1
    <3>2. k \in pairs(o) /\ k \in Int /\ k + 1 = 2 * i
      <4>1. k \in 1 .. n /\ k % 2 = 1 /\ vals[k] = MemberOf[o]
        BY <1>1, <1>2, <1>3, <3>1
      <4>2. i \in Int
        OBVIOUS
      <4>3. QED
        BY <1>3, <4>1, <4>2
    <3>3. ASSUME NEW j \in pairs(o)
          PROVE  j = k
      <4>1. PICK h \in 1 .. Len(q) : j = 2 * h - 1 /\ q[h] = o
        BY <1>6
      <4>2. h = i
        BY <1>5, <3>1, <4>1
      <4>3. QED
        BY <4>1, <4>2
    <3> DEFINE P == pairs(o)
    <3> HIDE DEF P, k
    <3>4. P = {k}
      BY <3>2, <3>3 DEF P
    <3>5. Min(P) = k
      BY <3>2, <3>4 DEF Min
    <3>6. vals[2 * i] = Integer(m[o])
      BY <1>1, <1>2, <1>3, <3>1
    <3>7. Integer(m[o]).n = m[o]
      BY DEF Integer
    <3>8. at(o) = vals[Min(P) + 1].n
      BY <3>4 DEF P
    <3> HIDE DEF at
    <3>9. QED
      BY <3>2, <3>5, <3>6, <3>7, <3>8
  <2>3. QED
    BY <2>1, <2>2
<1> HIDE DEF at
<1>8. m = [o \in Objs |-> m[o]]
  BY <1>1 DEF InOrder, ZMap
<1>9. QED
  BY <1>4, <1>7, <1>8

\* The first pair and the last one.
LEMMA EndPairsAre ==
  ASSUME NEW zl, NEW q, NEW m, PairsOf(zl, q, m)
  PROVE  LET n == Len(q)
         IN /\ n = 0 => ZiplistIndex(zl, 0) = NULL /\ ZiplistIndex(zl, -1) = NULL /\ ZiplistIndex(zl, -2) = NULL
            /\ n # 0 => /\ ZiplistIndex(zl, 0) = PtrTo(zl, 1) /\ ZiplistIndex(zl, -2) = PtrTo(zl, n)
                        /\ ZiplistIndex(zl, -1) # NULL /\ ZiplistIndex(zl, -2) # NULL
                        /\ ZiplistGet(zl, ZiplistIndex(zl, 1)).n = m[q[1]]
                        /\ ZiplistGet(zl, ZiplistIndex(zl, -1)).n = m[q[n]]
<1> DEFINE n == Len(q)
           e == Len(zl.entries)
<1>1. /\ GoodZiplist(zl) /\ n \in Nat /\ e = 2 * n
      /\ \A i \in 1 .. n : 2 * i - 1 \in 1 .. e + 1 /\ 2 * i \in 1 .. e + 1
  BY PairsArePaired
<1>2. \A index \in Int : ZiplistIndex(zl, index) =
              IF index >= 0 THEN (IF index < e THEN Offset(zl, index + 1) ELSE NULL)
              ELSE IF -index <= e THEN Offset(zl, e + 1 + index) ELSE NULL
  BY <1>1, IndexIs
<1>3. \A i \in 1 .. n : zl.entries[2 * i].val = Integer(m[q[i]])
  BY DEF PairsOf
<1>4. \A k \in 1 .. e + 1 : ZiplistGet(zl, Offset(zl, k)) = IF k <= e THEN zl.entries[k].val ELSE NULL
  BY <1>1, GetIs
<1>5. \A k \in 1 .. e + 1 : Offset(zl, k) # NULL
  BY <1>1, AtOffset
<1> HIDE DEF n, e
<1>6. /\ ZiplistIndex(zl, 0) = IF 0 < e THEN Offset(zl, 1) ELSE NULL
      /\ ZiplistIndex(zl, 1) = IF 1 < e THEN Offset(zl, 2) ELSE NULL
  <2>1. ZiplistIndex(zl, 0) = IF 0 < e THEN Offset(zl, 0 + 1) ELSE NULL
    BY <1>2
  <2>2. ZiplistIndex(zl, 1) = IF 1 < e THEN Offset(zl, 1 + 1) ELSE NULL
    BY <1>2
  <2>3. 0 + 1 = 1 /\ 1 + 1 = 2
    OBVIOUS
  <2>4. QED
    BY <2>1, <2>2, <2>3
<1>7. ASSUME NEW x \in {1, 2}
      PROVE  ZiplistIndex(zl, -x) = IF x <= e THEN Offset(zl, e + 1 - x) ELSE NULL
  <2> DEFINE y == -x
  <2>1. y \in Int /\ ~(y >= 0) /\ -y = x /\ e + 1 + y = e + 1 - x
    BY <1>1
  <2> HIDE DEF y
  <2>2. ZiplistIndex(zl, y) = IF -y <= e THEN Offset(zl, e + 1 + y) ELSE NULL
    BY <1>2, <2>1
  <2>3. ZiplistIndex(zl, y) = IF x <= e THEN Offset(zl, e + 1 - x) ELSE NULL
    BY <2>1, <2>2
  <2>4. QED
    BY <2>3 DEF y
<1>8. CASE n = 0
  <2>1. ~(0 < e) /\ ~(1 <= e) /\ ~(2 <= e)
    BY <1>1, <1>8
  <2>2. ZiplistIndex(zl, 0) = NULL
    BY <1>6, <2>1
  <2>3. ZiplistIndex(zl, -1) = NULL
    BY <1>7, <2>1
  <2>4. ZiplistIndex(zl, -2) = NULL
    BY <1>7, <2>1
  <2>5. QED
    BY <1>8, <2>2, <2>3, <2>4 DEF n
<1>9. CASE n # 0
  <2>1. /\ 0 < e /\ 1 < e /\ 1 <= e /\ 2 <= e /\ n \in 1 .. n /\ 1 \in 1 .. n
        /\ e + 1 - 2 = 2 * n - 1 /\ e + 1 - 1 = 2 * n /\ 1 = 2 * 1 - 1 /\ 2 = 2 * 1
        /\ 2 \in 1 .. e + 1 /\ 2 * n \in 1 .. e + 1 /\ 2 * n - 1 \in 1 .. e + 1 /\ 2 * n <= e
    BY <1>1, <1>9
  <2>2. ZiplistIndex(zl, 0) = PtrTo(zl, 1)
    BY <1>6, <2>1 DEF PtrTo
  <2>3. ZiplistIndex(zl, -2) = PtrTo(zl, n)
    <3>1. ZiplistIndex(zl, -2) = Offset(zl, e + 1 - 2)
      BY <1>7, <2>1
    <3>2. QED
      BY <2>1, <3>1 DEF PtrTo
  <2>4. ZiplistIndex(zl, -1) = Offset(zl, 2 * n)
    <3>1. ZiplistIndex(zl, -1) = Offset(zl, e + 1 - 1)
      BY <1>7, <2>1
    <3>2. QED
      BY <2>1, <3>1
  <2>5. ZiplistIndex(zl, 1) = Offset(zl, 2)
    BY <1>6, <2>1
  <2>6. ZiplistIndex(zl, -1) # NULL /\ ZiplistIndex(zl, -2) # NULL
    BY <1>5, <2>1, <2>3, <2>4 DEF PtrTo
  <2>7. ZiplistGet(zl, Offset(zl, 2)) = Integer(m[q[1]]) /\ ZiplistGet(zl, Offset(zl, 2 * n)) = Integer(m[q[n]])
    <3>1. zl.entries[2 * 1].val = Integer(m[q[1]]) /\ zl.entries[2 * n].val = Integer(m[q[n]])
      BY <1>3, <2>1
    <3>2. ZiplistGet(zl, Offset(zl, 2)) = zl.entries[2].val /\ ZiplistGet(zl, Offset(zl, 2 * n)) = zl.entries[2 * n].val
      BY <1>4, <2>1
    <3>3. QED
      BY <2>1, <3>1, <3>2
  <2>8. \A x : Integer(x).n = x
    BY DEF Integer
  <2>9. ZiplistGet(zl, ZiplistIndex(zl, 1)).n = m[q[1]] /\ ZiplistGet(zl, ZiplistIndex(zl, -1)).n = m[q[n]]
    BY <2>4, <2>5, <2>7, <2>8
  <2>10. QED
    BY <1>9, <2>2, <2>3, <2>6, <2>9 DEF n
<1>10. QED
  BY <1>8, <1>9

\* From pair i on, r is the first of the stops; or the last one, back from pair i.
FirstStop(zl, stops, r, i, n) ==
  \/ r = NULL /\ \A j \in i .. n : PtrTo(zl, j) \notin stops
  \/ \E j \in i .. n : r = PtrTo(zl, j) /\ r \in stops /\ \A h \in i .. j - 1 : PtrTo(zl, h) \notin stops

LastStop(zl, stops, r, i) ==
  \/ r = NULL /\ \A j \in 1 .. i : PtrTo(zl, j) \notin stops
  \/ \E j \in 1 .. i : r = PtrTo(zl, j) /\ r \in stops /\ \A h \in j + 1 .. i : PtrTo(zl, h) \notin stops

LEMMA SeekFinds ==
  ASSUME NEW zl, NEW q, NEW m, PairsOf(zl, q, m), NEW stops \in SUBSET MemberPtrs(zl), NEW i \in 1 .. Len(q)
  PROVE  /\ FirstStop(zl, stops, Seek(zl, PtrTo(zl, i), TRUE, stops), i, Len(q))
         /\ LastStop(zl, stops, Seek(zl, PtrTo(zl, i), FALSE, stops), i)
<1> DEFINE n == Len(q)
           p == PtrTo(zl, i)
<1>1. GoodZiplist(zl) /\ Paired(zl) /\ n \in Nat
  BY PairsArePaired
<1>2. \A j \in 1 .. n : PtrTo(zl, j) \in MemberPtrs(zl) /\ PtrTo(zl, j) \in Nat /\ PtrTo(zl, j) # NULL
  BY PairIsAt
<1>3. /\ \A x \in MemberPtrs(zl) : \E j \in 1 .. n : x = PtrTo(zl, j)
      /\ \A j, k \in 1 .. n : PtrTo(zl, j) <= PtrTo(zl, k) <=> j <= k
  BY PtrsAre
<1>4. stops \in SUBSET Nat
  BY <1>2, <1>3
<1>5. \A x \in stops : \E j \in 1 .. n : x = PtrTo(zl, j)
  BY <1>3
<1>6. \A f \in BOOLEAN : Seek(zl, p, f, stops) = Nearest(p, f, stops)
  <2>1. p \in MemberPtrs(zl) \cup {NULL}
    BY <1>2
  <2> HIDE DEF p
  <2>2. QED
    BY <1>1, <2>1, SeekIs
<1>7. FirstStop(zl, stops, Seek(zl, p, TRUE, stops), i, n)
  <2> DEFINE r == Nearest(p, TRUE, stops)
             A == Ahead(p, TRUE, stops)
  <2>1. A = {x \in stops : p <= x}
    BY DEF Ahead
  <2>2. (A = {} => r = NULL) /\ (A # {} => r \in A /\ \A x \in A : r <= x)
    BY <1>2, <1>4, NearestIs
  <2> HIDE DEF A, r
  <2>3. \A j \in i .. n : PtrTo(zl, j) \in stops => PtrTo(zl, j) \in A
    BY <1>1, <1>3, <2>1
  <2>4. CASE A = {}
    BY <1>6, <2>2, <2>3, <2>4 DEF FirstStop, r
  <2>5. CASE A # {}
    <3>1. r \in stops /\ p <= r
      BY <2>1, <2>2, <2>5
    <3>2. PICK j \in 1 .. n : r = PtrTo(zl, j)
      BY <1>5, <3>1
    <3>3. j \in i .. n
      BY <1>1, <1>3, <3>1, <3>2
    <3>4. ASSUME NEW h \in i .. j - 1
          PROVE  PtrTo(zl, h) \notin stops
      <4>1. h \in i .. n /\ h \in 1 .. n /\ ~(j <= h)
        BY <1>1
      <4>2. ~(PtrTo(zl, j) <= PtrTo(zl, h))
        BY <1>3, <4>1
      <4>3. QED
        BY <2>2, <2>3, <2>5, <3>2, <4>1, <4>2
    <3>5. QED
      BY <1>6, <3>1, <3>2, <3>3, <3>4 DEF FirstStop, r
  <2>6. QED
    BY <2>4, <2>5
<1>8. LastStop(zl, stops, Seek(zl, p, FALSE, stops), i)
  <2> DEFINE r == Nearest(p, FALSE, stops)
             A == Ahead(p, FALSE, stops)
  <2>1. A = {x \in stops : x <= p}
    BY DEF Ahead
  <2>2. (A = {} => r = NULL) /\ (A # {} => r \in A /\ \A x \in A : x <= r)
    BY <1>2, <1>4, NearestIs
  <2> HIDE DEF A, r
  <2>3. \A j \in 1 .. i : PtrTo(zl, j) \in stops => PtrTo(zl, j) \in A
    BY <1>1, <1>3, <2>1
  <2>4. CASE A = {}
    BY <1>6, <2>2, <2>3, <2>4 DEF LastStop, r
  <2>5. CASE A # {}
    <3>1. r \in stops /\ r <= p
      BY <2>1, <2>2, <2>5
    <3>2. PICK j \in 1 .. n : r = PtrTo(zl, j)
      BY <1>5, <3>1
    <3>3. j \in 1 .. i
      BY <1>1, <1>3, <3>1, <3>2
    <3>4. ASSUME NEW h \in j + 1 .. i
          PROVE  PtrTo(zl, h) \notin stops
      <4>1. h \in 1 .. i /\ h \in 1 .. n /\ ~(h <= j)
        BY <1>1
      <4>2. ~(PtrTo(zl, h) <= PtrTo(zl, j))
        BY <1>3, <4>1
      <4>3. QED
        BY <2>2, <2>3, <2>5, <3>2, <4>1, <4>2
    <3>5. QED
      BY <1>6, <3>1, <3>2, <3>3, <3>4 DEF LastStop, r
  <2>6. QED
    BY <2>4, <2>5
<1>9. QED
  BY <1>7, <1>8

\* The searches of the code begin at the first pair, or at the last.
LEMMA EndSeeks ==
  ASSUME NEW zl, NEW q, NEW m, PairsOf(zl, q, m), NEW stops \in SUBSET MemberPtrs(zl)
  PROVE  /\ FirstStop(zl, stops, Seek(zl, ZiplistIndex(zl, 0), TRUE, stops), 1, Len(q))
         /\ LastStop(zl, stops, Seek(zl, ZiplistIndex(zl, -2), FALSE, stops), Len(q))
<1> DEFINE n == Len(q)
<1>1. GoodZiplist(zl) /\ Paired(zl) /\ n \in Nat
  BY PairsArePaired
<1>2. CASE n = 0
  <2>1. ZiplistIndex(zl, 0) = NULL /\ ZiplistIndex(zl, -2) = NULL
    BY <1>2, EndPairsAre
  <2>2. Seek(zl, NULL, TRUE, stops) = NULL /\ Seek(zl, NULL, FALSE, stops) = NULL
    BY <1>1, SeekIs DEF Nearest
  <2>3. 1 .. n = {} /\ 1 .. 0 = {}
    BY <1>2
  <2>4. QED
    BY <1>2, <2>1, <2>2, <2>3 DEF FirstStop, LastStop
<1>3. CASE n # 0
  <2>1. ZiplistIndex(zl, 0) = PtrTo(zl, 1) /\ ZiplistIndex(zl, -2) = PtrTo(zl, n) /\ 1 \in 1 .. n /\ n \in 1 .. n
    BY <1>1, <1>3, EndPairsAre
  <2>2. QED
    BY <2>1, SeekFinds
<1>4. QED
  BY <1>2, <1>3

----------------------------------------------------------------------------
\* zzlFind

LEMMA FindFinds ==
  ASSUME NEW zl, NEW q, NEW m, PairsOf(zl, q, m), NEW o \in Objs
  PROVE  /\ m[o] = NULL => ZzlFind(zl, o) = NULL
         /\ m[o] # NULL => \E i \in 1 .. Len(q) : q[i] = o
         /\ \A i \in 1 .. Len(q) : q[i] = o => ZzlFind(zl, o) = PtrTo(zl, i)
<1> DEFINE n == Len(q)
           hits == {p \in MemberPtrs(zl) : ZiplistCompare(zl, p, MemberOf[o])}
           p == ZzlFind(zl, o)
<1>1. InOrder(q, m) /\ n \in Nat
  BY PairsArePaired
<1>2. \A i \in 1 .. n : q[i] \in Objs /\ m[q[i]] \in Scores /\ \A j \in 1 .. n : q[i] = q[j] => i = j
  BY <1>1, PlacesAre
<1>3. \A i \in 1 .. n : PtrTo(zl, i) \in hits <=> q[i] = o
  BY PairIsAt
<1>4. hits \in SUBSET MemberPtrs(zl) /\ p = Seek(zl, ZiplistIndex(zl, 0), TRUE, hits)
  BY DEF ZzlFind
<1> HIDE DEF hits, p
<1>5. FirstStop(zl, hits, p, 1, n)
  BY <1>4, EndSeeks
<1>6. (p = NULL /\ \A j \in 1 .. n : q[j] # o) \/ \E j \in 1 .. n : p = PtrTo(zl, j) /\ q[j] = o
  BY <1>3, <1>5 DEF FirstStop
<1>7. \A i \in 1 .. n : q[i] = o => p = PtrTo(zl, i)
  BY <1>2, <1>6
<1>8. m[o] = NULL => p = NULL
  BY <1>2, <1>6, ZSetNulls
<1>9. m[o] # NULL => \E i \in 1 .. n : q[i] = o
  BY <1>1 DEF InOrder
<1>10. QED
  BY <1>7, <1>8, <1>9 DEF p

----------------------------------------------------------------------------
\* zzlInsert

\* A pair has come to position k.
PairIn(r, zl, k, x, y) ==
  /\ GoodZiplist(r) /\ Len(r.entries) = Len(zl.entries) + 2
  /\ \A j \in 1 .. Len(zl.entries) + 2 :
       r.entries[j].val = IF j < k THEN zl.entries[j].val ELSE IF j = k THEN x
                          ELSE IF j = k + 1 THEN y ELSE zl.entries[j - 2].val

LEMMA TwoInserted ==
  ASSUME NEW zl, Len(zl.entries) \in Nat, NEW k \in 1 .. Len(zl.entries) + 1, NEW x, NEW y, NEW z, InsertedIn(z, zl, k, x),
         NEW r, InsertedIn(r, z, k + 1, y)
  PROVE  PairIn(r, zl, k, x, y)
<1> DEFINE n == Len(zl.entries)
<1>1. GoodZiplist(r) /\ Len(z.entries) = n + 1 /\ Len(r.entries) = Len(z.entries) + 1
  BY DEF InsertedIn
<1>2. \A j \in 1 .. n + 1 : z.entries[j].val = IF j < k THEN zl.entries[j].val ELSE IF j = k THEN x ELSE zl.entries[j - 1].val
  BY DEF InsertedIn
<1>3. \A j \in 1 .. n + 2 : r.entries[j].val = IF j < k + 1 THEN z.entries[j].val ELSE IF j = k + 1 THEN y ELSE z.entries[j - 1].val
  <2>1. Len(z.entries) + 1 = n + 2
    BY <1>1
  <2>2. QED
    BY <2>1 DEF InsertedIn
<1> HIDE DEF n
<1>4. n \in Nat /\ k \in 1 .. n + 1
  BY DEF n
<1>5. ASSUME NEW j \in 1 .. n + 2
      PROVE  r.entries[j].val = IF j < k THEN zl.entries[j].val ELSE IF j = k THEN x
                                ELSE IF j = k + 1 THEN y ELSE zl.entries[j - 2].val
  <2>1. CASE j <= k
    <3>1. j \in 1 .. n + 1 /\ j < k + 1
      BY <1>4, <2>1
    <3>2. r.entries[j].val = z.entries[j].val
      BY <1>3, <3>1
    <3>3. z.entries[j].val = IF j < k THEN zl.entries[j].val ELSE IF j = k THEN x ELSE zl.entries[j - 1].val
      BY <1>2, <3>1
    <3>4. j < k \/ j = k
      BY <1>4, <2>1
    <3>5. QED
      BY <3>2, <3>3, <3>4
  <2>2. CASE j = k + 1
    <3>1. ~(j < k) /\ j # k /\ ~(j < k + 1)
      BY <1>4, <2>2
    <3>2. r.entries[j].val = y
      BY <1>3, <2>2, <3>1
    <3>3. QED
      BY <2>2, <3>1, <3>2
  <2>3. CASE j > k + 1
    <3>1. ~(j < k) /\ j # k /\ j # k + 1 /\ ~(j < k + 1)
      BY <1>4, <2>3
    <3>2. j - 1 \in 1 .. n + 1 /\ ~(j - 1 < k) /\ j - 1 # k /\ j - 1 - 1 = j - 2
      BY <1>4, <2>3
    <3>3. r.entries[j].val = z.entries[j - 1].val
      BY <1>3, <3>1
    <3>4. z.entries[j - 1].val = zl.entries[j - 1 - 1].val
      BY <1>2, <3>2
    <3>5. QED
      BY <3>1, <3>2, <3>3, <3>4
  <2>4. QED
    BY <1>4, <2>1, <2>2, <2>3
<1>6. Len(r.entries) = n + 2
  BY <1>1, <1>4
<1>7. QED
  BY <1>1, <1>5, <1>6 DEF PairIn, n

LEMMA PairInserted ==
  ASSUME NEW zl, GoodZiplist(zl), NEW k \in 1 .. Len(zl.entries) + 1, NEW o \in Objs, NEW s \in Int,
         NEW eptr, eptr = IF k <= Len(zl.entries) THEN Offset(zl, k) ELSE NULL
  PROVE  LET r == ZzlInsertAt(zl, eptr, o, s)
         IN PairIn(r, zl, k, MemberOf[o], Integer(s)) \/ (Ruined(r) /\ eptr # NULL)
<1> DEFINE n == Len(zl.entries)
           x == MemberOf[o]
           y == Integer(s)
           r == ZzlInsertAt(zl, eptr, o, s)
<1>1. n \in Nat
  BY EndsAre
<1>2. x \in Value /\ y \in Value
  BY ZSetAssumption DEF Integer, Value
<1>3. CASE k > n
  <2> DEFINE a == ZiplistPush(zl, x, ZIPLIST_TAIL)
             b == ZiplistPush(a, y, ZIPLIST_TAIL)
  <2>1. eptr = NULL /\ k = n + 1
    BY <1>1, <1>3
  <2>2. r = b
    BY <2>1 DEF ZzlInsertAt
  <2> HIDE DEF x, y, r
  <2>3. InsertedIn(a, zl, k, x)
    BY <1>2, <2>1, AppendIs
  <2>4. GoodZiplist(a) /\ Len(a.entries) + 1 = k + 1
    BY <1>1, <2>1, <2>3 DEF InsertedIn
  <2> HIDE DEF a
  <2>5. InsertedIn(b, a, k + 1, y)
    <3>1. InsertedIn(b, a, Len(a.entries) + 1, y)
      BY <1>2, <2>4, AppendIs
    <3>2. QED
      BY <2>4, <3>1
  <2> HIDE DEF b
  <2>6. PairIn(b, zl, k, x, y)
    BY <1>1, <2>3, <2>5, TwoInserted
  <2>7. QED
    BY <2>2, <2>6 DEF r, x, y
<1>4. CASE k <= n
  <2> DEFINE z == ZiplistInsert(zl, Offset(zl, k), x)
             p == ZiplistNext(z, Offset(zl, k))
  <2>1. eptr = Offset(zl, k) /\ Offset(zl, k) # NULL
    BY <1>4, AtOffset
  <2>2. r = ZiplistInsert(z, p, y)
    BY <2>1 DEF ZzlInsertAt
  <2> HIDE DEF x, y, r
  <2>3. InsertedIn(z, zl, k, x) \/ (Spoilt(z) /\ Len(z.entries) = n + 1 /\ p = Offset(z, k + 1))
    BY <1>2, InsertionIs
  <2> HIDE DEF z
  <2>4. ASSUME InsertedIn(z, zl, k, x)
        PROVE  PairIn(r, zl, k, x, y) \/ Ruined(r)
    <3>1. GoodZiplist(z) /\ Len(z.entries) = n + 1 /\ \A j \in 1 .. k : Offset(z, j) = Offset(zl, j)
      BY <2>4 DEF InsertedIn
    <3>2. Offset(z, k) = Offset(zl, k) /\ k \in 1 .. Len(z.entries) + 1 /\ k < Len(z.entries) /\ k + 1 \in 1 .. Len(z.entries) + 1
      BY <1>1, <1>4, <3>1
    <3>3. ZiplistNext(z, Offset(z, k)) = Offset(z, k + 1)
      BY <3>1, <3>2, NextIs
    <3>4. r = ZiplistInsert(z, Offset(z, k + 1), y)
      BY <2>2, <3>2, <3>3
    <3>5. InsertedIn(r, z, k + 1, y) \/ Spoilt(r)
      BY <1>2, <3>1, <3>2, <3>4, InsertionIs
    <3>6. InsertedIn(r, z, k + 1, y) => PairIn(r, zl, k, x, y)
      BY <1>1, <2>4, TwoInserted
    <3>7. QED
      BY <3>5, <3>6, SpoiltIsRuined
  <2>5. ASSUME Spoilt(z), Len(z.entries) = n + 1, p = Offset(z, k + 1)
        PROVE  Ruined(r)
    <3>1. k + 1 \in 1 .. Len(z.entries)
      BY <1>1, <1>4, <2>5
    <3>2. Ruined(ZiplistInsert(z, Offset(z, k + 1), y))
      BY <1>2, <2>5, <3>1, SpoiltStays
    <3>3. QED
      BY <2>2, <2>5, <3>2
  <2>6. QED
    BY <2>1, <2>3, <2>4, <2>5 DEF r, x, y
<1>5. QED
  BY <1>1, <1>3, <1>4

\* The pair at place k of the members is at position 2k - 1 of the ziplist.
LEMMA PairComes ==
  ASSUME NEW zl, NEW q, NEW m, PairsOf(zl, q, m), NEW o \in Objs, m[o] = NULL, NEW s \in Scores, NEW k \in 1 .. Len(q) + 1,
         \A i \in 1 .. Len(q) : IF i < k THEN m[q[i]] < s \/ (m[q[i]] = s /\ q[i] < o)
                                ELSE s < m[q[i]] \/ (m[q[i]] = s /\ o < q[i]),
         NEW r, PairIn(r, zl, 2 * k - 1, MemberOf[o], Integer(s))
  PROVE  PairsOf(r, With(q, k, o), [m EXCEPT ![o] = s])
<1> DEFINE n == Len(q)
           t == With(q, k, o)
           w == [m EXCEPT ![o] = s]
           e == Len(zl.entries)
<1>1. InOrder(q, m) /\ n \in Nat /\ e = 2 * n
  BY PairsArePaired
<1>2. InOrder(t, w)
  BY <1>1, MemberAdded
<1>3. q \in Seq(Objs) /\ m \in ZMap
  BY <1>1 DEF InOrder
<1>4. Len(t) = n + 1 /\ \A j \in 1 .. n + 1 : t[j] = IF j < k THEN q[j] ELSE IF j = k THEN o ELSE q[j - 1]
  BY <1>3, WithIs DEF IsWith
<1>5. w[o] = s /\ \A p \in Objs : p # o => w[p] = m[p]
  BY <1>3 DEF ZMap
<1>6. \A i \in 1 .. n : q[i] \in Objs /\ q[i] # o
  <2>1. \A i \in 1 .. n : q[i] \in Objs /\ m[q[i]] \in Scores
    BY <1>1, PlacesAre
  <2>2. QED
    BY <2>1, ZSetNulls
<1>7. \A i \in 1 .. n : zl.entries[2 * i - 1].val = MemberOf[q[i]] /\ zl.entries[2 * i].val = Integer(m[q[i]])
  BY DEF PairsOf
<1>8. GoodZiplist(r) /\ Len(r.entries) = 2 * (n + 1)
  BY <1>1 DEF PairIn
<1>9. \A j \in 1 .. 2 * n + 2 :
        r.entries[j].val = IF j < 2 * k - 1 THEN zl.entries[j].val ELSE IF j = 2 * k - 1 THEN MemberOf[o]
                           ELSE IF j = 2 * k - 1 + 1 THEN Integer(s) ELSE zl.entries[j - 2].val
  BY <1>1 DEF PairIn
<1> HIDE DEF t, w, n, e
<1>10. ASSUME NEW j \in 1 .. n + 1
       PROVE  r.entries[2 * j - 1].val = MemberOf[t[j]] /\ r.entries[2 * j].val = Integer(w[t[j]])
  <2>1. j \in Int /\ k \in Int /\ 2 * j - 1 \in 1 .. 2 * n + 2 /\ 2 * j \in 1 .. 2 * n + 2
    BY <1>1
  <2>2. CASE j < k
    <3>1. 2 * j - 1 < 2 * k - 1 /\ 2 * j < 2 * k - 1 /\ j \in 1 .. n
      BY <1>1, <2>1, <2>2 DEF n
    <3>2. r.entries[2 * j - 1].val = zl.entries[2 * j - 1].val /\ r.entries[2 * j].val = zl.entries[2 * j].val
      BY <1>9, <2>1, <3>1
    <3>3. t[j] = q[j] /\ w[q[j]] = m[q[j]]
      BY <1>4, <1>5, <1>6, <2>2, <3>1
    <3>4. QED
      BY <1>7, <3>1, <3>2, <3>3
  <2>3. CASE j = k
    <3>1. ~(2 * j - 1 < 2 * k - 1) /\ 2 * j - 1 = 2 * k - 1 /\ ~(2 * j < 2 * k - 1) /\ 2 * j # 2 * k - 1 /\ 2 * j = 2 * k - 1 + 1
      BY <2>1, <2>3
    <3>2. r.entries[2 * j - 1].val = MemberOf[o] /\ r.entries[2 * j].val = Integer(s)
      BY <1>9, <2>1, <3>1
    <3>3. t[j] = o
      BY <1>4, <2>1, <2>3
    <3>4. QED
      BY <1>5, <3>2, <3>3
  <2>4. CASE j > k
    <3>1. /\ ~(2 * j - 1 < 2 * k - 1) /\ 2 * j - 1 # 2 * k - 1 /\ 2 * j - 1 # 2 * k - 1 + 1
          /\ ~(2 * j < 2 * k - 1) /\ 2 * j # 2 * k - 1 /\ 2 * j # 2 * k - 1 + 1
      BY <2>1, <2>4
    <3>2. j - 1 \in 1 .. n /\ 2 * j - 1 - 2 = 2 * (j - 1) - 1 /\ 2 * j - 2 = 2 * (j - 1)
      BY <1>1, <2>1, <2>4 DEF n
    <3>3. r.entries[2 * j - 1].val = zl.entries[2 * (j - 1) - 1].val /\ r.entries[2 * j].val = zl.entries[2 * (j - 1)].val
      <4>1. r.entries[2 * j - 1].val = zl.entries[2 * j - 1 - 2].val /\ r.entries[2 * j].val = zl.entries[2 * j - 2].val
        BY <1>9, <2>1, <3>1
      <4>2. QED
        BY <3>2, <4>1
    <3>4. ~(j < k) /\ j # k
      BY <2>1, <2>4
    <3>5. t[j] = q[j - 1] /\ w[q[j - 1]] = m[q[j - 1]]
      BY <1>4, <1>5, <1>6, <3>2, <3>4
    <3>6. QED
      BY <1>7, <3>2, <3>3, <3>5
  <2>5. QED
    BY <2>1, <2>2, <2>3, <2>4
<1>11. QED
  BY <1>2, <1>4, <1>8, <1>10 DEF PairsOf, t, w, n

\* zzlInsert puts the pair at its place.
LEMMA InsertsInOrder ==
  ASSUME NEW zl, NEW q, NEW m, PairsOf(zl, q, m), NEW o \in Objs, m[o] = NULL, NEW s \in Scores
  PROVE  \/ Ruined(Inserted(zl, o, s))
         \/ \E t : PairsOf(Inserted(zl, o, s), t, [m EXCEPT ![o] = s])
<1> DEFINE n == Len(q)
           greater == {p \in MemberPtrs(zl) : ScoreAt(zl, p) > s \/ (ScoreAt(zl, p) = s /\ MemberAt(zl, p) > o)}
           eptr == Seek(zl, ZiplistIndex(zl, 0), TRUE, greater)
           r == ZzlInsertAt(zl, eptr, o, s)
<1>1. GoodZiplist(zl) /\ InOrder(q, m) /\ n \in Nat /\ Len(zl.entries) = 2 * n
  BY PairsArePaired
<1>2. /\ \A i \in 1 .. n : q[i] \in Objs /\ q[i] \in Int /\ m[q[i]] \in Scores /\ m[q[i]] \in Int
      /\ \A i, j \in 1 .. n : Precedes(m, q[i], q[j]) <=> i < j
  BY <1>1, PlacesAre
<1>3. s \in Int /\ o \in Int /\ \A i \in 1 .. n : q[i] # o
  BY <1>2, ZSetNulls
<1>4. \A i \in 1 .. n : PtrTo(zl, i) \in greater <=> m[q[i]] > s \/ (m[q[i]] = s /\ q[i] > o)
  BY PairIsAt
<1>5. greater \in SUBSET MemberPtrs(zl)
  OBVIOUS
<1>6. Inserted(zl, o, s) = r
  BY DEF Inserted
<1> HIDE DEF greater
<1>7. FirstStop(zl, greater, eptr, 1, n)
  BY <1>5, EndSeeks
<1> HIDE DEF eptr
<1>8. \E k \in 1 .. n + 1 : /\ eptr = IF k <= n THEN PtrTo(zl, k) ELSE NULL
                            /\ k <= n => PtrTo(zl, k) \in greater
                            /\ \A i \in 1 .. n : i < k => PtrTo(zl, i) \notin greater
  <2>1. CASE eptr = NULL /\ \A j \in 1 .. n : PtrTo(zl, j) \notin greater
    <3>1. n + 1 \in 1 .. n + 1 /\ ~(n + 1 <= n)
      BY <1>1
    <3>2. QED
      BY <2>1, <3>1
  <2>2. CASE \E j \in 1 .. n : eptr = PtrTo(zl, j) /\ eptr \in greater /\ \A h \in 1 .. j - 1 : PtrTo(zl, h) \notin greater
    <3>1. PICK j \in 1 .. n : eptr = PtrTo(zl, j) /\ eptr \in greater /\ \A h \in 1 .. j - 1 : PtrTo(zl, h) \notin greater
      BY <2>2
    <3>2. j \in 1 .. n + 1 /\ j <= n /\ \A i \in 1 .. n : i < j => i \in 1 .. j - 1
      BY <1>1
    <3>3. QED
      BY <3>1, <3>2
  <2>3. QED
    BY <1>7, <2>1, <2>2 DEF FirstStop
<1>9. PICK k \in 1 .. n + 1 : /\ eptr = IF k <= n THEN PtrTo(zl, k) ELSE NULL
                              /\ k <= n => PtrTo(zl, k) \in greater
                              /\ \A i \in 1 .. n : i < k => PtrTo(zl, i) \notin greater
  BY <1>8
<1>10. ASSUME NEW i \in 1 .. n
       PROVE  IF i < k THEN m[q[i]] < s \/ (m[q[i]] = s /\ q[i] < o)
              ELSE s < m[q[i]] \/ (m[q[i]] = s /\ o < q[i])
  <2>1. CASE i < k
    <3>1. ~(m[q[i]] > s \/ (m[q[i]] = s /\ q[i] > o))
      BY <1>4, <1>9, <2>1
    <3>2. m[q[i]] \in Int /\ q[i] \in Int /\ q[i] # o
      BY <1>2, <1>3
    <3>3. QED
      BY <1>3, <2>1, <3>1, <3>2
  <2>2. CASE ~(i < k)
    <3>1. k \in 1 .. n /\ k <= i
      BY <1>1, <2>2
    <3>2. m[q[k]] > s \/ (m[q[k]] = s /\ q[k] > o)
      BY <1>4, <1>9, <3>1
    <3>3. m[q[i]] \in Int /\ q[i] \in Int /\ m[q[k]] \in Int /\ q[k] \in Int
      BY <1>2, <3>1
    <3>4. i = k \/ Precedes(m, q[k], q[i])
      BY <1>1, <1>2, <3>1
    <3>5. m[q[i]] > s \/ (m[q[i]] = s /\ q[i] > o)
      BY <1>3, <3>2, <3>3, <3>4 DEF Precedes
    <3>6. QED
      BY <1>3, <2>2, <3>3, <3>5
  <2>3. QED
    BY <2>1, <2>2
<1>11. /\ 2 * k - 1 \in 1 .. Len(zl.entries) + 1
       /\ eptr = IF 2 * k - 1 <= Len(zl.entries) THEN Offset(zl, 2 * k - 1) ELSE NULL
  <2>1. 2 * k - 1 \in 1 .. 2 * n + 1 /\ (2 * k - 1 <= 2 * n <=> k <= n)
    BY <1>1
  <2>2. QED
    BY <1>1, <1>9, <2>1 DEF PtrTo
<1>12. PairIn(r, zl, 2 * k - 1, MemberOf[o], Integer(s)) \/ Ruined(r)
  BY <1>1, <1>3, <1>11, PairInserted
<1> HIDE DEF r
<1>13. PairIn(r, zl, 2 * k - 1, MemberOf[o], Integer(s)) => PairsOf(r, With(q, k, o), [m EXCEPT ![o] = s])
  BY <1>10, PairComes
<1>14. QED
  BY <1>6, <1>12, <1>13

----------------------------------------------------------------------------
\* Deletions.

\* d entries have left from position k on.
CutFrom(r, zl, k, d) ==
  /\ GoodZiplist(r) /\ Len(r.entries) = Len(zl.entries) - d
  /\ \A j \in 1 .. Len(zl.entries) - d : r.entries[j].val = IF j < k THEN zl.entries[j].val ELSE zl.entries[j + d].val
  /\ Offset(r, k) = Offset(zl, k)

LEMMA CutNone ==
  ASSUME NEW zl, GoodZiplist(zl), NEW k
  PROVE  CutFrom(zl, zl, k, 0)
<1> DEFINE n == Len(zl.entries)
<1>1. n \in Nat
  BY EndsAre
<1>2. n - 0 = n /\ \A j \in 1 .. n : j + 0 = j
  BY <1>1
<1>3. \A j \in 1 .. n : zl.entries[j].val = IF j < k THEN zl.entries[j].val ELSE zl.entries[j + 0].val
  BY <1>2
<1>4. QED
  BY <1>2, <1>3 DEF CutFrom

LEMMA CutOne ==
  ASSUME NEW zl, Len(zl.entries) \in Nat, NEW k \in Nat, k >= 1, NEW d \in Nat, k <= Len(zl.entries) - d,
         NEW z, CutFrom(z, zl, k, d)
  PROVE  CutFrom(ZiplistDelete(z, Offset(zl, k)), zl, k, d + 1)
<1> DEFINE n == Len(zl.entries)
           r == ZiplistDelete(z, Offset(zl, k))
<1>1. /\ GoodZiplist(z) /\ Len(z.entries) = n - d /\ Offset(z, k) = Offset(zl, k)
      /\ \A j \in 1 .. n - d : z.entries[j].val = IF j < k THEN zl.entries[j].val ELSE zl.entries[j + d].val
  BY DEF CutFrom
<1>2. k \in 1 .. Len(z.entries)
  BY <1>1
<1>3. r = ZiplistDelete(z, Offset(z, k))
  BY <1>1
<1> HIDE DEF r, n
<1>4. /\ GoodZiplist(r) /\ Len(r.entries) = Len(z.entries) - 1
      /\ \A j \in 1 .. Len(z.entries) - 1 : r.entries[j].val = IF j < k THEN z.entries[j].val ELSE z.entries[j + 1].val
      /\ \A j \in 1 .. k : Offset(r, j) = Offset(z, j)
  BY <1>1, <1>2, <1>3, DeleteOne
<1>5. Offset(r, k) = Offset(zl, k)
  BY <1>1, <1>4
<1>6. n \in Nat /\ Len(z.entries) - 1 = n - (d + 1) /\ k <= n - d
  BY <1>1 DEF n
<1>7. ASSUME NEW j \in 1 .. n - (d + 1)
      PROVE  r.entries[j].val = IF j < k THEN zl.entries[j].val ELSE zl.entries[j + (d + 1)].val
  <2>1. r.entries[j].val = IF j < k THEN z.entries[j].val ELSE z.entries[j + 1].val
    BY <1>4, <1>6
  <2>2. CASE j < k
    <3>1. j \in 1 .. n - d
      BY <1>6
    <3>2. z.entries[j].val = zl.entries[j].val
      BY <1>1, <2>2, <3>1
    <3>3. QED
      BY <2>1, <2>2, <3>2
  <2>3. CASE ~(j < k)
    <3>1. j + 1 \in 1 .. n - d /\ ~(j + 1 < k) /\ j + 1 + d = j + (d + 1)
      BY <1>6, <2>3
    <3>2. z.entries[j + 1].val = zl.entries[j + 1 + d].val
      BY <1>1, <3>1
    <3>3. QED
      BY <2>1, <2>3, <3>1, <3>2
  <2>4. QED
    BY <2>2, <2>3
<1>8. QED
  BY <1>4, <1>5, <1>6, <1>7 DEF CutFrom, r, n

LEMMA CutPair ==
  ASSUME NEW zl, Len(zl.entries) \in Nat, NEW k \in Nat, k >= 1, NEW d \in Nat, k + 1 <= Len(zl.entries) - d,
         NEW z, CutFrom(z, zl, k, d)
  PROVE  CutFrom(DeletedPair(z, Offset(zl, k)), zl, k, d + 2)
<1> DEFINE a == ZiplistDelete(z, Offset(zl, k))
<1>1. k <= Len(zl.entries) - d /\ k <= Len(zl.entries) - (d + 1) /\ d + 1 \in Nat /\ d + 1 + 1 = d + 2
  OBVIOUS
<1>2. CutFrom(a, zl, k, d + 1)
  BY <1>1, CutOne
<1>3. DeletedPair(z, Offset(zl, k)) = ZiplistDelete(a, Offset(zl, k))
  BY DEF DeletedPair
<1> HIDE DEF a
<1>4. CutFrom(ZiplistDelete(a, Offset(zl, k)), zl, k, d + 1 + 1)
  BY <1>1, <1>2, CutOne
<1>5. QED
  BY <1>1, <1>3, <1>4

\* The members from place a to place b.
Places(q, a, b) == {q[i] : i \in a .. b}

\* The pairs from place a to place b have left.
LEMMA PairsLeave ==
  ASSUME NEW zl, NEW q, NEW m, PairsOf(zl, q, m), NEW a \in Int, NEW b \in Int, a >= 1, b <= Len(q), a <= b + 1,
         NEW r, CutFrom(r, zl, 2 * a - 1, 2 * (b - a + 1))
  PROVE  \E t : PairsOf(r, t, Removed(m, Places(q, a, b)))
<1> DEFINE n == Len(q)
           c == b - a + 1
           t == SubSeq(q, 1, a - 1) \o SubSeq(q, b + 1, Len(q))
           S == {q[i] : i \in a .. b}
           w == Removed(m, S)
           e == Len(zl.entries)
<1>1. InOrder(q, m) /\ n \in Nat /\ e = 2 * n
  BY PairsArePaired
<1>2. q \in Seq(Objs) /\ m \in ZMap
  BY <1>1 DEF InOrder
<1>3. t \in Seq(Objs) /\ Len(t) = n - c /\ \A j \in 1 .. n - c : t[j] = IF j < a THEN q[j] ELSE q[j + c]
  <2> DEFINE next == b + 1
  <2>1. a \in 1 .. n + 1 /\ next \in a .. n + 1 /\ n + a - next = n - c /\ \A j \in Int : j + next - a = j + c
    BY <1>1
  <2>2. t = SubSeq(q, 1, a - 1) \o SubSeq(q, next, Len(q))
    OBVIOUS
  <2> HIDE DEF t, next, n, c
  <2>3. t \in Seq(Objs) /\ Len(t) = n + a - next /\ \A j \in 1 .. n + a - next : t[j] = IF j < a THEN q[j] ELSE q[j + next - a]
    BY <1>2, <2>1, <2>2, CutIs DEF n
  <2>4. \A j \in 1 .. n - c : j \in Int
    OBVIOUS
  <2>5. Len(t) = n - c /\ \A j \in 1 .. n - c : t[j] = IF j < a THEN q[j] ELSE q[j + next - a]
    BY <2>1, <2>3
  <2>6. QED
    BY <2>1, <2>3, <2>4, <2>5
<1> HIDE DEF t
<1>4. c \in Nat
  OBVIOUS
<1>5. InOrder(t, w)
  <2>1. Len(t) = Len(q) - (b - a + 1) /\ \A j \in 1 .. Len(t) : t[j] = IF j < a THEN q[j] ELSE q[j + (b - a + 1)]
    BY <1>3
  <2>2. QED
    BY <1>1, <1>3, <2>1, MembersRemoved
<1>6. \A i \in 1 .. n : zl.entries[2 * i - 1].val = MemberOf[q[i]] /\ zl.entries[2 * i].val = Integer(m[q[i]])
  BY DEF PairsOf
<1>7. /\ GoodZiplist(r) /\ Len(r.entries) = 2 * (n - c)
      /\ \A j \in 1 .. 2 * (n - c) : r.entries[j].val = IF j < 2 * a - 1 THEN zl.entries[j].val ELSE zl.entries[j + 2 * c].val
  <2>1. e - 2 * c = 2 * (n - c)
    BY <1>1
  <2>2. QED
    BY <2>1 DEF CutFrom
<1>8. /\ \A i \in 1 .. n : q[i] \in Objs
      /\ \A i, j \in 1 .. n : q[i] = q[j] => i = j
  BY <1>1, PlacesAre
<1>9. \A i \in 1 .. n : q[i] \in S => i \in a .. b
  <2>1. \A i \in a .. b : i \in 1 .. n
    BY <1>1
  <2>2. QED
    BY <1>8, <2>1
<1>10. \A i \in 1 .. n : i \notin a .. b => w[q[i]] = m[q[i]]
  BY <1>8, <1>9 DEF Removed
<1>11. b = a + c - 1
  OBVIOUS
<1> HIDE DEF w, S, n, c, e
<1>12. ASSUME NEW j \in 1 .. n - c
       PROVE  r.entries[2 * j - 1].val = MemberOf[t[j]] /\ r.entries[2 * j].val = Integer(w[t[j]])
  <2>1. j \in Int /\ 2 * j - 1 \in 1 .. 2 * (n - c) /\ 2 * j \in 1 .. 2 * (n - c)
    BY <1>1, <1>4 DEF n
  <2>2. CASE j < a
    <3>1. 2 * j - 1 < 2 * a - 1 /\ 2 * j < 2 * a - 1 /\ j \in 1 .. n /\ j \notin a .. b
      BY <1>1, <1>4, <2>1, <2>2
    <3>2. r.entries[2 * j - 1].val = zl.entries[2 * j - 1].val /\ r.entries[2 * j].val = zl.entries[2 * j].val
      BY <1>7, <2>1, <3>1
    <3>3. t[j] = q[j] /\ w[q[j]] = m[q[j]]
      BY <1>3, <1>10, <2>2, <3>1
    <3>4. QED
      BY <1>6, <3>1, <3>2, <3>3
  <2>3. CASE ~(j < a)
    <3>1. /\ ~(2 * j - 1 < 2 * a - 1) /\ ~(2 * j < 2 * a - 1) /\ j + c \in 1 .. n /\ j + c \notin a .. b
          /\ 2 * j - 1 + 2 * c = 2 * (j + c) - 1 /\ 2 * j + 2 * c = 2 * (j + c)
      BY <1>1, <1>4, <1>11, <2>1, <2>3
    <3>2. r.entries[2 * j - 1].val = zl.entries[2 * (j + c) - 1].val /\ r.entries[2 * j].val = zl.entries[2 * (j + c)].val
      <4>1. r.entries[2 * j - 1].val = zl.entries[2 * j - 1 + 2 * c].val /\ r.entries[2 * j].val = zl.entries[2 * j + 2 * c].val
        BY <1>7, <2>1, <3>1
      <4>2. QED
        BY <3>1, <4>1
    <3>3. t[j] = q[j + c] /\ w[q[j + c]] = m[q[j + c]]
      BY <1>3, <1>10, <2>3, <3>1
    <3>4. QED
      BY <1>6, <3>1, <3>2, <3>3
  <2>4. QED
    BY <2>2, <2>3
<1>13. PairsOf(r, t, w)
  BY <1>3, <1>5, <1>7, <1>12 DEF PairsOf
<1>14. QED
  BY <1>13 DEF w, S, Places

\* zzlDelete
LEMMA PairDeleted ==
  ASSUME NEW zl, NEW q, NEW m, PairsOf(zl, q, m), NEW i \in 1 .. Len(q)
  PROVE  \E t : PairsOf(DeletedPair(zl, PtrTo(zl, i)), t, [m EXCEPT ![q[i]] = NULL])
<1> DEFINE n == Len(q)
           k == 2 * i - 1
           r == DeletedPair(zl, Offset(zl, k))
<1>1. GoodZiplist(zl) /\ InOrder(q, m) /\ n \in Nat /\ Len(zl.entries) = 2 * n
  BY PairsArePaired
<1>2. CutFrom(zl, zl, k, 0)
  BY <1>1, CutNone
<1>3. k \in Nat /\ k >= 1 /\ k + 1 <= Len(zl.entries) - 0 /\ Len(zl.entries) \in Nat
  BY <1>1
<1>4. CutFrom(r, zl, k, 0 + 2)
  <2> HIDE DEF k, r
  <2>1. QED
    BY <1>2, <1>3, CutPair DEF r
<1>5. i \in Int /\ i >= 1 /\ i <= Len(q) /\ i <= i + 1 /\ 0 + 2 = 2 * (i - i + 1)
  BY <1>1
<1> HIDE DEF r
<1>6. CutFrom(r, zl, 2 * i - 1, 2 * (i - i + 1))
  BY <1>4, <1>5
<1>7. \E t : PairsOf(r, t, Removed(m, Places(q, i, i)))
  BY <1>5, <1>6, PairsLeave
<1>8. Removed(m, Places(q, i, i)) = [m EXCEPT ![q[i]] = NULL]
  <2>1. i .. i = {i}
    BY <1>5
  <2>2. {q[j] : j \in i .. i} = {q[i]}
    BY <2>1
  <2>3. m \in [Objs -> Scores \cup {NULL}]
    BY <1>1 DEF InOrder, ZMap
  <2>4. QED
    BY <2>2, <2>3 DEF Removed, Places
<1>9. QED
  BY <1>7, <1>8 DEF PtrTo, r

\* Pointers that count as many as their places.
LEMMA PtrsCount ==
  ASSUME NEW zl, NEW q, NEW m, PairsOf(zl, q, m), NEW a \in Int, NEW b \in Int, a >= 1, b <= Len(q), a <= b + 1
  PROVE  Cardinality({PtrTo(zl, i) : i \in a .. b}) = b - a + 1
<1> DEFINE S == {PtrTo(zl, i) : i \in a .. b}
           f == [i \in a .. b |-> PtrTo(zl, i)]
<1>1. \A i \in a .. b : i \in 1 .. Len(q)
  BY PairsArePaired
<1>2. \A i, j \in a .. b : PtrTo(zl, i) = PtrTo(zl, j) => i = j
  BY <1>1, PtrsAre
<1>3. IsFiniteSet(a .. b) /\ Cardinality(a .. b) = b - a + 1
  <2>1. Cardinality(a .. b) = IF a > b THEN 0 ELSE b - a + 1
    BY FS_Interval
  <2>2. a > b => b - a + 1 = 0
    OBVIOUS
  <2>3. QED
    BY <2>1, <2>2, FS_Interval
<1>4. f \in Bijection(a .. b, S)
  <2>1. f \in [a .. b -> S]
    OBVIOUS
  <2>2. \A i, j \in a .. b : f[i] = f[j] => i = j
    BY <1>2
  <2>3. \A s \in S : \E i \in a .. b : f[i] = s
    OBVIOUS
  <2> HIDE DEF f, S
  <2>4. QED
    BY <2>1, <2>2, <2>3 DEF Bijection, Injection, Surjection, IsInjective
<1> HIDE DEF f, S
<1>5. Cardinality(S) = b - a + 1
  <2>1. ExistsBijection(a .. b, S)
    BY <1>4 DEF ExistsBijection
  <2>2. QED
    BY <1>3, <2>1, FS_Bijection
<1>6. QED
  BY <1>5 DEF S

\* The places from i to b are the ones below the maximum that a removal takes.
BelowFrom(zl, below, i, b, n) ==
  /\ b \in Int /\ i <= b + 1 /\ b <= n
  /\ \A j \in i .. b : PtrTo(zl, j) \in below
  /\ b # n => PtrTo(zl, b + 1) \notin below

LEMMA RangeRemoved ==
  ASSUME NEW zl, NEW q, NEW m, PairsOf(zl, q, m), NEW i \in 1 .. Len(q), NEW below
  PROVE  LET r == RemoveBelow(zl, PtrTo(zl, i), below)
         IN \E b : /\ BelowFrom(zl, below, i, b, Len(q)) /\ r.deleted = b - i + 1
                   /\ \E t : PairsOf(r.zl, t, Removed(m, Places(q, i, b)))
<1> DEFINE n == Len(q)
           eptr == PtrTo(zl, i)
           stops == MemberPtrs(zl) \ below
           stop == Seek(zl, eptr, TRUE, stops)
           pairs == {p \in MemberPtrs(zl) : p >= eptr /\ (stop = NULL \/ p < stop)}
           r == RemoveBelow(zl, eptr, below)
<1>1. GoodZiplist(zl) /\ Paired(zl) /\ n \in Nat /\ Len(zl.entries) = 2 * n
  BY PairsArePaired
<1>2. \A j \in 1 .. n : PtrTo(zl, j) \in MemberPtrs(zl) /\ PtrTo(zl, j) \in Nat /\ PtrTo(zl, j) # NULL
  BY PairIsAt
<1>3. /\ MemberPtrs(zl) = {PtrTo(zl, j) : j \in 1 .. n}
      /\ \A j, h \in 1 .. n : PtrTo(zl, j) <= PtrTo(zl, h) <=> j <= h
  BY PtrsAre
<1>4. FirstStop(zl, stops, stop, i, n)
  <2>1. stops \in SUBSET MemberPtrs(zl)
    OBVIOUS
  <2> HIDE DEF stops
  <2>2. QED
    BY <2>1, SeekFinds
<1>5. PICK num \in Nat : num = Cardinality(pairs) /\ r.deleted = num /\ \E after : r.zl = after[num] /\ Shrinks(after, zl, eptr, num)
  <2>1. eptr \in MemberPtrs(zl)
    BY <1>2
  <2> HIDE DEF eptr
  <2>2. QED
    BY <1>1, <2>1, RemovalUnfolds
<1> HIDE DEF r, stop
<1>6. PICK b : BelowFrom(zl, below, i, b, n) /\ pairs = {PtrTo(zl, j) : j \in i .. b}
  <2>1. CASE stop = NULL /\ \A j \in i .. n : PtrTo(zl, j) \notin stops
    <3>1. n \in Int /\ i <= n + 1 /\ \A j \in i .. n : j \in 1 .. n
      BY <1>1
    <3>2. \A j \in i .. n : PtrTo(zl, j) \in below
      BY <1>2, <2>1, <3>1
    <3>3. BelowFrom(zl, below, i, n, n)
      BY <3>1, <3>2 DEF BelowFrom
    <3>4. pairs = {PtrTo(zl, j) : j \in i .. n}
      <4>1. \A j \in 1 .. n : PtrTo(zl, j) >= eptr <=> j \in i .. n
        BY <1>2, <1>3, <3>1
      <4> HIDE DEF eptr
      <4>2. QED
        BY <1>3, <2>1, <3>1, <4>1
    <3>5. QED
      BY <3>3, <3>4
  <2>2. CASE \E j \in i .. n : stop = PtrTo(zl, j) /\ stop \in stops /\ \A h \in i .. j - 1 : PtrTo(zl, h) \notin stops
    <3>1. PICK x \in i .. n : stop = PtrTo(zl, x) /\ stop \in stops /\ \A h \in i .. x - 1 : PtrTo(zl, h) \notin stops
      BY <2>2
    <3> DEFINE b == x - 1
    <3>2. x \in 1 .. n /\ b \in Int /\ i <= b + 1 /\ b <= n /\ b + 1 = x /\ \A j \in i .. b : j \in 1 .. n
      BY <1>1
    <3>3. \A j \in i .. b : PtrTo(zl, j) \in below
      BY <1>2, <3>1, <3>2
    <3>4. PtrTo(zl, b + 1) \notin below
      BY <3>1, <3>2
    <3>5. \A j \in 1 .. n : PtrTo(zl, j) >= eptr /\ (stop = NULL \/ PtrTo(zl, j) < stop) <=> j \in i .. b
      <4>1. stop # NULL /\ stop \in Nat /\ eptr \in Nat
        BY <1>2, <3>1, <3>2
      <4>2. SUFFICES ASSUME NEW j \in 1 .. n
                     PROVE  PtrTo(zl, j) >= eptr /\ PtrTo(zl, j) < stop <=> j \in i .. b
        BY <4>1
      <4>3. PtrTo(zl, j) \in Nat /\ (eptr <= PtrTo(zl, j) <=> i <= j) /\ (stop <= PtrTo(zl, j) <=> x <= j)
        BY <1>2, <1>3, <3>1, <3>2
      <4> HIDE DEF eptr
      <4>4. QED
        BY <1>1, <3>2, <4>1, <4>3
    <3> HIDE DEF b, eptr
    <3>6. pairs = {PtrTo(zl, j) : j \in i .. b}
      BY <1>3, <3>2, <3>5
    <3>7. BelowFrom(zl, below, i, b, n)
      BY <3>2, <3>3, <3>4 DEF BelowFrom
    <3>8. QED
      BY <3>6, <3>7
  <2> HIDE DEF pairs, stops
  <2>3. QED
    BY <1>4, <2>1, <2>2 DEF FirstStop
<1>7. b \in Int /\ i <= b + 1 /\ b <= n
  BY <1>6 DEF BelowFrom
<1>8. num = b - i + 1
  <2>1. i \in Int /\ i >= 1
    BY <1>1
  <2> HIDE DEF pairs
  <2>2. QED
    BY <1>5, <1>6, <1>7, <2>1, PtrsCount
<1>9. PICK after : r.zl = after[num] /\ Shrinks(after, zl, eptr, num)
  BY <1>5
<1>10. CutFrom(r.zl, zl, 2 * i - 1, 2 * num)
  <2> DEFINE k == 2 * i - 1
             Cut(c) == CutFrom(after[c], zl, k, 2 * c)
             Wrong == {c \in Nat : c <= num /\ ~Cut(c)}
  <2>1. k \in Nat /\ k >= 1 /\ Len(zl.entries) \in Nat /\ eptr = Offset(zl, k)
    BY <1>1 DEF PtrTo
  <2>2. ASSUME NEW c \in Nat, c < num
        PROVE  k + 1 <= Len(zl.entries) - 2 * c
    <3>1. i \in Int /\ c <= b - i
      BY <1>7, <1>8, <2>2
    <3>2. i + c <= n
      BY <1>1, <1>7, <3>1
    <3>3. QED
      BY <1>1, <3>1, <3>2
  <2> HIDE DEF k, eptr
  <2>3. Cut(0)
    <3>1. after[0] = zl
      BY <1>9 DEF Shrinks
    <3>2. 2 * 0 = 0
      OBVIOUS
    <3>3. QED
      BY <1>1, <3>1, <3>2, CutNone
  <2>4. ASSUME NEW c \in Nat, c < num, Cut(c)
        PROVE  Cut(c + 1)
    <3>1. c + 1 \in 0 .. num /\ c + 1 # 0 /\ c + 1 - 1 = c /\ 2 * c \in Nat /\ 2 * (c + 1) = 2 * c + 2
      BY <2>4
    <3>2. after[c + 1] = DeletedPair(after[c], eptr)
      BY <1>9, <3>1 DEF Shrinks
    <3>3. CutFrom(DeletedPair(after[c], Offset(zl, k)), zl, k, 2 * c + 2)
      BY <2>1, <2>2, <2>4, <3>1, CutPair
    <3>4. QED
      BY <2>1, <3>1, <3>2, <3>3
  <2> HIDE DEF Cut
  <2>5. Wrong = {}
    <3>1. SUFFICES ASSUME Wrong # {}
                   PROVE  FALSE
      OBVIOUS
    <3>2. PICK c \in Wrong : \A d \in Wrong : c <= d
      BY <3>1, LeastNatural
    <3>3. c # 0
      BY <2>3, <3>2
    <3>4. c - 1 \in Nat /\ c - 1 < num /\ ~(c <= c - 1) /\ c - 1 + 1 = c
      BY <3>2, <3>3
    <3>5. Cut(c - 1)
      BY <3>2, <3>4
    <3>6. Cut(c - 1 + 1)
      BY <2>4, <3>4, <3>5
    <3>7. QED
      BY <3>2, <3>4, <3>6
  <2>6. Cut(num)
    BY <2>5
  <2>7. QED
    BY <1>9, <2>6 DEF Cut, k
<1>11. \E t : PairsOf(r.zl, t, Removed(m, Places(q, i, b)))
  <2>1. i \in Int /\ i >= 1 /\ b \in Int /\ b <= Len(q) /\ i <= b + 1
    BY <1>1, <1>7
  <2>2. CutFrom(r.zl, zl, 2 * i - 1, 2 * (b - i + 1))
    BY <1>8, <1>10
  <2> HIDE DEF n, eptr, pairs, stops
  <2>3. QED
    BY <2>1, <2>2, PairsLeave
<1>12. QED
  BY <1>5, <1>6, <1>8, <1>11 DEF r

\* zzlDeleteRangeByRank
LEMMA RanksRemoved ==
  ASSUME NEW zl, NEW q, NEW m, PairsOf(zl, q, m), NEW start \in Int, NEW end \in Int, start >= 1, start <= end, end <= ZzlLength(zl)
  PROVE  /\ end <= Len(q)
         /\ \E t : PairsOf(ZiplistDeleteRange(zl, 2 * (start - 1), 2 * (end - start + 1)), t, Removed(m, Places(q, start, end)))
<1> DEFINE n == Len(q)
           e == Len(zl.entries)
           k == 2 * start - 1
           num == 2 * (end - start + 1)
           r == DeleteFrom(zl, Offset(zl, k), num)
<1>1. GoodZiplist(zl) /\ n \in Nat /\ e = 2 * n
  BY PairsArePaired
<1>2. end <= n
  <2>1. ZiplistLen(zl) = e
    BY <1>1, LengthAgrees
  <2>2. e \div 2 = n
    BY <1>1
  <2>3. QED
    BY <2>1, <2>2 DEF ZzlLength
<1>3. ZiplistIndex(zl, 2 * (start - 1)) = Offset(zl, k)
  <2> DEFINE i == 2 * (start - 1)
  <2>1. i \in Int /\ i >= 0 /\ i < e /\ i + 1 = k
    BY <1>1, <1>2
  <2> HIDE DEF i, k
  <2>2. ZiplistIndex(zl, i) = Offset(zl, i + 1)
    BY <1>1, <2>1, IndexIs
  <2>3. QED
    BY <2>1, <2>2 DEF i
<1>4. k \in 1 .. e + 1 /\ num \in Nat /\ k + num <= e + 1
  BY <1>1, <1>2
<1>5. Offset(zl, k) # NULL
  BY <1>1, <1>4, AtOffset
<1>6. ZiplistDeleteRange(zl, 2 * (start - 1), 2 * (end - start + 1)) = r
  BY <1>3, <1>5 DEF ZiplistDeleteRange
<1>7. NextAfter(zl, k, num) = k + num
  <2> HIDE DEF k, num, e
  <2>1. QED
    BY <1>1, <1>4 DEF NextAfter, e
<1> HIDE DEF k, num
<1>8. DeletedIn(r, zl, k, num)
  BY <1>1, <1>4, DeleteAt
<1> HIDE DEF r
<1>9. CutFrom(r, zl, k, num)
  <2>1. e + k - (k + num) = e - num /\ \A j \in Int : j + (k + num) - k = j + num
    BY <1>1, <1>4
  <2>2. /\ GoodZiplist(r) /\ Len(r.entries) = e + k - (k + num)
        /\ \A j \in 1 .. e + k - (k + num) :
             r.entries[j].val = IF j < k THEN zl.entries[j].val ELSE zl.entries[j + (k + num) - k].val
        /\ \A j \in 1 .. k : Offset(r, j) = Offset(zl, j)
    BY <1>7, <1>8 DEF DeletedIn
  <2>3. k \in 1 .. k
    BY <1>4
  <2> HIDE DEF e
  <2>4. \A j \in 1 .. e - num : r.entries[j].val = IF j < k THEN zl.entries[j].val ELSE zl.entries[j + (k + num) - k].val
    BY <2>1, <2>2
  <2>5. \A j \in 1 .. e - num : j \in Int
    OBVIOUS
  <2>6. QED
    BY <2>1, <2>2, <2>3, <2>4, <2>5 DEF CutFrom, e
<1>10. \E t : PairsOf(r, t, Removed(m, Places(q, start, end)))
  <2>1. start <= end + 1 /\ end <= Len(q)
    BY <1>2
  <2>2. CutFrom(r, zl, 2 * start - 1, 2 * (end - start + 1))
    BY <1>9 DEF k, num
  <2> HIDE DEF n, e
  <2>3. QED
    BY <2>1, <2>2, PairsLeave
<1>11. QED
  BY <1>2, <1>6, <1>10

----------------------------------------------------------------------------
\* The conversions.

LEMMA NoPairs ==
  PairsOf(ZiplistNew, <<>>, [o \in Objs |-> NULL])
<1> DEFINE m == [o \in Objs |-> NULL]
<1>1. GoodZiplist(ZiplistNew) /\ ZiplistNew.entries = <<>>
  BY NewZiplistIs
<1>2. <<>> \in Seq(Objs) /\ Len(<<>>) = 0 /\ 2 * 0 = 0 /\ 1 .. 0 = {}
  OBVIOUS
<1>3. m \in ZMap /\ \A o \in Objs : m[o] = NULL
  BY DEF ZMap
<1> HIDE DEF m
<1>4. InOrder(<<>>, m)
  BY <1>2, <1>3 DEF InOrder
<1>5. Len(ZiplistNew.entries) = 2 * Len(<<>>)
  BY <1>1, <1>2
<1>6. \A i \in 1 .. Len(<<>>) : FALSE
  BY <1>2
<1>7. PairsOf(ZiplistNew, <<>>, m)
  BY <1>1, <1>4, <1>5, <1>6 DEF PairsOf
<1>8. QED
  BY <1>7 DEF m

\* The scores of some members.
OnlyOf(scores, s) == [o \in Objs |-> IF o \in s THEN scores[o] ELSE NULL]

\* The last member goes to the end.
LEMMA LastComes ==
  ASSUME NEW scores \in ZMap, NEW s \in SUBSET NodesOf(scores), NEW o \in s, \A p \in s \ {o} : Precedes(scores, p, o),
         NEW zl, NEW q, PairsOf(zl, q, OnlyOf(scores, s \ {o}))
  PROVE  \E t : PairsOf(ZzlInsertAt(zl, NULL, o, scores[o]), t, OnlyOf(scores, s))
<1> DEFINE w == s \ {o}
           m == OnlyOf(scores, w)
           n == Len(q)
           k == n + 1
           r == ZzlInsertAt(zl, NULL, o, scores[o])
<1>1. GoodZiplist(zl) /\ InOrder(q, m) /\ n \in Nat /\ Len(zl.entries) = 2 * n
  BY PairsArePaired
<1>2. o \in Objs /\ scores[o] \in Scores /\ scores[o] \in Int
  BY ZSetNulls DEF NodesOf, ZMap
<1>3. \A p \in Objs : m[p] = IF p \in w THEN scores[p] ELSE NULL
  BY DEF OnlyOf
<1>4. [m EXCEPT ![o] = scores[o]] = OnlyOf(scores, s)
  BY <1>2 DEF OnlyOf
<1> HIDE DEF m
<1>5. m[o] = NULL
  BY <1>2, <1>3
<1>6. \A i \in 1 .. n : q[i] \in Objs /\ m[q[i]] \in Scores
  BY <1>1, PlacesAre
<1>7. ASSUME NEW i \in 1 .. n
      PROVE  i < k /\ (m[q[i]] < scores[o] \/ (m[q[i]] = scores[o] /\ q[i] < o))
  <2>1. q[i] \in w /\ m[q[i]] = scores[q[i]]
    BY <1>3, <1>6, ZSetNulls
  <2>2. Precedes(scores, q[i], o)
    BY <2>1
  <2>3. i < k
    BY <1>1
  <2>4. QED
    BY <2>1, <2>2, <2>3 DEF Precedes
<1>8. k \in 1 .. n + 1 /\ 2 * k - 1 \in 1 .. Len(zl.entries) + 1 /\ ~(2 * k - 1 <= Len(zl.entries))
  BY <1>1
<1> HIDE DEF k
<1>9. NULL = IF 2 * k - 1 <= Len(zl.entries) THEN Offset(zl, 2 * k - 1) ELSE NULL
  BY <1>8
<1>10. PairIn(r, zl, 2 * k - 1, MemberOf[o], Integer(scores[o]))
  BY <1>1, <1>2, <1>8, <1>9, PairInserted
<1>11. PairsOf(zl, q, m)
  BY DEF m
<1> HIDE DEF r, n
<1>12. PairsOf(r, With(q, k, o), [m EXCEPT ![o] = scores[o]])
  BY <1>2, <1>5, <1>7, <1>8, <1>10, <1>11, PairComes DEF n
<1>13. QED
  BY <1>4, <1>12 DEF r

LEMMA ConvertsInOrder ==
  ASSUME NEW scores \in ZMap
  PROVE  \E t : PairsOf(AsZiplist(scores), t, scores)
<1> DEFINE N == NodesOf(scores)
           Has(z, s) == \E t : PairsOf(z, t, OnlyOf(scores, s))
<1>1. scores \in ScoreMap
  BY ZSetNulls DEF ZMap, ScoreMap
<1>2. PICK f : AsZiplist(scores) = f[N] /\ Filled(f, scores)
  BY <1>1, AsZiplistUnfolds
<1>3. IsFiniteSet(N)
  BY <1>1, AsZiplistUnfolds
<1>4. Has(ZiplistNew, {})
  <2>1. OnlyOf(scores, {}) = [o \in Objs |-> NULL]
    BY DEF OnlyOf
  <2>2. QED
    BY <2>1, NoPairs
<1>5. ASSUME NEW s \in SUBSET N, s # {}, Has(f[s \ {LastNode(scores, s)}], s \ {LastNode(scores, s)})
      PROVE  Has(f[s], s)
  <2> DEFINE o == LastNode(scores, s)
             w == s \ {o}
  <2>1. o \in s /\ \A p \in s \ {o} : Precedes(scores, p, o)
    BY <1>1, <1>5, LastNodeIs
  <2>2. f[s] = ZzlInsertAt(f[w], NULL, o, scores[o])
    BY <1>2, <1>5 DEF Filled, FilledWith
  <2>3. PICK q : PairsOf(f[w], q, OnlyOf(scores, s \ {o}))
    BY <1>5
  <2> HIDE DEF o, w
  <2>4. \E t : PairsOf(ZzlInsertAt(f[w], NULL, o, scores[o]), t, OnlyOf(scores, s))
    BY <2>1, <2>3, LastComes
  <2>5. QED
    BY <2>2, <2>4
<1> HIDE DEF Has
<1> DEFINE Wrong == {n \in Nat : \E s \in SUBSET N : IsFiniteSet(s) /\ Cardinality(s) = n /\ ~Has(f[s], s)}
<1>6. Wrong = {}
  <2>1. SUFFICES ASSUME Wrong # {}
                 PROVE  FALSE
    OBVIOUS
  <2>2. PICK n \in Wrong : \A m \in Wrong : n <= m
    BY <2>1, LeastNatural
  <2>3. PICK s \in SUBSET N : IsFiniteSet(s) /\ Cardinality(s) = n /\ ~Has(f[s], s)
    BY <2>2
  <2>4. s # {}
    <3>1. {} \in SUBSET N /\ f[{}] = ZiplistNew
      BY <1>2 DEF Filled, FilledWith
    <3>2. QED
      BY <1>4, <2>3, <3>1
  <2> DEFINE o == LastNode(scores, s)
             w == s \ {o}
  <2>5. o \in s /\ w \in SUBSET N
    BY <1>1, <2>4, LastNodeIs
  <2>6. IsFiniteSet(w) /\ Cardinality(w) = n - 1 /\ n \in Nat /\ Cardinality(w) \in Nat
    <3>1. n \in Nat
      BY <2>2
    <3> HIDE DEF o, Wrong
    <3>2. IsFiniteSet(w) /\ Cardinality(w) = n - 1
      BY <2>3, <2>5, FS_RemoveElement
    <3>3. QED
      BY <3>1, <3>2, FS_CardinalityType
  <2>7. n - 1 \notin Wrong
    BY <2>2, <2>6
  <2>8. Has(f[w], w)
    BY <2>5, <2>6, <2>7
  <2>9. QED
    BY <1>5, <2>3, <2>4, <2>8
<1>7. Cardinality(N) \in Nat
  BY <1>3, FS_CardinalityType
<1>8. Has(f[N], N)
  BY <1>3, <1>6, <1>7
<1>9. OnlyOf(scores, N) = scores
  <2>1. \A o \in Objs : (IF o \in N THEN scores[o] ELSE NULL) = scores[o]
    BY DEF NodesOf
  <2>2. scores = [o \in Objs |-> scores[o]]
    BY DEF ZMap
  <2> HIDE DEF N
  <2>3. QED
    BY <2>1, <2>2 DEF OnlyOf
<1>10. QED
  BY <1>2, <1>8, <1>9 DEF Has

----------------------------------------------------------------------------
\* The ends of a range.

\* From the lower bound on, and up to the upper one.
Bounded(zl, above, below, n) ==
  /\ above \in SUBSET MemberPtrs(zl) /\ below \in SUBSET MemberPtrs(zl)
  /\ \A i, j \in 1 .. n : i < j /\ PtrTo(zl, i) \in above => PtrTo(zl, j) \in above
  /\ \A i, j \in 1 .. n : i < j /\ PtrTo(zl, j) \in below => PtrTo(zl, i) \in below

LEMMA FirstBounded ==
  ASSUME NEW zl, NEW q, NEW m, PairsOf(zl, q, m), NEW above, NEW below, Bounded(zl, above, below, Len(q)),
         NEW eptr, eptr = Seek(zl, ZiplistIndex(zl, 0), TRUE, above),
         NEW p, p # NULL => p = eptr /\ p \in below,
         eptr \in below /\ (\E j \in 1 .. Len(q) : PtrTo(zl, j) \in above \cap below) => p = eptr
  PROVE  FirstStop(zl, above \cap below, p, 1, Len(q))
<1> DEFINE n == Len(q)
<1>1. n \in Nat /\ \A j \in 1 .. n : PtrTo(zl, j) # NULL
  BY PairsArePaired, PairIsAt
<1>2. FirstStop(zl, above, eptr, 1, n)
  BY EndSeeks DEF Bounded
<1>3. CASE eptr = NULL /\ \A j \in 1 .. n : PtrTo(zl, j) \notin above
  BY <1>3 DEF FirstStop
<1>4. CASE \E j \in 1 .. n : eptr = PtrTo(zl, j) /\ eptr \in above /\ \A h \in 1 .. j - 1 : PtrTo(zl, h) \notin above
  <2>1. PICK j \in 1 .. n : eptr = PtrTo(zl, j) /\ eptr \in above /\ \A h \in 1 .. j - 1 : PtrTo(zl, h) \notin above
    BY <1>4
  <2>2. CASE eptr \in below
    <3>1. p = PtrTo(zl, j) /\ p \in above \cap below /\ \A h \in 1 .. j - 1 : PtrTo(zl, h) \notin above \cap below
      BY <2>1, <2>2
    <3>2. QED
      BY <3>1 DEF FirstStop
  <2>3. CASE eptr \notin below
    <3>1. p = NULL
      BY <2>3
    <3>2. ASSUME NEW h \in 1 .. n
          PROVE  PtrTo(zl, h) \notin above \cap below
      <4>1. CASE h < j
        <5>1. h \in 1 .. j - 1
          BY <1>1, <4>1
        <5>2. QED
          BY <2>1, <5>1
      <4>2. CASE h = j
        BY <2>1, <2>3, <4>2
      <4>3. CASE j < h
        BY <2>1, <2>3, <4>3 DEF Bounded
      <4>4. QED
        BY <1>1, <4>1, <4>2, <4>3
    <3>3. QED
      BY <3>1, <3>2 DEF FirstStop
  <2>4. QED
    BY <2>2, <2>3
<1>5. QED
  BY <1>2, <1>3, <1>4 DEF FirstStop

LEMMA LastBounded ==
  ASSUME NEW zl, NEW q, NEW m, PairsOf(zl, q, m), NEW above, NEW below, Bounded(zl, above, below, Len(q)),
         NEW eptr, eptr = Seek(zl, ZiplistIndex(zl, -2), FALSE, below),
         NEW p, p # NULL => p = eptr /\ p \in above,
         eptr \in above /\ (\E j \in 1 .. Len(q) : PtrTo(zl, j) \in above \cap below) => p = eptr
  PROVE  LastStop(zl, above \cap below, p, Len(q))
<1> DEFINE n == Len(q)
<1>1. n \in Nat /\ \A j \in 1 .. n : PtrTo(zl, j) # NULL
  BY PairsArePaired, PairIsAt
<1>2. LastStop(zl, below, eptr, n)
  BY EndSeeks DEF Bounded
<1>3. CASE eptr = NULL /\ \A j \in 1 .. n : PtrTo(zl, j) \notin below
  BY <1>3 DEF LastStop
<1>4. CASE \E j \in 1 .. n : eptr = PtrTo(zl, j) /\ eptr \in below /\ \A h \in j + 1 .. n : PtrTo(zl, h) \notin below
  <2>1. PICK j \in 1 .. n : eptr = PtrTo(zl, j) /\ eptr \in below /\ \A h \in j + 1 .. n : PtrTo(zl, h) \notin below
    BY <1>4
  <2>2. CASE eptr \in above
    <3>1. p = PtrTo(zl, j) /\ p \in above \cap below /\ \A h \in j + 1 .. n : PtrTo(zl, h) \notin above \cap below
      BY <2>1, <2>2
    <3>2. QED
      BY <3>1 DEF LastStop
  <2>3. CASE eptr \notin above
    <3>1. p = NULL
      BY <2>3
    <3>2. ASSUME NEW h \in 1 .. n
          PROVE  PtrTo(zl, h) \notin above \cap below
      <4>1. CASE j < h
        <5>1. h \in j + 1 .. n
          BY <1>1, <4>1
        <5>2. QED
          BY <2>1, <5>1
      <4>2. CASE h = j
        BY <2>1, <2>3, <4>2
      <4>3. CASE h < j
        BY <2>1, <2>3, <4>3 DEF Bounded
      <4>4. QED
        BY <1>1, <4>1, <4>2, <4>3
    <3>3. QED
      BY <3>1, <3>2 DEF LastStop
  <2>4. QED
    BY <2>2, <2>3
<1>5. QED
  BY <1>2, <1>3, <1>4 DEF LastStop

\* The scores from the minimum on, and up to the maximum.
LEMMA ScoresBounded ==
  ASSUME NEW zl, NEW q, NEW m, PairsOf(zl, q, m), NEW r \in RangeSpec(Scores)
  PROVE  /\ Bounded(zl, AboveMin(zl, r), BelowMax(zl, r), Len(q))
         /\ \A i \in 1 .. Len(q) : /\ PtrTo(zl, i) \in AboveMin(zl, r) <=> GteMin(m[q[i]], r)
                                   /\ PtrTo(zl, i) \in BelowMax(zl, r) <=> LteMax(m[q[i]], r)
         /\ (\E i \in 1 .. Len(q) : PtrTo(zl, i) \in AboveMin(zl, r) \cap BelowMax(zl, r)) => ZzlIsInRange(zl, r)
<1> DEFINE n == Len(q)
           above == AboveMin(zl, r)
           below == BelowMax(zl, r)
<1>1. InOrder(q, m) /\ n \in Nat
  BY PairsArePaired
<1>2. /\ \A i \in 1 .. n : m[q[i]] \in Int
      /\ \A i, j \in 1 .. n : Precedes(m, q[i], q[j]) <=> i < j
  BY <1>1, PlacesAre
<1>3. r.min \in Int /\ r.max \in Int /\ r.minex \in BOOLEAN /\ r.maxex \in BOOLEAN
  BY ZSetNulls DEF RangeSpec
<1>4. \A i \in 1 .. n : (PtrTo(zl, i) \in above <=> GteMin(m[q[i]], r)) /\ (PtrTo(zl, i) \in below <=> LteMax(m[q[i]], r))
  BY PairIsAt DEF AboveMin, BelowMax
<1>5. above \in SUBSET MemberPtrs(zl) /\ below \in SUBSET MemberPtrs(zl)
  BY DEF AboveMin, BelowMax
<1> HIDE DEF above, below
<1>6. ASSUME NEW i \in 1 .. n, NEW j \in 1 .. n, i < j
      PROVE  (PtrTo(zl, i) \in above => PtrTo(zl, j) \in above) /\ (PtrTo(zl, j) \in below => PtrTo(zl, i) \in below)
  <2>1. m[q[i]] \in Int /\ m[q[j]] \in Int /\ m[q[i]] <= m[q[j]]
    <3>1. Precedes(m, q[i], q[j])
      BY <1>2, <1>6
    <3>2. QED
      BY <1>2, <3>1 DEF Precedes
  <2>2. (GteMin(m[q[i]], r) => GteMin(m[q[j]], r)) /\ (LteMax(m[q[j]], r) => LteMax(m[q[i]], r))
    BY <1>3, <2>1 DEF GteMin, LteMax
  <2>3. QED
    BY <1>4, <2>2
<1>7. ASSUME NEW i \in 1 .. n, PtrTo(zl, i) \in above \cap below
      PROVE  ZzlIsInRange(zl, r)
  <2>1. GteMin(m[q[i]], r) /\ LteMax(m[q[i]], r)
    BY <1>4, <1>7
  <2>2. ~(r.min > r.max \/ (r.min = r.max /\ (r.minex \/ r.maxex)))
    BY <1>2, <1>3, <2>1 DEF GteMin, LteMax
  <2>3. n # 0 /\ 1 \in 1 .. n /\ n \in 1 .. n
    BY <1>1
  <2>4. PtrTo(zl, n) \in above /\ PtrTo(zl, 1) \in below
    <3>1. i = n \/ i < n
      BY <1>1
    <3>2. i = 1 \/ 1 < i
      BY <1>1
    <3>3. QED
      BY <1>6, <1>7, <2>3, <3>1, <3>2
  <2>5. GteMin(m[q[n]], r) /\ LteMax(m[q[1]], r)
    BY <1>4, <2>3, <2>4
  <2>6. /\ ZiplistIndex(zl, -1) # NULL
        /\ ZiplistGet(zl, ZiplistIndex(zl, 1)).n = m[q[1]] /\ ZiplistGet(zl, ZiplistIndex(zl, -1)).n = m[q[n]]
    BY <2>3, EndPairsAre
  <2>7. QED
    BY <2>2, <2>5, <2>6 DEF ZzlIsInRange
<1>8. Bounded(zl, above, below, n)
  BY <1>5, <1>6 DEF Bounded
<1>9. QED
  BY <1>4, <1>7, <1>8 DEF above, below

\* The members are numbered in their order, and the bounds lie among them.
LEMMA LexIs ==
  ASSUME NEW o \in Objs, NEW r \in RangeSpec(Bounds)
  PROVE  /\ LexGteMin(o, r) <=> GteMin(o, r)
         /\ LexLteMax(o, r) <=> LteMax(o, r)
         /\ GteMin(o, r) /\ LteMax(o, r) => ~(LexCompare(r.min, r.max) > 1 \/ (r.min = r.max /\ (r.minex \/ r.maxex)))
<1> DEFINE last == Cardinality(Objs)
<1>1. last \in Nat /\ o \in 1 .. last
  BY ZSetAssumption, FS_CardinalityType
<1>2. /\ r.min \in 0 .. last + 1 /\ r.max \in 0 .. last + 1 /\ r.minex \in BOOLEAN /\ r.maxex \in BOOLEAN
  <2>1. r.min \in Bounds /\ r.max \in Bounds /\ r.minex \in BOOLEAN /\ r.maxex \in BOOLEAN
    BY DEF RangeSpec
  <2>2. Bounds = (1 .. last) \cup {0, last + 1}
    BY ZSetAssumption DEF Bounds, MinString, MaxString
  <2> HIDE DEF last
  <2>3. QED
    BY <1>1, <2>1, <2>2
<1>3. \A a, b : LexCompare(a, b) = IF a = b THEN 0 ELSE IF a = 0 \/ b = last + 1 THEN -1
                                   ELSE IF a = last + 1 \/ b = 0 THEN 1 ELSE a - b
  BY DEF LexCompare, MinString, MaxString
<1> HIDE DEF last
<1>4. ASSUME NEW b \in 0 .. last + 1
      PROVE  /\ LexCompare(o, b) \in Int
             /\ LexCompare(o, b) > 0 <=> o > b
             /\ LexCompare(o, b) >= 0 <=> o >= b
             /\ LexCompare(o, b) < 0 <=> o < b
             /\ LexCompare(o, b) <= 0 <=> o <= b
  <2>1. o # 0 /\ o # last + 1 /\ o \in Int /\ b \in Int /\ 0 < o /\ o < last + 1
    BY <1>1
  <2>2. LexCompare(o, b) = IF o = b THEN 0 ELSE IF b = last + 1 THEN -1 ELSE IF b = 0 THEN 1 ELSE o - b
    BY <1>3, <2>1
  <2>3. CASE o = b
    BY <2>1, <2>2, <2>3
  <2>4. CASE o # b /\ b = last + 1
    BY <2>1, <2>2, <2>4
  <2>5. CASE o # b /\ b # last + 1 /\ b = 0
    BY <2>1, <2>2, <2>5
  <2>6. CASE o # b /\ b # last + 1 /\ b # 0
    BY <2>1, <2>2, <2>6
  <2>7. QED
    BY <2>3, <2>4, <2>5, <2>6
<1>5. (LexGteMin(o, r) <=> GteMin(o, r)) /\ (LexLteMax(o, r) <=> LteMax(o, r))
  BY <1>2, <1>4 DEF LexGteMin, LexLteMax, GteMin, LteMax
<1>6. ASSUME GteMin(o, r), LteMax(o, r)
      PROVE  ~(LexCompare(r.min, r.max) > 1) /\ ~(r.min = r.max /\ (r.minex \/ r.maxex))
  <2>1. r.min <= o /\ o <= r.max /\ (r.minex => r.min < o) /\ (r.maxex => o < r.max)
    BY <1>1, <1>2, <1>6 DEF GteMin, LteMax
  <2>2. r.min # last + 1 /\ r.max # 0 /\ r.min <= r.max /\ r.min \in Int /\ r.max \in Int
    BY <1>1, <1>2, <2>1
  <2>3. LexCompare(r.min, r.max) = IF r.min = r.max THEN 0 ELSE IF r.min = 0 \/ r.max = last + 1 THEN -1 ELSE r.min - r.max
    BY <1>3, <2>2
  <2>4. ~(LexCompare(r.min, r.max) > 1)
    BY <2>2, <2>3
  <2>5. ~(r.min = r.max /\ (r.minex \/ r.maxex))
    BY <1>1, <2>1, <2>2
  <2>6. QED
    BY <2>4, <2>5
<1>7. QED
  BY <1>5, <1>6

\* The same of members, when all have one score.
LEMMA MembersBounded ==
  ASSUME NEW zl, NEW q, NEW m, PairsOf(zl, q, m), NEW r \in RangeSpec(Bounds),
         \A p, x \in MemberPtrs(zl) : ScoreAt(zl, p) = ScoreAt(zl, x)
  PROVE  /\ Bounded(zl, LexAboveMin(zl, r), LexBelowMax(zl, r), Len(q))
         /\ \A i \in 1 .. Len(q) : /\ PtrTo(zl, i) \in LexAboveMin(zl, r) <=> GteMin(q[i], r)
                                   /\ PtrTo(zl, i) \in LexBelowMax(zl, r) <=> LteMax(q[i], r)
         /\ (\E i \in 1 .. Len(q) : PtrTo(zl, i) \in LexAboveMin(zl, r) \cap LexBelowMax(zl, r)) => ZzlIsInLexRange(zl, r)
<1> DEFINE n == Len(q)
           above == LexAboveMin(zl, r)
           below == LexBelowMax(zl, r)
<1>1. InOrder(q, m) /\ n \in Nat
  BY PairsArePaired
<1>2. /\ \A i \in 1 .. n : q[i] \in Objs /\ q[i] \in Int /\ m[q[i]] \in Int
      /\ \A i, j \in 1 .. n : Precedes(m, q[i], q[j]) <=> i < j
  BY <1>1, PlacesAre
<1>3. r.min \in Int /\ r.max \in Int /\ r.minex \in BOOLEAN /\ r.maxex \in BOOLEAN
  <2>1. Bounds \subseteq Int
    <3>1. Cardinality(Objs) \in Nat
      BY ZSetAssumption, FS_CardinalityType
    <3>2. Bounds = Objs \cup {0, Cardinality(Objs) + 1}
      BY DEF Bounds, MinString, MaxString
    <3> DEFINE last == Cardinality(Objs) + 1
    <3>3. last \in Int
      BY <3>1
    <3> HIDE DEF last
    <3>4. \A x \in Objs \cup {0, last} : x \in Int
      BY <3>3, ZSetNulls
    <3>5. QED
      BY <3>2, <3>4 DEF last
  <2>2. QED
    BY <2>1 DEF RangeSpec
<1>4. \A i \in 1 .. n : (PtrTo(zl, i) \in above <=> GteMin(q[i], r)) /\ (PtrTo(zl, i) \in below <=> LteMax(q[i], r))
  <2>1. \A i \in 1 .. n : (PtrTo(zl, i) \in above <=> LexGteMin(q[i], r)) /\ (PtrTo(zl, i) \in below <=> LexLteMax(q[i], r))
    BY PairIsAt DEF LexAboveMin, LexBelowMax
  <2>2. \A i \in 1 .. n : (LexGteMin(q[i], r) <=> GteMin(q[i], r)) /\ (LexLteMax(q[i], r) <=> LteMax(q[i], r))
    BY <1>2, LexIs
  <2>3. QED
    BY <2>1, <2>2
<1>5. above \in SUBSET MemberPtrs(zl) /\ below \in SUBSET MemberPtrs(zl)
  BY DEF LexAboveMin, LexBelowMax
<1> HIDE DEF above, below
<1>6. ASSUME NEW i \in 1 .. n, NEW j \in 1 .. n, i < j
      PROVE  (PtrTo(zl, i) \in above => PtrTo(zl, j) \in above) /\ (PtrTo(zl, j) \in below => PtrTo(zl, i) \in below)
  <2>1. q[i] \in Int /\ q[j] \in Int /\ q[i] < q[j]
    <3>1. Precedes(m, q[i], q[j])
      BY <1>2, <1>6
    <3>2. m[q[i]] = m[q[j]]
      <4>1. ScoreAt(zl, PtrTo(zl, i)) = m[q[i]] /\ PtrTo(zl, i) \in MemberPtrs(zl)
        BY PairIsAt
      <4>2. ScoreAt(zl, PtrTo(zl, j)) = m[q[j]] /\ PtrTo(zl, j) \in MemberPtrs(zl)
        BY PairIsAt
      <4>3. QED
        BY <4>1, <4>2
    <3>3. QED
      BY <1>2, <3>1, <3>2 DEF Precedes
  <2>2. (GteMin(q[i], r) => GteMin(q[j], r)) /\ (LteMax(q[j], r) => LteMax(q[i], r))
    BY <1>3, <2>1 DEF GteMin, LteMax
  <2>3. QED
    BY <1>4, <2>2
<1>7. ASSUME NEW i \in 1 .. n, PtrTo(zl, i) \in above \cap below
      PROVE  ZzlIsInLexRange(zl, r)
  <2>1. GteMin(q[i], r) /\ LteMax(q[i], r)
    BY <1>4, <1>7
  <2>2. ~(LexCompare(r.min, r.max) > 1 \/ (r.min = r.max /\ (r.minex \/ r.maxex)))
    BY <1>2, <2>1, LexIs
  <2>3. n # 0 /\ 1 \in 1 .. n /\ n \in 1 .. n
    BY <1>1
  <2>4. PtrTo(zl, n) \in above /\ PtrTo(zl, 1) \in below
    <3>1. i = n \/ i < n
      BY <1>1
    <3>2. i = 1 \/ 1 < i
      BY <1>1
    <3>3. QED
      BY <1>6, <1>7, <2>3, <3>1, <3>2
  <2>5. ZiplistIndex(zl, 0) = PtrTo(zl, 1) /\ ZiplistIndex(zl, -2) = PtrTo(zl, n) /\ ZiplistIndex(zl, -2) # NULL
    BY <2>3, EndPairsAre
  <2>6. QED
    BY <2>2, <2>4, <2>5 DEF ZzlIsInLexRange, above, below
<1>8. Bounded(zl, above, below, n)
  BY <1>5, <1>6 DEF Bounded
<1>9. QED
  BY <1>4, <1>7, <1>8 DEF above, below

LEMMA PlacesNumber ==
  ASSUME NEW q, NEW m, InOrder(q, m), NEW a \in Int, NEW b \in Int, a >= 1, b <= Len(q), a <= b + 1
  PROVE  Cardinality(Places(q, a, b)) = b - a + 1 /\ b - a + 1 \in 0 .. Cardinality(Objs)
<1> DEFINE S == {q[i] : i \in a .. b}
<1>1. IsFiniteSet(S) /\ Cardinality(S) = b - a + 1 /\ S \in SUBSET Objs /\ b - a + 1 \in 0 .. Cardinality(Objs)
  BY PlacesCount
<1>2. S = Places(q, a, b)
  BY DEF Places
<1> HIDE DEF S
<1>3. QED
  BY <1>1, <1>2

\* The members of a range leave.
LEMMA BoundedRemoved ==
  ASSUME NEW zl, NEW q, NEW m, PairsOf(zl, q, m), NEW above, NEW below, Bounded(zl, above, below, Len(q)),
         NEW p, FirstStop(zl, above \cap below, p, 1, Len(q)),
         NEW S, \A i \in 1 .. Len(q) : q[i] \in S <=> PtrTo(zl, i) \in above \cap below, \A o \in S : o \in Objs /\ m[o] # NULL
  PROVE  LET r == RemoveBelow(zl, p, below)
         IN /\ r.deleted = Cardinality(S) /\ Cardinality(S) \in 0 .. Cardinality(Objs)
            /\ \E t : PairsOf(r.zl, t, Removed(m, S))
<1> DEFINE n == Len(q)
           r == RemoveBelow(zl, p, below)
<1>1. InOrder(q, m) /\ n \in Nat
  BY PairsArePaired
<1>2. \A i, j \in 1 .. n : q[i] = q[j] => i = j
  BY <1>1, PlacesAre
<1>3. \A o \in S : \E i \in 1 .. n : q[i] = o
  BY <1>1 DEF InOrder
<1>4. CASE p = NULL /\ \A j \in 1 .. n : PtrTo(zl, j) \notin above \cap below
  <2>1. S = {}
    BY <1>3, <1>4
  <2>2. r = [zl |-> zl, deleted |-> 0]
    BY <1>4 DEF RemoveBelow
  <2>3. Cardinality(S) = 0 /\ Cardinality(Objs) \in Nat
    BY <2>1, FS_EmptySet, ZSetAssumption, FS_CardinalityType
  <2>4. Removed(m, S) = m
    <3>1. m \in ZMap
      BY <1>1 DEF InOrder
    <3>2. m = [o \in Objs |-> m[o]]
      BY <3>1 DEF ZMap
    <3>3. QED
      BY <2>1, <3>2 DEF Removed
  <2> HIDE DEF r
  <2>5. r.zl = zl /\ r.deleted = 0
    BY <2>2
  <2>6. QED
    BY <2>3, <2>4, <2>5 DEF r
<1>5. CASE \E i \in 1 .. n : p = PtrTo(zl, i) /\ p \in above \cap below /\ \A h \in 1 .. i - 1 : PtrTo(zl, h) \notin above \cap below
  <2>1. PICK i \in 1 .. n : p = PtrTo(zl, i) /\ p \in above \cap below /\ \A h \in 1 .. i - 1 : PtrTo(zl, h) \notin above \cap below
    BY <1>5
  <2>2. PICK b : BelowFrom(zl, below, i, b, n) /\ r.deleted = b - i + 1 /\ \E t : PairsOf(r.zl, t, Removed(m, Places(q, i, b)))
    BY <2>1, RangeRemoved
  <2> HIDE DEF r
  <2>3. b \in Int /\ i <= b + 1 /\ b <= n /\ i \in Int /\ i >= 1
    BY <1>1, <2>2 DEF BelowFrom
  <2>4. ASSUME NEW j \in 1 .. n
        PROVE  q[j] \in S <=> j \in i .. b
    <3>1. ASSUME j \in i .. b
          PROVE  PtrTo(zl, j) \in above \cap below
      <4>1. PtrTo(zl, j) \in below
        BY <2>2, <3>1 DEF BelowFrom
      <4>2. j = i \/ i < j
        BY <2>3, <3>1
      <4>3. QED
        BY <2>1, <4>1, <4>2 DEF Bounded
    <3>2. ASSUME PtrTo(zl, j) \in above \cap below
          PROVE  j \in i .. b
      <4>1. ~(j < i)
        <5>1. j < i => j \in 1 .. i - 1
          BY <2>3
        <5>2. QED
          BY <2>1, <3>2, <5>1
      <4>2. ~(b < j)
        <5>1. SUFFICES ASSUME b < j
                       PROVE  FALSE
          OBVIOUS
        <5>2. b # n /\ b + 1 \in 1 .. n /\ (b + 1 = j \/ b + 1 < j)
          BY <1>1, <2>3, <5>1
        <5>3. PtrTo(zl, b + 1) \notin below
          BY <2>2, <5>2 DEF BelowFrom
        <5>4. QED
          BY <3>2, <5>2, <5>3 DEF Bounded
      <4>3. QED
        BY <2>3, <4>1, <4>2
    <3>3. QED
      BY <3>1, <3>2
  <2>5. S = Places(q, i, b)
    <3>1. \A j \in i .. b : j \in 1 .. n
      BY <1>1, <2>3
    <3>2. QED
      BY <1>3, <2>4, <3>1 DEF Places
  <2>6. Cardinality(S) = b - i + 1 /\ b - i + 1 \in 0 .. Cardinality(Objs)
    BY <1>1, <2>3, <2>5, PlacesNumber
  <2>7. QED
    BY <2>2, <2>5, <2>6 DEF r
<1>6. QED
  BY <1>4, <1>5 DEF FirstStop

----------------------------------------------------------------------------
\* The ordered set that a sorted set is.

LEMMA OrderedSetIs ==
  ASSUME type = "zset", NEW m, ZSetScores = m
  PROVE  /\ \A x, y : ThisZSet!Below(x, y) <=> Precedes(m, x, y)
         /\ ThisZSet!Members = {o \in Objs : m[o] # NULL}
         /\ \A r : ThisZSet!ByScore(r) = {o \in Objs : m[o] # NULL /\ GteMin(m[o], r) /\ LteMax(m[o], r)}
         /\ \A r : ThisZSet!ByLex(r) = {o \in Objs : m[o] # NULL /\ GteMin(o, r) /\ LteMax(o, r)}
<1>1. \A x, y : ThisZSet!Below(x, y) <=> Precedes(m, x, y)
  BY DEF ThisZSet!Below, Precedes
<1>2. ThisZSet!Members = {o \in Objs : m[o] # NULL}
  BY DEF ThisZSet!Members
<1>3. \A v, r : ThisZSet!InRange(v, r) <=> GteMin(v, r) /\ LteMax(v, r)
  BY DEF ThisZSet!InRange, GteMin, LteMax
<1>4. \A r : ThisZSet!ByScore(r) = {o \in ThisZSet!Members : ThisZSet!InRange(m[o], r)}
  BY DEF ThisZSet!ByScore
<1>5. \A r : ThisZSet!ByLex(r) = {o \in ThisZSet!Members : ThisZSet!InRange(o, r)}
  BY DEF ThisZSet!ByLex
<1>6. QED
  BY <1>1, <1>2, <1>3, <1>4, <1>5

LEMMA ZSetCardinality ==
  \A S : ThisZSet!Cardinality(S) = Cardinality(S)
  BY DEF ThisZSet!Cardinality, Cardinality

LEMMA ZSetSpecs ==
  ThisZSet!RangeSpec(Scores) = RangeSpec(Scores) /\ ThisZSet!RangeSpec(ThisZSet!Bounds) = RangeSpec(Bounds)
<1>1. ThisZSet!Bounds = Bounds
  BY ZSetCardinality DEF ThisZSet!Bounds, Bounds, MinString, MaxString
<1>2. QED
  BY <1>1 DEF ThisZSet!RangeSpec, RangeSpec

LEMMA FirstPlaces ==
  ASSUME NEW q, NEW m, InOrder(q, m), NEW b \in 0 .. Len(q)
  PROVE  Cardinality({q[i] : i \in 1 .. b}) = b
<1> DEFINE a == 1
<1>1. InOrder(q, m) /\ Len(q) \in Nat /\ a \in Int /\ a >= 1 /\ b \in Int /\ b <= Len(q) /\ a <= b + 1 /\ b - a + 1 = b
  BY PlacesAre
<1> HIDE DEF a
<1>2. Cardinality(Places(q, a, b)) = b - a + 1
  BY <1>1, PlacesNumber
<1>3. Cardinality(Places(q, a, b)) = b
  BY <1>1, <1>2
<1>4. QED
  BY <1>3 DEF Places, a

\* The rank of a member is its place.
LEMMA ZSetRankIs ==
  ASSUME type = "zset", NEW q, NEW m, InOrder(q, m), ZSetScores = m, NEW k \in 1 .. Len(q)
  PROVE  ThisZSet!RankOf(q[k]) = k
<1>1. Len(q) \in Nat
  BY PlacesAre
<1>2. {x \in ThisZSet!Members : ThisZSet!Below(x, q[k])} = {q[i] : i \in 1 .. k - 1}
  <2>1. \A x, y : ThisZSet!Below(x, y) <=> Precedes(m, x, y)
    BY OrderedSetIs
  <2>2. ThisZSet!Members = {o \in Objs : m[o] # NULL}
    BY OrderedSetIs
  <2>3. \A i \in 1 .. Len(q) : q[i] \in Objs /\ m[q[i]] # NULL /\ (Precedes(m, q[i], q[k]) <=> i < k)
    BY PlacesAre DEF InOrder
  <2>4. \A o \in Objs : m[o] # NULL => \E i \in 1 .. Len(q) : q[i] = o
    BY DEF InOrder
  <2>5. (\A i \in 1 .. k - 1 : i \in 1 .. Len(q) /\ i < k) /\ \A i \in 1 .. Len(q) : i < k => i \in 1 .. k - 1
    BY <1>1
  <2>6. QED
    BY <2>1, <2>2, <2>3, <2>4, <2>5
<1>3. Cardinality({q[i] : i \in 1 .. k - 1}) = k - 1
  <2>1. k - 1 \in 0 .. Len(q)
    BY <1>1
  <2>2. QED
    BY <2>1, FirstPlaces
<1>4. ThisZSet!RankOf(q[k]) = 1 + Cardinality({q[i] : i \in 1 .. k - 1})
  BY <1>2, ZSetCardinality DEF ThisZSet!RankOf
<1>5. QED
  BY <1>1, <1>3, <1>4

\* What is first in a range is the first of the set, and so for the last.
LEMMA EndsAgree ==
  ASSUME type = "zset", NEW q, NEW m, PairsOf(ptr, q, m), ZSetScores = m,
         NEW S, NEW R, \A i \in 1 .. Len(q) : q[i] \in S <=> PtrTo(ptr, i) \in R, \A o \in S : o \in Objs /\ m[o] # NULL,
         NEW p
  PROVE  /\ FirstStop(ptr, R, p, 1, Len(q)) => p = PtrOf(ThisZSet!FirstOf(S))
         /\ LastStop(ptr, R, p, Len(q)) => p = PtrOf(ThisZSet!LastOf(S))
<1> DEFINE n == Len(q)
<1>1. InOrder(q, m) /\ n \in Nat
  BY PairsArePaired
<1>2. /\ \A i \in 1 .. n : q[i] \in Objs /\ q[i] # NULL
      /\ \A i, j \in 1 .. n : q[i] = q[j] => i = j
      /\ \A i, j \in 1 .. n : Precedes(m, q[i], q[j]) <=> i < j
  BY <1>1, PlacesAre, ZSetNulls
<1>3. \A o \in S : \E i \in 1 .. n : q[i] = o
  BY <1>1 DEF InOrder
<1>4. \A x, y : ThisZSet!Below(x, y) <=> Precedes(m, x, y)
  BY OrderedSetIs
<1>5. \A i \in 1 .. n : ZzlFind(ptr, q[i]) = PtrTo(ptr, i)
  BY <1>2, FindFinds
<1>6. ASSUME FirstStop(ptr, R, p, 1, n)
      PROVE  p = PtrOf(ThisZSet!FirstOf(S))
  <2>1. CASE p = NULL /\ \A j \in 1 .. n : PtrTo(ptr, j) \notin R
    <3>1. S = {}
      BY <1>3, <2>1
    <3>2. QED
      BY <2>1, <3>1 DEF PtrOf, ThisZSet!FirstOf
  <2>2. CASE \E i \in 1 .. n : p = PtrTo(ptr, i) /\ p \in R /\ \A h \in 1 .. i - 1 : PtrTo(ptr, h) \notin R
    <3>1. PICK i \in 1 .. n : p = PtrTo(ptr, i) /\ p \in R /\ \A h \in 1 .. i - 1 : PtrTo(ptr, h) \notin R
      BY <2>2
    <3>2. q[i] \in S
      BY <3>1
    <3>3. \A j \in 1 .. n : q[j] \in S => ~(j < i)
      <4>1. \A j \in 1 .. n : j < i => j \in 1 .. i - 1
        BY <1>1
      <4>2. QED
        BY <3>1, <4>1
    <3>4. \A y \in S \ {q[i]} : ThisZSet!Below(q[i], y)
      <4>1. SUFFICES ASSUME NEW y \in S \ {q[i]}
                     PROVE  ThisZSet!Below(q[i], y)
        OBVIOUS
      <4>2. PICK j \in 1 .. n : q[j] = y
        BY <1>3
      <4>3. j # i /\ ~(j < i)
        BY <3>3, <4>1, <4>2
      <4>4. i < j
        BY <1>1, <4>3
      <4>5. QED
        BY <1>2, <1>4, <4>2, <4>4
    <3>5. ASSUME NEW x \in S, \A y \in S \ {x} : ThisZSet!Below(x, y)
          PROVE  x = q[i]
      <4>1. PICK j \in 1 .. n : q[j] = x
        BY <1>3
      <4>2. x # q[i] => j < i
        BY <1>2, <1>4, <3>2, <3>5, <4>1
      <4>3. QED
        BY <3>3, <3>5, <4>1, <4>2
    <3>6. ThisZSet!FirstOf(S) = q[i]
      BY <3>2, <3>4, <3>5 DEF ThisZSet!FirstOf
    <3>7. QED
      BY <1>2, <1>5, <3>1, <3>6 DEF PtrOf
  <2>3. QED
    BY <1>6, <2>1, <2>2 DEF FirstStop
<1>7. ASSUME LastStop(ptr, R, p, n)
      PROVE  p = PtrOf(ThisZSet!LastOf(S))
  <2>1. CASE p = NULL /\ \A j \in 1 .. n : PtrTo(ptr, j) \notin R
    <3>1. S = {}
      BY <1>3, <2>1
    <3>2. QED
      BY <2>1, <3>1 DEF PtrOf, ThisZSet!LastOf
  <2>2. CASE \E i \in 1 .. n : p = PtrTo(ptr, i) /\ p \in R /\ \A h \in i + 1 .. n : PtrTo(ptr, h) \notin R
    <3>1. PICK i \in 1 .. n : p = PtrTo(ptr, i) /\ p \in R /\ \A h \in i + 1 .. n : PtrTo(ptr, h) \notin R
      BY <2>2
    <3>2. q[i] \in S
      BY <3>1
    <3>3. \A j \in 1 .. n : q[j] \in S => ~(i < j)
      <4>1. \A j \in 1 .. n : i < j => j \in i + 1 .. n
        BY <1>1
      <4>2. QED
        BY <3>1, <4>1
    <3>4. \A y \in S \ {q[i]} : ThisZSet!Below(y, q[i])
      <4>1. SUFFICES ASSUME NEW y \in S \ {q[i]}
                     PROVE  ThisZSet!Below(y, q[i])
        OBVIOUS
      <4>2. PICK j \in 1 .. n : q[j] = y
        BY <1>3
      <4>3. j # i /\ ~(i < j)
        BY <3>3, <4>1, <4>2
      <4>4. j < i
        BY <1>1, <4>3
      <4>5. QED
        BY <1>2, <1>4, <4>2, <4>4
    <3>5. ASSUME NEW x \in S, \A y \in S \ {x} : ThisZSet!Below(y, x)
          PROVE  x = q[i]
      <4>1. PICK j \in 1 .. n : q[j] = x
        BY <1>3
      <4>2. x # q[i] => i < j
        BY <1>2, <1>4, <3>2, <3>5, <4>1
      <4>3. QED
        BY <3>3, <3>5, <4>1, <4>2
    <3>6. ThisZSet!LastOf(S) = q[i]
      BY <3>2, <3>4, <3>5 DEF ThisZSet!LastOf
    <3>7. QED
      BY <1>2, <1>5, <3>1, <3>6 DEF PtrOf
  <2>3. QED
    BY <1>7, <2>1, <2>2 DEF LastStop
<1>8. QED
  BY <1>6, <1>7

LEMMA RangesAgreeThere ==
  ASSUME type = "zset", NEW q, NEW m, PairsOf(ptr, q, m), ZSetScores = m
  PROVE  ZSetRangesAgree
<1> DEFINE n == Len(q)
<1>1. InOrder(q, m) /\ n \in Nat
  BY PairsArePaired
<1>2. \A i \in 1 .. n : q[i] \in Objs /\ m[q[i]] # NULL
  BY <1>1, PlacesAre, ZSetNulls
<1>3. ASSUME NEW r \in RangeSpec(Scores)
      PROVE  /\ ZzlFirstInRange(ptr, r) = PtrOf(ThisZSet!FirstOf(ThisZSet!ByScore(r)))
             /\ ZzlLastInRange(ptr, r) = PtrOf(ThisZSet!LastOf(ThisZSet!ByScore(r)))
  <2> DEFINE above == AboveMin(ptr, r)
             below == BelowMax(ptr, r)
             S == ThisZSet!ByScore(r)
             first == Seek(ptr, ZiplistIndex(ptr, 0), TRUE, above)
             last == Seek(ptr, ZiplistIndex(ptr, -2), FALSE, below)
             p == ZzlFirstInRange(ptr, r)
             x == ZzlLastInRange(ptr, r)
  <2>1. /\ Bounded(ptr, above, below, n)
        /\ \A i \in 1 .. n : (PtrTo(ptr, i) \in above <=> GteMin(m[q[i]], r)) /\ (PtrTo(ptr, i) \in below <=> LteMax(m[q[i]], r))
        /\ (\E i \in 1 .. n : PtrTo(ptr, i) \in above \cap below) => ZzlIsInRange(ptr, r)
    BY ScoresBounded
  <2>2. S = {o \in Objs : m[o] # NULL /\ GteMin(m[o], r) /\ LteMax(m[o], r)}
    BY OrderedSetIs
  <2>3. /\ p = IF ZzlIsInRange(ptr, r) /\ first \in below THEN first ELSE NULL
        /\ x = IF ZzlIsInRange(ptr, r) /\ last \in above THEN last ELSE NULL
    BY DEF ZzlFirstInRange, ZzlLastInRange
  <2> HIDE DEF above, below, S, p, x, first, last
  <2>4. \A i \in 1 .. n : q[i] \in S <=> PtrTo(ptr, i) \in above \cap below
    BY <1>2, <2>1, <2>2
  <2>5. \A o \in S : o \in Objs /\ m[o] # NULL
    BY <2>2
  <2>6. FirstStop(ptr, above \cap below, p, 1, n)
    <3>1. p # NULL => p = first /\ p \in below
      BY <2>3
    <3>2. first \in below /\ (\E j \in 1 .. n : PtrTo(ptr, j) \in above \cap below) => p = first
      BY <2>1, <2>3
    <3>3. first = Seek(ptr, ZiplistIndex(ptr, 0), TRUE, above)
      BY DEF first
    <3>4. QED
      BY <2>1, <3>1, <3>2, <3>3, FirstBounded
  <2>7. LastStop(ptr, above \cap below, x, n)
    <3>1. x # NULL => x = last /\ x \in above
      BY <2>3
    <3>2. last \in above /\ (\E j \in 1 .. n : PtrTo(ptr, j) \in above \cap below) => x = last
      BY <2>1, <2>3
    <3>3. last = Seek(ptr, ZiplistIndex(ptr, -2), FALSE, below)
      BY DEF last
    <3>4. QED
      BY <2>1, <3>1, <3>2, <3>3, LastBounded
  <2>8. p = PtrOf(ThisZSet!FirstOf(S)) /\ x = PtrOf(ThisZSet!LastOf(S))
    BY <2>4, <2>5, <2>6, <2>7, EndsAgree
  <2>9. QED
    BY <2>8 DEF p, x, S
<1>4. ASSUME \A p, x \in MemberPtrs(ptr) : ScoreAt(ptr, p) = ScoreAt(ptr, x), NEW r \in RangeSpec(Bounds)
      PROVE  /\ ZzlFirstInLexRange(ptr, r) = PtrOf(ThisZSet!FirstOf(ThisZSet!ByLex(r)))
             /\ ZzlLastInLexRange(ptr, r) = PtrOf(ThisZSet!LastOf(ThisZSet!ByLex(r)))
  <2> DEFINE above == LexAboveMin(ptr, r)
             below == LexBelowMax(ptr, r)
             S == ThisZSet!ByLex(r)
             first == Seek(ptr, ZiplistIndex(ptr, 0), TRUE, above)
             last == Seek(ptr, ZiplistIndex(ptr, -2), FALSE, below)
             p == ZzlFirstInLexRange(ptr, r)
             x == ZzlLastInLexRange(ptr, r)
  <2>1. /\ Bounded(ptr, above, below, n)
        /\ \A i \in 1 .. n : (PtrTo(ptr, i) \in above <=> GteMin(q[i], r)) /\ (PtrTo(ptr, i) \in below <=> LteMax(q[i], r))
        /\ (\E i \in 1 .. n : PtrTo(ptr, i) \in above \cap below) => ZzlIsInLexRange(ptr, r)
    BY <1>4, MembersBounded
  <2>2. S = {o \in Objs : m[o] # NULL /\ GteMin(o, r) /\ LteMax(o, r)}
    BY OrderedSetIs
  <2>3. /\ p = IF ZzlIsInLexRange(ptr, r) /\ first \in below THEN first ELSE NULL
        /\ x = IF ZzlIsInLexRange(ptr, r) /\ last \in above THEN last ELSE NULL
    BY DEF ZzlFirstInLexRange, ZzlLastInLexRange
  <2> HIDE DEF above, below, S, p, x, first, last
  <2>4. \A i \in 1 .. n : q[i] \in S <=> PtrTo(ptr, i) \in above \cap below
    BY <1>2, <2>1, <2>2
  <2>5. \A o \in S : o \in Objs /\ m[o] # NULL
    BY <2>2
  <2>6. FirstStop(ptr, above \cap below, p, 1, n)
    <3>1. p # NULL => p = first /\ p \in below
      BY <2>3
    <3>2. first \in below /\ (\E j \in 1 .. n : PtrTo(ptr, j) \in above \cap below) => p = first
      BY <2>1, <2>3
    <3>3. first = Seek(ptr, ZiplistIndex(ptr, 0), TRUE, above)
      BY DEF first
    <3>4. QED
      BY <2>1, <3>1, <3>2, <3>3, FirstBounded
  <2>7. LastStop(ptr, above \cap below, x, n)
    <3>1. x # NULL => x = last /\ x \in above
      BY <2>3
    <3>2. last \in above /\ (\E j \in 1 .. n : PtrTo(ptr, j) \in above \cap below) => x = last
      BY <2>1, <2>3
    <3>3. last = Seek(ptr, ZiplistIndex(ptr, -2), FALSE, below)
      BY DEF last
    <3>4. QED
      BY <2>1, <3>1, <3>2, <3>3, LastBounded
  <2>8. p = PtrOf(ThisZSet!FirstOf(S)) /\ x = PtrOf(ThisZSet!LastOf(S))
    BY <2>4, <2>5, <2>6, <2>7, EndsAgree
  <2>9. QED
    BY <2>8 DEF p, x, S
<1>5. QED
  BY <1>3, <1>4 DEF ZSetRangesAgree

----------------------------------------------------------------------------
\* The calls on a sorted set.

\* The pairs are in order; a skip list has scores.
ZSetOrdered ==
  \/ encoding = "ziplist" /\ \E q, m : PairsOf(ptr, q, m)
  \/ encoding = "skiplist" /\ ptr \in ZMap

GoodPairs == type = "zset" => ZSetOrdered

LEMMA ZSetIs ==
  ASSUME ZSetOrdered
  PROVE  /\ ZSetScores \in ZMap
         /\ encoding = "ziplist" => \E q : PairsOf(ptr, q, ZSetScores)
         /\ encoding # "ziplist" => encoding = "skiplist" /\ ZSetScores = ptr
<1>1. CASE encoding = "ziplist"
  <2>1. PICK q, m : PairsOf(ptr, q, m)
    BY <1>1 DEF ZSetOrdered
  <2>2. ZSetScores = ScoresOf(ptr)
    BY <1>1 DEF ZSetScores, ScoresOf
  <2>3. ZSetScores = m
    BY <2>1, <2>2, ScoresAre
  <2>4. m \in ZMap
    BY <2>1 DEF PairsOf, InOrder
  <2>5. QED
    BY <1>1, <2>1, <2>3, <2>4
<1>2. CASE encoding # "ziplist"
  BY <1>2 DEF ZSetOrdered, ZSetScores
<1>3. QED
  BY <1>1, <1>2

\* What zsetConvert gathers are the pairs.
LEMMA AllGathered ==
  ASSUME NEW zl, NEW q, NEW m, PairsOf(zl, q, m)
  PROVE  AsSkiplist(zl) = m
<1> DEFINE n == Len(zl.entries)
           P(o) == PlacesOf(zl, 1, o)
<1>1. /\ GoodZiplist(zl) /\ Paired(zl) /\ InOrder(q, m)
      /\ \A i \in 1 .. Len(q) : 2 * i - 1 \in 1 .. n /\ (2 * i - 1) % 2 = 1
      /\ \A k \in 1 .. n : k % 2 = 1 => \E i \in 1 .. Len(q) : k = 2 * i - 1
  BY PairsArePaired
<1>2. \A i \in 1 .. Len(q) : /\ MemberAt(zl, Offset(zl, 2 * i - 1)) = q[i]
                             /\ ScoreAt(zl, Offset(zl, 2 * i - 1)) = m[q[i]]
  BY PairIsAt DEF PtrTo
<1>3. \A i, j \in 1 .. Len(q) : q[i] = q[j] => i = j
  BY <1>1, PlacesAre
<1>4. ASSUME NEW o \in Objs
      PROVE  Gathered(zl, 1)[o] = m[o]
  <2>1. CASE m[o] = NULL
    <3>1. ASSUME NEW j \in P(o)
          PROVE  FALSE
      <4>1. j \in 1 .. n /\ j % 2 = 1 /\ MemberAt(zl, Offset(zl, j)) = o
        BY <3>1 DEF PlacesOf
      <4>2. PICK h \in 1 .. Len(q) : j = 2 * h - 1
        BY <1>1, <4>1
      <4>3. q[h] = o
        BY <1>2, <4>1, <4>2
      <4>4. QED
        BY <1>1, <2>1, <4>3 DEF InOrder
    <3>2. P(o) = {}
      BY <3>1
    <3>3. QED
      BY <2>1, <3>2 DEF Gathered
  <2>2. CASE m[o] # NULL
    <3>1. PICK i \in 1 .. Len(q) : q[i] = o
      BY <1>1, <2>2 DEF InOrder
    <3> DEFINE k == 2 * i - 1
               Q == P(o)
    <3>2. k \in Q
      BY <1>1, <1>2, <3>1 DEF PlacesOf
    <3>3. ASSUME NEW j \in Q
          PROVE  j = k
      <4>1. j \in 1 .. n /\ j % 2 = 1 /\ MemberAt(zl, Offset(zl, j)) = o
        BY <3>3 DEF PlacesOf
      <4>2. PICK h \in 1 .. Len(q) : j = 2 * h - 1
        BY <1>1, <4>1
      <4>3. h = i
        BY <1>2, <1>3, <3>1, <4>1, <4>2
      <4>4. QED
        BY <4>2, <4>3
    <3>4. k \in Int
      BY <1>1, <3>1
    <3> HIDE DEF Q, k
    <3>5. Q = {k}
      BY <3>2, <3>3
    <3>6. Min(Q) = k
      BY <3>4, <3>5 DEF Min
    <3>7. ScoreAt(zl, Offset(zl, k)) = m[o]
      BY <1>2, <3>1 DEF k
    <3>8. Gathered(zl, 1)[o] = IF Q = {} THEN NULL ELSE ScoreAt(zl, Offset(zl, Min(Q)))
      BY DEF Gathered, Q
    <3>9. QED
      BY <3>5, <3>6, <3>7, <3>8
  <2>3. QED
    BY <2>1, <2>2
<1>5. Gathered(zl, 1) = [o \in Objs |-> Gathered(zl, 1)[o]]
  BY DEF Gathered
<1>6. m = [o \in Objs |-> m[o]]
  BY <1>1 DEF InOrder, ZMap
<1>7. Gathered(zl, 1) = m
  BY <1>4, <1>5, <1>6
<1>8. QED
  BY <1>1, <1>7, AsSkiplistIs

LEMMA BecomesOrdered ==
  ASSUME NEW zl, Become("ziplist", zl), NEW m, \E q : PairsOf(zl, q, m)
  PROVE  ZSetOrdered' /\ ZSetScores' = m /\ type' = type
<1>1. encoding' = "ziplist" /\ ptr' = zl /\ type' = type
  BY DEF Become
<1>2. PICK q : PairsOf(zl, q, m)
  OBVIOUS
<1>3. ZSetOrdered'
  BY <1>1, <1>2 DEF ZSetOrdered
<1>4. ZSetScores' = ScoresOf(zl)
  BY <1>1 DEF ZSetScores, ScoresOf
<1>5. ScoresOf(zl) = m
  BY <1>2, ScoresAre
<1>6. QED
  BY <1>1, <1>3, <1>4, <1>5

LEMMA BecomesScores ==
  ASSUME NEW m \in ZMap, Become("skiplist", m)
  PROVE  ZSetOrdered' /\ ZSetScores' = m /\ type' = type
BY DEF Become, ZSetOrdered, ZSetScores

LEMMA SameZSet ==
  ASSUME SameObject, ZSetOrdered
  PROVE  ZSetOrdered' /\ ZSetScores' = ZSetScores /\ type' = type
BY DEF SameObject, ZSetOrdered, ZSetScores

LEMMA StoresPairs ==
  ASSUME NEW zl, Store(zl), NEW m, \E q : PairsOf(zl, q, m)
  PROVE  ZSetOrdered' /\ ZSetScores' = m /\ type' = type
<1>1. Become("ziplist", zl)
  BY DEF Store
<1>2. QED
  BY <1>1, BecomesOrdered

LEMMA ZSetInserts ==
  ASSUME type = "zset", ZSetOrdered, Intact', NEW o \in Objs, NEW s \in Scores, ZzlInsert(o, s)
  PROVE  ZSetOrdered' /\ type' = type /\ ThisZSet!Next
<1> DEFINE m == ZSetScores
<1>1. encoding = "ziplist" /\ ZzlFind(ptr, o) = NULL /\ Store(Inserted(ptr, o, s)) /\ ret' = <<"insert", o>>
  BY DEF ZzlInsert
<1>2. PICK q : PairsOf(ptr, q, m)
  BY <1>1, ZSetIs
<1> HIDE DEF m
<1>3. m[o] = NULL
  <2>1. \A i \in 1 .. Len(q) : PtrTo(ptr, i) # NULL
    BY <1>2, PairIsAt
  <2>2. QED
    BY <1>1, <1>2, <2>1, FindFinds
<1>4. encoding' = "ziplist" /\ ptr' = Inserted(ptr, o, s)
  BY <1>1 DEF Store, Become
<1>5. ~Ruined(Inserted(ptr, o, s))
  BY <1>4, NotRuined
<1>6. \E t : PairsOf(Inserted(ptr, o, s), t, [m EXCEPT ![o] = s])
  BY <1>2, <1>3, <1>5, InsertsInOrder
<1>7. ZSetOrdered' /\ ZSetScores' = [m EXCEPT ![o] = s] /\ type' = type
  BY <1>1, <1>6, StoresPairs
<1>8. o \notin ThisZSet!Members
  BY <1>3 DEF ThisZSet!Members, m
<1>9. ThisZSet!Insert(o, s)
  BY <1>1, <1>7, <1>8 DEF ThisZSet!Insert, m
<1>10. QED
  BY <1>7, <1>9 DEF ThisZSet!Next

LEMMA ZSetDeletes ==
  ASSUME type = "zset", ZSetOrdered, NEW o \in Objs, ZzlDelete(o)
  PROVE  ZSetOrdered' /\ type' = type /\ ThisZSet!Next
<1> DEFINE m == ZSetScores
           eptr == ZzlFind(ptr, o)
<1>1. encoding = "ziplist" /\ eptr # NULL /\ Store(DeletedPair(ptr, eptr)) /\ ret' = <<"delete", o, ScoreAt(ptr, eptr), 1>>
  BY DEF ZzlDelete
<1>2. PICK q : PairsOf(ptr, q, m)
  BY <1>1, ZSetIs
<1> HIDE DEF m
<1>3. PICK i \in 1 .. Len(q) : q[i] = o /\ eptr = PtrTo(ptr, i)
  BY <1>1, <1>2, FindFinds
<1> HIDE DEF eptr
<1>4. ScoreAt(ptr, eptr) = m[o]
  BY <1>2, <1>3, PairIsAt
<1>5. m[o] \in Scores
  <2>1. InOrder(q, m)
    BY <1>2, PairsArePaired
  <2>2. QED
    BY <1>3, <2>1, PlacesAre
<1>6. \E t : PairsOf(DeletedPair(ptr, eptr), t, [m EXCEPT ![o] = NULL])
  BY <1>2, <1>3, PairDeleted
<1>7. ZSetOrdered' /\ ZSetScores' = [m EXCEPT ![o] = NULL] /\ type' = type
  BY <1>1, <1>6, StoresPairs
<1>8. ThisZSet!Delete(o, m[o])
  BY <1>1, <1>4, <1>7 DEF ThisZSet!Delete, m
<1>9. QED
  BY <1>5, <1>7, <1>8 DEF ThisZSet!Next

LEMMA ZSetRemoves ==
  ASSUME type = "zset", type' = type, NEW m, ZSetScores = m, NEW S, ZSetScores' = Removed(m, S), Cardinality(S) \in 0 .. Cardinality(Objs),
         NEW call, NEW range, ret' = <<call, range, Cardinality(S)>>,
         NEW inRange, range \in DOMAIN inRange, inRange[range] = S
  PROVE  ThisZSet!Remove(call, inRange)
<1>1. ret' \in {call} \X (DOMAIN inRange) \X (0 .. ThisZSet!Cardinality(Objs))
  BY ZSetCardinality
<1>2. ret'[2] = range /\ ret'[3] = ThisZSet!Cardinality(S)
  BY ZSetCardinality
<1>3. ZSetScores' = [o \in Objs |-> IF o \in S THEN NULL ELSE m[o]]
  BY DEF Removed
<1>4. QED
  BY <1>1, <1>2, <1>3 DEF ThisZSet!Remove

LEMMA ZSetRemovesScores ==
  ASSUME type = "zset", ZSetOrdered, NEW r \in RangeSpec(Scores), ZzlDeleteRangeByScore(r)
  PROVE  ZSetOrdered' /\ type' = type /\ ThisZSet!Next
<1> DEFINE m == ZSetScores
           above == AboveMin(ptr, r)
           below == BelowMax(ptr, r)
           S == ThisZSet!ByScore(r)
           first == Seek(ptr, ZiplistIndex(ptr, 0), TRUE, above)
           p == ZzlFirstInRange(ptr, r)
           removed == RemoveBelow(ptr, p, below)
           inRange == [x \in ThisZSet!RangeSpec(Scores) |-> ThisZSet!ByScore(x)]
<1>1. encoding = "ziplist" /\ Store(removed.zl) /\ ret' = <<"by score", r, removed.deleted>>
  BY DEF ZzlDeleteRangeByScore
<1>2. PICK q : PairsOf(ptr, q, m)
  BY <1>1, ZSetIs
<1>3. S = {o \in Objs : m[o] # NULL /\ GteMin(m[o], r) /\ LteMax(m[o], r)}
  BY OrderedSetIs
<1>4. p = IF ZzlIsInRange(ptr, r) /\ first \in below THEN first ELSE NULL
  BY DEF ZzlFirstInRange
<1>5. r \in DOMAIN inRange /\ inRange[r] = S
  BY ZSetSpecs
<1> HIDE DEF m
<1>6. /\ Bounded(ptr, above, below, Len(q))
      /\ \A i \in 1 .. Len(q) : (PtrTo(ptr, i) \in above <=> GteMin(m[q[i]], r)) /\ (PtrTo(ptr, i) \in below <=> LteMax(m[q[i]], r))
      /\ (\E i \in 1 .. Len(q) : PtrTo(ptr, i) \in above \cap below) => ZzlIsInRange(ptr, r)
  BY <1>2, ScoresBounded
<1>7. first = Seek(ptr, ZiplistIndex(ptr, 0), TRUE, above)
  OBVIOUS
<1> HIDE DEF above, below, S, first, p, removed, inRange
<1>8. FirstStop(ptr, above \cap below, p, 1, Len(q))
  <2>1. p # NULL => p = first /\ p \in below
    BY <1>4
  <2>2. first \in below /\ (\E j \in 1 .. Len(q) : PtrTo(ptr, j) \in above \cap below) => p = first
    BY <1>4, <1>6
  <2>3. QED
    BY <1>2, <1>6, <1>7, <2>1, <2>2, FirstBounded
<1>9. \A i \in 1 .. Len(q) : q[i] \in S <=> PtrTo(ptr, i) \in above \cap below
  <2>1. InOrder(q, m)
    BY <1>2, PairsArePaired
  <2>2. \A i \in 1 .. Len(q) : q[i] \in Objs /\ m[q[i]] # NULL
    BY <2>1, PlacesAre, ZSetNulls
  <2>3. QED
    BY <1>3, <1>6, <2>2
<1>10. \A o \in S : o \in Objs /\ m[o] # NULL
  BY <1>3
<1>11. removed.deleted = Cardinality(S) /\ Cardinality(S) \in 0 .. Cardinality(Objs) /\ \E t : PairsOf(removed.zl, t, Removed(m, S))
  BY <1>2, <1>6, <1>8, <1>9, <1>10, BoundedRemoved DEF removed
<1>12. ZSetOrdered' /\ ZSetScores' = Removed(m, S) /\ type' = type
  BY <1>1, <1>11, StoresPairs
<1>13. ret' = <<"by score", r, Cardinality(S)>>
  BY <1>1, <1>11
<1>14. ThisZSet!Remove("by score", inRange)
  BY <1>5, <1>11, <1>12, <1>13, ZSetRemoves DEF m
<1>15. QED
  BY <1>12, <1>14 DEF ThisZSet!Next, inRange

LEMMA ZSetRemovesMembers ==
  ASSUME type = "zset", ZSetOrdered, NEW r \in RangeSpec(Bounds), ZzlDeleteRangeByLex(r)
  PROVE  ZSetOrdered' /\ type' = type /\ ThisZSet!Next
<1> DEFINE m == ZSetScores
           above == LexAboveMin(ptr, r)
           below == LexBelowMax(ptr, r)
           S == ThisZSet!ByLex(r)
           first == Seek(ptr, ZiplistIndex(ptr, 0), TRUE, above)
           p == ZzlFirstInLexRange(ptr, r)
           removed == RemoveBelow(ptr, p, below)
           inRange == [x \in ThisZSet!RangeSpec(ThisZSet!Bounds) |-> ThisZSet!ByLex(x)]
<1>1. encoding = "ziplist" /\ Store(removed.zl) /\ ret' = <<"by lex", r, removed.deleted>>
  BY DEF ZzlDeleteRangeByLex
<1>2. PICK q : PairsOf(ptr, q, m)
  BY <1>1, ZSetIs
<1>3. S = {o \in Objs : m[o] # NULL /\ GteMin(o, r) /\ LteMax(o, r)}
  BY OrderedSetIs
<1>4. p = IF ZzlIsInLexRange(ptr, r) /\ first \in below THEN first ELSE NULL
  BY DEF ZzlFirstInLexRange
<1>5. r \in DOMAIN inRange /\ inRange[r] = S
  BY ZSetSpecs
<1> HIDE DEF m
<1>6. /\ Bounded(ptr, above, below, Len(q))
      /\ \A i \in 1 .. Len(q) : (PtrTo(ptr, i) \in above <=> GteMin(q[i], r)) /\ (PtrTo(ptr, i) \in below <=> LteMax(q[i], r))
      /\ (\E i \in 1 .. Len(q) : PtrTo(ptr, i) \in above \cap below) => ZzlIsInLexRange(ptr, r)
  <2>1. \A x, y \in MemberPtrs(ptr) : ScoreAt(ptr, x) = ScoreAt(ptr, y)
    BY DEF ZzlDeleteRangeByLex
  <2>2. QED
    BY <1>2, <2>1, MembersBounded
<1>7. first = Seek(ptr, ZiplistIndex(ptr, 0), TRUE, above)
  OBVIOUS
<1> HIDE DEF above, below, S, first, p, removed, inRange
<1>8. FirstStop(ptr, above \cap below, p, 1, Len(q))
  <2>1. p # NULL => p = first /\ p \in below
    BY <1>4
  <2>2. first \in below /\ (\E j \in 1 .. Len(q) : PtrTo(ptr, j) \in above \cap below) => p = first
    BY <1>4, <1>6
  <2>3. QED
    BY <1>2, <1>6, <1>7, <2>1, <2>2, FirstBounded
<1>9. \A i \in 1 .. Len(q) : q[i] \in S <=> PtrTo(ptr, i) \in above \cap below
  <2>1. InOrder(q, m)
    BY <1>2, PairsArePaired
  <2>2. \A i \in 1 .. Len(q) : q[i] \in Objs /\ m[q[i]] # NULL
    BY <2>1, PlacesAre, ZSetNulls
  <2>3. QED
    BY <1>3, <1>6, <2>2
<1>10. \A o \in S : o \in Objs /\ m[o] # NULL
  BY <1>3
<1>11. removed.deleted = Cardinality(S) /\ Cardinality(S) \in 0 .. Cardinality(Objs) /\ \E t : PairsOf(removed.zl, t, Removed(m, S))
  BY <1>2, <1>6, <1>8, <1>9, <1>10, BoundedRemoved DEF removed
<1>12. ZSetOrdered' /\ ZSetScores' = Removed(m, S) /\ type' = type
  BY <1>1, <1>11, StoresPairs
<1>13. ret' = <<"by lex", r, Cardinality(S)>>
  BY <1>1, <1>11
<1>14. ThisZSet!Remove("by lex", inRange)
  BY <1>5, <1>11, <1>12, <1>13, ZSetRemoves DEF m
<1>15. QED
  BY <1>12, <1>14 DEF ThisZSet!Next, inRange

LEMMA ZSetRemovesRanks ==
  ASSUME type = "zset", ZSetOrdered, NEW start \in 1 .. Cardinality(Objs), NEW end \in 1 .. Cardinality(Objs),
         ZzlDeleteRangeByRank(start, end)
  PROVE  ZSetOrdered' /\ type' = type /\ ThisZSet!Next
<1> DEFINE m == ZSetScores
           S == ThisZSet!ByRank(start, end)
           zl == ZiplistDeleteRange(ptr, 2 * (start - 1), 2 * (end - start + 1))
           ranks == 1 .. ThisZSet!Cardinality(Objs) + 1
           inRange == [r \in ranks \X ranks |-> ThisZSet!ByRank(r[1], r[2])]
<1>1. encoding = "ziplist" /\ start <= end /\ end <= ZzlLength(ptr) /\ Store(zl) /\ ret' = <<"by rank", <<start, end>>, end - start + 1>>
  BY DEF ZzlDeleteRangeByRank
<1>2. PICK q : PairsOf(ptr, q, m)
  BY <1>1, ZSetIs
<1>3. start \in Int /\ end \in Int /\ start >= 1 /\ Cardinality(Objs) \in Nat
  BY ZSetAssumption, FS_CardinalityType
<1>4. <<start, end>> \in DOMAIN inRange /\ inRange[<<start, end>>] = S
  <2>1. start \in ranks /\ end \in ranks
    BY <1>3, ZSetCardinality
  <2> HIDE DEF ranks
  <2>2. QED
    BY <2>1
<1>5. S = {o \in ThisZSet!Members : ThisZSet!RankOf(o) \in start .. end}
  BY DEF ThisZSet!ByRank
<1>6. ThisZSet!Members = {o \in Objs : m[o] # NULL}
  BY OrderedSetIs
<1>7. \A k \in 1 .. Len(q) : ThisZSet!RankOf(q[k]) = k
  <2>1. InOrder(q, m)
    BY <1>2, PairsArePaired
  <2>2. QED
    BY <2>1, ZSetRankIs
<1>8. end <= Len(q) /\ \E t : PairsOf(zl, t, Removed(m, Places(q, start, end)))
  BY <1>1, <1>2, <1>3, RanksRemoved
<1> HIDE DEF m, S, zl, inRange
<1>9. S = Places(q, start, end)
  <2>1. InOrder(q, m) /\ Len(q) \in Nat
    BY <1>2, PairsArePaired
  <2>2. \A k \in 1 .. Len(q) : q[k] \in Objs /\ m[q[k]] # NULL
    BY <2>1, PlacesAre, ZSetNulls
  <2>3. \A o \in Objs : m[o] # NULL => \E k \in 1 .. Len(q) : q[k] = o
    BY <2>1 DEF InOrder
  <2>4. \A k \in start .. end : k \in 1 .. Len(q)
    BY <1>3, <1>8, <2>1
  <2>5. QED
    BY <1>5, <1>6, <1>7, <2>2, <2>3, <2>4 DEF Places
<1>10. Cardinality(S) = end - start + 1 /\ end - start + 1 \in 0 .. Cardinality(Objs)
  <2>1. InOrder(q, m)
    BY <1>2, PairsArePaired
  <2>2. start <= end + 1
    <3>1. start <= end
      BY <1>1
    <3>2. \A x, y \in Int : x <= y => x <= y + 1
      OBVIOUS
    <3>3. QED
      BY <1>3, <3>1, <3>2
  <2>3. QED
    BY <1>3, <1>8, <1>9, <2>1, <2>2, PlacesNumber
<1>11. \E t : PairsOf(zl, t, Removed(m, S))
  BY <1>8, <1>9
<1>12. ZSetOrdered' /\ ZSetScores' = Removed(m, S) /\ type' = type
  BY <1>1, <1>11, StoresPairs
<1>13. ret' = <<"by rank", <<start, end>>, Cardinality(S)>> /\ Cardinality(S) \in 0 .. Cardinality(Objs)
  BY <1>1, <1>10
<1>14. ThisZSet!Remove("by rank", inRange)
  BY <1>4, <1>12, <1>13, ZSetRemoves DEF m
<1>15. QED
  BY <1>12, <1>14 DEF ThisZSet!Next, inRange

\* A count that is stored changes nothing else.
LEMMA PairsRecounted ==
  ASSUME NEW zl, NEW q, NEW m, PairsOf(zl, q, m)
  PROVE  PairsOf(Recounted(zl), q, m)
<1>1. GoodZiplist(zl) /\ InOrder(q, m) /\ Len(zl.entries) = 2 * Len(q)
      /\ \A i \in 1 .. Len(q) : zl.entries[2 * i - 1].val = MemberOf[q[i]] /\ zl.entries[2 * i].val = Integer(m[q[i]])
  BY DEF PairsOf
<1>2. GoodZiplist(Recounted(zl)) /\ Recounted(zl).entries = zl.entries
  BY <1>1, RecountedIs
<1>3. QED
  BY <1>1, <1>2 DEF PairsOf

LEMMA ZSetStepOrders ==
  ASSUME ZSetNext, GoodPairs, Intact'
  PROVE  GoodPairs' /\ type = "zset" /\ type' = type /\ [ThisZSet!Next]_(ThisZSet!setVars)
<1>1. type = "zset" /\ ZSetOrdered
  BY DEF ZSetNext, GoodPairs
<1> DEFINE Goal == ZSetOrdered' /\ type' = type /\ [ThisZSet!Next]_(ThisZSet!setVars)
<1>2. ASSUME NEW o \in Objs, ZzlDelete(o) \/ \E s \in Scores : ZzlInsert(o, s)
      PROVE  Goal
  BY <1>1, <1>2, ZSetDeletes, ZSetInserts
<1>3. ASSUME NEW r \in RangeSpec(Scores), ZzlDeleteRangeByScore(r)
      PROVE  Goal
  BY <1>1, <1>3, ZSetRemovesScores
<1>4. ASSUME NEW r \in RangeSpec(Bounds), ZzlDeleteRangeByLex(r)
      PROVE  Goal
  BY <1>1, <1>4, ZSetRemovesMembers
<1>5. ASSUME NEW start \in 1 .. Cardinality(Objs), NEW end \in 1 .. Cardinality(Objs), ZzlDeleteRangeByRank(start, end)
      PROVE  Goal
  BY <1>1, <1>5, ZSetRemovesRanks
<1>6. ASSUME ZsetLength \/ ZsetConvert
      PROVE  Goal
  <2>1. ZSetOrdered' /\ ZSetScores' = ZSetScores /\ type' = type
    <3>1. ASSUME ZsetLength, encoding = "ziplist"
          PROVE  ZSetOrdered' /\ ZSetScores' = ZSetScores /\ type' = type
      <4>1. Become("ziplist", Recounted(ptr))
        BY <3>1 DEF ZsetLength
      <4>2. \E q : PairsOf(Recounted(ptr), q, ZSetScores)
        BY <1>1, <3>1, ZSetIs, PairsRecounted
      <4>3. QED
        BY <4>1, <4>2, BecomesOrdered
    <3>2. ASSUME ZsetLength, encoding # "ziplist"
          PROVE  ZSetOrdered' /\ ZSetScores' = ZSetScores /\ type' = type
      <4>1. SameObject
        BY <3>2 DEF ZsetLength
      <4>2. QED
        BY <1>1, <4>1, SameZSet
    <3>3. ASSUME encoding = "ziplist", Become("skiplist", AsSkiplist(ptr))
          PROVE  ZSetOrdered' /\ ZSetScores' = ZSetScores /\ type' = type
      <4>1. ZSetScores \in ZMap /\ \E q : PairsOf(ptr, q, ZSetScores)
        BY <1>1, <3>3, ZSetIs
      <4>2. AsSkiplist(ptr) = ZSetScores
        BY <4>1, AllGathered
      <4>3. QED
        BY <3>3, <4>1, <4>2, BecomesScores
    <3>4. ASSUME encoding = "skiplist", Become("ziplist", AsZiplist(ptr))
          PROVE  ZSetOrdered' /\ ZSetScores' = ZSetScores /\ type' = type
      <4>1. ZSetScores = ptr /\ ptr \in ZMap
        BY <1>1, <3>4, ZSetIs
      <4>2. \E q : PairsOf(AsZiplist(ptr), q, ZSetScores)
        BY <4>1, ConvertsInOrder
      <4>3. QED
        BY <3>4, <4>2, BecomesOrdered
    <3>5. QED
      BY <1>6, <3>1, <3>2, <3>3, <3>4 DEF ZsetConvert
  <2>2. ret' = ret
    BY <1>6 DEF ZsetLength, ZsetConvert
  <2>3. UNCHANGED ThisZSet!setVars
    BY <2>1, <2>2 DEF ThisZSet!setVars
  <2>4. QED
    BY <2>1, <2>3
<1> HIDE DEF Goal
<1>7. Goal
  BY <1>2, <1>3, <1>4, <1>5, <1>6 DEF ZSetNext
<1>8. QED
  BY <1>1, <1>7 DEF Goal, GoodPairs

LEMMA PairsInitially ==
  ASSUME Init
  PROVE  GoodPairs /\ ThisZSet!Init
<1>1. type = "zset" => ZSetOrdered /\ ZSetScores = [o \in Objs |-> NULL]
  <2>1. SUFFICES ASSUME type = "zset"
                 PROVE  ZSetOrdered /\ ZSetScores = [o \in Objs |-> NULL]
    OBVIOUS
  <2>2. \/ encoding = "ziplist" /\ ptr = ZiplistNew
        \/ encoding = "skiplist" /\ ptr = [o \in Objs |-> NULL]
    BY <2>1 DEF Init, Create, CreateZsetObject
  <2>3. CASE encoding = "ziplist" /\ ptr = ZiplistNew
    <3>1. PairsOf(ptr, <<>>, [o \in Objs |-> NULL])
      BY <2>3, NoPairs
    <3>2. ZSetOrdered
      BY <2>3, <3>1 DEF ZSetOrdered
    <3>3. ScoresOf(ptr) = [o \in Objs |-> NULL]
      BY <3>1, ScoresAre
    <3>4. ZSetScores = ScoresOf(ptr)
      BY <2>3 DEF ZSetScores, ScoresOf
    <3>5. QED
      BY <3>2, <3>3, <3>4
  <2>4. CASE encoding = "skiplist" /\ ptr = [o \in Objs |-> NULL]
    <3>1. [o \in Objs |-> NULL] \in ZMap
      BY DEF ZMap
    <3>2. QED
      BY <2>4, <3>1 DEF ZSetOrdered, ZSetScores
  <2>5. QED
    BY <2>2, <2>3, <2>4
<1>2. ThisZSet!Init
  BY <1>1 DEF Init, ThisZSet!Init
<1>3. QED
  BY <1>1, <1>2 DEF GoodPairs

LEMMA PairsStep ==
  ASSUME IterationInv, GoodPairs, Next
  PROVE  GoodPairs' /\ [ThisZSet!Next]_(ThisZSet!setVars)
<1>1. /\ SetInv /\ ZiplistInv /\ GoodFields /\ GoodIteration
      /\ Encoded /\ GoodList /\ GoodHash /\ Intact'
  BY DEF IterationInv, ZiplistInv, Next
<1>2. ASSUME type # "zset", type' = type
      PROVE  GoodPairs' /\ UNCHANGED ThisZSet!setVars
  BY <1>2 DEF GoodPairs, ThisZSet!setVars
<1>3. CASE ListNext
  <2>1. type = "list" /\ type' = type
    BY <1>1, <1>3, ListStep
  <2>2. QED
    BY <1>2, <2>1
<1>4. CASE HashNext
  <2>1. type = "hash" /\ type' = type
    BY <1>1, <1>4, HashStepMaps
  <2>2. QED
    BY <1>2, <2>1
<1>5. CASE SetNext
  <2>1. type = "set" /\ type' = type
    BY <1>1, <1>5, SetIterationKeeps
  <2>2. QED
    BY <1>2, <2>1
<1>6. CASE ZSetNext
  BY <1>1, <1>6, ZSetStepOrders
<1>7. QED
  BY <1>3, <1>4, <1>5, <1>6 DEF Next, Calls

LEMMA PairsStay ==
  ASSUME UNCHANGED vars
  PROVE  (GoodPairs => GoodPairs') /\ UNCHANGED ThisZSet!setVars
BY DEF vars, GoodPairs, ZSetOrdered, ThisZSet!setVars, ZSetScores

LEMMA GoodPairsHolds == Spec => []GoodPairs
<1>1. Init => GoodPairs
  BY PairsInitially
<1>2. IterationInv /\ GoodPairs /\ [Next]_vars => GoodPairs'
  BY PairsStep, PairsStay
<1>3. QED
  BY <1>1, <1>2, IterationInvHolds, PTL DEF Spec

\* The ends of every range of scores, and of members where all have one score,
\* are found at the pairs that the ordered set says, for every set of members
\* and scores.
THEOREM ZSetRangesAlwaysAgree == Spec => []ZSetRangesAgree
<1>1. ASSUME GoodPairs
      PROVE  ZSetRangesAgree
  <2>1. CASE type = "zset" /\ encoding = "ziplist"
    <3>1. ZSetOrdered
      BY <1>1, <2>1 DEF GoodPairs
    <3>2. PICK q : PairsOf(ptr, q, ZSetScores)
      BY <2>1, <3>1, ZSetIs
    <3>3. QED
      BY <2>1, <3>2, RangesAgreeThere
  <2>2. CASE ~(type = "zset" /\ encoding = "ziplist")
    BY <2>2 DEF ZSetRangesAgree
  <2>3. QED
    BY <2>1, <2>2
<1>2. QED
  BY <1>1, GoodPairsHolds, PTL

\* A sorted set is an ordered set of members with scores: insertions come to
\* their place, the removals by score, by member and by rank take what is in the
\* range and count it, and no conversion shows.
THEOREM SortedSetImplementsOrderedSet == Spec => ImplementsZSet
<1>1. Init => ThisZSet!Init
  BY PairsInitially
<1>2. IterationInv /\ GoodPairs /\ [Next]_vars => [ThisZSet!Next]_(ThisZSet!setVars)
  BY PairsStep, PairsStay
<1>3. QED
  BY <1>1, <1>2, IterationInvHolds, GoodPairsHolds, PTL DEF Spec, ImplementsZSet, ThisZSet!Spec
=============================================================================
