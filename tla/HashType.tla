------------------------------ MODULE HashType ------------------------------
(***************************************************************************)
(* Hash objects (xmt_hash.c): a ziplist in which every field is followed   *)
(* by its value, or a dict once the hash or one of its strings is too      *)
(* long.                                                                   *)
(***************************************************************************)
EXTENDS Object

CONSTANTS
  HashFields,                \* the fields
  HashValues,                \* the values of fields
  hash_max_ziplist_entries,  \* server.hash_max_ziplist_entries
  hash_max_ziplist_value     \* server.hash_max_ziplist_value

ASSUME HashTypeAssumption == HashFields \cup HashValues \subseteq Value /\ hash_max_ziplist_entries \in Nat

\* The pairs of a ziplist as a dict: the entry after a field is its value.
PairsAsDict(zl) ==
  [f \in HashFields |->
    LET at == {k \in DOMAIN zl.entries : k % 2 = 1 /\ zl.entries[k].val = f}
    IN IF at = {} THEN NULL ELSE zl.entries[Min(at) + 1].val]

\* The value of every field.
HashMap == IF encoding = "ziplist" THEN PairsAsDict(ptr) ELSE ptr

HashPairs == {<<f, HashMap[f]>> : f \in {g \in HashFields : HashMap[g] # NULL}}

\* createHashObject
CreateHashObject == encoding = "ziplist" /\ ptr = ZiplistNew

\* The search for a field skips the values.
FieldPtr(zl, f) ==
  IF ZiplistIndex(zl, 0) = NULL THEN NULL ELSE ZiplistFind(zl, ZiplistIndex(zl, 0), f, 1)

\* hashTypeTryConversion, with hashTypeConvert: of the arguments of a call, one
\* string is too long.
HashTypeTryConversion(v) ==
  /\ NoIterator
  /\ IF encoding = "ziplist" /\ ~v.num /\ v.len > hash_max_ziplist_value
     THEN Become("ht", PairsAsDict(ptr)) ELSE SameObject
  /\ UNCHANGED ret

ValueToTheEnd(zl, f, v) ==
  LET fptr == FieldPtr(zl, f)
  IN IF fptr # NULL THEN ZiplistPush(ZiplistDelete(zl, ZiplistNext(zl, fptr)), v, ZIPLIST_TAIL)
     ELSE ZiplistPush(ZiplistPush(zl, f, ZIPLIST_TAIL), v, ZIPLIST_TAIL)

\* The new value takes the place of the old one, or field and value go to the end.
WithField(zl, f, v) ==
  LET fptr == FieldPtr(zl, f)
      vptr == ZiplistNext(zl, fptr)
  IN IF fptr # NULL THEN ZiplistInsert(ZiplistDelete(zl, vptr), vptr, v)
     ELSE ZiplistPush(ZiplistPush(zl, f, ZIPLIST_TAIL), v, ZIPLIST_TAIL)

\* hashTypeSet: 1 for an update, 0 for a new field.  A ziplist that has become
\* too long is converted.
HashTypeSet(f, v) ==
  LET zl == WithField(ptr, f, v)
  IN /\ NoIterator
     /\ IF encoding = "ht" THEN Become("ht", [ptr EXCEPT ![f] = v])
        ELSE IF ZiplistLen(zl) \div 2 > hash_max_ziplist_entries THEN Become("ht", PairsAsDict(zl))
        ELSE Become("ziplist", Recounted(zl))
     /\ ret' = <<"set", f, v,
          IF (IF encoding = "ht" THEN ptr[f] ELSE FieldPtr(ptr, f)) = NULL THEN 0 ELSE 1>>

\* hashTypeDelete
HashTypeDelete(f) ==
  /\ NoIterator
  /\ \/ /\ encoding = "ziplist"
        /\ LET fptr == FieldPtr(ptr, f)
           IN /\ Become("ziplist", IF fptr = NULL THEN ptr ELSE DeletedPair(ptr, fptr))
              /\ ret' = <<"delete", f, IF fptr = NULL THEN 0 ELSE 1>>
     \/ /\ encoding = "ht"
        /\ Become("ht", [ptr EXCEPT ![f] = NULL])
        /\ ret' = <<"delete", f, IF ptr[f] = NULL THEN 0 ELSE 1>>

\* hashTypeGetFromZiplist, hashTypeGetFromHashTable
Got(f) ==
  IF encoding = "ht" THEN ptr[f]
  ELSE IF FieldPtr(ptr, f) = NULL THEN NULL
  ELSE ZiplistGet(ptr, ZiplistNext(ptr, FieldPtr(ptr, f)))

\* hashTypeGetObject, and hashTypeExists, which asks whether it is NULL.
HashTypeGetObject(f) == ret' = <<"get", f, Got(f)>> /\ SameObject /\ UNCHANGED <<it, due>>

\* hashTypeLength: the number itself is half of what ziplistLen returns.
HashTypeLength ==
  /\ IF encoding = "ziplist" THEN Become("ziplist", Recounted(ptr)) ELSE SameObject
  /\ UNCHANGED <<it, due, ret>>

\* hashTypeInitIterator
HashTypeInitIterator ==
  Iterate([encoding |-> encoding, fptr |-> NULL, vptr |-> NULL, end |-> FALSE], HashPairs)

\* hashTypeNext, with hashTypeCurrentObject for the field and the value.
HashTypeNext ==
  LET fptr == IF it.fptr = NULL THEN ZiplistIndex(ptr, 0) ELSE ZiplistNext(ptr, it.vptr)
      vptr == ZiplistNext(ptr, fptr)
      ends == UNCHANGED due /\ it' = [it EXCEPT !.end = TRUE]
  IN /\ it # NULL /\ ~it.end
     /\ \/ /\ it.encoding = "ziplist"
           /\ IF fptr = NULL THEN ends
              ELSE /\ due' = DueInSet(<<ZiplistGet(ptr, fptr), ZiplistGet(ptr, vptr)>>)
                   /\ it' = [it EXCEPT !.fptr = fptr, !.vptr = vptr]
        \/ /\ it.encoding = "ht"
           /\ IF due = {} THEN ends ELSE \E x \in due : due' = DueInSet(x) /\ UNCHANGED it
     /\ SameObject /\ UNCHANGED ret

HashNext ==
  /\ type = "hash"
  /\ \/ \E v \in HashFields \cup HashValues : HashTypeTryConversion(v)
     \/ \E f \in HashFields : HashTypeDelete(f) \/ HashTypeGetObject(f) \/ \E v \in HashValues : HashTypeSet(f, v)
     \/ HashTypeLength
     \/ HashTypeInitIterator \/ HashTypeNext \/ ReleaseIterator
=============================================================================
