------------------------------ MODULE ListType ------------------------------
(***************************************************************************)
(* List objects (xmt_list.c): a ziplist, or a linked list once the list or *)
(* one of its strings is too long.                                         *)
(*                                                                         *)
(* The pointer of an iterator is an offset in a ziplist and, in a linked   *)
(* list, the place of the node; NULL at either end.                        *)
(***************************************************************************)
EXTENDS Object

CONSTANTS
  ListValues,                \* the values that are put into lists
  list_max_ziplist_entries,  \* server.list_max_ziplist_entries
  list_max_ziplist_value,    \* server.list_max_ziplist_value
  MaxLength                  \* bound of the model: no list gets longer

ASSUME ListTypeAssumption == ListValues \subseteq Value

\* The values of the list, from head to tail.
ListItems == IF encoding = "ziplist" THEN Values(ptr) ELSE ptr

\* createZiplistObject
CreateZiplistObject == encoding = "ziplist" /\ ptr = ZiplistNew

\* listTypeTryConversion
TooLong(v) == ~v.num /\ v.len > list_max_ziplist_value

Pushed(items, v, where) == IF where = REDIS_HEAD THEN <<v>> \o items ELSE Append(items, v)

\* listTypePush, with the conversion by listTypeConvert before the push.
ListTypePush(v, where) ==
  LET full == ZiplistLen(ptr) >= list_max_ziplist_entries
  IN /\ NoIterator /\ Len(ListItems) < MaxLength
     /\ \/ encoding = "linkedlist" /\ Become("linkedlist", Pushed(ptr, v, where))
        \/ /\ encoding = "ziplist" /\ (TooLong(v) \/ full)
           /\ Become("linkedlist", Pushed(Values(ptr), v, where))
        \/ /\ encoding = "ziplist" /\ ~TooLong(v) /\ ~full
           /\ Become("ziplist", ZiplistPush(Recounted(ptr), v,
                IF where = REDIS_HEAD THEN ZIPLIST_HEAD ELSE ZIPLIST_TAIL))
     /\ ret' = <<"push", v, where>>

\* listDelNode leaves the tail pointer of a list at its last node when it frees
\* that node (AdList!DelNode).  A linked list is never created empty here, so an
\* empty one has lost its last node: clients do not read it from the tail.
TailUsable == encoding = "linkedlist" => ptr # <<>>

\* listTypePop
ListTypePop(where) ==
  LET p == ZiplistIndex(ptr, IF where = REDIS_HEAD THEN 0 ELSE -1)
      ln == IF where = REDIS_HEAD THEN 1 ELSE Len(ptr)
  IN /\ NoIterator
     /\ where = REDIS_TAIL => TailUsable
     /\ \/ /\ encoding = "ziplist"
           /\ Become("ziplist", IF p = NULL THEN ptr ELSE ZiplistDelete(ptr, p))
           /\ ret' = <<"pop", where, ZiplistGet(ptr, p)>>
        \/ /\ encoding = "linkedlist"
           /\ Become("linkedlist", IF ptr = <<>> THEN ptr ELSE RemoveAt(ptr, ln))
           /\ ret' = <<"pop", where, IF ptr = <<>> THEN NULL ELSE ptr[ln]>>

\* listTypeLength
ListTypeLength ==
  /\ IF encoding = "ziplist" THEN Become("ziplist", Recounted(ptr)) ELSE SameObject
  /\ ret' = <<"length", IF encoding = "ziplist" THEN ZiplistLen(ptr) ELSE Len(ptr)>>
  /\ UNCHANGED <<it, due>>

----------------------------------------------------------------------------
\* Iterators.

\* listIndex: the node at an index, NULL if there is none.  Negative indexes
\* count from the tail, which has to be usable.
NodeAt(items, index) ==
  LET i == IF index < 0 THEN Len(items) + 1 + index ELSE index + 1
  IN IF i \in DOMAIN items THEN i ELSE NULL

\* listTypeInitIterator: what is due are the items from the index on, in the
\* direction of the iterator.
ListTypeInitIterator(index, direction) ==
  LET i == NodeAt(ListItems, index)
      rest == IF i = NULL THEN <<>>
              ELSE IF direction = REDIS_TAIL THEN SubSeq(ListItems, i, Len(ListItems))
              ELSE Reverse(SubSeq(ListItems, 1, i))
  IN /\ index < 0 => TailUsable
     /\ Iterate([encoding |-> encoding, direction |-> direction, entry |-> NULL, end |-> FALSE,
                 pos |-> IF encoding = "ziplist" THEN ZiplistIndex(ptr, index) ELSE i], rest)

\* The element after or before the one at pos; the first node has no prev and
\* the last one no next.
Onwards(pos) ==
  LET on == IF it.direction = REDIS_TAIL THEN pos + 1 ELSE pos - 1
  IN IF it.encoding = "ziplist"
     THEN IF it.direction = REDIS_TAIL THEN ZiplistNext(ptr, pos) ELSE ZiplistPrev(ptr, pos)
     ELSE IF on \in DOMAIN ptr THEN on ELSE NULL

\* listTypeGet
EntryValue(entry) == IF it.encoding = "ziplist" THEN ZiplistGet(ptr, entry) ELSE ptr[entry]

\* listTypeNext, with listTypeGet.  The iteration is over when it returns 0, or
\* when it returns 1 and listTypeGet has no value.
ListTypeNext ==
  /\ it # NULL /\ ~it.end
  /\ IF it.pos = NULL \/ EntryValue(it.pos) = NULL
     THEN it' = [it EXCEPT !.end = TRUE, !.entry = NULL] /\ UNCHANGED due
     ELSE /\ it' = [it EXCEPT !.entry = it.pos, !.pos = Onwards(it.pos)]
          /\ due' = DueInSeq(EntryValue(it.pos))
  /\ SameObject /\ UNCHANGED ret

\* The place of an entry in the list.
PlaceOf(entry) == IF it.encoding = "ziplist" THEN PosOf(ptr, entry) ELSE entry

\* listTypeEqual
ListTypeEqual(v) ==
  /\ it # NULL /\ it.entry # NULL
  /\ ret' = <<"equal", PlaceOf(it.entry), v,
       IF it.encoding = "ziplist" THEN ZiplistCompare(ptr, it.entry, v) ELSE ptr[it.entry] = v>>
  /\ SameObject /\ UNCHANGED <<it, due>>

PosOnwards(zl, entry) == entry

\* Where an iterator over a ziplist goes on after a deletion: at the entry that
\* has come to the offset of the deleted one, or in front of it.
PosAfterDelete(zl, entry) == IF it.direction = REDIS_TAIL THEN entry ELSE ZiplistPrev(zl, entry)

\* listTypeDelete, of the entry that the iterator has returned last.
ListTypeDelete ==
  LET zl == ZiplistDelete(ptr, it.entry)
      next == Onwards(it.entry)
  IN /\ it # NULL /\ it.entry # NULL
     /\ \/ /\ it.encoding = "ziplist"
           /\ Become("ziplist", zl)
           /\ it' = [it EXCEPT !.entry = NULL, !.pos = PosAfterDelete(zl, it.entry)]
        \/ /\ it.encoding = "linkedlist"
           /\ Become("linkedlist", RemoveAt(ptr, it.entry))
           /\ it' = [it EXCEPT !.entry = NULL,
                !.pos = IF next = NULL \/ it.direction = REDIS_HEAD THEN next ELSE it.entry]
     /\ ret' = <<"delete", PlaceOf(it.entry)>>
     /\ UNCHANGED due

InsertedBefore(entry, v, where) == ZiplistInsert(ptr, entry, v)

\* ziplistInsert in front of the entry or of the one after it.
InsertedAt(entry, v, where) ==
  LET next == ZiplistNext(ptr, entry)
  IN IF where = REDIS_HEAD THEN ZiplistInsert(ptr, entry, v)
     ELSE IF next = NULL THEN ZiplistPush(ptr, v, ZIPLIST_TAIL)
     ELSE ZiplistInsert(ptr, next, v)

\* listTypeInsert.  In a linked list only after a node: listInsertNode before
\* one reads a pointer that is not set (AdList).  It leaves the pointer of the
\* iterator, so that the client must release it.
ListTypeInsert(v, where) ==
  /\ it # NULL /\ it.entry # NULL /\ Len(ListItems) < MaxLength
  /\ \/ encoding = "ziplist" /\ Become("ziplist", InsertedAt(it.entry, v, where))
     \/ /\ encoding = "linkedlist" /\ where = REDIS_TAIL
        /\ Become("linkedlist", SubSeq(ptr, 1, it.entry) \o <<v>> \o SubSeq(ptr, it.entry + 1, Len(ptr)))
  /\ it' = NULL /\ due' = NULL
  /\ ret' = <<"insert", PlaceOf(it.entry), v, where>>

ListNext ==
  /\ type = "list"
  /\ \/ \E v \in ListValues, where \in {REDIS_HEAD, REDIS_TAIL} : ListTypePush(v, where) \/ ListTypeInsert(v, where)
     \/ \E where \in {REDIS_HEAD, REDIS_TAIL} : ListTypePop(where)
     \/ ListTypeLength
     \/ \E index \in -2 .. 1, direction \in {REDIS_HEAD, REDIS_TAIL} : ListTypeInitIterator(index, direction)
     \/ ListTypeNext \/ ListTypeDelete \/ ReleaseIterator
     \/ \E v \in ListValues : ListTypeEqual(v)
=============================================================================
