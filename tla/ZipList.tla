------------------------------ MODULE ZipList ------------------------------
(***************************************************************************)
(* The ziplist of xmzplist.c: entries packed in one block of bytes.        *)
(*                                                                         *)
(* A ziplist is a record of the three header fields and of its entries.    *)
(* Of an entry the model keeps the length of the previous entry, how many  *)
(* bytes that field takes (1 or 5), and the value; the other bytes follow  *)
(* from the value.  A pointer is its distance from zl in bytes.  A value   *)
(* is what string2ll makes of it: num says whether the string is an        *)
(* integer, n is that integer, or tells strings apart, and len is the      *)
(* length of a string that is not an integer.                              *)
(***************************************************************************)
EXTENDS Integers, Sequences, FiniteSets, SequencesExt

CONSTANTS
  UINT16_MAX,  \* where the counter of entries saturates
  NULL         \* the null pointer

ASSUME ZipListAssumption == UINT16_MAX \in Nat \ {0} /\ NULL \notin Int

ZIP_BIGLEN == 254

ZIPLIST_HEADER_SIZE == 10

ZIPLIST_HEAD == 0
ZIPLIST_TAIL == 1

\* What is kept of a string.
Value == [num : BOOLEAN, n : Int, len : Nat]

Integer(n) == [num |-> TRUE, n |-> n, len |-> 0]

String(n, len) == [num |-> FALSE, n |-> n, len |-> len]

\* A value whose bytes have been overwritten.
Damaged == String(-1, 0)

----------------------------------------------------------------------------
\* Sizes in bytes.

\* zipTryEncoding and zipIntSize: 0 to 12 are part of the encoding byte.
IntSize(n) ==
  IF 0 <= n /\ n <= 12 THEN 0
  ELSE IF -128 <= n /\ n <= 127 THEN 1
  ELSE IF -32768 <= n /\ n <= 32767 THEN 2
  ELSE IF -8388608 <= n /\ n <= 8388607 THEN 3
  ELSE IF -2147483647 - 1 <= n /\ n <= 2147483647 THEN 4
  ELSE 8

\* zipEncodeLength
LenSize(len) == IF len <= 63 THEN 1 ELSE IF len <= 16383 THEN 2 ELSE 5

\* The encoding byte or bytes and the contents.
Payload(v) == IF v.num THEN 1 + IntSize(v.n) ELSE LenSize(v.len) + v.len

\* zipPrevEncodeLength
PrevSize(len) == IF len < ZIP_BIGLEN THEN 1 ELSE 5

\* zipRawEntryLength
RawLength(e) == e.prevsize + Payload(e.val)

----------------------------------------------------------------------------
\* Pointers.

\* The offset of entry k; that of the entry after the last is ZIP_END.
Offset(zl, k) ==
  LET at[j \in 1 .. Len(zl.entries) + 1] ==
        IF j = 1 THEN ZIPLIST_HEADER_SIZE ELSE at[j - 1] + RawLength(zl.entries[j - 1])
  IN at[k]

\* The entry at an offset.
PosOf(zl, p) == CHOOSE k \in 1 .. Len(zl.entries) + 1 : Offset(zl, k) = p

IsEnd(zl, p) == p = zl.bytes - 1

EntryAt(zl, p) == zl.entries[PosOf(zl, p)]

\* ziplistNext
ZiplistNext(zl, p) ==
  IF IsEnd(zl, p) \/ IsEnd(zl, p + RawLength(EntryAt(zl, p))) THEN NULL
  ELSE p + RawLength(EntryAt(zl, p))

\* ziplistPrev: from ZIP_END to the tail, of which an empty list has none.
ZiplistPrev(zl, p) ==
  IF IsEnd(zl, p) THEN IF IsEnd(zl, zl.tail) THEN NULL ELSE zl.tail
  ELSE IF p = ZIPLIST_HEADER_SIZE THEN NULL
  ELSE p - EntryAt(zl, p).prevlen

\* ziplistIndex: forwards by the sizes of the entries, backwards by prevlen.
ZiplistIndex(zl, index) ==
  IF index >= 0
  THEN IF index < Len(zl.entries) THEN Offset(zl, index + 1) ELSE NULL
  ELSE LET back[i \in Nat] ==
             IF i = 0 THEN ZiplistPrev(zl, zl.bytes - 1)
             ELSE IF back[i - 1] = NULL \/ EntryAt(zl, back[i - 1]).prevlen = 0 THEN NULL
             ELSE back[i - 1] - EntryAt(zl, back[i - 1]).prevlen
       IN back[-index - 1]

\* ziplistGet: NULL for no entry.
ZiplistGet(zl, p) == IF p = NULL \/ IsEnd(zl, p) THEN NULL ELSE EntryAt(zl, p).val

\* ziplistCompare
ZiplistCompare(zl, p, v) == ~IsEnd(zl, p) /\ EntryAt(zl, p).val = v

\* ziplistFind: the first entry with the value, skipping entries in between.
ZiplistFind(zl, p, v, skip) ==
  LET first == PosOf(zl, p)
      hits == {k \in first .. Len(zl.entries) : (k - first) % (skip + 1) = 0 /\ zl.entries[k].val = v}
  IN IF hits = {} THEN NULL ELSE Offset(zl, Min(hits))

----------------------------------------------------------------------------
\* The number of entries.

\* ziplistLen counts when the counter is saturated,
ZiplistLen(zl) == IF zl.length < UINT16_MAX THEN zl.length ELSE Len(zl.entries)

\* and then stores what it has counted, if it fits.
Recounted(zl) == [zl EXCEPT !.length = IF ZiplistLen(zl) < UINT16_MAX THEN ZiplistLen(zl) ELSE @]

\* ZIPLIST_INCR_LENGTH
IncrLength(zl, incr) == IF zl.length < UINT16_MAX THEN zl.length + incr ELSE zl.length

----------------------------------------------------------------------------
\* Changes.

\* ziplistNew
ZiplistNew == [bytes |-> ZIPLIST_HEADER_SIZE + 1, tail |-> ZIPLIST_HEADER_SIZE, length |-> 0, entries |-> <<>>]

CascadeOnce(zl, k) ==
  IF k < Len(zl.entries)
  THEN [zl EXCEPT !.entries[k + 1].prevlen = RawLength(zl.entries[k])]
  ELSE zl

\* __ziplistCascadeUpdate, for a change of the size of entry k.  The loop goes
\* on while the next entry needs a wider prevlen field; where the field is wide
\* enough it stores the length, in 5 bytes if that is what the field has, and
\* stops.
Cascade(zl, k) ==
  LET n == Len(zl.entries)
      old(j) == zl.entries[j]
      grown[j \in k .. n] ==
        /\ j > k
        /\ j = k + 1 \/ grown[j - 1]
        /\ old(j).prevsize < PrevSize(RawLength(old(j - 1)) + (IF grown[j - 1] THEN 4 ELSE 0))
      wider == {j \in k .. n : grown[j]}
      rawlen(j) == RawLength(old(j)) + (IF j \in wider THEN 4 ELSE 0)
      reached(j) == j = k + 1 \/ j - 1 \in wider
  IN [zl EXCEPT
        !.bytes = @ + 4 * Cardinality(wider),
        !.tail = @ + 4 * Cardinality(wider \ {n}),
        !.entries = [j \in 1 .. n |->
          IF reached(j)
          THEN [old(j) EXCEPT !.prevlen = rawlen(j - 1), !.prevsize = IF j \in wider THEN 5 ELSE @]
          ELSE old(j)]]

\* The entry after an insertion or a deletion gets another previous entry; its
\* field takes the size that the new length needs.
Preceded(e, prevlen) == [e EXCEPT !.prevlen = prevlen, !.prevsize = PrevSize(prevlen)]

\* __ziplistInsert: v goes in front of the entry at p, or to the end.
\* ziplistResize cuts the block before memmove reads it: when the field of the
\* entry at p shrinks by more than the new entry takes, the last bytes of the
\* last entry are lost.
ZiplistInsert(zl, p, v) ==
  LET n == Len(zl.entries)
      k == PosOf(zl, p)
      prevlen == IF k <= n THEN zl.entries[k].prevlen
                 ELSE IF IsEnd(zl, zl.tail) THEN 0
                 ELSE RawLength(EntryAt(zl, zl.tail))
      e == [prevlen |-> prevlen, prevsize |-> PrevSize(prevlen), val |-> v]
      reqlen == RawLength(e)
      nextdiff == IF k <= n THEN PrevSize(reqlen) - zl.entries[k].prevsize ELSE 0
      lost == reqlen + nextdiff < 0
      moved == [j \in 1 .. n |->
        LET w == IF j = k THEN Preceded(zl.entries[j], reqlen) ELSE zl.entries[j]
        IN IF j = n /\ lost THEN [w EXCEPT !.val = Damaged] ELSE w]
      z == [bytes |-> zl.bytes + reqlen + nextdiff,
            tail |-> IF k > n THEN p ELSE zl.tail + reqlen + (IF k < n THEN nextdiff ELSE 0),
            length |-> IncrLength(zl, 1),
            entries |-> SubSeq(moved, 1, k - 1) \o <<e>> \o SubSeq(moved, k, n)]
  IN IF nextdiff # 0 THEN Cascade(z, k + 1) ELSE z

\* ziplistPush
ZiplistPush(zl, v, where) ==
  ZiplistInsert(zl, IF where = ZIPLIST_HEAD THEN ZIPLIST_HEADER_SIZE ELSE zl.bytes - 1, v)

\* __ziplistDelete: num entries from the one at p on, or as many as there are.
DeleteFrom(zl, p, num) ==
  LET n == Len(zl.entries)
      k == PosOf(zl, p)
      next == Min({k + num, n + 1})
      totlen == Offset(zl, next) - p
      first == zl.entries[k]
      nextdiff == IF next <= n THEN PrevSize(first.prevlen) - zl.entries[next].prevsize ELSE 0
      rest == [j \in 1 .. n |->
        IF j = next THEN Preceded(zl.entries[j], first.prevlen) ELSE zl.entries[j]]
      z == [bytes |-> zl.bytes - totlen + nextdiff,
            tail |-> IF next > n THEN p - first.prevlen
                     ELSE zl.tail - totlen + (IF next < n THEN nextdiff ELSE 0),
            length |-> IncrLength(zl, k - next),
            entries |-> SubSeq(rest, 1, k - 1) \o SubSeq(rest, next, n)]
  IN IF totlen = 0 THEN zl ELSE IF nextdiff # 0 THEN Cascade(z, k) ELSE z

\* ziplistDelete: the pointer of the caller stays where it is, and so points to
\* the entry after the deleted one, or to ZIP_END.
ZiplistDelete(zl, p) == DeleteFrom(zl, p, 1)

\* ziplistDeleteRange
ZiplistDeleteRange(zl, index, num) ==
  LET p == ZiplistIndex(zl, index) IN IF p = NULL THEN zl ELSE DeleteFrom(zl, p, num)

----------------------------------------------------------------------------
\* The representation.

Values(zl) == [k \in DOMAIN zl.entries |-> zl.entries[k].val]

\* The header agrees with the entries: the size of the block, the offset of the
\* last entry, and the counter as long as it is not saturated.
HeaderAgrees(zl) ==
  LET n == Len(zl.entries)
  IN /\ zl.bytes = Offset(zl, n + 1) + 1
     /\ zl.tail = Offset(zl, Max({n, 1}))
     /\ zl.length < UINT16_MAX => zl.length = n

\* Every entry holds the length of the one before it, in a field that is wide
\* enough, so that walks in both directions meet the same entries.
PrevlensAgree(zl) ==
  \A k \in DOMAIN zl.entries :
    /\ zl.entries[k].prevlen = IF k = 1 THEN 0 ELSE RawLength(zl.entries[k - 1])
    /\ zl.entries[k].prevsize \in {PrevSize(zl.entries[k].prevlen), 5}

WellFormedZiplist(zl) == HeaderAgrees(zl) /\ PrevlensAgree(zl)
=============================================================================
