------------------------------- MODULE IntSet -------------------------------
(***************************************************************************)
(* The intset of xmintset.c: a sorted array of integers in one block of    *)
(* memory, all in the smallest of three widths that holds them.            *)
(*                                                                         *)
(* Memory is made of cells that hold a digit to the base Radix (2^16 in    *)
(* the code), little end first; an integer of encoding e takes e cells, in *)
(* two's complement.  An upgrade reads the old width and writes the new    *)
(* one in the same cells.                                                  *)
(***************************************************************************)
EXTENDS Integers, Sequences

CONSTANTS
  Radix,    \* how many values a cell has
  Garbage   \* what a cell holds that has just been allocated

ASSUME IntSetAssumption == Radix \in Nat \ {0} /\ Radix % 2 = 0 /\ Garbage \in 0 .. Radix - 1

\* INTSET_ENC_INT16, INTSET_ENC_INT32, INTSET_ENC_INT64
ENC_INT16 == 1
ENC_INT32 == 2
ENC_INT64 == 4

\* Radix to the power j: what digit j counts for, and how many values j cells have.
Power(j) ==
  LET square == Radix * Radix IN <<1, Radix, square, square * Radix, square * square>>[j + 1]

IntMin(enc) == -(Power(enc) \div 2)
IntMax(enc) == (Power(enc) \div 2) - 1

\* _intsetValueEncoding
ValueEncoding(v) ==
  IF v < IntMin(ENC_INT32) \/ v > IntMax(ENC_INT32) THEN ENC_INT64
  ELSE IF v < IntMin(ENC_INT16) \/ v > IntMax(ENC_INT16) THEN ENC_INT32
  ELSE ENC_INT16

\* _intsetGetEncoded
GetEncoded(cells, pos, enc) ==
  LET digit(j) == IF j < enc THEN cells[pos * enc + j] * Power(j) ELSE 0
      unsigned == digit(0) + digit(1) + digit(2) + digit(3)
  IN IF unsigned > IntMax(enc) THEN unsigned - Power(enc) ELSE unsigned

\* _intsetGet
IsGet(is, pos) == GetEncoded(is.contents, pos, is.encoding)

\* _intsetSet
SetEncoded(cells, pos, enc, v) ==
  [c \in DOMAIN cells |->
    IF c \in pos * enc .. pos * enc + enc - 1 THEN (v \div Power(c - pos * enc)) % Radix ELSE cells[c]]

\* intsetNew
IntsetNew == [encoding |-> ENC_INT16, length |-> 0, contents |-> [c \in {} |-> 0]]

\* intsetResize: realloc keeps what fits.
Resized(cells, size) ==
  [c \in 0 .. size - 1 |-> IF c \in DOMAIN cells THEN cells[c] ELSE Garbage]

\* intsetSearch: whether v is there, and where it is or belongs.
Search(is, v) ==
  LET bisect[r \in (0 .. is.length) \X (-1 .. is.length - 1)] ==  \* r is <<min, max>>
        LET mid == (r[1] + r[2]) \div 2
            cur == IsGet(is, mid)
        IN IF r[2] < r[1] THEN [found |-> FALSE, pos |-> r[1]]
           ELSE IF v > cur THEN bisect[<<mid + 1, r[2]>>]
           ELSE IF v < cur THEN bisect[<<r[1], mid - 1>>]
           ELSE [found |-> TRUE, pos |-> mid]
  IN IF is.length = 0 THEN [found |-> FALSE, pos |-> 0]
     ELSE IF v > IsGet(is, is.length - 1) THEN [found |-> FALSE, pos |-> is.length]
     ELSE IF v < IsGet(is, 0) THEN [found |-> FALSE, pos |-> 0]
     ELSE bisect[<<0, is.length - 1>>]

UpgradeFromFront(is, v) ==
  LET enc == ValueEncoding(v)
      shift == IF v < 0 THEN 1 ELSE 0
      moved[l \in 0 .. is.length] ==
        IF l = 0 THEN Resized(is.contents, (is.length + 1) * enc)
        ELSE SetEncoded(moved[l - 1], l - 1 + shift, enc, GetEncoded(moved[l - 1], l - 1, is.encoding))
  IN [encoding |-> enc, length |-> is.length + 1,
      contents |-> SetEncoded(moved[is.length], IF v < 0 THEN 0 ELSE is.length, enc, v)]

\* intsetUpgradeAndAdd: the integers are moved from the last to the first, each
\* read in the old width and written in the new one; v goes to one of the ends.
UpgradeAndAdd(is, v) ==
  LET enc == ValueEncoding(v)
      shift == IF v < 0 THEN 1 ELSE 0
      moved[l \in 0 .. is.length] ==
        IF l = is.length THEN Resized(is.contents, (is.length + 1) * enc)
        ELSE SetEncoded(moved[l + 1], l + shift, enc, GetEncoded(moved[l + 1], l, is.encoding))
  IN [encoding |-> enc, length |-> is.length + 1,
      contents |-> SetEncoded(moved[0], IF v < 0 THEN 0 ELSE is.length, enc, v)]

\* intsetMoveTail: what is at from and after it goes to to.
MoveTail(cells, from, to, length, enc) ==
  [c \in DOMAIN cells |->
    IF c \in to * enc .. (to + length - from) * enc - 1 THEN cells[c + (from - to) * enc] ELSE cells[c]]

\* intsetAdd
IntsetAdd(is, v) ==
  LET at == Search(is, v)
      enc == is.encoding
      grown == Resized(is.contents, (is.length + 1) * enc)
      gap == IF at.pos < is.length THEN MoveTail(grown, at.pos, at.pos + 1, is.length, enc) ELSE grown
  IN IF ValueEncoding(v) > enc THEN [is |-> UpgradeAndAdd(is, v), success |-> 1]
     ELSE IF at.found THEN [is |-> is, success |-> 0]
     ELSE [is |-> [encoding |-> enc, length |-> is.length + 1, contents |-> SetEncoded(gap, at.pos, enc, v)],
           success |-> 1]

\* intsetFind
IntsetFind(is, v) == ValueEncoding(v) <= is.encoding /\ Search(is, v).found

\* intsetRemove: the encoding stays.
IntsetRemove(is, v) ==
  LET pos == Search(is, v).pos
      len == is.length
      closed == IF pos < len - 1 THEN MoveTail(is.contents, pos + 1, pos, len, is.encoding) ELSE is.contents
  IN IF IntsetFind(is, v)
     THEN [is |-> [encoding |-> is.encoding, length |-> len - 1,
                   contents |-> Resized(closed, (len - 1) * is.encoding)],
           success |-> 1]
     ELSE [is |-> is, success |-> 0]

\* intsetGet: NULL past the end.
IntsetGet(is, pos, null) == IF pos < is.length THEN IsGet(is, pos) ELSE null

\* The integers that the array holds.
Elements(is) == {IsGet(is, pos) : pos \in 0 .. is.length - 1}

----------------------------------------------------------------------------
\* The representation: the block has room for the integers, which are in
\* ascending order, all different.
WellFormedIntset(is) ==
  /\ DOMAIN is.contents = 0 .. is.length * is.encoding - 1
  /\ \A pos \in 1 .. is.length - 1 : IsGet(is, pos - 1) < IsGet(is, pos)
=============================================================================
