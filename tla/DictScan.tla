------------------------------ MODULE DictScan ------------------------------
(***************************************************************************)
(* dictScan of xmdict.c: a scan keeps nothing but a cursor between calls,  *)
(* and the dict may be changed, resized and rehashed from one call to the  *)
(* next.  Cursors are numbers of Width bits.  Masks are sizes minus one    *)
(* and sizes are powers of two, so that "v & mask" is v % size and         *)
(* "v | ~mask" puts ones above the bits of v % size.                       *)
(***************************************************************************)
EXTENDS Dict

CONSTANT
  Width  \* 8 * sizeof(unsigned long)

\* 1 << b
Power[b \in 0 .. Width] == IF b = 0 THEN 1 ELSE 2 * Power[b - 1]

Cursors == 0 .. Power[Width] - 1

ASSUME WidthAssumption ==
  /\ Width \in Nat
  /\ \A s \in TableSizes : \E b \in 0 .. Width : s = Power[b]

VARIABLE
  scan  \* the cursor, whether a scan is on, and as history: the entries that it
        \* has emitted, those it owes (in the dict ever since, not emitted yet),
        \* and whether all the while no rehash went to a smaller table

scanVars == <<d, canResize, iter, ret, scan>>

NoScan == [on |-> FALSE, cursor |-> 0, seen |-> {}, due |-> {}, grown |-> TRUE]

Shrinking(dd) == IsRehashing(dd) /\ dd.ht[1].size < dd.ht[0].size

Bit(v, b) == (v \div Power[b]) % 2

\* rev
Rev(v) == CHOOSE u \in Cursors : \A b \in 0 .. Width - 1 : Bit(u, b) = Bit(v, Width - 1 - b)

\* The table that the cursor counts in, and, during a rehash, the other one.
Small(dd) == IF IsRehashing(dd) /\ dd.ht[0].size > dd.ht[1].size THEN 1 ELSE 0

Large(dd) == 1 - Small(dd)

\* v after j turns of the inner loop: the bits above the small mask count up.
Widened(v, j, small) == ((((v \div small) + j) * small) % Power[Width]) + (v % small)

\* The turns of the do-while loop: it stops when the bits that only the large
\* mask has are zero.
IsTurns(n, v, small, large) ==
  LET above(j) == (Widened(v, j, small) % large) \div small
  IN above(n) = 0 /\ \A j \in 1 .. n - 1 : above(j) # 0

OneTurn(v, small, large) == 1

Turns(v, small, large) == CHOOSE n \in 1 .. large \div small : IsTurns(n, v, small, large)

\* The buckets that one call goes through, as <<table, index>>.
Visited(dd, v) ==
  LET small == dd.ht[Small(dd)].size
      large == dd.ht[Large(dd)].size
  IN {<<Small(dd), v % small>>}
       \cup (IF IsRehashing(dd)
             THEN {<<Large(dd), Widened(v, j, small) % large>> :
                     j \in 0 .. Turns(v, small, large) - 1}
             ELSE {})

\* An empty dict is left at once.
Emitted(dd, v) ==
  IF Size(dd) = 0 THEN {} ELSE UNION {dd.ht[p[1]].table[p[2]] : p \in Visited(dd, v)}

LowBitsOnly(v, small) == Rev((Rev(v % small) + 1) % Power[Width])

\* The cursor that is returned: one is added to the reversed bits.
NextCursor(v, small) == Rev((Rev((Power[Width] - small) + (v % small)) + 1) % Power[Width])

\* A scan starts with cursor 0 and is over when 0 is returned.
ScanCall ==
  LET v == IF scan.on THEN scan.cursor ELSE 0
      out == Emitted(d, v)
      next == NextCursor(v, d.ht[Small(d)].size)
      seen == IF scan.on THEN scan.seen ELSE {}
      due == IF scan.on THEN scan.due ELSE Stored(d)
      grown == (scan.on => scan.grown) /\ ~Shrinking(d)
  IN /\ scan' = IF Size(d) = 0 THEN NoScan
                ELSE IF next = 0 THEN [NoScan EXCEPT !.due = due \ out, !.grown = grown]
                ELSE [on |-> TRUE, cursor |-> next, seen |-> seen \cup out, due |-> due \ out,
                      grown |-> grown]
     /\ UNCHANGED vars

\* Another call changes the dict between two calls of dictScan.
Between ==
  scan' = [scan EXCEPT !.seen = @ \cap Stored(d'), !.due = @ \cap Stored(d'),
                       !.grown = @ /\ (scan.on => ~Shrinking(d'))]

ScanInit == Init /\ scan = NoScan

ScanNext == ScanCall \/ (Next /\ Between)

ScanSpec == ScanInit /\ [][ScanNext]_scanVars

----------------------------------------------------------------------------
\* Properties.

\* A scan that ends has emitted every entry that was in the dict all the while,
\* across insertions, deletions and the rehash to a larger table.
ScanComplete == ~scan.on /\ scan.grown => scan.due = {}

\* Whatever happens to the tables between the calls, the cursor goes up in the
\* order of its reversed bits, so that a scan ends after 2^Width calls at most.
ScanAdvances ==
  [][ScanCall => scan'.cursor = 0 \/ Rev(scan'.cursor) > Rev(scan.cursor)]_scanVars

\* While tables only grow no entry is emitted by two calls of a scan.
ScanNeverRepeats ==
  [][ScanCall /\ scan.on /\ scan'.grown => Emitted(d, scan.cursor) \cap scan.seen = {}]_scanVars

\* An entry that was in the dict all the while is always emitted, whatever the
\* tables do (the comment of dictScan in xmdict.h).
ScanReturnsAll == ~scan.on => scan.due = {}
=============================================================================
