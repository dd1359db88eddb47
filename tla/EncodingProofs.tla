--------------------------- MODULE EncodingProofs ---------------------------
(***************************************************************************)
(* Lemmas about the two compact encodings.                                 *)
(*                                                                         *)
(* The intsets of IntSet, for every radix: what has been written in a      *)
(* width is read in that width; the search finds a place; an insertion and *)
(* a removal change the integers by one.                                   *)
(*                                                                         *)
(* The ziplists of ZipList, whatever their lengths and values: what an     *)
(* insertion, a removal and the cascade that follows them leave, and what  *)
(* is left when the last entry is overwritten.                             *)
(***************************************************************************)
EXTENDS IntSet, ZipList, FiniteSetTheorems, WellFoundedInduction, TLAPS

Encodings == {ENC_INT16, ENC_INT32, ENC_INT64}

Range64 == IntMin(ENC_INT64) .. IntMax(ENC_INT64)

\* The cells that the integer at pos takes.
CellsOf(pos, enc) == pos * enc .. pos * enc + enc - 1

Cells(n) == [0 .. n - 1 -> 0 .. Radix - 1]

----------------------------------------------------------------------------
\* Digits.

LEMMA Powers ==
  /\ Radix \in Nat /\ Radix >= 2
  /\ Power(0) = 1 /\ Power(1) = Radix /\ Power(2) = Radix * Radix
  /\ Power(3) = Radix * Radix * Radix /\ Power(4) = (Radix * Radix) * (Radix * Radix)
BY IntSetAssumption DEF Power

LEMMA Halves ==
  \A enc \in Encodings :
    \E h \in Nat : h > 0 /\ Power(enc) = 2 * h /\ IntMin(enc) = -h /\ IntMax(enc) = h - 1
<1>1. PICK g \in Nat : Radix = 2 * g /\ g > 0
  <2>1. Radix = 2 * (Radix \div 2) /\ Radix \div 2 \in Nat /\ Radix \div 2 > 0
    BY IntSetAssumption
  <2>2. QED
    BY <2>1
<1>2. /\ Power(1) = 2 * g
      /\ Power(2) = 2 * (g * Radix)
      /\ Power(4) = 2 * (g * (Radix * (Radix * Radix)))
  <2>1. Radix * Radix = 2 * (g * Radix)
    BY <1>1, Powers
  <2>2. (Radix * Radix) * (Radix * Radix) = 2 * (g * (Radix * (Radix * Radix)))
    BY <1>1, Powers
  <2>3. QED
    BY <1>1, <2>1, <2>2, Powers
<1>3. g * Radix \in Nat /\ g * Radix > 0 /\ g * (Radix * (Radix * Radix)) \in Nat /\ g * (Radix * (Radix * Radix)) > 0
  <2>1. \A a, b \in Nat : a > 0 /\ b > 0 => a * b \in Nat /\ a * b > 0
    OBVIOUS
  <2>2. Radix > 0 /\ Radix \in Nat
    BY Powers
  <2>3. Radix * Radix \in Nat /\ Radix * Radix > 0
    BY <2>1, <2>2
  <2>4. Radix * (Radix * Radix) \in Nat /\ Radix * (Radix * Radix) > 0
    BY <2>1, <2>2, <2>3
  <2>5. QED
    BY <1>1, <2>1, <2>2, <2>4
<1>4. \A enc \in Encodings : \E h \in Nat : h > 0 /\ Power(enc) = 2 * h
  BY <1>1, <1>2, <1>3 DEF Encodings, ENC_INT16, ENC_INT32, ENC_INT64
<1>5. ASSUME NEW enc, NEW h \in Nat, Power(enc) = 2 * h
      PROVE  IntMin(enc) = -h /\ IntMax(enc) = h - 1
  BY <1>5 DEF IntMin, IntMax
<1>6. QED
  BY <1>4, <1>5

\* A wider encoding holds what a narrower one holds.
LEMMA Widening ==
  \A a, b \in Encodings :
    a <= b => /\ IntMin(b) <= IntMin(a) /\ IntMax(a) <= IntMax(b)
              /\ IntMin(a) \in Int /\ IntMax(b) \in Int /\ IntMin(b) \in Int /\ IntMax(a) \in Int
              /\ IntMin(a) < 0 /\ IntMax(a) >= 0
<1>1. /\ Power(1) <= Power(2) /\ Power(2) <= Power(4)
      /\ Power(1) \in Nat /\ Power(2) \in Nat /\ Power(4) \in Nat
  <2>1. Radix <= Radix * Radix /\ Radix * Radix \in Nat /\ Radix \in Nat
    BY Powers
  <2>2. Radix * Radix >= 1
    BY <2>1, Powers
  <2>3. \A p \in Nat : p >= 1 => p <= p * p /\ p * p \in Nat
    OBVIOUS
  <2>4. Radix * Radix <= (Radix * Radix) * (Radix * Radix) /\ (Radix * Radix) * (Radix * Radix) \in Nat
    BY <2>1, <2>2, <2>3
  <2>5. QED
    BY <2>1, <2>4, Powers
<1>2. \A a, b \in Encodings : a <= b => Power(a) <= Power(b) /\ Power(a) \in Nat /\ Power(b) \in Nat
  BY <1>1 DEF Encodings, ENC_INT16, ENC_INT32, ENC_INT64
<1>3. QED
  BY <1>2, Halves

LEMMA Digits ==
  ASSUME NEW r \in Nat, r > 0, NEW v \in Int
  PROVE  /\ v = (v % r) + ((v \div r) % r) * r + (v \div (r * r)) * (r * r)
         /\ v % r \in Int /\ (v \div r) % r \in Int /\ v \div r \in Int /\ v \div (r * r) \in Int
<1> DEFINE q == v \div r
           w == q \div r
<1>1. q \in Int /\ v % r \in 0 .. r - 1 /\ v = q * r + (v % r)
  OBVIOUS
<1>2. w \in Int /\ q % r \in 0 .. r - 1 /\ q = w * r + (q % r)
  BY <1>1
<1>3. w = v \div (r * r)
  OBVIOUS
<1> HIDE DEF q, w
<1>4. v = (v % r) + (q % r) * r + w * (r * r)
  <2>1. q * r = (w * r) * r + (q % r) * r
    BY <1>2
  <2>2. (w * r) * r = w * (r * r)
    BY <1>2
  <2>3. QED
    BY <1>1, <1>2, <2>1, <2>2
<1>5. QED
  BY <1>1, <1>2, <1>3, <1>4 DEF q

\* The digits of v add up to v, up to a multiple of the number of values.
LEMMA DigitsAddUp ==
  ASSUME NEW enc \in Encodings, NEW v \in Int
  PROVE  LET digit(j) == IF j < enc THEN ((v \div Power(j)) % Radix) * Power(j) ELSE 0
         IN v = digit(0) + digit(1) + digit(2) + digit(3) + (v \div Power(enc)) * Power(enc)
<1> DEFINE r == Radix
           P == Radix * Radix
           w == v \div P
<1>1. r \in Nat /\ r > 0 /\ P \in Nat /\ P > 0
  <2>1. \A a \in Nat : a > 0 => a * a \in Nat /\ a * a > 0
    OBVIOUS
  <2>2. QED
    BY <2>1, Powers
<1>0. v \div 1 = v
  OBVIOUS
<1>2. v = (v % r) + ((v \div r) % r) * r + w * P /\ w \in Int /\ v \div r \in Int
  <2>1. \A q \in Nat, u \in Int :
          q > 0 => /\ u = (u % q) + ((u \div q) % q) * q + (u \div (q * q)) * (q * q)
                   /\ u \div q \in Int /\ u \div (q * q) \in Int
    BY Digits
  <2>2. QED
    BY <1>1, <2>1
<1>3. /\ w = (w % r) + ((w \div r) % r) * r + (w \div (r * r)) * (r * r)
      /\ w % r \in Int /\ (w \div r) % r \in Int /\ w \div (r * r) \in Int
  <2>1. \A q \in Nat, u \in Int :
          q > 0 => /\ u = (u % q) + ((u \div q) % q) * q + (u \div (q * q)) * (q * q)
                   /\ u % q \in Int /\ (u \div q) % q \in Int /\ u \div (q * q) \in Int
    BY Digits
  <2> HIDE DEF w
  <2>2. QED
    BY <1>1, <1>2, <2>1
<1>4. CASE enc = ENC_INT16
  <2>1. enc = 1 /\ Power(0) = 1 /\ Power(1) = r
    BY <1>4, Powers DEF ENC_INT16
  <2>2. v = (v % r) + (v \div r) * r /\ v % r \in Int /\ (v \div r) * r \in Int
    BY <1>1
  <2>3. QED
    BY <1>0, <2>1, <2>2
<1>5. CASE enc = ENC_INT32
  <2>1. enc = 2
    BY <1>5 DEF ENC_INT32
  <2>2. (v % r) * 1 = v % r /\ (v % r) \in Int /\ ((v \div r) % r) * r \in Int /\ w * P \in Int
    BY <1>1, <1>2
  <2>3. QED
    BY <1>1, <1>2, <2>1, <2>2, Powers
<1>6. CASE enc = ENC_INT64
  <2>1. enc = 4
    BY <1>6 DEF ENC_INT64
  <2>2. w \div r = v \div (P * r) /\ w \div P = v \div (P * P)
    BY <1>1, <1>2
  <2>3. /\ (v % r) * 1 = v % r /\ (v % r) \in Int /\ ((v \div r) % r) * r \in Int /\ w * P \in Int
        /\ (w % r) * P \in Int /\ (((w \div r) % r) * (P * r)) \in Int /\ (w \div P) * (P * P) \in Int
    BY <1>1, <1>2, <1>3
  <2>4. w * P = (w % r) * P + ((w \div r) % r) * (P * r) + (w \div P) * (P * P)
    <3>1. \A a, b, c, q, p \in Int : (a + b * q + c * p) * p = a * p + b * (p * q) + c * (p * p)
      OBVIOUS
    <3>2. w = (w % r) + ((w \div r) % r) * r + (w \div P) * P
      BY <1>3
    <3> HIDE DEF w
    <3>3. w * P = ((w % r) + ((w \div r) % r) * r + (w \div P) * P) * P
      BY <3>2
    <3>4. w \div P \in Int
      BY <1>3
    <3> HIDE DEF P, r
    <3>5. QED
      BY <1>1, <1>3, <3>1, <3>3, <3>4
  <2>5. v = (v % r) + ((v \div r) % r) * r + ((w % r) * P + ((w \div r) % r) * (P * r) + (w \div P) * (P * P))
    BY <1>2, <2>4
  <2>6. Power(0) = 1 /\ Power(1) = r /\ Power(2) = P /\ Power(3) = P * r /\ Power(4) = P * P
    BY Powers
  <2>7. /\ (v \div Power(0)) % r = v % r /\ (v \div Power(1)) % r = (v \div r) % r
        /\ (v \div Power(2)) % r = w % r /\ (v \div Power(3)) % r = (w \div r) % r
        /\ v \div Power(4) = w \div P
    BY <1>0, <1>2, <2>2, <2>6
  <2> HIDE DEF w, P, r
  <2>8. v = ((v \div Power(0)) % r) * Power(0) + ((v \div Power(1)) % r) * Power(1)
            + ((v \div Power(2)) % r) * Power(2) + ((v \div Power(3)) % r) * Power(3)
            + (v \div Power(4)) * Power(4)
    BY <2>3, <2>5, <2>6, <2>7
  <2>9. QED
    BY <2>1, <2>8 DEF r
<1>7. QED
  BY <1>4, <1>5, <1>6 DEF Encodings

\* An integer reads the same from the same cells.
LEMMA SameCells ==
  ASSUME NEW cells, NEW pos, NEW other, NEW to, NEW enc,
         \A j \in 0 .. 3 : j < enc => cells[pos * enc + j] = other[to * enc + j]
  PROVE  GetEncoded(cells, pos, enc) = GetEncoded(other, to, enc)
<1> DEFINE digit(j) == IF j < enc THEN cells[pos * enc + j] * Power(j) ELSE 0
           digit2(j) == IF j < enc THEN other[to * enc + j] * Power(j) ELSE 0
<1>1. digit(0) = digit2(0) /\ digit(1) = digit2(1) /\ digit(2) = digit2(2) /\ digit(3) = digit2(3)
  OBVIOUS
<1>2. /\ GetEncoded(cells, pos, enc) =
           LET unsigned == digit(0) + digit(1) + digit(2) + digit(3)
           IN IF unsigned > IntMax(enc) THEN unsigned - Power(enc) ELSE unsigned
      /\ GetEncoded(other, to, enc) =
           LET unsigned == digit2(0) + digit2(1) + digit2(2) + digit2(3)
           IN IF unsigned > IntMax(enc) THEN unsigned - Power(enc) ELSE unsigned
  BY DEF GetEncoded
<1> HIDE DEF digit, digit2
<1>3. QED
  BY <1>1, <1>2

LEMMA EncodingsAre ==
  \A enc \in Encodings : enc \in Nat /\ enc > 0 /\ enc <= 4 /\ \A n \in Int : n * enc \in Int
BY DEF Encodings, ENC_INT16, ENC_INT32, ENC_INT64

\* What has been written is read.
LEMMA SetGet ==
  ASSUME NEW enc \in Encodings, NEW cells, NEW pos \in Nat, CellsOf(pos, enc) \subseteq DOMAIN cells,
         NEW v \in IntMin(enc) .. IntMax(enc)
  PROVE  GetEncoded(SetEncoded(cells, pos, enc, v), pos, enc) = v
<1> DEFINE after == SetEncoded(cells, pos, enc, v)
           base == pos * enc
           digit(j) == IF j < enc THEN after[base + j] * Power(j) ELSE 0
           digit2(j) == IF j < enc THEN ((v \div Power(j)) % Radix) * Power(j) ELSE 0
           sum == digit(0) + digit(1) + digit(2) + digit(3)
<1>1. base \in Int /\ enc \in Nat /\ enc > 0
  BY EncodingsAre
<1>2. PICK h \in Nat : h > 0 /\ Power(enc) = 2 * h /\ IntMin(enc) = -h /\ IntMax(enc) = h - 1
  BY Halves
<1>3. v \in Int /\ -h <= v /\ v < h
  BY <1>2
<1>4. \A j \in 0 .. 3 : j < enc => after[base + j] = (v \div Power(j)) % Radix
  <2>2. \A c \in DOMAIN cells : after[c] = IF c \in base .. base + enc - 1 THEN (v \div Power(c - base)) % Radix ELSE cells[c]
    BY DEF SetEncoded
  <2>3. \A c \in base .. base + enc - 1 : c \in DOMAIN cells
    BY DEF CellsOf
  <2> HIDE DEF after, base
  <2>4. ASSUME NEW j \in 0 .. 3, j < enc
        PROVE  after[base + j] = (v \div Power(j)) % Radix
    <3> DEFINE c == base + j
    <3> HIDE DEF c
    <3>1. c \in base .. base + enc - 1 /\ c - base = j
      BY <1>1, <2>4 DEF c
    <3>2. after[c] = (v \div Power(c - base)) % Radix
      BY <2>2, <2>3, <3>1
    <3>3. QED
      BY <3>1, <3>2 DEF c
  <2>5. QED
    BY <2>4
<1>5. digit(0) = digit2(0) /\ digit(1) = digit2(1) /\ digit(2) = digit2(2) /\ digit(3) = digit2(3)
  <2> HIDE DEF after, base
  <2>1. QED
    BY <1>4
<1>6. v = digit2(0) + digit2(1) + digit2(2) + digit2(3) + (v \div Power(enc)) * Power(enc)
  BY <1>3, DigitsAddUp
<1>7. digit2(0) \in Int /\ digit2(1) \in Int /\ digit2(2) \in Int /\ digit2(3) \in Int
  <2>1. \A j \in 0 .. 3 : Power(j) \in Nat /\ Power(j) > 0
    <3>1. \A a, b \in Nat : a > 0 /\ b > 0 => a * b \in Nat /\ a * b > 0
      OBVIOUS
    <3>2. Radix * Radix \in Nat /\ Radix * Radix > 0 /\ Radix * Radix * Radix \in Nat /\ Radix * Radix * Radix > 0
      BY <3>1, Powers
    <3>3. QED
      BY <3>2, Powers
  <2>2. \A p \in Nat : p > 0 => v \div p \in Int
    BY <1>3
  <2>3. \A q \in Int : q % Radix \in Int
    BY Powers
  <2>4. \A j \in 0 .. 3 : ((v \div Power(j)) % Radix) * Power(j) \in Int
    BY <2>1, <2>2, <2>3
  <2>5. \A j \in 0 .. 3 : digit2(j) \in Int
    BY <2>4
  <2> HIDE DEF digit2
  <2>6. QED
    BY <2>5
<1>8. GetEncoded(after, pos, enc) = IF sum > IntMax(enc) THEN sum - Power(enc) ELSE sum
  BY DEF GetEncoded
<1> HIDE DEF after, base, digit, digit2
<1>9. \A q \in Int : -h <= v /\ v < h /\ q = v \div (2 * h) => q = IF v < 0 THEN -1 ELSE 0
  BY <1>2, <1>3
<1>10. v \div Power(enc) = IF v < 0 THEN -1 ELSE 0
  BY <1>2, <1>3, <1>9
<1>11. sum = IF v < 0 THEN v + 2 * h ELSE v
  BY <1>2, <1>3, <1>5, <1>6, <1>7, <1>10
<1>12. QED
  BY <1>2, <1>3, <1>8, <1>11 DEF after

LEMMA DigitsBelow ==
  ASSUME NEW p \in Nat, p > 0, NEW q \in Nat, q > 0, NEW a \in 0 .. p - 1, NEW b \in 0 .. q - 1
  PROVE  a + b * p \in 0 .. p * q - 1
<1>1. b * p \in Nat /\ b * p <= (q - 1) * p
  BY \A x, y, z \in Nat : x <= y => x * z <= y * z /\ x * z \in Nat
<1>2. (q - 1) * p = p * q - p /\ p * q \in Nat
  OBVIOUS
<1>3. QED
  BY <1>1, <1>2

LEMMA GetInRange ==
  ASSUME NEW enc \in Encodings, NEW cells, NEW pos \in Nat,
         \A c \in CellsOf(pos, enc) : cells[c] \in 0 .. Radix - 1
  PROVE  GetEncoded(cells, pos, enc) \in IntMin(enc) .. IntMax(enc)
<1> DEFINE base == pos * enc
           d(j) == cells[base + j]
           digit(j) == IF j < enc THEN d(j) * Power(j) ELSE 0
           sum == digit(0) + digit(1) + digit(2) + digit(3)
           r == Radix
           P == Radix * Radix
<1>1. base \in Int /\ enc \in Nat /\ enc > 0
  BY EncodingsAre
<1>2. \A j \in 0 .. 3 : j < enc => d(j) \in 0 .. r - 1
  <2>1. \A j \in 0 .. 3 : j < enc => base + j \in CellsOf(pos, enc)
    BY <1>1 DEF CellsOf
  <2>2. QED
    BY <2>1
<1>3. r \in Nat /\ r > 0 /\ P \in Nat /\ P > 0
  <2>1. \A a \in Nat : a > 0 => a * a \in Nat /\ a * a > 0
    OBVIOUS
  <2>2. QED
    BY <2>1, Powers
<1>4. Power(0) = 1 /\ Power(1) = r /\ Power(2) = P /\ Power(3) = P * r /\ Power(4) = P * P
  BY Powers
<1>5. GetEncoded(cells, pos, enc) = IF sum > IntMax(enc) THEN sum - Power(enc) ELSE sum
  BY DEF GetEncoded
<1>6. sum \in 0 .. Power(enc) - 1
  <2>1. CASE enc = ENC_INT16
    <3>1. enc = 1
      BY <2>1 DEF ENC_INT16
    <3>2. d(0) \in 0 .. r - 1 /\ digit(0) = d(0) * 1 /\ digit(1) = 0 /\ digit(2) = 0 /\ digit(3) = 0
      BY <1>2, <1>4, <3>1
    <3> HIDE DEF d, digit
    <3>3. QED
      BY <1>3, <1>4, <3>1, <3>2
  <2>2. CASE enc = ENC_INT32
    <3>1. enc = 2
      BY <2>2 DEF ENC_INT32
    <3>2. /\ d(0) \in 0 .. r - 1 /\ d(1) \in 0 .. r - 1
          /\ digit(0) = d(0) * 1 /\ digit(1) = d(1) * r /\ digit(2) = 0 /\ digit(3) = 0
      BY <1>2, <1>4, <3>1
    <3>3. d(0) + d(1) * r \in 0 .. r * r - 1
      BY <1>3, <3>2, DigitsBelow
    <3> HIDE DEF d, digit
    <3>4. d(1) * r \in Int
      BY <1>3, <3>2
    <3>5. QED
      BY <1>3, <1>4, <3>1, <3>2, <3>3, <3>4
  <2>3. CASE enc = ENC_INT64
    <3>1. enc = 4
      BY <2>3 DEF ENC_INT64
    <3>2. /\ d(0) \in 0 .. r - 1 /\ d(1) \in 0 .. r - 1 /\ d(2) \in 0 .. r - 1 /\ d(3) \in 0 .. r - 1
          /\ digit(0) = d(0) * 1 /\ digit(1) = d(1) * r /\ digit(2) = d(2) * P /\ digit(3) = d(3) * (P * r)
      BY <1>2, <1>4, <3>1
    <3>3. d(0) + d(1) * r \in 0 .. r * r - 1 /\ d(2) + d(3) * r \in 0 .. r * r - 1
      BY <1>3, <3>2, DigitsBelow
    <3>4. (d(0) + d(1) * r) + (d(2) + d(3) * r) * P \in 0 .. P * P - 1
      BY <1>3, <3>3, DigitsBelow
    <3>5. (d(2) + d(3) * r) * P = d(2) * P + d(3) * (P * r)
      <4>1. \A a, b, q, p \in Int : (a + b * q) * p = a * p + b * (p * q)
        OBVIOUS
      <4> HIDE DEF d, P, r
      <4>2. QED
        BY <1>3, <3>2, <4>1
    <3>6. d(0) \in Int /\ d(1) * r \in Int /\ d(2) * P \in Int /\ d(3) * (P * r) \in Int
      BY <1>3, <3>2
    <3> HIDE DEF d, digit, P, r
    <3>7. sum = (d(0) + d(1) * r) + (d(2) * P + d(3) * (P * r))
      BY <3>2, <3>6
    <3>8. QED
      BY <1>4, <3>1, <3>4, <3>5, <3>7
  <2>4. QED
    BY <2>1, <2>2, <2>3 DEF Encodings
<1> HIDE DEF sum
<1>7. PICK h \in Nat : h > 0 /\ Power(enc) = 2 * h /\ IntMin(enc) = -h /\ IntMax(enc) = h - 1
  BY Halves
<1>8. QED
  BY <1>5, <1>6, <1>7

----------------------------------------------------------------------------
\* Memory.

\* Integers at different places have no cell in common.
LEMMA Apart ==
  \A enc \in Encodings : \A p, q \in Int :
    /\ p * enc \in Int /\ q * enc \in Int /\ (p + q) * enc = p * enc + q * enc /\ (p - q) * enc = p * enc - q * enc
    /\ p < q => p * enc + enc <= q * enc
    /\ p <= q => p * enc <= q * enc
BY DEF Encodings, ENC_INT16, ENC_INT32, ENC_INT64

LEMMA SetKeeps ==
  ASSUME NEW cells, NEW pos, NEW enc, NEW v, NEW q, NEW old \in Nat, q * old \in Int,
         \A c \in CellsOf(q, old) : c \in DOMAIN cells /\ c \notin CellsOf(pos, enc)
  PROVE  GetEncoded(SetEncoded(cells, pos, enc, v), q, old) = GetEncoded(cells, q, old)
<1>1. \A c \in CellsOf(q, old) : SetEncoded(cells, pos, enc, v)[c] = cells[c]
  BY DEF SetEncoded, CellsOf
<1>2. \A j \in 0 .. 3 : j < old => q * old + j \in CellsOf(q, old)
  BY DEF CellsOf
<1>3. QED
  BY <1>1, <1>2, SameCells

LEMMA SetCells ==
  ASSUME NEW n \in Int, NEW cells \in Cells(n), NEW pos, NEW enc \in Encodings, pos * enc \in Int, NEW v \in Int
  PROVE  SetEncoded(cells, pos, enc, v) \in Cells(n)
<1>1. \A j \in 0 .. 3 : Power(j) \in Nat /\ Power(j) > 0
  <2>1. \A a, b \in Nat : a > 0 /\ b > 0 => a * b \in Nat /\ a * b > 0
    OBVIOUS
  <2>2. Radix * Radix \in Nat /\ Radix * Radix > 0 /\ Radix * Radix * Radix \in Nat /\ Radix * Radix * Radix > 0
    BY <2>1, Powers
  <2>3. QED
    BY <2>2, Powers
<1>2. \A p \in Nat : p > 0 => v \div p \in Int
  OBVIOUS
<1>3. \A q \in Int : q % Radix \in 0 .. Radix - 1
  BY Powers
<1>4. \A c \in 0 .. n - 1 : c \in CellsOf(pos, enc) => (v \div Power(c - pos * enc)) % Radix \in 0 .. Radix - 1
  <2>1. ASSUME NEW c \in 0 .. n - 1, c \in CellsOf(pos, enc)
        PROVE  (v \div Power(c - pos * enc)) % Radix \in 0 .. Radix - 1
    <3>1. c - pos * enc \in 0 .. 3
      <4>1. enc \in Nat /\ enc <= 4
        BY EncodingsAre
      <4>2. c \in pos * enc .. pos * enc + enc - 1
        BY <2>1 DEF CellsOf
      <4>3. QED
        BY <4>1, <4>2
    <3>2. v \div Power(c - pos * enc) \in Int
      BY <1>1, <1>2, <3>1
    <3>3. QED
      BY <1>3, <3>2
  <2>2. QED
    BY <2>1
<1>5. QED
  BY <1>4 DEF Cells, SetEncoded, CellsOf

LEMMA ResizedIs ==
  ASSUME NEW n \in Nat, NEW cells \in Cells(n), NEW m \in Nat
  PROVE  /\ Resized(cells, m) \in Cells(m)
         /\ \A enc \in Encodings, p \in Nat :
              p * enc + enc <= n /\ p * enc + enc <= m => GetEncoded(Resized(cells, m), p, enc) = GetEncoded(cells, p, enc)
<1>1. Resized(cells, m) \in Cells(m)
  BY IntSetAssumption DEF Resized, Cells
<1>2. ASSUME NEW enc \in Encodings, NEW p \in Nat, p * enc + enc <= n, p * enc + enc <= m
      PROVE  GetEncoded(Resized(cells, m), p, enc) = GetEncoded(cells, p, enc)
  <2>1. \A c \in 0 .. m - 1 : c \in 0 .. n - 1 => Resized(cells, m)[c] = cells[c]
    BY DEF Resized, Cells
  <2>2. p * enc \in Nat /\ enc \in Nat
    BY DEF Encodings, ENC_INT16, ENC_INT32, ENC_INT64
  <2>3. \A j \in 0 .. 3 : j < enc => p * enc + j \in 0 .. m - 1 /\ p * enc + j \in 0 .. n - 1
    BY <1>2, <2>2
  <2>4. QED
    BY <2>1, <2>3, SameCells
<1>3. QED
  BY <1>1, <1>2

LEMMA MoveTailIs ==
  ASSUME NEW enc \in Encodings, NEW n \in Nat, NEW cells \in Cells(n * enc),
         NEW from \in Nat, NEW to \in Nat, NEW length \in Nat,
         from <= length, length <= n, to + length - from <= n
  PROVE  /\ MoveTail(cells, from, to, length, enc) \in Cells(n * enc)
         /\ \A q \in 0 .. n - 1 :
              GetEncoded(MoveTail(cells, from, to, length, enc), q, enc) =
                IF q \in to .. to + length - from - 1
                THEN GetEncoded(cells, q + from - to, enc) ELSE GetEncoded(cells, q, enc)
<1> DEFINE e == MoveTail(cells, from, to, length, enc)
           size == n * enc
           first == to * enc
           last == (to + length - from) * enc
           back == (from - to) * enc
<1>1. /\ size \in Int /\ first \in Nat /\ last \in Int /\ back \in Int /\ enc \in Nat /\ enc > 0 /\ enc <= 4
      /\ first + back = from * enc /\ last + back = length * enc /\ length * enc <= size /\ last <= size
      /\ from * enc >= 0
  <2>1. enc = 1 \/ enc = 2 \/ enc = 4
    BY DEF Encodings, ENC_INT16, ENC_INT32, ENC_INT64
  <2>2. QED
    BY <2>1
<1>2. /\ e = [c \in 0 .. size - 1 |-> IF c \in first .. last - 1 THEN cells[c + back] ELSE cells[c]]
      /\ \A c \in 0 .. size - 1 : cells[c] \in 0 .. Radix - 1
  BY DEF MoveTail, Cells
<1>3. \A c \in first .. last - 1 : c + back \in 0 .. size - 1
  <2> HIDE DEF first, last, back, size
  <2>1. QED
    BY <1>1
<1>4. e \in Cells(size)
  <2> HIDE DEF first, last, back, size, e
  <2>1. \A c \in 0 .. size - 1 : e[c] \in 0 .. Radix - 1
    BY <1>2, <1>3
  <2>2. QED
    BY <1>2, <2>1 DEF Cells
<1>5. ASSUME NEW q \in 0 .. n - 1
      PROVE  GetEncoded(e, q, enc) =
               IF q \in to .. to + length - from - 1
               THEN GetEncoded(cells, q + from - to, enc) ELSE GetEncoded(cells, q, enc)
  <2>1. /\ q * enc \in Int /\ q * enc >= 0 /\ q * enc + enc <= size
        /\ (q + from - to) * enc = q * enc + back
        /\ q < to => q * enc + enc <= first
        /\ q >= to => q * enc >= first
        /\ q < to + length - from => q * enc + enc <= last
        /\ q >= to + length - from => q * enc >= last
    <3>1. enc = 1 \/ enc = 2 \/ enc = 4
      BY DEF Encodings, ENC_INT16, ENC_INT32, ENC_INT64
    <3>2. QED
      BY <3>1
  <2> HIDE DEF first, last, back, size, e
  <2>2. CASE q \in to .. to + length - from - 1
    <3>1. \A j \in 0 .. 3 : j < enc => e[q * enc + j] = cells[(q + from - to) * enc + j]
      <4>1. \A j \in 0 .. 3 : j < enc => /\ q * enc + j \in 0 .. size - 1 /\ q * enc + j \in first .. last - 1
                                         /\ q * enc + j + back = (q + from - to) * enc + j
        BY <1>1, <2>1, <2>2
      <4>2. QED
        BY <1>2, <4>1
    <3>2. QED
      BY <2>2, <3>1, SameCells
  <2>3. CASE q \notin to .. to + length - from - 1
    <3>1. \A j \in 0 .. 3 : j < enc => e[q * enc + j] = cells[q * enc + j]
      <4>1. \A j \in 0 .. 3 : j < enc => q * enc + j \in 0 .. size - 1 /\ q * enc + j \notin first .. last - 1
        BY <1>1, <2>1, <2>3
      <4>2. QED
        BY <1>2, <4>1
    <3>2. QED
      BY <2>3, <3>1, SameCells
  <2>4. QED
    BY <2>2, <2>3
<1>6. QED
  BY <1>4, <1>5

----------------------------------------------------------------------------
\* The search.

\* The block has the cells for its integers, which ascend.
GoodIntset(is) ==
  /\ is.encoding \in Encodings
  /\ is.length \in Nat
  /\ is.contents \in Cells(is.length * is.encoding)
  /\ \A p, q \in 0 .. is.length - 1 : p < q => IsGet(is, p) < IsGet(is, q)

\* A non-empty set of naturals has a least element.
LEMMA LeastNatural ==
  ASSUME NEW S \in SUBSET Nat, S # {}
  PROVE  \E x \in S : \A y \in S : x <= y
<1>1. PICK x \in S : \A y \in S : ~(<<y, x>> \in OpToRel(<, Nat))
  BY NatLessThanWellFounded, WFMin
<1>2. \A y \in S : ~(y < x)
  BY <1>1 DEF OpToRel
<1>3. QED
  BY <1>2

LEMMA GoodCells ==
  ASSUME NEW is, GoodIntset(is)
  PROVE  \A p \in 0 .. is.length - 1 :
           /\ p \in Nat /\ CellsOf(p, is.encoding) \subseteq DOMAIN is.contents
           /\ p * is.encoding + is.encoding <= is.length * is.encoding
           /\ IsGet(is, p) \in IntMin(is.encoding) .. IntMax(is.encoding) /\ IsGet(is, p) \in Int
<1> DEFINE enc == is.encoding
           len == is.length
<1>1. enc \in Encodings /\ len \in Nat /\ is.contents \in Cells(len * enc)
  BY DEF GoodIntset
<1>2. SUFFICES ASSUME NEW p \in 0 .. len - 1
               PROVE  /\ p \in Nat /\ CellsOf(p, enc) \subseteq DOMAIN is.contents
                      /\ p * enc + enc <= len * enc
                      /\ IsGet(is, p) \in IntMin(enc) .. IntMax(enc) /\ IsGet(is, p) \in Int
  OBVIOUS
<1> HIDE DEF enc, len
<1>3. p \in Nat /\ p * enc \in Nat /\ len * enc \in Int /\ p * enc + enc <= len * enc /\ enc \in Nat
  <2>1. enc = 1 \/ enc = 2 \/ enc = 4
    BY <1>1 DEF Encodings, ENC_INT16, ENC_INT32, ENC_INT64
  <2>2. QED
    BY <1>1, <2>1
<1>4. CellsOf(p, enc) \subseteq 0 .. len * enc - 1
  BY <1>3 DEF CellsOf
<1>5. \A c \in CellsOf(p, enc) : is.contents[c] \in 0 .. Radix - 1
  BY <1>1, <1>4 DEF Cells
<1>6. GetEncoded(is.contents, p, enc) \in IntMin(enc) .. IntMax(enc)
  BY <1>1, <1>3, <1>5, GetInRange
<1>7. IntMin(enc) \in Int /\ IntMax(enc) \in Int
  <2>1. enc <= enc
    BY <1>3
  <2>2. QED
    BY <1>1, <2>1, Widening
<1>8. IsGet(is, p) = GetEncoded(is.contents, p, enc)
  BY DEF IsGet, enc
<1>9. QED
  BY <1>1, <1>3, <1>4, <1>6, <1>7, <1>8 DEF Cells

\* Ranges <<min, max>> of intsetSearch and its loop.
Spans(len) == (0 .. len) \X (-1 .. len - 1)

BisectStep(f, is, v, r) ==
  LET mid == (r[1] + r[2]) \div 2
      cur == IsGet(is, mid)
  IN IF r[2] < r[1] THEN [found |-> FALSE, pos |-> r[1]]
     ELSE IF v > cur THEN f[<<mid + 1, r[2]>>]
     ELSE IF v < cur THEN f[<<r[1], mid - 1>>]
     ELSE [found |-> TRUE, pos |-> mid]

\* f is the loop of intsetSearch.
IsBisect(f, is, v) == f = [r \in Spans(is.length) |-> BisectStep(f, is, v, r)]

\* The two halves of a range are shorter.
LEMMA Halved ==
  ASSUME NEW len \in Nat, NEW r \in Spans(len), ~(r[2] < r[1]), NEW mid, mid = (r[1] + r[2]) \div 2
  PROVE  /\ r = <<r[1], r[2]>> /\ r[1] \in 0 .. len /\ r[2] \in -1 .. len - 1
         /\ mid \in r[1] .. r[2] /\ mid \in 0 .. len - 1
         /\ <<mid + 1, r[2]>> \in Spans(len) /\ r[2] - (mid + 1) + 1 < r[2] - r[1] + 1
         /\ <<r[1], mid - 1>> \in Spans(len) /\ mid - 1 - r[1] + 1 < r[2] - r[1] + 1
<1>1. r = <<r[1], r[2]>> /\ r[1] \in 0 .. len /\ r[2] \in -1 .. len - 1
  BY DEF Spans
<1>2. mid \in Int /\ mid >= r[1] /\ mid <= r[2]
  BY <1>1
<1>3. QED
  BY <1>1, <1>2 DEF Spans

LEMMA BisectExists ==
  ASSUME NEW is, is.length \in Nat, NEW v
  PROVE  \E f : IsBisect(f, is, v)
<1> DEFINE len == is.length
           D == Spans(len)
           size(r) == r[2] - r[1] + 1 + len
           Fits(f, n) == f = [r \in D |-> f[r]] /\ \A r \in D : size(r) < n => f[r] = BisectStep(f, is, v, r)
           Wrong == {n \in Nat : \A f : ~Fits(f, n)}
<1>1. ASSUME NEW f, NEW g, NEW n \in Int, Fits(g, n - 1), f = [r \in D |-> BisectStep(g, is, v, r)]
      PROVE  Fits(f, n)
  <2>1. \A r \in D : size(r) < n - 1 => f[r] = g[r]
    BY <1>1
  <2>2. ASSUME NEW r \in D, size(r) < n
        PROVE  BisectStep(f, is, v, r) = BisectStep(g, is, v, r)
    <3> DEFINE mid == (r[1] + r[2]) \div 2
    <3>1. CASE r[2] < r[1]
      BY <3>1 DEF BisectStep
    <3>2. CASE ~(r[2] < r[1])
      <4>1. /\ <<mid + 1, r[2]>> \in D /\ size(<<mid + 1, r[2]>>) < size(r)
            /\ <<r[1], mid - 1>> \in D /\ size(<<r[1], mid - 1>>) < size(r)
            /\ size(r) \in Int /\ size(<<mid + 1, r[2]>>) \in Int /\ size(<<r[1], mid - 1>>) \in Int
        BY <3>2, Halved
      <4> HIDE DEF D, size
      <4>2. f[<<mid + 1, r[2]>>] = g[<<mid + 1, r[2]>>] /\ f[<<r[1], mid - 1>>] = g[<<r[1], mid - 1>>]
        BY <2>1, <2>2, <4>1
      <4>3. QED
        BY <4>2 DEF BisectStep
    <3>3. QED
      BY <3>1, <3>2
  <2>3. QED
    BY <1>1, <2>2
<1>2. \A r \in D : size(r) \in Nat /\ size(r) < 2 * len + 1
  BY DEF Spans
<1>3. \E f : Fits(f, 0)
  <2>1. Fits([r \in D |-> 0], 0)
    BY <1>2
  <2>2. QED
    BY <2>1
<1>4. Wrong = {}
  <2>1. SUFFICES ASSUME Wrong # {}
                 PROVE  FALSE
    OBVIOUS
  <2>2. PICK n \in Wrong : \A k \in Wrong : n <= k
    BY <2>1, LeastNatural
  <2>3. n \in Nat /\ (\A f : ~Fits(f, n)) /\ \A k \in Nat : k < n => \E f : Fits(f, k)
    BY <2>2
  <2> HIDE DEF Wrong, Fits
  <2>4. n # 0
    BY <1>3, <2>3
  <2>5. PICK g : Fits(g, n - 1)
    BY <2>3, <2>4
  <2>6. Fits([r \in D |-> BisectStep(g, is, v, r)], n)
    BY <1>1, <2>3, <2>5
  <2>7. QED
    BY <2>3, <2>6
<1>5. PICK f : Fits(f, 2 * len + 1)
  <2>1. 2 * len + 1 \in Nat
    OBVIOUS
  <2> HIDE DEF Fits
  <2>2. QED
    BY <1>4, <2>1
<1>6. f = [r \in D |-> f[r]] /\ \A r \in D : f[r] = BisectStep(f, is, v, r)
  BY <1>2, <1>5
<1>7. f = [r \in D |-> BisectStep(f, is, v, r)]
  BY <1>6
<1>8. QED
  BY <1>7 DEF IsBisect

\* Where v is, or where it belongs.
Located(is, v, at) ==
  /\ at.found \in BOOLEAN /\ at.pos \in 0 .. is.length
  /\ at.found => at.pos < is.length /\ IsGet(is, at.pos) = v
  /\ ~at.found => \A p \in 0 .. is.length - 1 : IF p < at.pos THEN IsGet(is, p) < v ELSE IsGet(is, p) > v

\* The loop keeps v between what is before the range and what is after it.
LEMMA BisectLocates ==
  ASSUME NEW is, GoodIntset(is), NEW v \in Int, NEW f, IsBisect(f, is, v)
  PROVE  \A r \in Spans(is.length) :
           /\ r[1] <= r[2] + 1
           /\ \A p \in 0 .. is.length - 1 : (p < r[1] => IsGet(is, p) < v) /\ (p > r[2] => IsGet(is, p) > v)
           => Located(is, v, f[r])
<1> DEFINE len == is.length
           D == Spans(len)
           get(p) == IsGet(is, p)
           size(r) == r[2] - r[1] + 1
           Around(r) == r[1] <= r[2] + 1 /\ \A p \in 0 .. len - 1 : (p < r[1] => get(p) < v) /\ (p > r[2] => get(p) > v)
           Wrong == {n \in Nat : \E r \in D : Around(r) /\ ~Located(is, v, f[r]) /\ n = size(r)}
<1>1. /\ len \in Nat
      /\ \A p \in 0 .. len - 1 : get(p) \in Int
      /\ \A p, q \in 0 .. len - 1 : p < q => get(p) < get(q)
  BY GoodCells DEF GoodIntset
<1>2. \A r \in D : f[r] = BisectStep(f, is, v, r)
  BY DEF IsBisect
<1>3. Wrong = {}
  <2>1. SUFFICES ASSUME Wrong # {}
                 PROVE  FALSE
    OBVIOUS
  <2>2. PICK n \in Wrong : \A k \in Wrong : n <= k
    BY <2>1, LeastNatural
  <2>3. PICK r \in D : Around(r) /\ ~Located(is, v, f[r]) /\ n = size(r)
    BY <2>2
  <2>4. \A q \in D : Around(q) /\ size(q) \in Nat /\ size(q) < size(r) => Located(is, v, f[q])
    <3>1. \A k \in Nat : k < n => k \notin Wrong
      BY <2>2
    <3>2. QED
      BY <2>3, <3>1
  <2> DEFINE mid == (r[1] + r[2]) \div 2
  <2>5. r[1] \in 0 .. len /\ r[2] \in -1 .. len - 1 /\ r[1] <= r[2] + 1
    BY <2>3 DEF Spans
  <2>6. \A p \in 0 .. len - 1 : (p < r[1] => get(p) < v) /\ (p > r[2] => get(p) > v)
    BY <2>3
  <2>7. CASE r[2] < r[1]
    <3>1. f[r] = [found |-> FALSE, pos |-> r[1]]
      BY <1>2, <2>7 DEF BisectStep
    <3>2. \A p \in 0 .. len - 1 : IF p < r[1] THEN get(p) < v ELSE get(p) > v
      BY <1>1, <2>5, <2>6, <2>7
    <3>3. Located(is, v, f[r])
      BY <2>5, <3>1, <3>2 DEF Located
    <3>4. QED
      BY <2>3, <3>3
  <2>8. CASE ~(r[2] < r[1])
    <3>1. /\ mid \in r[1] .. r[2] /\ mid \in 0 .. len - 1
          /\ <<mid + 1, r[2]>> \in D /\ <<r[1], mid - 1>> \in D
      BY <1>1, <2>8, Halved
    <3>2. f[r] = IF v > get(mid) THEN f[<<mid + 1, r[2]>>]
                 ELSE IF v < get(mid) THEN f[<<r[1], mid - 1>>]
                 ELSE [found |-> TRUE, pos |-> mid]
      BY <1>2, <2>8 DEF BisectStep
    <3> HIDE DEF mid
    <3>3. get(mid) \in Int
      BY <1>1, <3>1
    <3>4. CASE v > get(mid)
      <4> DEFINE q == <<mid + 1, r[2]>>
      <4>1. q[1] = mid + 1 /\ q[2] = r[2] /\ q \in D
        BY <3>1
      <4> HIDE DEF q, D, get
      <4>2. \A p \in 0 .. len - 1 : p < mid + 1 => get(p) < v
        BY <1>1, <3>1, <3>3, <3>4
      <4>3. Around(q) /\ size(q) \in Nat /\ size(q) < size(r)
        BY <2>5, <2>6, <3>1, <4>1, <4>2
      <4>4. Located(is, v, f[q])
        BY <2>4, <4>1, <4>3
      <4>5. QED
        BY <2>3, <3>2, <3>4, <4>4 DEF q
    <3>5. CASE v < get(mid)
      <4> DEFINE q == <<r[1], mid - 1>>
      <4>1. q[1] = r[1] /\ q[2] = mid - 1 /\ q \in D
        BY <3>1
      <4> HIDE DEF q, D, get
      <4>2. \A p \in 0 .. len - 1 : p > mid - 1 => get(p) > v
        BY <1>1, <3>1, <3>3, <3>5
      <4>3. Around(q) /\ size(q) \in Nat /\ size(q) < size(r)
        BY <2>5, <2>6, <3>1, <4>1, <4>2
      <4>4. Located(is, v, f[q])
        BY <2>4, <4>1, <4>3
      <4>5. ~(v > get(mid))
        BY <3>3, <3>5
      <4>6. QED
        BY <2>3, <3>2, <3>5, <4>4, <4>5 DEF q
    <3>6. CASE ~(v > get(mid)) /\ ~(v < get(mid))
      <4>1. get(mid) = v /\ f[r] = [found |-> TRUE, pos |-> mid] /\ mid < len
        BY <1>1, <3>1, <3>2, <3>3, <3>6
      <4>2. Located(is, v, f[r])
        BY <1>1, <3>1, <4>1 DEF Located
      <4>3. QED
        BY <2>3, <4>2
    <3>7. QED
      BY <3>4, <3>5, <3>6
  <2>9. QED
    BY <2>7, <2>8
<1>4. SUFFICES ASSUME NEW r \in D, Around(r), ~Located(is, v, f[r])
               PROVE  FALSE
  OBVIOUS
<1>5. size(r) \in Nat
  BY <1>1, <1>4 DEF Spans
<1>6. size(r) \in Wrong
  BY <1>4, <1>5
<1>7. QED
  BY <1>3, <1>6

LEMMA SearchIs ==
  ASSUME NEW is, GoodIntset(is), NEW v \in Int
  PROVE  Located(is, v, Search(is, v))
<1> DEFINE len == is.length
           at == Search(is, v)
           bisect == CHOOSE f : IsBisect(f, is, v)
<1>1. /\ len \in Nat
      /\ \A p \in 0 .. len - 1 : IsGet(is, p) \in Int
      /\ \A p, q \in 0 .. len - 1 : p < q => IsGet(is, p) < IsGet(is, q)
  BY GoodCells DEF GoodIntset
<1>2. at = IF len = 0 THEN [found |-> FALSE, pos |-> 0]
           ELSE IF v > IsGet(is, len - 1) THEN [found |-> FALSE, pos |-> len]
           ELSE IF v < IsGet(is, 0) THEN [found |-> FALSE, pos |-> 0]
           ELSE bisect[<<0, len - 1>>]
  BY DEF Search, IsBisect, BisectStep, Spans
<1>3. IsBisect(bisect, is, v)
  BY <1>1, BisectExists
<1> HIDE DEF bisect, at
<1>4. len > 0 => Located(is, v, bisect[<<0, len - 1>>])
  <2>1. SUFFICES ASSUME len > 0
                 PROVE  Located(is, v, bisect[<<0, len - 1>>])
    OBVIOUS
  <2> DEFINE r == <<0, len - 1>>
  <2>2. r \in Spans(len) /\ r[1] = 0 /\ r[2] = len - 1
    BY <1>1, <2>1 DEF Spans
  <2> HIDE DEF r
  <2>3. r[1] <= r[2] + 1 /\ \A p \in 0 .. len - 1 : ~(p < r[1]) /\ ~(p > r[2])
    BY <1>1, <2>1, <2>2
  <2>4. Located(is, v, bisect[r])
    BY <1>3, <2>2, <2>3, BisectLocates
  <2>5. QED
    BY <2>4 DEF r
<1>5. CASE len = 0
  <2>1. at = [found |-> FALSE, pos |-> 0]
    BY <1>2, <1>5
  <2>2. QED
    BY <1>1, <1>5, <2>1 DEF Located, at
<1>6. CASE len > 0 /\ v > IsGet(is, len - 1)
  <2>1. at = [found |-> FALSE, pos |-> len]
    BY <1>2, <1>6
  <2>2. \A p \in 0 .. len - 1 : p < len /\ IsGet(is, p) < v
    <3>1. len - 1 \in 0 .. len - 1
      BY <1>1, <1>6
    <3>2. \A p \in 0 .. len - 1 : p = len - 1 \/ p < len - 1
      BY <1>1
    <3>3. QED
      BY <1>1, <1>6, <3>1, <3>2
  <2>3. QED
    BY <1>1, <2>1, <2>2 DEF Located, at
<1>7. CASE len > 0 /\ ~(v > IsGet(is, len - 1)) /\ v < IsGet(is, 0)
  <2>1. at = [found |-> FALSE, pos |-> 0]
    BY <1>2, <1>7
  <2>2. \A p \in 0 .. len - 1 : ~(p < 0) /\ IsGet(is, p) > v
    <3>1. 0 \in 0 .. len - 1
      BY <1>1, <1>7
    <3>2. \A p \in 0 .. len - 1 : p = 0 \/ 0 < p
      BY <1>1
    <3>3. QED
      BY <1>1, <1>7, <3>1, <3>2
  <2>3. QED
    BY <1>1, <2>1, <2>2 DEF Located, at
<1>8. CASE len > 0 /\ ~(v > IsGet(is, len - 1)) /\ ~(v < IsGet(is, 0))
  BY <1>2, <1>4, <1>8 DEF at
<1>9. QED
  BY <1>1, <1>5, <1>6, <1>7, <1>8 DEF at

----------------------------------------------------------------------------
\* Insertion and removal.


LEMMA ValueEncodingIs ==
  ASSUME NEW v \in Range64
  PROVE  /\ v \in Int /\ ValueEncoding(v) \in Encodings
         /\ \A enc \in Encodings : v \in IntMin(enc) .. IntMax(enc) <=> ValueEncoding(v) <= enc
<1>1. \A a, b \in Encodings :
        a <= b => /\ IntMin(b) <= IntMin(a) /\ IntMax(a) <= IntMax(b)
                  /\ IntMin(a) \in Int /\ IntMax(b) \in Int /\ IntMin(b) \in Int /\ IntMax(a) \in Int
  BY Widening
<1>2. Encodings = {1, 2, 4} /\ ENC_INT16 = 1 /\ ENC_INT32 = 2 /\ ENC_INT64 = 4
  BY DEF Encodings, ENC_INT16, ENC_INT32, ENC_INT64
<1> DEFINE low(enc) == IntMin(enc)
           high(enc) == IntMax(enc)
<1>3. /\ low(1) \in Int /\ low(2) \in Int /\ low(4) \in Int /\ high(1) \in Int /\ high(2) \in Int /\ high(4) \in Int
      /\ low(4) <= low(2) /\ low(2) <= low(1) /\ high(1) <= high(2) /\ high(2) <= high(4)
  BY <1>1, <1>2
<1>4. v \in low(4) .. high(4)
  BY <1>2 DEF Range64
<1>5. ValueEncoding(v) = IF v < low(2) \/ v > high(2) THEN 4 ELSE IF v < low(1) \/ v > high(1) THEN 2 ELSE 1
  BY <1>2 DEF ValueEncoding
<1> HIDE DEF low, high
<1>6. /\ v \in Int /\ ValueEncoding(v) \in {1, 2, 4}
      /\ \A enc \in {1, 2, 4} : v \in low(enc) .. high(enc) <=> ValueEncoding(v) <= enc
  BY <1>3, <1>4, <1>5
<1>7. QED
  BY <1>2, <1>6 DEF low, high

\* r is the intset that has v at place pos and the integers of is around it.
WithInteger(is, r, pos, v) ==
  /\ r.encoding \in Encodings /\ r.length = is.length + 1 /\ r.contents \in Cells(r.length * r.encoding)
  /\ \A q \in 0 .. is.length :
       IsGet(r, q) = IF q < pos THEN IsGet(is, q) ELSE IF q = pos THEN v ELSE IsGet(is, q - 1)

\* r is the intset without the integer at place pos.
WithoutInteger(is, r, pos) ==
  /\ r.encoding \in Encodings /\ r.length = is.length - 1 /\ r.contents \in Cells(r.length * r.encoding)
  /\ \A q \in 0 .. is.length - 2 : IsGet(r, q) = IF q < pos THEN IsGet(is, q) ELSE IsGet(is, q + 1)

LEMMA InsertedIs ==
  ASSUME NEW is, GoodIntset(is), NEW r, NEW pos \in 0 .. is.length, NEW v \in Int, WithInteger(is, r, pos, v),
         \A p \in 0 .. is.length - 1 : IF p < pos THEN IsGet(is, p) < v ELSE IsGet(is, p) > v
  PROVE  GoodIntset(r) /\ Elements(r) = Elements(is) \cup {v}
<1> DEFINE len == is.length
           old(p) == IsGet(is, p)
           new(p) == IsGet(r, p)
<1>1. len \in Nat /\ \A p \in 0 .. len - 1 : old(p) \in Int
  BY GoodCells DEF GoodIntset
<1>2. \A p, q \in 0 .. len - 1 : p < q => old(p) < old(q)
  BY DEF GoodIntset
<1>3. r.length = len + 1 /\ \A q \in 0 .. len : new(q) = IF q < pos THEN old(q) ELSE IF q = pos THEN v ELSE old(q - 1)
  BY DEF WithInteger
<1>4. \A p \in 0 .. len - 1 : IF p < pos THEN old(p) < v ELSE old(p) > v
  OBVIOUS
<1>5. Elements(r) = {new(q) : q \in 0 .. len} /\ Elements(is) = {old(p) : p \in 0 .. len - 1}
  BY <1>1, <1>3 DEF Elements
<1> HIDE DEF len, old, new
<1>6. pos \in 0 .. len /\ pos \in Int
  BY <1>1 DEF len
<1>7. \A p, q \in 0 .. len : p < q => new(p) < new(q)
  <2>1. SUFFICES ASSUME NEW p \in 0 .. len, NEW q \in 0 .. len, p < q
                 PROVE  new(p) < new(q)
    OBVIOUS
  <2>2. CASE q < pos
    <3>1. new(p) = old(p) /\ new(q) = old(q) /\ p \in 0 .. len - 1 /\ q \in 0 .. len - 1
      BY <1>1, <1>3, <1>6, <2>1, <2>2
    <3>2. QED
      BY <1>2, <2>1, <3>1
  <2>3. CASE q = pos
    <3>1. new(p) = old(p) /\ new(q) = v /\ p \in 0 .. len - 1 /\ p < pos
      BY <1>1, <1>3, <1>6, <2>1, <2>3
    <3>2. QED
      BY <1>4, <3>1
  <2>4. CASE q > pos /\ p < pos
    <3>1. /\ new(p) = old(p) /\ new(q) = old(q - 1) /\ p \in 0 .. len - 1 /\ q - 1 \in 0 .. len - 1 /\ p < q - 1
      BY <1>1, <1>3, <1>6, <2>1, <2>4
    <3>2. QED
      BY <1>2, <3>1
  <2>5. CASE q > pos /\ p = pos
    <3>1. new(p) = v /\ new(q) = old(q - 1) /\ q - 1 \in 0 .. len - 1 /\ ~(q - 1 < pos)
      BY <1>1, <1>3, <1>6, <2>1, <2>5
    <3>2. old(q - 1) > v /\ old(q - 1) \in Int
      BY <1>1, <1>4, <3>1
    <3>3. QED
      BY <3>1, <3>2
  <2>6. CASE q > pos /\ p > pos
    <3>1. /\ new(p) = old(p - 1) /\ new(q) = old(q - 1) /\ p - 1 \in 0 .. len - 1 /\ q - 1 \in 0 .. len - 1
          /\ p - 1 < q - 1
      BY <1>1, <1>3, <1>6, <2>1, <2>6
    <3>2. QED
      BY <1>2, <3>1
  <2>7. QED
    BY <1>6, <2>1, <2>2, <2>3, <2>4, <2>5, <2>6
<1>8. GoodIntset(r)
  <2>1. 0 .. r.length - 1 = 0 .. len /\ r.length \in Nat
    BY <1>1, <1>3
  <2>2. r.encoding \in Encodings /\ r.contents \in Cells(r.length * r.encoding)
    BY DEF WithInteger
  <2>3. QED
    BY <1>7, <2>1, <2>2 DEF GoodIntset, new
<1>9. {new(q) : q \in 0 .. len} = {old(p) : p \in 0 .. len - 1} \cup {v}
  <2>1. \A q \in 0 .. len : new(q) = v \/ \E p \in 0 .. len - 1 : new(q) = old(p)
    <3>1. \A q \in 0 .. len : (q < pos => q \in 0 .. len - 1) /\ (q > pos => q - 1 \in 0 .. len - 1)
      BY <1>1, <1>6
    <3>2. QED
      BY <1>3, <1>6, <3>1
  <2>2. \E q \in 0 .. len : new(q) = v
    BY <1>3, <1>6
  <2>3. \A p \in 0 .. len - 1 : \E q \in 0 .. len : new(q) = old(p)
    <3>1. \A p \in 0 .. len - 1 : p < pos => p \in 0 .. len /\ new(p) = old(p)
      BY <1>1, <1>3
    <3>2. \A p \in 0 .. len - 1 : ~(p < pos) => p + 1 \in 0 .. len /\ new(p + 1) = old(p)
      <4>1. \A p \in 0 .. len - 1 : ~(p < pos) => p + 1 \in 0 .. len /\ ~(p + 1 < pos) /\ p + 1 # pos /\ p + 1 - 1 = p
        BY <1>1, <1>6
      <4>2. QED
        BY <1>3, <4>1
    <3>3. QED
      BY <3>1, <3>2
  <2>4. QED
    BY <2>1, <2>2, <2>3
<1>10. QED
  BY <1>5, <1>8, <1>9

LEMMA RemovedIs ==
  ASSUME NEW is, GoodIntset(is), NEW r, NEW pos \in 0 .. is.length - 1, WithoutInteger(is, r, pos)
  PROVE  GoodIntset(r) /\ Elements(r) = Elements(is) \ {IsGet(is, pos)}
<1> DEFINE len == is.length
           old(p) == IsGet(is, p)
           new(p) == IsGet(r, p)
<1>1. len \in Nat /\ \A p \in 0 .. len - 1 : old(p) \in Int
  BY GoodCells DEF GoodIntset
<1>2. \A p, q \in 0 .. len - 1 : p < q => old(p) < old(q)
  BY DEF GoodIntset
<1>3. r.length = len - 1 /\ \A q \in 0 .. len - 2 : new(q) = IF q < pos THEN old(q) ELSE old(q + 1)
  BY DEF WithoutInteger
<1>4. pos \in 0 .. len - 1
  OBVIOUS
<1>5. Elements(r) = {new(q) : q \in 0 .. len - 2} /\ Elements(is) = {old(p) : p \in 0 .. len - 1}
  <2>1. 0 .. r.length - 1 = 0 .. len - 2
    BY <1>1, <1>3
  <2>2. QED
    BY <2>1 DEF Elements
<1> HIDE DEF len, old, new
<1>6. \A p, q \in 0 .. len - 2 : p < q => new(p) < new(q)
  <2>1. SUFFICES ASSUME NEW p \in 0 .. len - 2, NEW q \in 0 .. len - 2, p < q
                 PROVE  new(p) < new(q)
    OBVIOUS
  <2> DEFINE k(i) == IF i < pos THEN i ELSE i + 1
  <2>2. new(p) = old(k(p)) /\ new(q) = old(k(q))
    BY <1>3
  <2>3. k(p) \in 0 .. len - 1 /\ k(q) \in 0 .. len - 1 /\ k(p) < k(q)
    BY <1>1, <1>4, <2>1
  <2>4. QED
    BY <1>2, <2>2, <2>3
<1>7. GoodIntset(r)
  <2>1. 0 .. r.length - 1 = 0 .. len - 2 /\ r.length \in Nat
    BY <1>1, <1>3, <1>4
  <2>2. r.encoding \in Encodings /\ r.contents \in Cells(r.length * r.encoding)
    BY DEF WithoutInteger
  <2>3. QED
    BY <1>6, <2>1, <2>2 DEF GoodIntset, new
<1>8. {new(q) : q \in 0 .. len - 2} = {old(p) : p \in 0 .. len - 1} \ {old(pos)}
  <2>1. \A q \in 0 .. len - 2 : \E p \in 0 .. len - 1 : p # pos /\ new(q) = old(p)
    <3>1. \A q \in 0 .. len - 2 : IF q < pos THEN q \in 0 .. len - 1 /\ q # pos ELSE q + 1 \in 0 .. len - 1 /\ q + 1 # pos
      BY <1>1, <1>4
    <3>2. QED
      BY <1>3, <3>1
  <2>2. \A p \in 0 .. len - 1 : p # pos => \E q \in 0 .. len - 2 : new(q) = old(p)
    <3>1. \A p \in 0 .. len - 1 : p < pos => p \in 0 .. len - 2
      BY <1>1, <1>4
    <3>2. \A p \in 0 .. len - 1 : p > pos => p - 1 \in 0 .. len - 2 /\ ~(p - 1 < pos) /\ p - 1 + 1 = p
      BY <1>1, <1>4
    <3>3. \A p \in 0 .. len - 1 : p > pos => new(p - 1) = old(p)
      BY <1>3, <3>2
    <3>4. \A p \in 0 .. len - 1 : p < pos => new(p) = old(p)
      BY <1>3, <3>1
    <3>5. \A p \in 0 .. len - 1 : p < pos \/ p = pos \/ p > pos
      BY <1>1, <1>4
    <3>6. QED
      BY <3>1, <3>2, <3>3, <3>4, <3>5
  <2>3. \A p \in 0 .. len - 1 : p # pos => old(p) # old(pos)
    BY <1>1, <1>2, <1>4
  <2>4. QED
    BY <2>1, <2>2, <2>3
<1>9. QED
  BY <1>5, <1>7, <1>8 DEF old

\* The loop of intsetUpgradeAndAdd.
MoveStep(f, is, v, l) ==
  IF l = is.length THEN Resized(is.contents, (is.length + 1) * ValueEncoding(v))
  ELSE SetEncoded(f[l + 1], l + (IF v < 0 THEN 1 ELSE 0), ValueEncoding(v), GetEncoded(f[l + 1], l, is.encoding))

IsMoved(f, is, v) == f = [l \in 0 .. is.length |-> MoveStep(f, is, v, l)]

LEMMA MovedExists ==
  ASSUME NEW is, is.length \in Nat, NEW v
  PROVE  \E f : IsMoved(f, is, v)
<1> DEFINE len == is.length
           D == 0 .. len
           Fits(f, n) == f = [l \in D |-> f[l]] /\ \A l \in D : len - l < n => f[l] = MoveStep(f, is, v, l)
           Wrong == {n \in Nat : \A f : ~Fits(f, n)}
<1>1. ASSUME NEW f, NEW g, NEW n \in Int, Fits(g, n - 1), f = [l \in D |-> MoveStep(g, is, v, l)]
      PROVE  Fits(f, n)
  <2>1. \A l \in D : len - l < n - 1 => f[l] = g[l]
    BY <1>1
  <2>2. ASSUME NEW l \in D, len - l < n
        PROVE  MoveStep(f, is, v, l) = MoveStep(g, is, v, l)
    <3>1. CASE l = len
      BY <3>1 DEF MoveStep
    <3>2. CASE l # len
      <4>1. l + 1 \in D /\ len - (l + 1) < n - 1
        BY <1>1, <2>2, <3>2
      <4> HIDE DEF D
      <4>2. f[l + 1] = g[l + 1]
        BY <2>1, <4>1
      <4>3. QED
        BY <4>2 DEF MoveStep
    <3>3. QED
      BY <3>1, <3>2
  <2>3. QED
    BY <1>1, <2>2
<1>2. \A l \in D : len - l \in Nat /\ len - l < len + 1
  OBVIOUS
<1>3. \E f : Fits(f, 0)
  <2>1. Fits([l \in D |-> 0], 0)
    BY <1>2
  <2>2. QED
    BY <2>1
<1>4. Wrong = {}
  <2>1. SUFFICES ASSUME Wrong # {}
                 PROVE  FALSE
    OBVIOUS
  <2>2. PICK n \in Wrong : \A k \in Wrong : n <= k
    BY <2>1, LeastNatural
  <2>3. n \in Nat /\ (\A f : ~Fits(f, n)) /\ \A k \in Nat : k < n => \E f : Fits(f, k)
    BY <2>2
  <2> HIDE DEF Wrong, Fits
  <2>4. n # 0
    BY <1>3, <2>3
  <2>5. PICK g : Fits(g, n - 1)
    BY <2>3, <2>4
  <2>6. Fits([l \in D |-> MoveStep(g, is, v, l)], n)
    BY <1>1, <2>3, <2>5
  <2>7. QED
    BY <2>3, <2>6
<1>5. PICK f : Fits(f, len + 1)
  <2>1. len + 1 \in Nat
    OBVIOUS
  <2> HIDE DEF Fits
  <2>2. QED
    BY <1>4, <2>1
<1>6. f = [l \in D |-> f[l]] /\ \A l \in D : f[l] = MoveStep(f, is, v, l)
  BY <1>2, <1>5
<1>7. f = [l \in D |-> MoveStep(f, is, v, l)]
  BY <1>6
<1>8. QED
  BY <1>7 DEF IsMoved

\* While the integers are moved, those from l on are in their new places in the
\* new width, and those before l have not been written over.
LEMMA MovedIs ==
  ASSUME NEW is, GoodIntset(is), NEW v \in Range64, is.encoding < ValueEncoding(v), NEW f, IsMoved(f, is, v)
  PROVE  \A l \in 0 .. is.length :
           /\ f[l] \in Cells((is.length + 1) * ValueEncoding(v))
           /\ \A p \in 0 .. is.length - 1 :
                IsGet(is, p) = IF p < l THEN GetEncoded(f[l], p, is.encoding)
                               ELSE GetEncoded(f[l], p + (IF v < 0 THEN 1 ELSE 0), ValueEncoding(v))
<1> DEFINE len == is.length
           old == is.encoding
           new == ValueEncoding(v)
           shift == IF v < 0 THEN 1 ELSE 0
           size == (len + 1) * new
           get(p) == IsGet(is, p)
           Right(l) == /\ f[l] \in Cells(size)
                       /\ \A p \in 0 .. len - 1 :
                            get(p) = IF p < l THEN GetEncoded(f[l], p, old) ELSE GetEncoded(f[l], p + shift, new)
           Wrong == {n \in Nat : \E l \in 0 .. len : n = len - l /\ ~Right(l)}
<1>1. /\ len \in Nat /\ old \in Encodings /\ new \in Encodings /\ old < new /\ v \in Int
      /\ is.contents \in Cells(len * old)
  BY ValueEncodingIs DEF GoodIntset
<1>2. \A l \in 0 .. len : f[l] = MoveStep(f, is, v, l)
  BY DEF IsMoved
<1>3. shift \in {0, 1} /\ shift \in Int
  BY <1>1
<1>4. \A p \in 0 .. len - 1 : get(p) = GetEncoded(is.contents, p, old) /\ get(p) \in IntMin(new) .. IntMax(new)
  <2>1. \A p \in 0 .. len - 1 : get(p) \in IntMin(old) .. IntMax(old)
    BY GoodCells
  <2>2. /\ IntMin(new) <= IntMin(old) /\ IntMax(old) <= IntMax(new) /\ IntMin(old) \in Int
        /\ IntMax(old) \in Int /\ IntMin(new) \in Int /\ IntMax(new) \in Int
    <3>1. old <= new
      BY <1>1, EncodingsAre
    <3>2. QED
      BY <1>1, <3>1, Widening
  <2> HIDE DEF old, new
  <2>3. \A p \in 0 .. len - 1 : get(p) \in IntMin(new) .. IntMax(new)
    BY <2>1, <2>2
  <2>4. QED
    BY <2>3 DEF IsGet, old
<1>5. /\ size \in Nat /\ size = len * new + new /\ old \in Nat /\ new \in Nat /\ old > 0 /\ new > 0
      /\ len * old \in Nat /\ len * new \in Nat /\ len * old <= len * new
      /\ \A p \in Int : p * old \in Int /\ p * new \in Int /\ (p + shift) * new = p * new + shift * new
      /\ shift * new \in {0, new}
  <2>1. old \in {1, 2, 4} /\ new \in {1, 2, 4}
    BY <1>1 DEF Encodings, ENC_INT16, ENC_INT32, ENC_INT64
  <2> HIDE DEF len, old, new, shift
  <2>2. QED
    BY <1>1, <1>3, <2>1 DEF len
<1>6. \A p, q \in Nat : p < q => p * old + old <= q * old /\ p * new + new <= q * new /\ p * old + old <= q * new /\ 0 <= p * old
  <2>1. old \in {1, 2, 4} /\ new \in {1, 2, 4}
    BY <1>1 DEF Encodings, ENC_INT16, ENC_INT32, ENC_INT64
  <2> HIDE DEF old, new
  <2>2. QED
    BY <1>1, <2>1
<1> HIDE DEF len, old, new, shift, size, get
<1>7. Right(len)
  <2>1. f[len] = Resized(is.contents, size)
    BY <1>1, <1>2 DEF MoveStep, len, new, size
  <2>2. \A p \in 0 .. len - 1 : p \in Nat /\ p < len /\ p * old + old <= len * old /\ p * old + old <= size
    <3>1. \A p \in 0 .. len - 1 : p \in Nat /\ p < len
      BY <1>1
    <3>2. \A p \in 0 .. len - 1 : p * old + old <= len * old
      BY <1>1, <1>6, <3>1
    <3>3. \A p \in Nat : p * old \in Int
      BY <1>5
    <3>4. QED
      BY <1>5, <3>1, <3>2, <3>3
  <2>3. f[len] \in Cells(size) /\ \A p \in 0 .. len - 1 : GetEncoded(f[len], p, old) = GetEncoded(is.contents, p, old)
    <3> DEFINE n == len * old
    <3>1. n \in Nat /\ is.contents \in Cells(n)
      BY <1>1, <1>5
    <3> HIDE DEF n
    <3>2. /\ Resized(is.contents, size) \in Cells(size)
          /\ \A enc \in Encodings, p \in Nat :
               p * enc + enc <= n /\ p * enc + enc <= size
                 => GetEncoded(Resized(is.contents, size), p, enc) = GetEncoded(is.contents, p, enc)
      <4> DEFINE m == size
      <4>1. m \in Nat
        BY <1>5
      <4> HIDE DEF m
      <4>2. /\ Resized(is.contents, m) \in Cells(m)
            /\ \A enc \in Encodings, p \in Nat :
                 p * enc + enc <= n /\ p * enc + enc <= m
                   => GetEncoded(Resized(is.contents, m), p, enc) = GetEncoded(is.contents, p, enc)
        BY <3>1, <4>1, ResizedIs
      <4>3. QED
        BY <4>2 DEF m
    <3>3. QED
      BY <1>1, <2>1, <2>2, <3>2 DEF n
  <2>4. QED
    BY <1>4, <2>2, <2>3
<1>8. ASSUME NEW l \in 0 .. len - 1, Right(l + 1)
      PROVE  Right(l)
  <2> DEFINE from == f[l + 1]
             to == l + shift
  <2>1. f[l] = SetEncoded(from, to, new, GetEncoded(from, l, old))
    <3>1. l \in 0 .. len /\ l # len
      BY <1>1
    <3>2. QED
      BY <1>2, <3>1 DEF MoveStep, len, new, old, shift
  <2>2. /\ from \in Cells(size)
        /\ \A p \in 0 .. len - 1 :
             get(p) = IF p < l + 1 THEN GetEncoded(from, p, old) ELSE GetEncoded(from, p + shift, new)
    BY <1>8
  <2> HIDE DEF from
  <2>3. GetEncoded(from, l, old) = get(l) /\ get(l) \in IntMin(new) .. IntMax(new) /\ get(l) \in Int
    <3>1. l < l + 1
      BY <1>1
    <3>2. IntMin(new) \in Int /\ IntMax(new) \in Int
      BY <1>1, <1>5, Widening
    <3>3. QED
      BY <1>4, <2>2, <3>1, <3>2
  <2>4. l \in Nat /\ to \in Nat /\ l < len /\ to <= len /\ l <= to /\ to * new \in Int /\ l * old \in Int
    BY <1>1, <1>3, <1>5
  <2>5. /\ to * new + new <= size /\ 0 <= to * new /\ l * new <= to * new /\ l * new \in Int
        /\ l * old <= l * new /\ to * new = l * new + shift * new
    <3>1. old \in {1, 2, 4} /\ new \in {1, 2, 4}
      BY <1>1 DEF Encodings, ENC_INT16, ENC_INT32, ENC_INT64
    <3>2. to * new <= len * new /\ 0 <= to * new /\ l * new <= to * new /\ l * old <= l * new
      BY <1>1, <2>4, <3>1
    <3>3. QED
      BY <1>5, <2>4, <3>2
  <2>0. DOMAIN from = 0 .. size - 1
    BY <2>2 DEF Cells
  <2>6. CellsOf(to, new) \subseteq DOMAIN from
    <3>1. \A c \in to * new .. to * new + new - 1 : c \in 0 .. size - 1
      BY <1>5, <2>4, <2>5
    <3>2. QED
      BY <2>0, <3>1 DEF CellsOf
  <2>7. f[l] \in Cells(size)
    BY <1>1, <1>5, <2>1, <2>2, <2>3, <2>4, SetCells
  <2>8. ASSUME NEW p \in 0 .. len - 1
        PROVE  get(p) = IF p < l THEN GetEncoded(f[l], p, old) ELSE GetEncoded(f[l], p + shift, new)
    <3>1. CASE p < l
      <4>1. p * old \in Int /\ p * old + old <= l * old /\ 0 <= p * old /\ p \in Nat
        BY <1>5, <1>6, <2>4, <3>1
      <4>2. \A c \in CellsOf(p, old) : c \in DOMAIN from /\ c \notin CellsOf(to, new)
        <5>1. \A c \in p * old .. p * old + old - 1 : c \in 0 .. size - 1 /\ c \notin to * new .. to * new + new - 1
          BY <1>5, <2>4, <2>5, <4>1
        <5>2. QED
          BY <2>0, <5>1 DEF CellsOf
      <4>3. GetEncoded(f[l], p, old) = GetEncoded(from, p, old)
        BY <1>5, <2>1, <4>1, <4>2, SetKeeps
      <4>4. p < l + 1
        BY <2>4, <3>1
      <4>5. QED
        BY <2>2, <3>1, <4>3, <4>4
    <3>2. CASE p = l
      <4>1. GetEncoded(f[l], to, new) = get(l)
        BY <1>1, <2>1, <2>3, <2>4, <2>6, SetGet
      <4>2. QED
        BY <2>4, <3>2, <4>1
    <3>3. CASE p > l
      <4> DEFINE q == p + shift
      <4>1. q \in Nat /\ to < q /\ q <= len /\ ~(p < l + 1) /\ ~(p < l)
        BY <1>1, <1>3, <2>4, <3>3
      <4> HIDE DEF q
      <4>2. q * new \in Int /\ to * new + new <= q * new /\ q * new <= len * new
        <5>1. new \in {1, 2, 4}
          BY <1>1 DEF Encodings, ENC_INT16, ENC_INT32, ENC_INT64
        <5>2. q * new <= len * new
          BY <1>1, <4>1, <5>1
        <5>3. QED
          BY <1>5, <1>6, <2>4, <4>1, <5>2
      <4>3. \A c \in CellsOf(q, new) : c \in DOMAIN from /\ c \notin CellsOf(to, new)
        <5>1. \A c \in q * new .. q * new + new - 1 : c \in 0 .. size - 1 /\ c \notin to * new .. to * new + new - 1
          BY <1>5, <2>4, <2>5, <4>2
        <5>2. QED
          BY <2>0, <5>1 DEF CellsOf
      <4>4. GetEncoded(f[l], q, new) = GetEncoded(from, q, new)
        BY <1>5, <2>1, <4>2, <4>3, SetKeeps
      <4>5. get(p) = GetEncoded(from, q, new)
        BY <2>2, <4>1 DEF q
      <4>6. QED
        BY <4>1, <4>4, <4>5 DEF q
    <3>4. QED
      BY <2>4, <3>1, <3>2, <3>3
  <2>9. QED
    BY <2>7, <2>8
<1>9. Wrong = {}
  <2>1. SUFFICES ASSUME Wrong # {}
                 PROVE  FALSE
    OBVIOUS
  <2>2. PICK n \in Wrong : \A k \in Wrong : n <= k
    BY <2>1, LeastNatural
  <2>3. PICK l \in 0 .. len : n = len - l /\ ~Right(l)
    BY <2>2
  <2>4. \A m \in 0 .. len : len - m < n => Right(m)
    <3>1. \A m \in 0 .. len : len - m \in Nat /\ (len - m < n => ~(n <= len - m))
      BY <1>1, <2>3
    <3> HIDE DEF Right
    <3>2. QED
      BY <2>2, <3>1
  <2> HIDE DEF Right, Wrong
  <2>5. l # len
    BY <1>7, <2>3
  <2>6. l \in 0 .. len - 1 /\ l + 1 \in 0 .. len /\ len - (l + 1) < n
    BY <1>1, <2>3, <2>5
  <2>7. QED
    BY <1>8, <2>3, <2>4, <2>6
<1>10. \A l \in 0 .. len : Right(l)
  <2>1. \A l \in 0 .. len : len - l \in Nat
    BY <1>1
  <2> HIDE DEF Right
  <2>2. QED
    BY <1>9, <2>1
<1>11. QED
  BY <1>10 DEF len, old, new, shift, size, get

\* v is beyond one of the ends, since the old width does not hold it.
LEMMA UpgradeIs ==
  ASSUME NEW is, GoodIntset(is), NEW v \in Range64, is.encoding < ValueEncoding(v)
  PROVE  GoodIntset(UpgradeAndAdd(is, v)) /\ Elements(UpgradeAndAdd(is, v)) = Elements(is) \cup {v}
<1> DEFINE len == is.length
           old == is.encoding
           new == ValueEncoding(v)
           size == (len + 1) * new
           pos == IF v < 0 THEN 0 ELSE len
           shift == IF v < 0 THEN 1 ELSE 0
           moved == CHOOSE f : IsMoved(f, is, v)
           cells == moved[0]
           r == UpgradeAndAdd(is, v)
<1>1. /\ len \in Nat /\ old \in Encodings /\ new \in Encodings /\ old < new /\ v \in Int
      /\ v \in IntMin(new) .. IntMax(new) /\ ~(v \in IntMin(old) .. IntMax(old))
  <2>1. len \in Nat /\ old \in Encodings
    BY DEF GoodIntset
  <2>2. /\ v \in Int /\ new \in Encodings
        /\ \A enc \in Encodings : v \in IntMin(enc) .. IntMax(enc) <=> new <= enc
    BY ValueEncodingIs
  <2>3. old \in Int /\ new \in Int
    BY <2>1, <2>2, EncodingsAre
  <2>4. ~(new <= old) /\ new <= new
    BY <2>3
  <2>5. QED
    BY <2>1, <2>2, <2>4
<1>2. IsMoved(moved, is, v)
  BY <1>1, MovedExists
<1>3. r = [encoding |-> new, length |-> len + 1, contents |-> SetEncoded(cells, pos, new, v)]
  BY DEF UpgradeAndAdd, IsMoved, MoveStep
<1> HIDE DEF moved
<1>4. /\ cells \in Cells(size)
      /\ \A p \in 0 .. len - 1 : IsGet(is, p) = GetEncoded(cells, p + shift, new)
  <2>1. 0 \in 0 .. len /\ \A p \in 0 .. len - 1 : ~(p < 0)
    BY <1>1
  <2>2. QED
    BY <1>2, <2>1, MovedIs
<1> HIDE DEF r
<1> HIDE DEF len, old, new, cells, size, pos, shift
<1>5. pos \in 0 .. len /\ pos \in Nat
  BY <1>1 DEF pos
<1>6. new \in {1, 2, 4}
  BY <1>1 DEF Encodings, ENC_INT16, ENC_INT32, ENC_INT64
<1>7. /\ size \in Nat /\ new \in Nat /\ pos * new \in Nat
      /\ \A p \in Nat : p <= len => p * new \in Nat /\ p * new + new <= size
      /\ \A p, q \in Nat : p < q => p * new + new <= q * new
  BY <1>1, <1>5, <1>6 DEF size
<1>8. \A p \in Nat : p <= len => CellsOf(p, new) \subseteq 0 .. size - 1
  BY <1>7 DEF CellsOf
<1>9. DOMAIN cells = 0 .. size - 1
  BY <1>4 DEF Cells
<1>10. SetEncoded(cells, pos, new, v) \in Cells(size)
  BY <1>1, <1>4, <1>7, SetCells
<1>11. GetEncoded(SetEncoded(cells, pos, new, v), pos, new) = v
  <2>1. CellsOf(pos, new) \subseteq DOMAIN cells
    BY <1>1, <1>5, <1>8, <1>9
  <2>2. QED
    BY <1>1, <1>5, <2>1, SetGet
<1>12. ASSUME NEW q \in 0 .. len, q # pos
       PROVE  GetEncoded(SetEncoded(cells, pos, new, v), q, new) = GetEncoded(cells, q, new)
  <2>1. q \in Nat /\ q <= len /\ q * new \in Nat /\ (q * new + new <= pos * new \/ pos * new + new <= q * new)
    BY <1>1, <1>5, <1>7, <1>12
  <2>2. \A c \in CellsOf(q, new) : c \notin CellsOf(pos, new)
    BY <1>7, <2>1 DEF CellsOf
  <2>3. \A c \in CellsOf(q, new) : c \in DOMAIN cells /\ c \notin CellsOf(pos, new)
    BY <1>8, <1>9, <2>1, <2>2
  <2>4. QED
    BY <1>7, <2>1, <2>3, SetKeeps
<1>13. r.encoding = new /\ r.length = len + 1 /\ r.contents = SetEncoded(cells, pos, new, v)
  BY <1>3
<1>14. WithInteger(is, r, pos, v)
  <2>1. r.contents \in Cells(r.length * r.encoding)
    BY <1>10, <1>13 DEF size
  <2>2. \A q \in 0 .. len : IsGet(r, q) = GetEncoded(SetEncoded(cells, pos, new, v), q, new)
    BY <1>13 DEF IsGet
  <2>3. ASSUME NEW q \in 0 .. len
        PROVE  IsGet(r, q) = IF q < pos THEN IsGet(is, q) ELSE IF q = pos THEN v ELSE IsGet(is, q - 1)
    <3>1. CASE q = pos
      BY <1>5, <1>11, <2>2, <3>1
    <3>2. CASE q # pos
      <4> DEFINE p == IF v < 0 THEN q - 1 ELSE q
      <4>1. p \in 0 .. len - 1 /\ p + shift = q /\ p = IF q < pos THEN q ELSE q - 1
        BY <1>1, <3>2 DEF pos, shift
      <4>2. IsGet(is, p) = GetEncoded(cells, q, new)
        BY <1>4, <4>1
      <4> HIDE DEF p
      <4>3. IsGet(r, q) = IsGet(is, p)
        BY <1>12, <2>2, <3>2, <4>2
      <4>4. QED
        BY <3>2, <4>1, <4>3
    <3>3. QED
      BY <3>1, <3>2
  <2>4. QED
    BY <1>1, <1>13, <2>1, <2>3 DEF WithInteger, len
<1>15. \A p \in 0 .. len - 1 : IF p < pos THEN IsGet(is, p) < v ELSE IsGet(is, p) > v
  <2>1. /\ IntMin(old) \in Int /\ IntMax(old) \in Int /\ IntMin(old) < 0 /\ IntMax(old) >= 0
    <3>1. old <= old
      BY <1>1, EncodingsAre
    <3>2. QED
      BY <1>1, <3>1, Widening
  <2>2. \A p \in 0 .. len - 1 : IsGet(is, p) \in IntMin(old) .. IntMax(old)
    BY GoodCells DEF len, old
  <2>3. IF v < 0 THEN v < IntMin(old) ELSE v > IntMax(old)
    BY <1>1, <2>1
  <2>4. QED
    BY <1>1, <2>1, <2>2, <2>3 DEF pos
<1>16. GoodIntset(r) /\ Elements(r) = Elements(is) \cup {v}
  BY <1>1, <1>5, <1>14, <1>15, InsertedIs DEF len
<1>17. QED
  BY <1>16 DEF r

\* intsetAdd adds v, in the old width or in a wider one.
LEMMA AddIs ==
  ASSUME NEW is, GoodIntset(is), NEW v \in Range64
  PROVE  /\ GoodIntset(IntsetAdd(is, v).is)
         /\ Elements(IntsetAdd(is, v).is) = Elements(is) \cup {v}
         /\ IntsetAdd(is, v).success = IF v \in Elements(is) THEN 0 ELSE 1
<1> DEFINE len == is.length
           enc == is.encoding
           n == len + 1
           size == n * enc
           at == Search(is, v)
           pos == at.pos
           grown == Resized(is.contents, size)
           gap == IF pos < len THEN MoveTail(grown, pos, pos + 1, len, enc) ELSE grown
           r == [encoding |-> enc, length |-> n, contents |-> SetEncoded(gap, pos, enc, v)]
<1>1. /\ len \in Nat /\ enc \in Encodings /\ v \in Int /\ ValueEncoding(v) \in Encodings
      /\ is.contents \in Cells(len * enc)
      /\ v \in IntMin(enc) .. IntMax(enc) <=> ValueEncoding(v) <= enc
  BY ValueEncodingIs DEF GoodIntset
<1>2. ValueEncoding(v) \in Int /\ enc \in Int
  BY <1>1, EncodingsAre
<1>3. Located(is, v, at)
  BY <1>1, SearchIs
<1>4. at.found <=> v \in Elements(is)
  <2>1. \A p \in 0 .. len - 1 : IsGet(is, p) \in Int
    BY GoodCells
  <2>2. at.found => at.pos \in 0 .. len - 1 /\ IsGet(is, at.pos) = v
    BY <1>1, <1>3 DEF Located
  <2>3. ~at.found => \A p \in 0 .. len - 1 : IsGet(is, p) # v
    <3>1. ~at.found => \A p \in 0 .. len - 1 : IF p < at.pos THEN IsGet(is, p) < v ELSE IsGet(is, p) > v
      BY <1>3 DEF Located
    <3>2. QED
      BY <1>1, <2>1, <3>1
  <2>4. at.found \in BOOLEAN
    BY <1>3 DEF Located
  <2>5. QED
    BY <2>2, <2>3, <2>4 DEF Elements
<1>5. IntsetAdd(is, v) =
        IF ValueEncoding(v) > enc THEN [is |-> UpgradeAndAdd(is, v), success |-> 1]
        ELSE IF at.found THEN [is |-> is, success |-> 0] ELSE [is |-> r, success |-> 1]
  BY DEF IntsetAdd
<1> HIDE DEF at, r
<1>6. CASE ValueEncoding(v) > enc
  <2>1. v \notin Elements(is)
    <3>1. \A p \in 0 .. len - 1 : IsGet(is, p) \in IntMin(enc) .. IntMax(enc)
      BY GoodCells
    <3>2. ~(ValueEncoding(v) <= enc)
      BY <1>2, <1>6
    <3>3. QED
      BY <1>1, <3>1, <3>2 DEF Elements
  <2>2. enc < ValueEncoding(v)
    BY <1>2, <1>6
  <2>3. IntsetAdd(is, v).is = UpgradeAndAdd(is, v) /\ IntsetAdd(is, v).success = 1
    BY <1>5, <1>6
  <2>4. QED
    BY <2>1, <2>2, <2>3, UpgradeIs
<1>7. CASE ~(ValueEncoding(v) > enc) /\ at.found
  BY <1>4, <1>5, <1>7
<1>8. CASE ~(ValueEncoding(v) > enc) /\ ~at.found
  <2>1. v \in IntMin(enc) .. IntMax(enc)
    BY <1>1, <1>2, <1>8
  <2>2. pos \in 0 .. len /\ pos \in Nat
    BY <1>1, <1>3 DEF Located
  <2>3. /\ enc \in {1, 2, 4}
        /\ \A p \in 0 .. len - 1 : IF p < pos THEN IsGet(is, p) < v ELSE IsGet(is, p) > v
    BY <1>1, <1>3, <1>8 DEF Located, Encodings, ENC_INT16, ENC_INT32, ENC_INT64
  <2>4. r.encoding = enc /\ r.length = n /\ r.contents = SetEncoded(gap, pos, enc, v)
    BY DEF r
  <2>5. \A p \in 0 .. len - 1 : IsGet(is, p) = GetEncoded(is.contents, p, enc)
    BY DEF IsGet
  <2> HIDE DEF len, enc, n, size, pos, grown, gap
  <2>6. /\ n \in Nat /\ n = len + 1 /\ size \in Nat /\ len * enc \in Nat /\ enc \in Nat /\ pos * enc \in Nat
        /\ \A p \in Nat : p <= len => p * enc \in Nat /\ p * enc + enc <= size
        /\ \A p \in Nat : p < len => p * enc + enc <= len * enc
        /\ \A p, q \in Nat : p < q => p * enc + enc <= q * enc
    BY <1>1, <2>2, <2>3 DEF n, size
  <2>7. grown \in Cells(size) /\ \A p \in 0 .. len - 1 : GetEncoded(grown, p, enc) = IsGet(is, p)
    <3> DEFINE k == len * enc
               m == size
    <3>1. k \in Nat /\ is.contents \in Cells(k) /\ m \in Nat
      BY <1>1, <2>6
    <3> HIDE DEF k, m
    <3>2. /\ Resized(is.contents, m) \in Cells(m)
          /\ \A e \in Encodings, p \in Nat :
               p * e + e <= k /\ p * e + e <= m
                 => GetEncoded(Resized(is.contents, m), p, e) = GetEncoded(is.contents, p, e)
      BY <3>1, ResizedIs
    <3>3. \A p \in 0 .. len - 1 : p \in Nat /\ p * enc + enc <= k /\ p * enc + enc <= m
      BY <1>1, <2>6 DEF k, m
    <3>4. QED
      BY <1>1, <2>5, <3>2, <3>3 DEF grown, m
  <2>8. /\ gap \in Cells(size)
        /\ \A q \in 0 .. len : q # pos =>
             GetEncoded(gap, q, enc) = IF q < pos THEN IsGet(is, q) ELSE IsGet(is, q - 1)
    <3>1. CASE pos < len
      <4>1. /\ grown \in Cells(n * enc) /\ pos + 1 \in Nat /\ pos <= len /\ len <= n /\ pos + 1 + len - pos <= n
        BY <1>1, <2>2, <2>6, <2>7, <3>1 DEF size
      <4>2. gap = MoveTail(grown, pos, pos + 1, len, enc)
        BY <3>1 DEF gap
      <4>3. /\ gap \in Cells(n * enc)
            /\ \A q \in 0 .. n - 1 :
                 GetEncoded(gap, q, enc) =
                   IF q \in pos + 1 .. pos + 1 + len - pos - 1
                   THEN GetEncoded(grown, q + pos - (pos + 1), enc) ELSE GetEncoded(grown, q, enc)
        <5> DEFINE to == pos + 1
        <5>1. to \in Nat /\ to + len - pos <= n /\ pos \in Nat /\ len \in Nat /\ n \in Nat /\ enc \in Encodings
          BY <1>1, <2>2, <2>6, <4>1
        <5> HIDE DEF to
        <5>2. /\ MoveTail(grown, pos, to, len, enc) \in Cells(n * enc)
              /\ \A q \in 0 .. n - 1 :
                   GetEncoded(MoveTail(grown, pos, to, len, enc), q, enc) =
                     IF q \in to .. to + len - pos - 1
                     THEN GetEncoded(grown, q + pos - to, enc) ELSE GetEncoded(grown, q, enc)
          BY <4>1, <5>1, MoveTailIs
        <5>3. QED
          BY <4>2, <5>2 DEF to
      <4>4. ASSUME NEW q \in 0 .. len, q # pos
            PROVE  GetEncoded(gap, q, enc) = IF q < pos THEN IsGet(is, q) ELSE IsGet(is, q - 1)
        <5>1. CASE q < pos
          <6>1. q \in 0 .. n - 1 /\ q \notin pos + 1 .. pos + 1 + len - pos - 1 /\ q \in 0 .. len - 1
            BY <1>1, <2>2, <2>6, <5>1
          <6>2. QED
            BY <2>7, <4>3, <5>1, <6>1
        <5>2. CASE q > pos
          <6>1. /\ q \in 0 .. n - 1 /\ q \in pos + 1 .. pos + 1 + len - pos - 1 /\ q - 1 \in 0 .. len - 1
                /\ q + pos - (pos + 1) = q - 1 /\ ~(q < pos)
            BY <1>1, <2>2, <2>6, <5>2
          <6>2. QED
            BY <2>7, <4>3, <5>2, <6>1
        <5>3. QED
          BY <2>2, <4>4, <5>1, <5>2
      <4>5. QED
        BY <4>3, <4>4 DEF size
    <3>2. CASE ~(pos < len)
      <4>1. gap = grown /\ pos = len
        BY <1>1, <2>2, <3>2 DEF gap
      <4>2. \A q \in 0 .. len : q # pos => q < pos /\ q \in 0 .. len - 1
        BY <1>1, <4>1
      <4>3. QED
        BY <2>7, <4>1, <4>2
    <3>3. QED
      BY <3>1, <3>2
  <2>9. DOMAIN gap = 0 .. size - 1
    BY <2>8 DEF Cells
  <2>10. \A p \in Nat : p <= len => CellsOf(p, enc) \subseteq 0 .. size - 1
    BY <2>6 DEF CellsOf
  <2>11. SetEncoded(gap, pos, enc, v) \in Cells(size)
    BY <1>1, <2>6, <2>8, SetCells
  <2>12. GetEncoded(SetEncoded(gap, pos, enc, v), pos, enc) = v
    <3>1. CellsOf(pos, enc) \subseteq DOMAIN gap
      BY <1>1, <2>2, <2>9, <2>10
    <3>2. QED
      BY <1>1, <2>1, <2>2, <3>1, SetGet
  <2>13. ASSUME NEW q \in 0 .. len, q # pos
         PROVE  GetEncoded(SetEncoded(gap, pos, enc, v), q, enc) = GetEncoded(gap, q, enc)
    <3>1. q \in Nat /\ q <= len /\ q * enc \in Nat /\ (q * enc + enc <= pos * enc \/ pos * enc + enc <= q * enc)
      BY <1>1, <2>2, <2>6, <2>13
    <3>2. \A c \in CellsOf(q, enc) : c \notin CellsOf(pos, enc)
      BY <2>6, <3>1 DEF CellsOf
    <3>3. \A c \in CellsOf(q, enc) : c \in DOMAIN gap /\ c \notin CellsOf(pos, enc)
      BY <2>9, <2>10, <3>1, <3>2
    <3>4. QED
      BY <2>6, <3>1, <3>3, SetKeeps
  <2>14. WithInteger(is, r, pos, v)
    <3>1. r.contents \in Cells(r.length * r.encoding) /\ r.encoding \in Encodings
      BY <1>1, <2>4, <2>11 DEF size
    <3>2. \A q \in 0 .. len : IsGet(r, q) = GetEncoded(SetEncoded(gap, pos, enc, v), q, enc)
      BY <2>4 DEF IsGet
    <3>3. \A q \in 0 .. len : IsGet(r, q) = IF q < pos THEN IsGet(is, q) ELSE IF q = pos THEN v ELSE IsGet(is, q - 1)
      <4>1. \A q \in 0 .. len : q = pos => ~(q < pos)
        BY <2>2
      <4>2. QED
        BY <2>8, <2>12, <2>13, <3>2, <4>1
    <3>4. QED
      BY <2>4, <2>6, <3>1, <3>3 DEF WithInteger, len
  <2>15. GoodIntset(r) /\ Elements(r) = Elements(is) \cup {v}
    BY <1>1, <2>2, <2>3, <2>14, InsertedIs DEF len
  <2>16. IntsetAdd(is, v).is = r /\ IntsetAdd(is, v).success = 1
    BY <1>5, <1>8 DEF enc
  <2>17. QED
    BY <1>4, <1>8, <2>15, <2>16
<1>9. QED
  BY <1>6, <1>7, <1>8

\* v is found as intsetSearch finds it, and only if the width can hold it.
LEMMA FindIs ==
  ASSUME NEW is, GoodIntset(is), NEW v \in Range64
  PROVE  /\ IntsetFind(is, v) <=> v \in Elements(is)
         /\ v \in Elements(is) => Search(is, v).pos \in 0 .. is.length - 1 /\ IsGet(is, Search(is, v).pos) = v
<1> DEFINE len == is.length
           enc == is.encoding
           at == Search(is, v)
<1>1. /\ len \in Nat /\ enc \in Encodings /\ v \in Int
      /\ v \in IntMin(enc) .. IntMax(enc) <=> ValueEncoding(v) <= enc
  BY ValueEncodingIs DEF GoodIntset
<1>2. Located(is, v, at)
  BY <1>1, SearchIs
<1>3. \A p \in 0 .. len - 1 : IsGet(is, p) \in Int /\ IsGet(is, p) \in IntMin(enc) .. IntMax(enc)
  BY GoodCells
<1>4. at.found => at.pos \in 0 .. len - 1 /\ IsGet(is, at.pos) = v
  BY <1>1, <1>2 DEF Located
<1>5. ~at.found => \A p \in 0 .. len - 1 : IsGet(is, p) # v
  <2>1. ~at.found => \A p \in 0 .. len - 1 : IF p < at.pos THEN IsGet(is, p) < v ELSE IsGet(is, p) > v
    BY <1>2 DEF Located
  <2>2. QED
    BY <1>1, <1>3, <2>1
<1>6. at.found \in BOOLEAN
  BY <1>2 DEF Located
<1> HIDE DEF at
<1>7. at.found <=> v \in Elements(is)
  BY <1>4, <1>5, <1>6 DEF Elements
<1>8. v \in Elements(is) => ValueEncoding(v) <= enc
  BY <1>1, <1>3 DEF Elements
<1>9. IntsetFind(is, v) <=> ValueEncoding(v) <= enc /\ at.found
  BY DEF IntsetFind, at
<1>10. QED
  BY <1>4, <1>7, <1>8, <1>9 DEF at

LEMMA RemoveIs ==
  ASSUME NEW is, GoodIntset(is), NEW v \in Range64
  PROVE  /\ GoodIntset(IntsetRemove(is, v).is)
         /\ Elements(IntsetRemove(is, v).is) = Elements(is) \ {v}
         /\ IntsetRemove(is, v).success = IF v \in Elements(is) THEN 1 ELSE 0
<1> DEFINE len == is.length
           enc == is.encoding
           pos == Search(is, v).pos
           size == len * enc
           less == (len - 1) * enc
           closed == IF pos < len - 1 THEN MoveTail(is.contents, pos + 1, pos, len, enc) ELSE is.contents
           r == [encoding |-> enc, length |-> len - 1, contents |-> Resized(closed, less)]
<1>1. len \in Nat /\ enc \in Encodings /\ is.contents \in Cells(size)
  BY DEF GoodIntset
<1>2. /\ IntsetFind(is, v) <=> v \in Elements(is)
      /\ v \in Elements(is) => pos \in 0 .. len - 1 /\ IsGet(is, pos) = v
  BY FindIs
<1>3. IntsetRemove(is, v) = IF IntsetFind(is, v) THEN [is |-> r, success |-> 1] ELSE [is |-> is, success |-> 0]
  BY DEF IntsetRemove
<1>4. CASE v \notin Elements(is)
  BY <1>2, <1>3, <1>4
<1>5. CASE v \in Elements(is)
  <2>1. pos \in 0 .. len - 1 /\ IsGet(is, pos) = v
    BY <1>2, <1>5
  <2>2. enc \in {1, 2, 4}
    BY <1>1 DEF Encodings, ENC_INT16, ENC_INT32, ENC_INT64
  <2>3. \A p \in 0 .. len - 1 : IsGet(is, p) = GetEncoded(is.contents, p, enc)
    BY DEF IsGet
  <2>4. r.encoding = enc /\ r.length = len - 1 /\ r.contents = Resized(closed, less)
    BY DEF r
  <2>5. IntsetRemove(is, v).is = r /\ IntsetRemove(is, v).success = 1
    BY <1>2, <1>3, <1>5
  <2> HIDE DEF len, enc, pos, size, less, closed, r
  <2>6. /\ len - 1 \in Nat /\ size \in Nat /\ less \in Nat /\ less <= size /\ pos \in Nat
        /\ \A p \in Nat : p < len - 1 => p * enc \in Nat /\ p * enc + enc <= less /\ p * enc + enc <= size
    BY <1>1, <2>1, <2>2 DEF size, less
  <2>7. /\ closed \in Cells(size)
        /\ \A q \in 0 .. len - 2 : GetEncoded(closed, q, enc) = IF q < pos THEN IsGet(is, q) ELSE IsGet(is, q + 1)
    <3>1. CASE pos < len - 1
      <4> DEFINE from == pos + 1
      <4>1. /\ from \in Nat /\ from <= len /\ len <= len /\ pos + len - from <= len
            /\ is.contents \in Cells(len * enc)
        BY <1>1, <2>1, <2>6, <3>1 DEF size
      <4>2. closed = MoveTail(is.contents, from, pos, len, enc)
        BY <3>1 DEF closed
      <4> HIDE DEF from
      <4>3. /\ closed \in Cells(len * enc)
            /\ \A q \in 0 .. len - 1 :
                 GetEncoded(closed, q, enc) =
                   IF q \in pos .. pos + len - from - 1
                   THEN GetEncoded(is.contents, q + from - pos, enc) ELSE GetEncoded(is.contents, q, enc)
        BY <1>1, <2>6, <4>1, <4>2, MoveTailIs
      <4>4. ASSUME NEW q \in 0 .. len - 2
            PROVE  GetEncoded(closed, q, enc) = IF q < pos THEN IsGet(is, q) ELSE IsGet(is, q + 1)
        <5>1. CASE q < pos
          <6>1. q \in 0 .. len - 1 /\ q \notin pos .. pos + len - from - 1
            BY <1>1, <2>6, <5>1 DEF from
          <6>2. QED
            BY <2>3, <4>3, <5>1, <6>1
        <5>2. CASE ~(q < pos)
          <6>1. /\ q \in 0 .. len - 1 /\ q \in pos .. pos + len - from - 1 /\ q + 1 \in 0 .. len - 1
                /\ q + from - pos = q + 1
            BY <1>1, <2>6, <5>2 DEF from
          <6>2. QED
            BY <2>3, <4>3, <5>2, <6>1
        <5>3. QED
          BY <5>1, <5>2
      <4>5. QED
        BY <4>3, <4>4 DEF size
    <3>2. CASE ~(pos < len - 1)
      <4>1. closed = is.contents /\ \A q \in 0 .. len - 2 : q < pos /\ q \in 0 .. len - 1
        BY <1>1, <2>1, <2>6, <3>2 DEF closed
      <4>2. QED
        BY <1>1, <2>3, <4>1
    <3>3. QED
      BY <3>1, <3>2
  <2>8. /\ Resized(closed, less) \in Cells(less)
        /\ \A e \in Encodings, p \in Nat :
             p * e + e <= size /\ p * e + e <= less
               => GetEncoded(Resized(closed, less), p, e) = GetEncoded(closed, p, e)
    BY <2>6, <2>7, ResizedIs
  <2>9. \A q \in 0 .. len - 2 : q \in Nat /\ q < len - 1 /\ GetEncoded(Resized(closed, less), q, enc) = GetEncoded(closed, q, enc)
    <3>1. \A q \in 0 .. len - 2 : q \in Nat /\ q < len - 1
      BY <1>1
    <3>2. QED
      BY <1>1, <2>6, <2>8, <3>1
  <2>10. WithoutInteger(is, r, pos)
    <3>1. r.contents \in Cells(r.length * r.encoding) /\ r.encoding \in Encodings /\ r.length = is.length - 1
      BY <1>1, <2>4, <2>8 DEF less, len
    <3>2. \A q \in 0 .. len - 2 : IsGet(r, q) = GetEncoded(Resized(closed, less), q, enc)
      BY <2>4 DEF IsGet
    <3>3. \A q \in 0 .. len - 2 : IsGet(r, q) = IF q < pos THEN IsGet(is, q) ELSE IsGet(is, q + 1)
      BY <2>7, <2>9, <3>2
    <3>4. QED
      BY <3>1, <3>3 DEF WithoutInteger, len
  <2>11. GoodIntset(r) /\ Elements(r) = Elements(is) \ {v}
    <3>1. pos \in 0 .. is.length - 1
      BY <2>1 DEF len
    <3>2. QED
      BY <2>1, <2>10, <3>1, RemovedIs
  <2>12. QED
    BY <1>5, <2>5, <2>11
<1>6. QED
  BY <1>4, <1>5

LEMMA NewIs ==
  GoodIntset(IntsetNew) /\ Elements(IntsetNew) = {}
<1>1. IntsetNew.encoding = ENC_INT16 /\ IntsetNew.length = 0 /\ IntsetNew.contents = [c \in {} |-> 0]
  BY DEF IntsetNew
<1>2. ENC_INT16 \in Encodings /\ 0 * ENC_INT16 = 0 /\ 0 .. 0 - 1 = {}
  BY DEF Encodings, ENC_INT16
<1>3. IntsetNew.contents \in Cells(0)
  BY <1>1, <1>2 DEF Cells
<1>4. QED
  BY <1>1, <1>2, <1>3 DEF GoodIntset, Elements

LEMMA GoodIsWellFormed ==
  ASSUME NEW is, GoodIntset(is)
  PROVE  WellFormedIntset(is)
<1>1. is.length \in Nat /\ \A p, q \in 0 .. is.length - 1 : p < q => IsGet(is, p) < IsGet(is, q)
  BY DEF GoodIntset
<1>2. DOMAIN is.contents = 0 .. is.length * is.encoding - 1
  BY DEF GoodIntset, Cells
<1>3. \A p \in 1 .. is.length - 1 : p - 1 \in 0 .. is.length - 1 /\ p \in 0 .. is.length - 1 /\ p - 1 < p
  BY <1>1
<1>4. QED
  BY <1>1, <1>2, <1>3 DEF WellFormedIntset

----------------------------------------------------------------------------
\* Ziplists.

Entry == [prevlen : Nat, prevsize : {1, 5}, val : Value]

Ziplist == [bytes : Nat, tail : Nat, length : Nat, entries : Seq(Entry)]

----------------------------------------------------------------------------
\* Functions by recursion over numbers.

IsRecursion(f, S, a, m, g) == f \in [0 .. m -> S] /\ f[0] = a /\ \A i \in 1 .. m : f[i] = g[<<i, f[i - 1]>>]

LEMMA Recursion ==
  ASSUME NEW S, NEW a \in S, NEW m \in Nat, NEW g \in [(1 .. m) \X S -> S]
  PROVE  \E f : IsRecursion(f, S, a, m, g)
<1> DEFINE Fits(f, k) == f \in [0 .. k -> S] /\ f[0] = a /\ \A i \in 1 .. k : f[i] = g[<<i, f[i - 1]>>]
           Wrong == {k \in Nat : k <= m /\ \A f : ~Fits(f, k)}
<1>1. \E f : Fits(f, 0)
  <2>1. [i \in 0 .. 0 |-> a] \in [0 .. 0 -> S]
    OBVIOUS
  <2>2. Fits([i \in 0 .. 0 |-> a], 0)
    BY <2>1
  <2>3. QED
    BY <2>2
<1>2. ASSUME NEW k \in 0 .. m - 1, NEW f, Fits(f, k)
      PROVE  \E h : Fits(h, k + 1)
  <2> DEFINE h == [i \in 0 .. k + 1 |-> IF i = k + 1 THEN g[<<k + 1, f[k]>>] ELSE f[i]]
  <2>1. f[k] \in S /\ k + 1 \in 1 .. m /\ k \in 0 .. k
    BY <1>2
  <2>2. g[<<k + 1, f[k]>>] \in S
    BY <2>1
  <2>3. \A i \in 0 .. k + 1 : i # k + 1 => i \in 0 .. k
    OBVIOUS
  <2>4. h \in [0 .. k + 1 -> S]
    BY <1>2, <2>2, <2>3
  <2>5. h[0] = a
    BY <1>2
  <2>6. ASSUME NEW i \in 1 .. k + 1
        PROVE  h[i] = g[<<i, h[i - 1]>>]
    <3>1. CASE i = k + 1
      <4>1. k + 1 \in 0 .. k + 1 /\ k \in 0 .. k + 1 /\ k # k + 1 /\ k + 1 - 1 = k
        BY <1>2
      <4>2. h[k + 1] = g[<<k + 1, f[k]>>] /\ h[k] = f[k]
        BY <4>1
      <4> HIDE DEF h
      <4>3. QED
        BY <3>1, <4>1, <4>2
    <3>2. CASE i # k + 1
      <4>1. i \in 1 .. k /\ i \in 0 .. k + 1 /\ i - 1 \in 0 .. k + 1 /\ i - 1 # k + 1
        BY <3>2
      <4>2. h[i] = f[i] /\ h[i - 1] = f[i - 1]
        BY <3>2, <4>1
      <4>3. QED
        BY <1>2, <4>1, <4>2
    <3>3. QED
      BY <3>1, <3>2
  <2>7. QED
    BY <2>4, <2>5, <2>6
<1>3. Wrong = {}
  <2>1. SUFFICES ASSUME Wrong # {}
                 PROVE  FALSE
    OBVIOUS
  <2>2. PICK k \in Wrong : \A j \in Wrong : k <= j
    BY <2>1, LeastNatural
  <2>3. k \in Nat /\ k <= m /\ (\A f : ~Fits(f, k)) /\ \A j \in Nat : j < k /\ j <= m => \E f : Fits(f, j)
    BY <2>2
  <2> HIDE DEF Wrong, Fits
  <2>4. k # 0
    BY <1>1, <2>3
  <2>5. k - 1 \in 0 .. m - 1 /\ k - 1 < k /\ k - 1 \in Nat /\ k - 1 + 1 = k
    BY <2>3, <2>4
  <2>6. PICK f : Fits(f, k - 1)
    BY <2>3, <2>5
  <2>7. \E h : Fits(h, k)
    BY <1>2, <2>5, <2>6
  <2>8. QED
    BY <2>3, <2>7
<1>4. PICK f : Fits(f, m)
  <2> HIDE DEF Fits
  <2>1. QED
    BY <1>3
<1>5. QED
  BY <1>4 DEF IsRecursion

----------------------------------------------------------------------------
\* Sizes and offsets.

LEMMA PayloadIs ==
  \A v \in Value : Payload(v) \in Nat /\ Payload(v) >= 1
<1>1. SUFFICES ASSUME NEW v \in Value
               PROVE  Payload(v) \in Nat /\ Payload(v) >= 1
  OBVIOUS
<1>2. IntSize(v.n) \in Nat
  <2>1. \A n : IntSize(n) \in {0, 1, 2, 3, 4, 8}
    BY DEF IntSize
  <2>2. QED
    BY <2>1
<1>3. LenSize(v.len) \in Nat /\ LenSize(v.len) >= 1
  BY DEF LenSize
<1>4. v.len \in Nat
  BY DEF Value
<1>5. QED
  BY <1>2, <1>3, <1>4 DEF Payload

LEMMA RawLengthIs ==
  \A e \in Entry : /\ RawLength(e) = e.prevsize + Payload(e.val) /\ RawLength(e) \in Nat /\ RawLength(e) >= 2
                   /\ Payload(e.val) \in Nat /\ Payload(e.val) >= 1 /\ e.prevsize \in {1, 5} /\ e.prevlen \in Nat
BY PayloadIs DEF RawLength, Entry

OffsetStep(f, zl, j) == IF j = 1 THEN ZIPLIST_HEADER_SIZE ELSE f[j - 1] + RawLength(zl.entries[j - 1])

LEMMA OffsetIs ==
  ASSUME NEW zl \in Ziplist
  PROVE  /\ Offset(zl, 1) = ZIPLIST_HEADER_SIZE
         /\ \A k \in 1 .. Len(zl.entries) + 1 : Offset(zl, k) \in Nat
         /\ \A k \in 1 .. Len(zl.entries) : Offset(zl, k + 1) = Offset(zl, k) + RawLength(zl.entries[k])
<1> DEFINE n == Len(zl.entries)
           raw(k) == RawLength(zl.entries[k])
           D == 1 .. n + 1
           at == CHOOSE f : f = [j \in D |-> OffsetStep(f, zl, j)]
<1>1. n \in Nat /\ \A k \in 1 .. n : zl.entries[k] \in Entry /\ raw(k) \in Nat
  <2>1. zl.entries \in Seq(Entry)
    BY DEF Ziplist
  <2>2. n \in Nat /\ \A k \in 1 .. n : zl.entries[k] \in Entry
    BY <2>1
  <2>3. QED
    BY <2>2, RawLengthIs
<1> HIDE DEF n, raw
<1>2. \E f : f = [j \in D |-> OffsetStep(f, zl, j)]
  <2> DEFINE g == [x \in (1 .. n) \X Nat |-> x[2] + raw(x[1])]
  <2>1. g \in [(1 .. n) \X Nat -> Nat]
    BY <1>1
  <2>2. ZIPLIST_HEADER_SIZE \in Nat
    BY DEF ZIPLIST_HEADER_SIZE
  <2>3. PICK h : IsRecursion(h, Nat, ZIPLIST_HEADER_SIZE, n, g)
    <3>1. n \in Nat
      BY <1>1
    <3> HIDE DEF g
    <3>2. QED
      BY <2>1, <2>2, <3>1, Recursion
  <2>4. \A i \in 1 .. n : h[i] = h[i - 1] + raw(i)
    <3>1. \A i \in 1 .. n : i - 1 \in 0 .. n
      BY <1>1
    <3>2. QED
      BY <1>1, <2>3, <3>1 DEF IsRecursion
  <2> DEFINE f == [j \in D |-> h[j - 1]]
  <2>5. ASSUME NEW j \in D
        PROVE  f[j] = OffsetStep(f, zl, j)
    <3>1. CASE j = 1
      BY <2>3, <3>1 DEF OffsetStep, IsRecursion
    <3>2. CASE j # 1
      <4>1. j - 1 \in 1 .. n /\ j - 1 \in D
        BY <1>1, <3>2
      <4>2. f[j] = h[j - 1] /\ f[j - 1] = h[j - 1 - 1]
        BY <4>1
      <4>3. QED
        BY <2>4, <3>2, <4>1, <4>2 DEF OffsetStep, raw
    <3>3. QED
      BY <3>1, <3>2
  <2>6. f = [j \in D |-> OffsetStep(f, zl, j)]
    <3>1. f = [j \in D |-> f[j]]
      OBVIOUS
    <3> HIDE DEF f
    <3>2. QED
      BY <2>5, <3>1
  <2>7. QED
    BY <2>6
<1>3. at = [j \in D |-> OffsetStep(at, zl, j)]
  BY <1>2
<1>4. \A k : Offset(zl, k) = at[k]
  BY DEF Offset, OffsetStep, n
<1> HIDE DEF at
<1>5. \A k \in D : at[k] = OffsetStep(at, zl, k)
  BY <1>3
<1>6. at[1] = ZIPLIST_HEADER_SIZE
  BY <1>1, <1>5 DEF OffsetStep
<1>7. \A k \in 1 .. n : at[k + 1] = at[k] + raw(k)
  <2>1. \A k \in 1 .. n : k + 1 \in D /\ k + 1 # 1 /\ k + 1 - 1 = k
    BY <1>1
  <2>2. QED
    BY <1>5, <2>1 DEF OffsetStep, raw
<1>8. \A k \in D : at[k] \in Nat
  <2> DEFINE Wrong == {k \in Nat : k \in D /\ at[k] \notin Nat}
  <2>1. SUFFICES ASSUME Wrong # {}
                 PROVE  FALSE
    BY <1>1
  <2>2. PICK k \in Wrong : \A j \in Wrong : k <= j
    BY <2>1, LeastNatural
  <2>3. CASE k = 1
    BY <1>6, <2>2, <2>3 DEF ZIPLIST_HEADER_SIZE
  <2>4. CASE k # 1
    <3>1. k - 1 \in 1 .. n /\ k - 1 \in D /\ k - 1 + 1 = k /\ k - 1 \in Nat /\ ~(k <= k - 1)
      BY <1>1, <2>2, <2>4
    <3>2. at[k - 1] \in Nat
      BY <2>2, <3>1
    <3>3. at[k] = at[k - 1] + raw(k - 1)
      BY <1>7, <3>1
    <3>4. QED
      BY <1>1, <2>2, <3>1, <3>2, <3>3
  <2>5. QED
    BY <2>3, <2>4
<1>9. QED
  BY <1>4, <1>6, <1>7, <1>8 DEF n, raw

\* Nothing else has these differences.
LEMMA OffsetsAre ==
  ASSUME NEW zl \in Ziplist, NEW at, at[1] = ZIPLIST_HEADER_SIZE,
         \A k \in 1 .. Len(zl.entries) : at[k + 1] = at[k] + RawLength(zl.entries[k])
  PROVE  \A k \in 1 .. Len(zl.entries) + 1 : Offset(zl, k) = at[k]
<1> DEFINE n == Len(zl.entries)
           D == 1 .. n + 1
           off(k) == Offset(zl, k)
           raw(k) == RawLength(zl.entries[k])
           Wrong == {k \in Nat : k \in D /\ off(k) # at[k]}
<1>1. n \in Nat
  BY DEF Ziplist
<1>2. off(1) = ZIPLIST_HEADER_SIZE /\ \A k \in 1 .. n : off(k + 1) = off(k) + raw(k)
  BY OffsetIs
<1>3. \A k \in 1 .. n : at[k + 1] = at[k] + raw(k)
  OBVIOUS
<1> HIDE DEF off, raw, n
<1>4. SUFFICES ASSUME Wrong # {}
               PROVE  FALSE
  BY <1>1 DEF off, n
<1>5. PICK k \in Wrong : \A j \in Wrong : k <= j
  BY <1>4, LeastNatural
<1>6. k # 1
  BY <1>2, <1>5
<1>7. k - 1 \in 1 .. n /\ k - 1 \in D /\ k - 1 + 1 = k /\ k - 1 \in Nat /\ ~(k <= k - 1)
  BY <1>1, <1>5, <1>6
<1>8. off(k - 1) = at[k - 1]
  BY <1>5, <1>7
<1>9. off(k) = off(k - 1) + raw(k - 1) /\ at[k] = at[k - 1] + raw(k - 1)
  BY <1>2, <1>3, <1>7
<1>10. QED
  BY <1>5, <1>8, <1>9

LEMMA OffsetsAscend ==
  ASSUME NEW zl \in Ziplist
  PROVE  \A j, k \in 1 .. Len(zl.entries) + 1 : j < k => Offset(zl, j) + 2 <= Offset(zl, k)
<1> DEFINE n == Len(zl.entries)
           D == 1 .. n + 1
           off(k) == Offset(zl, k)
           Wrong == {k \in Nat : k \in D /\ \E j \in D : j < k /\ ~(off(j) + 2 <= off(k))}
<1>1. n \in Nat /\ (\A k \in D : off(k) \in Nat) /\ \A k \in 1 .. n : off(k) + 2 <= off(k + 1)
  <2>1. zl.entries \in Seq(Entry)
    BY DEF Ziplist
  <2>2. n \in Nat /\ \A k \in 1 .. n : zl.entries[k] \in Entry
    BY <2>1
  <2>3. /\ \A k \in D : off(k) \in Nat
        /\ \A k \in 1 .. n : off(k + 1) = off(k) + RawLength(zl.entries[k])
    BY OffsetIs
  <2>4. \A k \in 1 .. n : RawLength(zl.entries[k]) \in Nat /\ RawLength(zl.entries[k]) >= 2
    BY <2>2, RawLengthIs
  <2>5. \A k \in 1 .. n : k \in D
    BY <2>2
  <2> HIDE DEF off, n
  <2>6. QED
    BY <2>2, <2>3, <2>4, <2>5
<1> HIDE DEF off, n
<1>2. SUFFICES ASSUME Wrong # {}
               PROVE  FALSE
  BY <1>1 DEF off, n
<1>3. PICK k \in Wrong : \A i \in Wrong : k <= i
  BY <1>2, LeastNatural
<1>4. PICK j \in D : j < k /\ ~(off(j) + 2 <= off(k))
  BY <1>3
<1>5. k - 1 \in 1 .. n /\ k - 1 \in D /\ k - 1 + 1 = k /\ k - 1 \in Nat /\ ~(k <= k - 1) /\ (j = k - 1 \/ j < k - 1)
  BY <1>1, <1>3, <1>4
<1>6. off(k - 1) + 2 <= off(k)
  BY <1>1, <1>5
<1>7. j < k - 1 => off(j) + 2 <= off(k - 1)
  BY <1>3, <1>5
<1>8. QED
  BY <1>1, <1>3, <1>4, <1>5, <1>6, <1>7

\* Distinct entries have distinct offsets, so that an offset tells its entry.
LEMMA PosOfOffset ==
  ASSUME NEW zl \in Ziplist, NEW k \in 1 .. Len(zl.entries) + 1
  PROVE  PosOf(zl, Offset(zl, k)) = k
<1>1. \A j \in 1 .. Len(zl.entries) + 1 : Offset(zl, j) = Offset(zl, k) => j = k
  <2>1. Len(zl.entries) \in Nat
    BY DEF Ziplist
  <2>2. \A j \in 1 .. Len(zl.entries) + 1 : Offset(zl, j) \in Nat
    BY OffsetIs
  <2>3. \A i, j \in 1 .. Len(zl.entries) + 1 : i < j => Offset(zl, i) + 2 <= Offset(zl, j)
    BY OffsetsAscend
  <2>4. QED
    BY <2>1, <2>2, <2>3
<1>2. QED
  BY <1>1 DEF PosOf

----------------------------------------------------------------------------
\* Ziplists that have entries in common.

LEMMA EntriesAre ==
  ASSUME NEW zl \in Ziplist
  PROVE  /\ Len(zl.entries) \in Nat /\ DOMAIN zl.entries = 1 .. Len(zl.entries)
         /\ \A k \in 1 .. Len(zl.entries) : zl.entries[k] \in Entry
         /\ \A k \in 1 .. Len(zl.entries) : RawLength(zl.entries[k]) \in Nat /\ RawLength(zl.entries[k]) >= 2
         /\ zl.bytes \in Nat /\ zl.tail \in Nat /\ zl.length \in Nat /\ zl.entries \in Seq(Entry)
<1>1. zl.entries \in Seq(Entry) /\ zl.bytes \in Nat /\ zl.tail \in Nat /\ zl.length \in Nat
  BY DEF Ziplist
<1>2. Len(zl.entries) \in Nat /\ DOMAIN zl.entries = 1 .. Len(zl.entries) /\ \A k \in 1 .. Len(zl.entries) : zl.entries[k] \in Entry
  BY <1>1
<1>3. QED
  BY <1>1, <1>2, RawLengthIs

\* Entries of the same lengths keep their distances.
Shifted(y, z, a, b, d) == \A j \in a .. b + 1 : Offset(z, j + d) - Offset(y, j) = Offset(z, a + d) - Offset(y, a)

LEMMA ShiftedOffsets ==
  ASSUME NEW y \in Ziplist, NEW z \in Ziplist, NEW a \in Nat \ {0}, NEW b \in Int, NEW d \in Int,
         a <= b + 1, b <= Len(y.entries), a + d >= 1, b + d <= Len(z.entries),
         \A j \in a .. b : RawLength(z.entries[j + d]) = RawLength(y.entries[j])
  PROVE  Shifted(y, z, a, b, d)
<1> DEFINE Off(j) == Offset(y, j)
           Off2(j) == Offset(z, j)
           raw(j) == RawLength(y.entries[j])
           Wrong == {j \in Nat : j \in a .. b + 1 /\ Off2(j + d) - Off(j) # Off2(a + d) - Off(a)}
<1>1. Len(y.entries) \in Nat /\ Len(z.entries) \in Nat
  BY EntriesAre
<1>2. (\A j \in 1 .. Len(y.entries) + 1 : Off(j) \in Nat) /\ \A j \in 1 .. Len(y.entries) : Off(j + 1) = Off(j) + raw(j) /\ raw(j) \in Nat
  BY OffsetIs, EntriesAre
<1>3. (\A j \in 1 .. Len(z.entries) + 1 : Off2(j) \in Nat) /\ \A j \in 1 .. Len(z.entries) : Off2(j + 1) = Off2(j) + RawLength(z.entries[j])
  BY OffsetIs
<1>4. \A j \in a .. b : /\ j \in 1 .. Len(y.entries) /\ j + d \in 1 .. Len(z.entries) /\ j + 1 + d = j + d + 1
                        /\ j + 1 \in 1 .. Len(y.entries) + 1 /\ j + d + 1 \in 1 .. Len(z.entries) + 1
  BY <1>1
<1>5. \A j \in a .. b : Off2(j + 1 + d) = Off2(j + d) + raw(j) /\ Off(j + 1) = Off(j) + raw(j) /\ raw(j) \in Nat
  BY <1>2, <1>3, <1>4
<1>6. \A j \in a .. b + 1 : Off(j) \in Nat /\ Off2(j + d) \in Nat
  <2>1. \A j \in a .. b + 1 : j \in 1 .. Len(y.entries) + 1 /\ j + d \in 1 .. Len(z.entries) + 1
    BY <1>1
  <2>2. QED
    BY <1>2, <1>3, <2>1
<1> HIDE DEF Off, Off2, raw
<1>7. SUFFICES ASSUME Wrong # {}
               PROVE  FALSE
  <2>1. Wrong = {} => \A j \in a .. b + 1 : Off2(j + d) - Off(j) = Off2(a + d) - Off(a)
    <3>1. \A j \in a .. b + 1 : j \in Nat
      OBVIOUS
    <3>2. QED
      BY <3>1
  <2>2. QED
    BY <2>1 DEF Shifted, Off, Off2
<1>8. PICK j \in Wrong : \A i \in Wrong : j <= i
  BY <1>7, LeastNatural
<1>9. j # a
  BY <1>8
<1>10. j - 1 \in a .. b /\ j - 1 \in a .. b + 1 /\ j - 1 \in Nat /\ j - 1 + 1 = j /\ ~(j <= j - 1)
  BY <1>8, <1>9
<1>11. Off2(j - 1 + d) - Off(j - 1) = Off2(a + d) - Off(a)
  BY <1>8, <1>10
<1>12. Off2(j - 1 + 1 + d) = Off2(j - 1 + d) + raw(j - 1) /\ Off(j - 1 + 1) = Off(j - 1) + raw(j - 1) /\ raw(j - 1) \in Nat
  BY <1>5, <1>10
<1>13. Off2(j + d) = Off2(j - 1 + d) + raw(j - 1) /\ Off(j) = Off(j - 1) + raw(j - 1)
  <2>1. j - 1 + 1 + d = j + d
    BY <1>8
  <2>2. QED
    BY <1>10, <1>12, <2>1
<1>14. Off2(j - 1 + d) \in Nat /\ Off(j - 1) \in Nat /\ Off2(a + d) \in Nat /\ Off(a) \in Nat
  <2>1. a \in a .. b + 1
    OBVIOUS
  <2>2. QED
    BY <1>6, <1>10, <2>1
<1>15. Off2(j + d) - Off(j) = Off2(a + d) - Off(a)
  BY <1>11, <1>12, <1>13, <1>14
<1>16. QED
  BY <1>8, <1>15

LEMMA SameOffsets ==
  ASSUME NEW y \in Ziplist, NEW z \in Ziplist, NEW m \in Nat, m <= Len(y.entries), m <= Len(z.entries),
         \A j \in 1 .. m : RawLength(z.entries[j]) = RawLength(y.entries[j])
  PROVE  \A j \in 1 .. m + 1 : Offset(z, j) = Offset(y, j)
<1>1. \A j \in 1 .. m : j + 0 = j
  OBVIOUS
<1>2. \A j \in 1 .. m : RawLength(z.entries[j + 0]) = RawLength(y.entries[j])
  BY <1>1
<1>3. 1 \in Nat \ {0} /\ 0 \in Int /\ m \in Int /\ 1 <= m + 1 /\ 1 + 0 >= 1 /\ m + 0 <= Len(z.entries)
  BY EntriesAre
<1>4. \A j \in 1 .. m + 1 : Offset(z, j + 0) - Offset(y, j) = Offset(z, 1 + 0) - Offset(y, 1)
  <2>1. Shifted(y, z, 1, m, 0)
    BY <1>2, <1>3, ShiftedOffsets
  <2>2. QED
    BY <2>1 DEF Shifted
<1>5. Offset(z, 1) = Offset(y, 1) /\ Offset(y, 1) \in Nat
  BY OffsetIs DEF ZIPLIST_HEADER_SIZE
<1>6. \A j \in 1 .. m + 1 : Offset(y, j) \in Nat /\ Offset(z, j) \in Nat
  <2>1. \A j \in 1 .. m + 1 : j \in 1 .. Len(y.entries) + 1 /\ j \in 1 .. Len(z.entries) + 1
    BY EntriesAre
  <2>2. QED
    BY <2>1, OffsetIs
<1>7. Offset(z, 1 + 0) = Offset(z, 1)
  <2>1. 1 + 0 = 1
    OBVIOUS
  <2>2. QED
    BY <2>1
<1>8. \A j \in 1 .. m + 1 : Offset(z, j + 0) = Offset(z, j)
  <2>1. \A j \in 1 .. m + 1 : j + 0 = j
    OBVIOUS
  <2>2. QED
    BY <2>1
<1>9. \A x, y1 \in Nat : x - y1 = 0 => x = y1
  OBVIOUS
<1>10. \A j \in 1 .. m + 1 : Offset(z, j) - Offset(y, j) = 0
  BY <1>4, <1>5, <1>7, <1>8
<1>11. QED
  BY <1>6, <1>9, <1>10

----------------------------------------------------------------------------
\* Good ziplists.

PrevlenAgrees(zl, k) ==
  /\ zl.entries[k].prevlen = IF k = 1 THEN 0 ELSE RawLength(zl.entries[k - 1])
  /\ zl.entries[k].prevsize \in {PrevSize(zl.entries[k].prevlen), 5}

GoodZiplist(zl) == zl \in Ziplist /\ WellFormedZiplist(zl)

LEMMA GoodIs ==
  ASSUME NEW zl \in Ziplist
  PROVE  GoodZiplist(zl) <=> /\ zl.bytes = Offset(zl, Len(zl.entries) + 1) + 1
                             /\ zl.tail = Offset(zl, IF zl.entries = <<>> THEN 1 ELSE Len(zl.entries))
                             /\ zl.length < UINT16_MAX => zl.length = Len(zl.entries)
                             /\ \A k \in 1 .. Len(zl.entries) : PrevlenAgrees(zl, k)
<1> DEFINE n == Len(zl.entries)
<1>1. n \in Nat /\ DOMAIN zl.entries = 1 .. n /\ (zl.entries = <<>> <=> n = 0)
  BY EntriesAre
<1>2. Max({n, 1}) = IF n = 0 THEN 1 ELSE n
  <2> DEFINE m == IF n = 0 THEN 1 ELSE n
  <2>1. m \in {n, 1} /\ m \in Nat /\ \A y \in {n, 1} : m >= y /\ y \in Nat
    BY <1>1
  <2>2. \A x \in {n, 1} : (\A y \in {n, 1} : x >= y) => x = m
    <3> HIDE DEF m
    <3>1. SUFFICES ASSUME NEW x \in {n, 1}, \A y \in {n, 1} : x >= y
                   PROVE  x = m
      OBVIOUS
    <3>2. x >= m /\ m >= x /\ x \in Nat
      BY <2>1, <3>1
    <3>3. QED
      BY <2>1, <3>2
  <2> HIDE DEF m, n
  <2>3. QED
    BY <2>1, <2>2 DEF Max, m
<1>3. HeaderAgrees(zl) <=> /\ zl.bytes = Offset(zl, n + 1) + 1
                           /\ zl.tail = Offset(zl, IF n = 0 THEN 1 ELSE n)
                           /\ zl.length < UINT16_MAX => zl.length = n
  BY <1>2 DEF HeaderAgrees
<1>4. PrevlensAgree(zl) <=> \A k \in 1 .. n : PrevlenAgrees(zl, k)
  BY <1>1 DEF PrevlensAgree, PrevlenAgrees
<1>5. QED
  BY <1>1, <1>3, <1>4 DEF GoodZiplist, WellFormedZiplist

----------------------------------------------------------------------------
\* __ziplistCascadeUpdate

Growth(b) == IF b THEN 4 ELSE 0

\* Whether entry j, after the one before it has grown or not, has too narrow a field.
TooNarrow(zl, j, b) == zl.entries[j].prevsize < PrevSize(RawLength(zl.entries[j - 1]) + Growth(b))

\* The entries that the loop widens, from entry k + 1 on.
AreWidened(W, zl, k) ==
  \A j \in Int : j \in W <=>
    /\ j \in k + 1 .. Len(zl.entries)
    /\ j = k + 1 \/ j - 1 \in W
    /\ TooNarrow(zl, j, j - 1 \in W)

GrownStep(f, zl, k, j) ==
  /\ j > k
  /\ j = k + 1 \/ f[j - 1]
  /\ zl.entries[j].prevsize < PrevSize(RawLength(zl.entries[j - 1]) + (IF f[j - 1] THEN 4 ELSE 0))

LEMMA WidenedExist ==
  ASSUME NEW zl, Len(zl.entries) \in Nat, NEW k \in 1 .. Len(zl.entries)
  PROVE  \E W \in SUBSET (k + 1 .. Len(zl.entries)) : AreWidened(W, zl, k)
<1> DEFINE n == Len(zl.entries)
           yes(i, b) == (i = 1 \/ b = 1) /\ TooNarrow(zl, k + i, b = 1)
           g == [x \in (1 .. n - k) \X {0, 1} |-> IF yes(x[1], x[2]) THEN 1 ELSE 0]
<1>1. n \in Nat /\ k \in Nat /\ n - k \in Nat
  OBVIOUS
<1>2. g \in [(1 .. n - k) \X {0, 1} -> {0, 1}]
  OBVIOUS
<1>3. PICK h : IsRecursion(h, {0, 1}, 0, n - k, g)
  <2>1. 0 \in {0, 1}
    OBVIOUS
  <2> HIDE DEF g, n
  <2>2. QED
    BY <1>1, <1>2, <2>1, Recursion
<1>4. h \in [0 .. n - k -> {0, 1}] /\ h[0] = 0 /\ \A i \in 1 .. n - k : h[i] = g[<<i, h[i - 1]>>]
  BY <1>3 DEF IsRecursion
<1>5. \A i \in 1 .. n - k : h[i] = 1 <=> yes(i, h[i - 1])
  <2>1. SUFFICES ASSUME NEW i \in 1 .. n - k
                 PROVE  h[i] = 1 <=> yes(i, h[i - 1])
    OBVIOUS
  <2>2. i - 1 \in 0 .. n - k
    BY <1>1
  <2>3. h[i - 1] \in {0, 1}
    BY <1>4, <2>2
  <2>4. <<i, h[i - 1]>> \in (1 .. n - k) \X {0, 1}
    BY <2>3
  <2>5. h[i] = IF yes(i, h[i - 1]) THEN 1 ELSE 0
    <3> HIDE DEF yes
    <3>1. QED
      BY <1>4, <2>4
  <2> HIDE DEF yes
  <2>6. QED
    BY <2>5
<1> DEFINE W == {j \in k + 1 .. n : h[j - k] = 1}
<1>6. ASSUME NEW j \in k + 1 .. n
      PROVE  j \in W <=> (j = k + 1 \/ j - 1 \in W) /\ TooNarrow(zl, j, j - 1 \in W)
  <2>1. j - k \in 1 .. n - k /\ k + (j - k) = j /\ (j - k = 1 <=> j = k + 1) /\ j \in Int
    BY <1>1
  <2>2. j \in W <=> yes(j - k, h[j - k - 1])
    BY <1>5, <2>1
  <2>3. h[j - k - 1] = 1 <=> j - 1 \in W
    <3>1. CASE j = k + 1
      <4>1. j - k - 1 = 0 /\ j - 1 \notin k + 1 .. n
        BY <1>1, <3>1
      <4>2. QED
        BY <1>4, <4>1
    <3>2. CASE j # k + 1
      <4>1. j - 1 \in k + 1 .. n /\ j - 1 - k = j - k - 1
        BY <1>1, <3>2
      <4>2. QED
        BY <4>1
    <3>3. QED
      BY <3>1, <3>2
  <2> HIDE DEF W
  <2>4. TooNarrow(zl, k + (j - k), h[j - k - 1] = 1) <=> TooNarrow(zl, j, j - 1 \in W)
    <3>1. CASE j - 1 \in W
      BY <2>1, <2>3, <3>1 DEF TooNarrow, Growth
    <3>2. CASE j - 1 \notin W
      BY <2>1, <2>3, <3>2 DEF TooNarrow, Growth
    <3>3. QED
      BY <3>1, <3>2
  <2>5. QED
    BY <2>1, <2>2, <2>3, <2>4
<1>7. W \in SUBSET (k + 1 .. n)
  OBVIOUS
<1> HIDE DEF W
<1>8. QED
  BY <1>6, <1>7 DEF AreWidened

\* What the loop leaves of entry j.
WidenedEntry(zl, k, W, j) ==
  IF j = k + 1 \/ j - 1 \in W
  THEN [zl.entries[j] EXCEPT
          !.prevlen = RawLength(zl.entries[j - 1]) + (IF j - 1 \in W THEN 4 ELSE 0),
          !.prevsize = IF j \in W THEN 5 ELSE @]
  ELSE zl.entries[j]

Widened(zl, k, W) ==
  [zl EXCEPT
     !.bytes = @ + 4 * Cardinality(W),
     !.tail = @ + 4 * Cardinality(W \ {Len(zl.entries)}),
     !.entries = [j \in 1 .. Len(zl.entries) |-> WidenedEntry(zl, k, W, j)]]

LEMMA CascadeWidens ==
  ASSUME NEW zl, Len(zl.entries) \in Nat, NEW k \in 1 .. Len(zl.entries)
  PROVE  \E W \in SUBSET (k + 1 .. Len(zl.entries)) : AreWidened(W, zl, k) /\ Cascade(zl, k) = Widened(zl, k, W)
<1> DEFINE n == Len(zl.entries)
           D == k .. n
           grown == CHOOSE f : f = [j \in D |-> GrownStep(f, zl, k, j)]
           wider == {j \in D : grown[j]}
<1>1. \E f : f = [j \in D |-> GrownStep(f, zl, k, j)]
  <2>1. PICK W \in SUBSET (k + 1 .. n) : AreWidened(W, zl, k)
    BY WidenedExist
  <2> DEFINE f == [j \in D |-> j \in W]
  <2>2. ASSUME NEW j \in D
        PROVE  (j \in W) = GrownStep(f, zl, k, j)
    <3>1. CASE j = k
      <4>1. j \notin W /\ ~(j > k)
        BY <3>1
      <4>2. ~GrownStep(f, zl, k, j)
        BY <4>1 DEF GrownStep
      <4>3. GrownStep(f, zl, k, j) \in BOOLEAN
        BY DEF GrownStep
      <4>4. QED
        BY <4>1, <4>2, <4>3
    <3>2. CASE j # k
      <4>1. j \in k + 1 .. n /\ j - 1 \in D /\ j > k /\ j \in Int
        BY <3>2
      <4>2. f[j - 1] = (j - 1 \in W)
        BY <4>1
      <4>3. j \in W <=> (j = k + 1 \/ j - 1 \in W) /\ TooNarrow(zl, j, j - 1 \in W)
        BY <2>1, <4>1 DEF AreWidened
      <4> HIDE DEF f
      <4>4. j \in W <=> GrownStep(f, zl, k, j)
        <5>1. CASE j - 1 \in W
          BY <4>1, <4>2, <4>3, <5>1 DEF TooNarrow, GrownStep, Growth
        <5>2. CASE j - 1 \notin W
          BY <4>1, <4>2, <4>3, <5>2 DEF TooNarrow, GrownStep, Growth
        <5>3. QED
          BY <5>1, <5>2
      <4>5. GrownStep(f, zl, k, j) \in BOOLEAN
        BY DEF GrownStep
      <4>6. QED
        BY <4>4, <4>5
    <3>3. QED
      BY <3>1, <3>2
  <2>3. f = [j \in D |-> GrownStep(f, zl, k, j)]
    <3> DEFINE h == [j \in D |-> GrownStep(f, zl, k, j)]
    <3>1. \A j \in D : f[j] = (j \in W) /\ h[j] = GrownStep(f, zl, k, j)
      OBVIOUS
    <3>2. f = [j \in D |-> f[j]] /\ h = [j \in D |-> h[j]]
      OBVIOUS
    <3>3. \A j \in D : f[j] = h[j]
      BY <2>2, <3>1
    <3> HIDE DEF f, h
    <3>4. f = h
      BY <3>2, <3>3
    <3>5. QED
      BY <3>4 DEF h
  <2>4. QED
    BY <2>3
<1>2. grown = [j \in D |-> GrownStep(grown, zl, k, j)]
  BY <1>1
<1>3. Cascade(zl, k) = Widened(zl, k, wider)
  BY DEF Cascade, Widened, WidenedEntry, GrownStep
<1> HIDE DEF grown
<1>4. \A j \in D : grown[j] <=> GrownStep(grown, zl, k, j)
  BY <1>2
<1>5. ASSUME NEW j \in Int
      PROVE  j \in wider <=> /\ j \in k + 1 .. n
                             /\ j = k + 1 \/ j - 1 \in wider
                             /\ TooNarrow(zl, j, j - 1 \in wider)
  <2>1. CASE j \in k + 1 .. n
    <3>1. j \in D /\ j - 1 \in D /\ j > k
      BY <2>1
    <3>2. (j \in wider <=> grown[j]) /\ (j - 1 \in wider <=> grown[j - 1])
      BY <3>1
    <3>3. grown[j] <=> GrownStep(grown, zl, k, j)
      BY <1>4, <3>1
    <3> HIDE DEF wider
    <3>4. CASE j - 1 \in wider
      BY <2>1, <3>1, <3>2, <3>3, <3>4 DEF TooNarrow, GrownStep, Growth
    <3>5. CASE j - 1 \notin wider
      BY <2>1, <3>1, <3>2, <3>3, <3>5 DEF TooNarrow, GrownStep, Growth
    <3>6. QED
      BY <3>4, <3>5
  <2>2. CASE j \notin k + 1 .. n
    <3>1. SUFFICES ASSUME j \in wider
                   PROVE  FALSE
      BY <2>2
    <3>2. j = k
      BY <2>2, <3>1
    <3>3. GrownStep(grown, zl, k, j)
      BY <1>4, <3>1
    <3>4. QED
      BY <3>2, <3>3 DEF GrownStep
  <2>3. QED
    BY <2>1, <2>2
<1>6. AreWidened(wider, zl, k) /\ wider \in SUBSET (k + 1 .. n)
  <2>1. \A j \in wider : j \in k + 1 .. n
    BY <1>5
  <2>2. AreWidened(wider, zl, k)
    <3> HIDE DEF wider
    <3>1. QED
      BY <1>5 DEF AreWidened
  <2>3. QED
    BY <2>1, <2>2
<1> HIDE DEF wider
<1>7. QED
  BY <1>3, <1>6

LEMMA PrevSizeIs ==
  \A len : PrevSize(len) \in {1, 5}
BY DEF PrevSize

\* What an entry of the result has.
LEMMA WidenedEntryIs ==
  ASSUME NEW zl \in Ziplist, NEW k \in 1 .. Len(zl.entries), NEW W \in SUBSET (k + 1 .. Len(zl.entries)), AreWidened(W, zl, k),
         NEW j \in 1 .. Len(zl.entries)
  PROVE  LET e == WidenedEntry(zl, k, W, j)
         IN /\ e \in Entry /\ e.val = zl.entries[j].val
            /\ RawLength(e) = RawLength(zl.entries[j]) + Growth(j \in W)
            /\ j <= k => e = zl.entries[j]
            /\ j = k + 1 \/ j - 1 \in W =>
                 /\ e.prevlen = RawLength(zl.entries[j - 1]) + Growth(j - 1 \in W)
                 /\ e.prevsize \in {PrevSize(e.prevlen), 5}
            /\ ~(j = k + 1 \/ j - 1 \in W) => e = zl.entries[j]
<1> DEFINE n == Len(zl.entries)
           old == zl.entries[j]
           len == RawLength(zl.entries[j - 1]) + Growth(j - 1 \in W)
           e == WidenedEntry(zl, k, W, j)
<1>1. n \in Nat /\ old \in Entry
  BY EntriesAre
<1>2. /\ old.prevlen \in Nat /\ old.prevsize \in {1, 5} /\ old.val \in Value
      /\ old = [prevlen |-> old.prevlen, prevsize |-> old.prevsize, val |-> old.val]
  BY <1>1 DEF Entry
<1>3. RawLength(old) = old.prevsize + Payload(old.val) /\ Payload(old.val) \in Nat
  BY <1>1, RawLengthIs
<1>4. j \in W => (j = k + 1 \/ j - 1 \in W) /\ TooNarrow(zl, j, j - 1 \in W)
  BY DEF AreWidened
<1>5. j \in k + 1 .. n /\ (j = k + 1 \/ j - 1 \in W) => (j \in W <=> TooNarrow(zl, j, j - 1 \in W))
  BY DEF AreWidened
<1>6. \A i \in W : i > k /\ i \in Int
  OBVIOUS
<1>7. TooNarrow(zl, j, j - 1 \in W) <=> old.prevsize < PrevSize(len)
  BY DEF TooNarrow
<1>8. CASE ~(j = k + 1 \/ j - 1 \in W)
  <2>1. j \notin W /\ e = old
    BY <1>4, <1>8 DEF WidenedEntry
  <2>2. Growth(j \in W) = 0
    BY <2>1 DEF Growth
  <2> HIDE DEF e, old
  <2>3. RawLength(e) = RawLength(old) + Growth(j \in W)
    BY <1>3, <2>1, <2>2, <1>2
  <2>4. QED
    BY <1>1, <1>8, <2>1, <2>3 DEF e, old
<1>9. CASE j = k + 1 \/ j - 1 \in W
  <2>1. j > k /\ j \in k + 1 .. n /\ j - 1 \in 1 .. n
    BY <1>1, <1>6, <1>9
  <2>2. zl.entries[j - 1] \in Entry /\ RawLength(zl.entries[j - 1]) \in Nat
    BY <2>1, EntriesAre
  <2>3. len \in Nat
    BY <2>2 DEF Growth
  <2>4. e = [old EXCEPT !.prevlen = len, !.prevsize = IF j \in W THEN 5 ELSE @]
    BY <1>9 DEF WidenedEntry, Growth
  <2> DEFINE size == IF j \in W THEN 5 ELSE old.prevsize
  <2> HIDE DEF old, len
  <2>5. e = [prevlen |-> len, prevsize |-> size, val |-> old.val]
    <3> HIDE DEF e
    <3>1. QED
      BY <1>2, <2>4
  <2>6. size \in {1, 5}
    BY <1>2
  <2>7. size \in {PrevSize(len), 5}
    <3>1. j \in W <=> old.prevsize < PrevSize(len)
      BY <1>5, <1>7, <1>9, <2>1
    <3>2. PrevSize(len) \in {1, 5}
      BY PrevSizeIs
    <3>3. QED
      BY <1>2, <3>1, <3>2
  <2>8. size = old.prevsize + Growth(j \in W)
    <3>1. j \in W => old.prevsize = 1
      <4>1. j \in W => old.prevsize < PrevSize(len)
        BY <1>5, <1>7, <1>9, <2>1
      <4>2. QED
        BY <1>2, <4>1, PrevSizeIs
    <3>2. QED
      BY <1>2, <3>1 DEF Growth
  <2> HIDE DEF e, size
  <2>9. e.prevlen = len /\ e.prevsize = size /\ e.val = old.val
    BY <2>5
  <2>10. e \in Entry
    BY <1>2, <2>3, <2>5, <2>6 DEF Entry
  <2>11. RawLength(e) = RawLength(old) + Growth(j \in W)
    <3>1. RawLength(e) = size + Payload(old.val)
      BY <2>9 DEF RawLength
    <3>2. Growth(j \in W) \in Nat
      BY DEF Growth
    <3>3. QED
      BY <1>2, <1>3, <2>8, <3>1, <3>2
  <2>12. QED
    BY <1>9, <2>1, <2>7, <2>9, <2>10, <2>11 DEF e, old, len
<1>10. QED
  BY <1>8, <1>9

CascadeHas(zl, k, r, W) ==
  LET n == Len(zl.entries)
  IN /\ r.bytes = zl.bytes + 4 * Cardinality(W) /\ r.tail = zl.tail + 4 * Cardinality(W \ {n}) /\ r.length = zl.length
     /\ IsFiniteSet(W) /\ Cardinality(W) \in Nat /\ Cardinality(W \ {n}) \in Nat
     /\ r \in Ziplist /\ Len(r.entries) = n
     /\ \A j \in 1 .. n :
          /\ r.entries[j].val = zl.entries[j].val
          /\ RawLength(r.entries[j]) = RawLength(zl.entries[j]) + Growth(j \in W)
          /\ j <= k => r.entries[j] = zl.entries[j]
          /\ j = k + 1 \/ j - 1 \in W =>
               /\ r.entries[j].prevlen = RawLength(zl.entries[j - 1]) + Growth(j - 1 \in W)
               /\ r.entries[j].prevsize \in {PrevSize(r.entries[j].prevlen), 5}
          /\ ~(j = k + 1 \/ j - 1 \in W) => r.entries[j] = zl.entries[j]

LEMMA CascadeParts ==
  ASSUME NEW zl \in Ziplist, NEW k \in 1 .. Len(zl.entries)
  PROVE  \E W \in SUBSET (k + 1 .. Len(zl.entries)) : CascadeHas(zl, k, Cascade(zl, k), W)
<1> DEFINE n == Len(zl.entries)
           r == Cascade(zl, k)
           raw(j) == RawLength(zl.entries[j])
           entry(j) == r.entries[j]
<1>1. n \in Nat /\ k \in Nat /\ n >= 1 /\ zl.bytes \in Nat /\ zl.tail \in Nat /\ zl.length \in Nat
  BY EntriesAre
<1>2. PICK W \in SUBSET (k + 1 .. n) : AreWidened(W, zl, k) /\ r = Widened(zl, k, W)
  BY <1>1, CascadeWidens
<1>3. IsFiniteSet(W) /\ Cardinality(W) \in Nat /\ IsFiniteSet(W \ {n}) /\ Cardinality(W \ {n}) \in Nat
  <2>1. IsFiniteSet(k + 1 .. n)
    <3>1. k + 1 \in Int /\ n \in Int
      BY <1>1
    <3> HIDE DEF n
    <3>2. QED
      BY <3>1, FS_Interval
  <2>2. IsFiniteSet(W) /\ IsFiniteSet(W \ {n})
    BY <2>1, FS_Subset
  <2>3. QED
    BY <2>2, FS_CardinalityType
<1>4. /\ r.bytes = zl.bytes + 4 * Cardinality(W) /\ r.tail = zl.tail + 4 * Cardinality(W \ {n}) /\ r.length = zl.length
      /\ r = [bytes |-> r.bytes, tail |-> r.tail, length |-> r.length, entries |-> r.entries]
      /\ r.entries = [j \in 1 .. n |-> WidenedEntry(zl, k, W, j)]
  <2>1. zl = [bytes |-> zl.bytes, tail |-> zl.tail, length |-> zl.length, entries |-> zl.entries]
    BY DEF Ziplist
  <2> HIDE DEF r
  <2>2. QED
    BY <1>2, <2>1 DEF Widened
<1> HIDE DEF r
<1>5. \A j \in 1 .. n : /\ entry(j) = WidenedEntry(zl, k, W, j) /\ entry(j) \in Entry
  <2>1. \A j \in 1 .. n : WidenedEntry(zl, k, W, j) \in Entry
    BY <1>2, WidenedEntryIs
  <2>2. QED
    BY <1>4, <2>1
<1>6. \A j \in 1 .. n :
        /\ entry(j).val = zl.entries[j].val
        /\ RawLength(entry(j)) = raw(j) + Growth(j \in W)
        /\ j <= k => entry(j) = zl.entries[j]
        /\ j = k + 1 \/ j - 1 \in W =>
             /\ entry(j).prevlen = raw(j - 1) + Growth(j - 1 \in W)
             /\ entry(j).prevsize \in {PrevSize(entry(j).prevlen), 5}
        /\ ~(j = k + 1 \/ j - 1 \in W) => entry(j) = zl.entries[j]
  <2>1. SUFFICES ASSUME NEW j \in 1 .. n
                 PROVE  LET e == entry(j)
                        IN /\ e.val = zl.entries[j].val
                           /\ RawLength(e) = RawLength(zl.entries[j]) + Growth(j \in W)
                           /\ j <= k => e = zl.entries[j]
                           /\ j = k + 1 \/ j - 1 \in W =>
                                /\ e.prevlen = RawLength(zl.entries[j - 1]) + Growth(j - 1 \in W)
                                /\ e.prevsize \in {PrevSize(e.prevlen), 5}
                           /\ ~(j = k + 1 \/ j - 1 \in W) => e = zl.entries[j]
    OBVIOUS
  <2>2. entry(j) = WidenedEntry(zl, k, W, j)
    BY <1>5
  <2>3. QED
    BY <1>2, <2>2, WidenedEntryIs
<1>7. Len(r.entries) = n /\ r \in Ziplist
  <2>1. r.entries \in [1 .. n -> Entry]
    BY <1>4, <1>5
  <2>2. r.entries \in Seq(Entry) /\ Len(r.entries) = n
    BY <1>1, <2>1
  <2>3. r.bytes \in Nat /\ r.tail \in Nat /\ r.length \in Nat
    <3> DEFINE c1 == Cardinality(W)
               c2 == Cardinality(W \ {n})
    <3>1. c1 \in Nat /\ c2 \in Nat
      BY <1>3
    <3>2. r.bytes = zl.bytes + 4 * c1 /\ r.tail = zl.tail + 4 * c2 /\ r.length = zl.length
      BY <1>4
    <3> HIDE DEF c1, c2
    <3>3. QED
      BY <1>1, <3>1, <3>2
  <2>4. QED
    BY <1>4, <2>2, <2>3 DEF Ziplist
<1>8. QED
  BY <1>3, <1>4, <1>6, <1>7 DEF CascadeHas, r

\* A cascade changes no value, and nothing up to the entry where it begins.
LEMMA CascadeKeeps ==
  ASSUME NEW zl \in Ziplist, NEW k \in 1 .. Len(zl.entries)
  PROVE  LET r == Cascade(zl, k)
         IN /\ r \in Ziplist /\ Len(r.entries) = Len(zl.entries) /\ r.length = zl.length
            /\ r.bytes >= zl.bytes /\ r.tail >= zl.tail
            /\ \A j \in 1 .. Len(zl.entries) : r.entries[j].val = zl.entries[j].val
            /\ \A j \in 1 .. k : r.entries[j] = zl.entries[j]
<1> DEFINE r == Cascade(zl, k)
<1>1. PICK W \in SUBSET (k + 1 .. Len(zl.entries)) : CascadeHas(zl, k, r, W)
  BY CascadeParts
<1> HIDE DEF r
<1> DEFINE n == Len(zl.entries)
<1>2. zl.bytes \in Nat /\ zl.tail \in Nat /\ n \in Nat
  BY EntriesAre
<1>3. /\ r.bytes = zl.bytes + 4 * Cardinality(W) /\ Cardinality(W) \in Nat
      /\ r.tail = zl.tail + 4 * Cardinality(W \ {n}) /\ Cardinality(W \ {n}) \in Nat
  BY <1>1 DEF CascadeHas
<1>4. r.bytes >= zl.bytes /\ r.tail >= zl.tail
  BY <1>2, <1>3
<1>5. \A j \in 1 .. k : j \in 1 .. Len(zl.entries) /\ j <= k
  BY <1>2
<1>6. QED
  BY <1>1, <1>4, <1>5 DEF CascadeHas, r

\* The cascade mends the lengths after entry k: of the entry that follows it,
\* and of all those it has to widen.
LEMMA CascadeIs ==
  ASSUME NEW zl \in Ziplist, NEW k \in 1 .. Len(zl.entries),
         zl.bytes = Offset(zl, Len(zl.entries) + 1) + 1,
         zl.tail = Offset(zl, Len(zl.entries)),
         zl.length < UINT16_MAX => zl.length = Len(zl.entries),
         \A j \in 1 .. Len(zl.entries) : j # k + 1 => PrevlenAgrees(zl, j)
  PROVE  GoodZiplist(Cascade(zl, k))
<1> DEFINE n == Len(zl.entries)
           r == Cascade(zl, k)
           raw(j) == RawLength(zl.entries[j])
           entry(j) == r.entries[j]
<1>1. n \in Nat /\ k \in Nat /\ n >= 1 /\ zl.bytes \in Nat /\ zl.tail \in Nat /\ zl.length \in Nat
  BY EntriesAre
<1>2. PICK W \in SUBSET (k + 1 .. n) : CascadeHas(zl, k, r, W)
  BY CascadeParts
<1> HIDE DEF r
<1>3. IsFiniteSet(W) /\ Cardinality(W) \in Nat /\ Cardinality(W \ {n}) \in Nat
  BY <1>2 DEF CascadeHas
<1>4. /\ r.bytes = zl.bytes + 4 * Cardinality(W) /\ r.tail = zl.tail + 4 * Cardinality(W \ {n}) /\ r.length = zl.length
  BY <1>2 DEF CascadeHas
<1>6. \A j \in 1 .. n :
        /\ entry(j).val = zl.entries[j].val
        /\ RawLength(entry(j)) = raw(j) + Growth(j \in W)
        /\ j <= k => entry(j) = zl.entries[j]
        /\ j = k + 1 \/ j - 1 \in W =>
             /\ entry(j).prevlen = raw(j - 1) + Growth(j - 1 \in W)
             /\ entry(j).prevsize \in {PrevSize(entry(j).prevlen), 5}
        /\ ~(j = k + 1 \/ j - 1 \in W) => entry(j) = zl.entries[j]
  BY <1>2 DEF CascadeHas
<1>7. Len(r.entries) = n /\ r \in Ziplist
  BY <1>2 DEF CascadeHas
<1> DEFINE below(j) == {i \in W : i < j}
           at == [j \in 1 .. n + 1 |-> Offset(zl, j) + 4 * Cardinality(below(j))]
<1>8. \A j \in 1 .. n + 1 : IsFiniteSet(below(j)) /\ Cardinality(below(j)) \in Nat
  <2>1. \A j \in 1 .. n + 1 : below(j) \in SUBSET W
    OBVIOUS
  <2>2. \A j \in 1 .. n + 1 : IsFiniteSet(below(j))
    BY <1>3, <2>1, FS_Subset
  <2>3. QED
    BY <2>2, FS_CardinalityType
<1>9. \A j \in 1 .. n : 4 * Cardinality(below(j + 1)) = 4 * Cardinality(below(j)) + Growth(j \in W)
  <2>0. \A i \in W : i \in Int
    OBVIOUS
  <2>1. SUFFICES ASSUME NEW j \in 1 .. n
                 PROVE  4 * Cardinality(below(j + 1)) = 4 * Cardinality(below(j)) + Growth(j \in W)
    OBVIOUS
  <2>2. j \in 1 .. n + 1 /\ j \in Int
    BY <1>1
  <2>3. IsFiniteSet(below(j)) /\ Cardinality(below(j)) \in Nat
    BY <1>8, <2>2
  <2>4. CASE j \in W
    <3>1. below(j + 1) = below(j) \cup {j} /\ j \notin below(j)
      <4>1. \A i \in W : i < j + 1 <=> i < j \/ i = j
        BY <2>0, <2>2
      <4>2. ~(j < j)
        BY <2>2
      <4>3. QED
        BY <2>4, <4>1, <4>2
    <3>2. Cardinality(below(j + 1)) = Cardinality(below(j)) + 1
      BY <2>3, <3>1, FS_AddElement
    <3>3. QED
      BY <2>3, <2>4, <3>2 DEF Growth
  <2>5. CASE j \notin W
    <3>1. below(j + 1) = below(j)
      <4>1. \A i \in W : i < j + 1 <=> i < j \/ i = j
        BY <2>0, <2>2
      <4>2. QED
        BY <2>5, <4>1
    <3>2. Growth(j \in W) = 0
      BY <2>5 DEF Growth
    <3> HIDE DEF below
    <3>3. QED
      BY <2>3, <3>1, <3>2
  <2>6. QED
    BY <2>4, <2>5
<1>10. /\ Offset(zl, 1) = ZIPLIST_HEADER_SIZE
       /\ \A j \in 1 .. n + 1 : Offset(zl, j) \in Nat
       /\ \A j \in 1 .. n : Offset(zl, j + 1) = Offset(zl, j) + raw(j)
  BY OffsetIs
<1>11. below(1) = {} /\ below(n + 1) = W /\ below(n) = W \ {n}
  <2>1. \A i \in W : i \in Int /\ i > k /\ i <= n
    BY <1>1
  <2>2. \A i \in W : ~(i < 1) /\ i < n + 1 /\ (i < n <=> i # n)
    BY <1>1, <2>1
  <2>3. below(1) = {}
    BY <2>2
  <2>4. below(n + 1) = W
    BY <2>2
  <2>5. below(n) = W \ {n}
    BY <2>2
  <2>6. QED
    BY <2>3, <2>4, <2>5
<1> HIDE DEF below
<1>12. \A j \in 1 .. n + 1 : Offset(r, j) = Offset(zl, j) + 4 * Cardinality(below(j))
  <2>1. at[1] = ZIPLIST_HEADER_SIZE
    <3>1. 1 \in 1 .. n + 1
      BY <1>1
    <3>2. at[1] = Offset(zl, 1) + 4 * Cardinality(below(1))
      BY <3>1
    <3>3. Cardinality(below(1)) = 0
      BY <1>11, FS_EmptySet
    <3> HIDE DEF at
    <3>4. QED
      BY <1>10, <3>2, <3>3 DEF ZIPLIST_HEADER_SIZE
  <2>2. ASSUME NEW j \in 1 .. n
        PROVE  at[j + 1] = at[j] + RawLength(entry(j))
    <3>1. j \in 1 .. n + 1 /\ j + 1 \in 1 .. n + 1
      BY <1>1
    <3>2. raw(j) \in Nat /\ Growth(j \in W) \in Nat
      BY EntriesAre DEF Growth
    <3>3. at[j + 1] = Offset(zl, j + 1) + 4 * Cardinality(below(j + 1)) /\ at[j] = Offset(zl, j) + 4 * Cardinality(below(j))
      BY <3>1
    <3>4. /\ 4 * Cardinality(below(j + 1)) = 4 * Cardinality(below(j)) + Growth(j \in W)
          /\ Offset(zl, j + 1) = Offset(zl, j) + raw(j) /\ RawLength(entry(j)) = raw(j) + Growth(j \in W)
          /\ Offset(zl, j) \in Nat /\ Cardinality(below(j)) \in Nat
      BY <1>6, <1>8, <1>9, <1>10, <3>1
    <3> HIDE DEF at, raw, entry
    <3>5. QED
      BY <3>2, <3>3, <3>4
  <2>3. \A j \in 1 .. n + 1 : at[j] = Offset(zl, j) + 4 * Cardinality(below(j))
    OBVIOUS
  <2> HIDE DEF at
  <2>4. \A j \in 1 .. Len(r.entries) : at[j + 1] = at[j] + RawLength(r.entries[j])
    BY <1>7, <2>2
  <2>5. \A j \in 1 .. Len(r.entries) + 1 : Offset(r, j) = at[j]
    BY <1>7, <2>1, <2>4, OffsetsAre
  <2>6. QED
    BY <1>7, <2>3, <2>5
<1>13. r.bytes = Offset(r, n + 1) + 1
  <2>1. n + 1 \in 1 .. n + 1
    BY <1>1
  <2>2. Offset(r, n + 1) = Offset(zl, n + 1) + 4 * Cardinality(W)
    BY <1>11, <1>12, <2>1
  <2>3. Offset(zl, n + 1) \in Nat
    BY <1>10, <2>1
  <2>4. QED
    BY <1>3, <1>4, <2>2, <2>3
<1>14. r.tail = Offset(r, n)
  <2>1. n \in 1 .. n + 1
    BY <1>1
  <2>2. Offset(r, n) = Offset(zl, n) + 4 * Cardinality(W \ {n})
    BY <1>11, <1>12, <2>1
  <2>3. QED
    BY <1>4, <2>2
<1>15. ASSUME NEW j \in 1 .. n
       PROVE  PrevlenAgrees(r, j)
  <2>1. CASE j = k + 1 \/ j - 1 \in W
    <3>1. j # 1 /\ j - 1 \in 1 .. n
      BY <1>1, <2>1
    <3>2. RawLength(entry(j - 1)) = raw(j - 1) + Growth(j - 1 \in W)
      BY <1>6, <3>1
    <3>3. entry(j).prevlen = raw(j - 1) + Growth(j - 1 \in W) /\ entry(j).prevsize \in {PrevSize(entry(j).prevlen), 5}
      BY <1>6, <2>1
    <3>4. QED
      BY <3>1, <3>2, <3>3 DEF PrevlenAgrees
  <2>2. CASE ~(j = k + 1 \/ j - 1 \in W)
    <3>1. entry(j) = zl.entries[j] /\ PrevlenAgrees(zl, j)
      BY <1>6, <2>2
    <3>2. CASE j = 1
      BY <3>1, <3>2 DEF PrevlenAgrees
    <3>3. CASE j # 1
      <4>1. j - 1 \in 1 .. n
        BY <1>1, <3>3
      <4>2. RawLength(entry(j - 1)) = raw(j - 1) + Growth(j - 1 \in W) /\ raw(j - 1) \in Nat
        BY <1>6, <4>1, EntriesAre
      <4>3. RawLength(entry(j - 1)) = raw(j - 1)
        BY <2>2, <4>2 DEF Growth
      <4>4. QED
        BY <3>1, <3>3, <4>3 DEF PrevlenAgrees
    <3>4. QED
      BY <3>2, <3>3
  <2>3. QED
    BY <2>1, <2>2
<1>16. GoodZiplist(r)
  <2>1. r.entries # <<>>
    BY <1>1, <1>7
  <2>2. QED
    BY <1>4, <1>7, <1>13, <1>14, <1>15, <2>1, GoodIs
<1>17. QED
  BY <1>16 DEF r

----------------------------------------------------------------------------
\* __ziplistInsert

PrevlenAt(zl, k) ==
  IF k <= Len(zl.entries) THEN zl.entries[k].prevlen
  ELSE IF IsEnd(zl, zl.tail) THEN 0
  ELSE RawLength(EntryAt(zl, zl.tail))

NewEntry(zl, k, v) == [prevlen |-> PrevlenAt(zl, k), prevsize |-> PrevSize(PrevlenAt(zl, k)), val |-> v]

\* By how much the field of the entry at k grows.
NextDiff(zl, k, v) ==
  IF k <= Len(zl.entries) THEN PrevSize(RawLength(NewEntry(zl, k, v))) - zl.entries[k].prevsize ELSE 0

Lost(zl, k, v) == RawLength(NewEntry(zl, k, v)) + NextDiff(zl, k, v) < 0

MovedEntry(zl, k, v, j) ==
  LET w == IF j = k THEN Preceded(zl.entries[j], RawLength(NewEntry(zl, k, v))) ELSE zl.entries[j]
  IN IF j = Len(zl.entries) /\ Lost(zl, k, v) THEN [w EXCEPT !.val = Damaged] ELSE w

Moved(zl, k, v) == [j \in 1 .. Len(zl.entries) |-> MovedEntry(zl, k, v, j)]

\* The ziplist before the cascade.
Opened(zl, k, v) ==
  LET n == Len(zl.entries)
      len == RawLength(NewEntry(zl, k, v))
      diff == NextDiff(zl, k, v)
  IN [bytes |-> zl.bytes + len + diff,
      tail |-> IF k > n THEN Offset(zl, k) ELSE zl.tail + len + (IF k < n THEN diff ELSE 0),
      length |-> IncrLength(zl, 1),
      entries |-> SubSeq(Moved(zl, k, v), 1, k - 1) \o <<NewEntry(zl, k, v)>> \o SubSeq(Moved(zl, k, v), k, n)]

LEMMA InsertOpens ==
  ASSUME NEW zl \in Ziplist, NEW k \in 1 .. Len(zl.entries) + 1, NEW v
  PROVE  ZiplistInsert(zl, Offset(zl, k), v) =
           IF NextDiff(zl, k, v) # 0 THEN Cascade(Opened(zl, k, v), k + 1) ELSE Opened(zl, k, v)
<1>1. PosOf(zl, Offset(zl, k)) = k
  BY PosOfOffset
<1>2. QED
  BY <1>1 DEF ZiplistInsert, Opened, Moved, MovedEntry, Lost, NextDiff, NewEntry, PrevlenAt

\* A sequence with an element put in.
With(s, k, x) == SubSeq(s, 1, k - 1) \o <<x>> \o SubSeq(s, k, Len(s))

IsWith(t, S, s, k, x) ==
  /\ t \in Seq(S) /\ Len(t) = Len(s) + 1
  /\ \A j \in 1 .. Len(s) + 1 : t[j] = IF j < k THEN s[j] ELSE IF j = k THEN x ELSE s[j - 1]

LEMMA WithIs ==
  ASSUME NEW S, NEW s \in Seq(S), NEW x \in S, NEW k \in 1 .. Len(s) + 1
  PROVE  IsWith(With(s, k, x), S, s, k, x)
<1> DEFINE n == Len(s)
           a == SubSeq(s, 1, k - 1)
           b == SubSeq(s, k, n)
           t == a \o <<x>> \o b
<1>1. n \in Nat /\ k \in Int
  OBVIOUS
<1>2. a \in Seq(S) /\ Len(a) = k - 1 /\ \A j \in 1 .. k - 1 : a[j] = s[j]
  BY <1>1
<1>3. b \in Seq(S) /\ Len(b) = n - k + 1 /\ \A j \in 1 .. n - k + 1 : b[j] = s[k + j - 1]
  BY <1>1
<1> DEFINE c == a \o <<x>>
<1>4. c \in Seq(S) /\ Len(c) = k /\ c[k] = x /\ \A j \in 1 .. k - 1 : c[j] = s[j]
  <2> HIDE DEF a
  <2>1. QED
    BY <1>1, <1>2
<1> HIDE DEF a, b, c, n
<1>5. c \o b \in Seq(S) /\ Len(c \o b) = n + 1
  BY <1>1, <1>3, <1>4
<1>6. ASSUME NEW j \in 1 .. n + 1
      PROVE  (c \o b)[j] = IF j < k THEN s[j] ELSE IF j = k THEN x ELSE s[j - 1]
  <2>1. CASE j < k
    <3>1. j \in 1 .. Len(c) /\ j \in 1 .. k - 1
      BY <1>1, <1>4, <2>1
    <3>2. (c \o b)[j] = c[j]
      BY <1>3, <1>4, <3>1
    <3>3. QED
      BY <1>4, <2>1, <3>1, <3>2
  <2>2. CASE j = k
    <3>1. (c \o b)[j] = c[j]
      BY <1>1, <1>3, <1>4, <2>2
    <3>2. QED
      BY <1>4, <2>2, <3>1
  <2>3. CASE j > k
    <3>0. j \in Int /\ j <= n + 1 /\ Len(c) = k
      BY <1>1, <1>4
    <3>1. j - k \in 1 .. n - k + 1 /\ k + (j - k) - 1 = j - 1 /\ Len(c) + (j - k) = j /\ ~(j < k) /\ j # k
      BY <1>1, <2>3, <3>0
    <3>2. (c \o b)[Len(c) + (j - k)] = b[j - k]
      BY <1>1, <1>3, <1>4, <3>1
    <3>3. b[j - k] = s[j - 1]
      BY <1>3, <3>1
    <3>4. QED
      BY <3>1, <3>2, <3>3
  <2>4. j < k \/ j = k \/ j > k
    <3>1. j \in Int
      BY <1>1
    <3>2. QED
      BY <1>1, <3>1
  <2>5. QED
    BY <2>1, <2>2, <2>3, <2>4
<1>7. With(s, k, x) = c \o b
  BY DEF With, a, b, c, n
<1>8. n = Len(s)
  BY DEF n
<1>9. QED
  BY <1>5, <1>6, <1>7, <1>8 DEF IsWith

LEMMA DamagedIs == Damaged \in Value /\ Payload(Damaged) = 1
<1>1. Damaged = [num |-> FALSE, n |-> -1, len |-> 0]
  BY DEF Damaged, String
<1>2. Damaged \in Value
  BY <1>1 DEF Value
<1>3. ~Damaged.num /\ Damaged.len = 0
  BY <1>1
<1>4. Payload(Damaged) = 1
  BY <1>3 DEF Payload, LenSize
<1>5. QED
  BY <1>2, <1>4

LEMMA PrecededIs ==
  ASSUME NEW e \in Entry, NEW len \in Nat
  PROVE  /\ Preceded(e, len) \in Entry /\ Preceded(e, len).val = e.val
         /\ Preceded(e, len).prevlen = len /\ Preceded(e, len).prevsize = PrevSize(len)
         /\ RawLength(Preceded(e, len)) = RawLength(e) + PrevSize(len) - e.prevsize
<1> DEFINE w == Preceded(e, len)
<1>1. e = [prevlen |-> e.prevlen, prevsize |-> e.prevsize, val |-> e.val] /\ e.val \in Value /\ e.prevsize \in {1, 5}
  BY DEF Entry
<1> DEFINE size == PrevSize(len)
<1>0. w = [e EXCEPT !.prevlen = len, !.prevsize = size]
  BY DEF Preceded
<1> HIDE DEF w, size
<1>2. w = [prevlen |-> len, prevsize |-> PrevSize(len), val |-> e.val]
  BY <1>0, <1>1 DEF size
<1>3. PrevSize(len) \in {1, 5}
  BY PrevSizeIs
<1>4. w \in Entry
  BY <1>1, <1>2, <1>3 DEF Entry
<1>5. RawLength(w) = PrevSize(len) + Payload(e.val) /\ RawLength(e) = e.prevsize + Payload(e.val) /\ Payload(e.val) \in Nat
  BY <1>2, RawLengthIs DEF RawLength
<1>6. RawLength(w) = RawLength(e) + PrevSize(len) - e.prevsize
  BY <1>1, <1>3, <1>5
<1>7. QED
  BY <1>2, <1>4, <1>6 DEF w

LEMMA NewEntryIs ==
  ASSUME NEW zl, NEW k, NEW v \in Value, PrevlenAt(zl, k) \in Nat
  PROVE  LET e == NewEntry(zl, k, v)
         IN /\ e \in Entry /\ e.val = v /\ e.prevlen = PrevlenAt(zl, k) /\ e.prevsize = PrevSize(e.prevlen)
            /\ RawLength(e) \in Nat /\ RawLength(e) >= 2
<1> DEFINE e == NewEntry(zl, k, v)
           len == PrevlenAt(zl, k)
<1>1. e = [prevlen |-> len, prevsize |-> PrevSize(len), val |-> v]
  BY DEF NewEntry
<1> HIDE DEF e, len
<1>2. e \in Entry
  BY <1>1, PrevSizeIs DEF Entry, len
<1>3. QED
  BY <1>1, <1>2, RawLengthIs DEF e, len

LEMMA NextDiffIs ==
  ASSUME NEW zl \in Ziplist, NEW k \in 1 .. Len(zl.entries) + 1, NEW v \in Value, PrevlenAt(zl, k) \in Nat
  PROVE  /\ NextDiff(zl, k, v) \in {-4, 0, 4}
         /\ k = Len(zl.entries) + 1 => NextDiff(zl, k, v) = 0
         /\ Lost(zl, k, v) => NextDiff(zl, k, v) = -4 /\ k <= Len(zl.entries)
<1> DEFINE n == Len(zl.entries)
           len == RawLength(NewEntry(zl, k, v))
           d == NextDiff(zl, k, v)
<1>1. n \in Nat /\ len \in Nat /\ len >= 2
  BY EntriesAre, NewEntryIs
<1>2. k <= n => d = PrevSize(len) - zl.entries[k].prevsize /\ zl.entries[k].prevsize \in {1, 5}
  <2>1. k <= n => k \in 1 .. n
    BY <1>1
  <2>2. \A j \in 1 .. n : zl.entries[j].prevsize \in {1, 5}
    BY EntriesAre DEF Entry
  <2>3. QED
    BY <2>1, <2>2 DEF NextDiff
<1>3. ~(k <= n) => d = 0
  BY DEF NextDiff
<1>4. Lost(zl, k, v) <=> len + d < 0
  BY DEF Lost
<1>5. k = n + 1 => ~(k <= n)
  BY <1>1
<1> HIDE DEF n, len, d
<1>6. d \in {-4, 0, 4}
  BY <1>2, <1>3, PrevSizeIs
<1>7. QED
  BY <1>1, <1>3, <1>4, <1>5, <1>6 DEF n, d

LEMMA MovedEntryIs ==
  ASSUME NEW zl \in Ziplist, NEW k \in 1 .. Len(zl.entries) + 1, NEW v \in Value, PrevlenAt(zl, k) \in Nat,
         NEW j \in 1 .. Len(zl.entries)
  PROVE  LET w == MovedEntry(zl, k, v, j)
             e == NewEntry(zl, k, v)
         IN /\ w \in Entry
            /\ w.prevlen = IF j = k THEN RawLength(e) ELSE zl.entries[j].prevlen
            /\ w.prevsize = IF j = k THEN PrevSize(RawLength(e)) ELSE zl.entries[j].prevsize
            /\ w.val = IF j = Len(zl.entries) /\ Lost(zl, k, v) THEN Damaged ELSE zl.entries[j].val
            /\ ~(j = Len(zl.entries) /\ Lost(zl, k, v)) =>
                 RawLength(w) = RawLength(zl.entries[j]) + (IF j = k THEN NextDiff(zl, k, v) ELSE 0)
<1> DEFINE n == Len(zl.entries)
           old == zl.entries[j]
           len == RawLength(NewEntry(zl, k, v))
           w == IF j = k THEN Preceded(old, len) ELSE old
           m == MovedEntry(zl, k, v, j)
<1>1. n \in Nat /\ old \in Entry /\ len \in Nat /\ RawLength(old) \in Nat
  BY EntriesAre, NewEntryIs
<1>2. m = IF j = n /\ Lost(zl, k, v) THEN [w EXCEPT !.val = Damaged] ELSE w
  BY DEF MovedEntry
<1>3. j = k => NextDiff(zl, k, v) = PrevSize(len) - old.prevsize
  <2>1. j <= n
    BY <1>1
  <2>2. QED
    BY <2>1 DEF NextDiff
<1>4. old.prevsize \in {1, 5} /\ PrevSize(len) \in {1, 5}
  BY <1>1, PrevSizeIs DEF Entry
<1> HIDE DEF n, old, len, m
<1>5. /\ w \in Entry /\ w.val = old.val
      /\ w.prevlen = IF j = k THEN len ELSE old.prevlen
      /\ w.prevsize = IF j = k THEN PrevSize(len) ELSE old.prevsize
  BY <1>1, PrecededIs
<1>6. RawLength(w) = RawLength(old) + (IF j = k THEN NextDiff(zl, k, v) ELSE 0)
  <2>1. CASE j = k
    <3>1. RawLength(w) = RawLength(old) + PrevSize(len) - old.prevsize
      BY <1>1, <2>1, PrecededIs
    <3>2. QED
      BY <1>1, <1>3, <1>4, <2>1, <3>1
  <2>2. CASE j # k
    BY <1>1, <2>2
  <2>3. QED
    BY <2>1, <2>2
<1> HIDE DEF w
<1>7. CASE ~(j = n /\ Lost(zl, k, v))
  BY <1>2, <1>5, <1>6, <1>7 DEF m, n, old, len
<1>8. CASE j = n /\ Lost(zl, k, v)
  <2>1. w = [prevlen |-> w.prevlen, prevsize |-> w.prevsize, val |-> w.val] /\ w.prevlen \in Nat /\ w.prevsize \in {1, 5}
    BY <1>5 DEF Entry
  <2>2. m = [prevlen |-> w.prevlen, prevsize |-> w.prevsize, val |-> Damaged]
    BY <1>2, <1>8, <2>1
  <2>3. m \in Entry
    BY <2>1, <2>2, DamagedIs DEF Entry
  <2>4. QED
    BY <1>5, <1>8, <2>2, <2>3 DEF m, n, old, len
<1>9. QED
  BY <1>7, <1>8

LEMMA OpenedIs ==
  ASSUME NEW zl \in Ziplist, NEW k \in 1 .. Len(zl.entries) + 1, NEW v \in Value, PrevlenAt(zl, k) \in Nat,
         zl.bytes >= 2, zl.tail >= 2
  PROVE  LET z == Opened(zl, k, v)
             len == RawLength(NewEntry(zl, k, v))
         IN /\ z \in Ziplist /\ Len(z.entries) = Len(zl.entries) + 1
            /\ z.bytes = zl.bytes + len + NextDiff(zl, k, v) /\ z.length = IncrLength(zl, 1)
            /\ z.tail = IF k > Len(zl.entries) THEN Offset(zl, k)
                        ELSE zl.tail + len + (IF k < Len(zl.entries) THEN NextDiff(zl, k, v) ELSE 0)
            /\ \A j \in 1 .. Len(zl.entries) + 1 :
                 z.entries[j] = IF j < k THEN zl.entries[j]
                                ELSE IF j = k THEN NewEntry(zl, k, v)
                                ELSE MovedEntry(zl, k, v, j - 1)
<1> DEFINE n == Len(zl.entries)
           e == NewEntry(zl, k, v)
           len == RawLength(e)
           d == NextDiff(zl, k, v)
           s == Moved(zl, k, v)
           t == SubSeq(s, 1, k - 1) \o <<e>> \o SubSeq(s, k, n)
           z == Opened(zl, k, v)
           tail == IF k > n THEN Offset(zl, k) ELSE zl.tail + len + (IF k < n THEN d ELSE 0)
<1>1. n \in Nat /\ zl.bytes \in Nat /\ zl.tail \in Nat /\ zl.length \in Nat
  BY EntriesAre
<1>2. e \in Entry /\ len \in Nat /\ len >= 2 /\ d \in {-4, 0, 4}
  BY NewEntryIs, NextDiffIs
<1>3. Offset(zl, k) \in Nat
  BY OffsetIs
<1>4. \A j \in 1 .. n : MovedEntry(zl, k, v, j) \in Entry
  BY MovedEntryIs
<1>5. s \in Seq(Entry) /\ Len(s) = n /\ \A j \in 1 .. n : s[j] = MovedEntry(zl, k, v, j)
  <2>1. s = [j \in 1 .. n |-> MovedEntry(zl, k, v, j)]
    BY DEF Moved
  <2> HIDE DEF n, s
  <2>2. s \in [1 .. n -> Entry]
    BY <1>4, <2>1
  <2>3. QED
    BY <1>1, <2>1, <2>2
<1>6. z = [bytes |-> zl.bytes + len + d, tail |-> tail, length |-> IncrLength(zl, 1), entries |-> t]
  BY DEF Opened
<1> HIDE DEF s, e, len, d, z
<1>7. t \in Seq(Entry) /\ Len(t) = n + 1 /\ \A j \in 1 .. n + 1 : t[j] = IF j < k THEN s[j] ELSE IF j = k THEN e ELSE s[j - 1]
  <2> HIDE DEF n
  <2> DEFINE u == With(s, k, e)
  <2>1. s \in Seq(Entry) /\ e \in Entry /\ k \in 1 .. Len(s) + 1
    BY <1>2, <1>5 DEF n
  <2>2. u \in Seq(Entry) /\ Len(u) = Len(s) + 1 /\ \A j \in 1 .. Len(s) + 1 : u[j] = IF j < k THEN s[j] ELSE IF j = k THEN e ELSE s[j - 1]
    <3>1. IsWith(u, Entry, s, k, e)
      BY <2>1, WithIs
    <3> HIDE DEF u
    <3>2. QED
      BY <3>1 DEF IsWith
  <2>3. u = t
    BY <1>5 DEF With
  <2> HIDE DEF u, t
  <2>4. QED
    BY <1>5, <2>2, <2>3
<1>8. \A j \in 1 .. n : j < k => MovedEntry(zl, k, v, j) = zl.entries[j]
  <2>1. Lost(zl, k, v) => k <= n
    BY NextDiffIs
  <2>2. \A j \in 1 .. n : j < k => j # k /\ ~(j = n /\ Lost(zl, k, v))
    BY <1>1, <2>1
  <2>3. QED
    BY <2>2 DEF MovedEntry
<1>9. ASSUME NEW j \in 1 .. n + 1
      PROVE  t[j] = IF j < k THEN zl.entries[j] ELSE IF j = k THEN e ELSE MovedEntry(zl, k, v, j - 1)
  <2>1. j < k => j \in 1 .. n
    BY <1>1
  <2>2. ~(j < k) /\ j # k => j - 1 \in 1 .. n
    BY <1>1
  <2> HIDE DEF t
  <2>3. QED
    BY <1>5, <1>7, <1>8, <2>1, <2>2
<1> HIDE DEF t
<1>10. zl.bytes + len + d \in Nat
  BY <1>1, <1>2
<1>11. tail \in Nat
  BY <1>1, <1>2, <1>3
<1>12. IncrLength(zl, 1) \in Nat
  BY <1>1 DEF IncrLength
<1> HIDE DEF tail
<1>13. z \in Ziplist
  BY <1>6, <1>7, <1>10, <1>11, <1>12 DEF Ziplist
<1>14. z.bytes = zl.bytes + len + d /\ z.tail = tail /\ z.length = IncrLength(zl, 1) /\ z.entries = t
  BY <1>6
<1>15. QED
  BY <1>7, <1>9, <1>13, <1>14 DEF z, len, e, d, tail

\* The length of the entry in front of place k.
LEMMA PrevlenAtIs ==
  ASSUME NEW zl, GoodZiplist(zl), NEW k \in 1 .. Len(zl.entries) + 1
  PROVE  PrevlenAt(zl, k) = (IF k = 1 THEN 0 ELSE RawLength(zl.entries[k - 1])) /\ PrevlenAt(zl, k) \in Nat
<1> DEFINE n == Len(zl.entries)
<1>1. zl \in Ziplist
  BY DEF GoodZiplist
<1>2. /\ zl.bytes = Offset(zl, n + 1) + 1 /\ zl.tail = Offset(zl, IF zl.entries = <<>> THEN 1 ELSE n)
      /\ \A j \in 1 .. n : PrevlenAgrees(zl, j)
  BY <1>1, GoodIs
<1>3. n \in Nat /\ (\A j \in 1 .. n : RawLength(zl.entries[j]) \in Nat) /\ (zl.entries = <<>> <=> n = 0)
  BY <1>1, EntriesAre
<1>4. PrevlenAt(zl, k) = IF k = 1 THEN 0 ELSE RawLength(zl.entries[k - 1])
  <2>1. CASE k <= n
    BY <1>2, <1>3, <2>1 DEF PrevlenAt, PrevlenAgrees
  <2>2. CASE ~(k <= n)
    <3>1. k = n + 1 /\ k - 1 = n
      BY <1>3, <2>2
    <3>2. zl.bytes - 1 = Offset(zl, n + 1) /\ Offset(zl, n + 1) \in Nat
      <4>1. Offset(zl, n + 1) \in Nat
        BY <1>1, <1>3, OffsetIs
      <4>2. QED
        BY <1>2, <4>1
    <3>3. CASE n = 0
      <4>1. n + 1 = 1 /\ zl.tail = Offset(zl, 1)
        BY <1>2, <1>3, <3>3
      <4>2. zl.tail = zl.bytes - 1
        BY <3>2, <4>1
      <4>3. QED
        BY <2>2, <3>1, <4>1, <4>2 DEF PrevlenAt, IsEnd
    <3>4. CASE n # 0
      <4>1. n \in 1 .. n + 1 /\ n + 1 \in 1 .. n + 1 /\ n < n + 1 /\ k # 1
        BY <1>3, <3>1, <3>4
      <4>2. zl.tail = Offset(zl, n)
        BY <1>2, <1>3, <3>4
      <4>3. Offset(zl, n) + 2 <= Offset(zl, n + 1) /\ Offset(zl, n) \in Nat
        BY <1>1, <4>1, OffsetIs, OffsetsAscend
      <4>4. zl.tail # zl.bytes - 1
        BY <3>2, <4>2, <4>3
      <4>5. EntryAt(zl, zl.tail) = zl.entries[n]
        BY <1>1, <4>1, <4>2, PosOfOffset DEF EntryAt
      <4>6. QED
        BY <2>2, <3>1, <4>1, <4>4, <4>5 DEF PrevlenAt, IsEnd
    <3>5. QED
      BY <3>3, <3>4
  <2>3. QED
    BY <2>1, <2>2
<1>5. k # 1 => k - 1 \in 1 .. n
  BY <1>3
<1>6. QED
  BY <1>3, <1>4, <1>5

\* Where entries come to: those in front of the new one stay.
LEMMA OpenedFront ==
  ASSUME NEW zl \in Ziplist, NEW k \in 1 .. Len(zl.entries) + 1, NEW v \in Value, PrevlenAt(zl, k) \in Nat,
         zl.bytes >= 2, zl.tail >= 2
  PROVE  LET z == Opened(zl, k, v)
         IN /\ \A j \in 1 .. k : Offset(z, j) = Offset(zl, j)
            /\ Offset(z, k + 1) = Offset(zl, k) + RawLength(NewEntry(zl, k, v))
            /\ z.entries[k] = NewEntry(zl, k, v)
<1> DEFINE n == Len(zl.entries)
           z == Opened(zl, k, v)
           e == NewEntry(zl, k, v)
<1>1. n \in Nat
  BY EntriesAre
<1>2. z \in Ziplist /\ Len(z.entries) = n + 1
  BY OpenedIs
<1>3. \A j \in 1 .. n + 1 : z.entries[j] = IF j < k THEN zl.entries[j]
                                           ELSE IF j = k THEN e
                                           ELSE MovedEntry(zl, k, v, j - 1)
  BY OpenedIs
<1> HIDE DEF z, n
<1>4. k \in Nat /\ k - 1 \in Nat /\ k - 1 <= n /\ k - 1 <= Len(z.entries) /\ k \in 1 .. n + 1 /\ k - 1 + 1 = k
  BY <1>1, <1>2 DEF n
<1>5. \A j \in 1 .. k - 1 : RawLength(z.entries[j]) = RawLength(zl.entries[j])
  <2>1. \A j \in 1 .. k - 1 : j \in 1 .. n + 1 /\ j < k
    BY <1>1, <1>4
  <2>2. QED
    BY <1>3, <2>1
<1>6. \A j \in 1 .. k : Offset(z, j) = Offset(zl, j)
  <2>1. \A j \in 1 .. k - 1 + 1 : Offset(z, j) = Offset(zl, j)
    BY <1>2, <1>4, <1>5, SameOffsets DEF n
  <2>2. QED
    BY <1>4, <2>1
<1>7. z.entries[k] = e
  <2>1. ~(k < k)
    BY <1>4
  <2>2. QED
    BY <1>3, <1>4, <2>1
<1>8. Offset(z, k + 1) = Offset(z, k) + RawLength(z.entries[k])
  BY <1>2, <1>4, OffsetIs
<1>9. k \in 1 .. k
  BY <1>4
<1>10. QED
  BY <1>6, <1>7, <1>8, <1>9 DEF z

\* Those behind it move by its length, and by what a field has grown.
LEMMA OpenedBehind ==
  ASSUME NEW zl \in Ziplist, NEW k \in 1 .. Len(zl.entries) + 1, NEW v \in Value, PrevlenAt(zl, k) \in Nat,
         zl.bytes >= 2, zl.tail >= 2, ~Lost(zl, k, v)
  PROVE  LET z == Opened(zl, k, v)
         IN \A j \in k + 1 .. Len(zl.entries) + 1 :
              Offset(z, j + 1) = Offset(zl, j) + RawLength(NewEntry(zl, k, v)) + NextDiff(zl, k, v)
<1> DEFINE n == Len(zl.entries)
           z == Opened(zl, k, v)
           e == NewEntry(zl, k, v)
           len == RawLength(e)
           d == NextDiff(zl, k, v)
<1>1. n \in Nat /\ k \in Nat
  BY EntriesAre
<1>2. z \in Ziplist /\ Len(z.entries) = n + 1
  BY OpenedIs
<1>3. \A j \in 1 .. n + 1 : z.entries[j] = IF j < k THEN zl.entries[j]
                                           ELSE IF j = k THEN e
                                           ELSE MovedEntry(zl, k, v, j - 1)
  BY OpenedIs
<1>4. \A j \in 1 .. n : RawLength(MovedEntry(zl, k, v, j)) = RawLength(zl.entries[j]) + (IF j = k THEN d ELSE 0)
  BY MovedEntryIs
<1>5. Offset(z, k + 1) = Offset(zl, k) + len
  BY OpenedFront
<1>6. len \in Nat /\ d \in Int
  BY NewEntryIs, NextDiffIs
<1>7. SUFFICES ASSUME k <= n
               PROVE  \A j \in k + 1 .. n + 1 : Offset(z, j + 1) = Offset(zl, j) + len + d
  BY <1>1
<1> HIDE DEF z, e, len, d
<1>8. \A j \in 1 .. n + 1 : Offset(zl, j) \in Nat
  BY OffsetIs
<1>9. \A j \in 1 .. n + 2 : Offset(z, j) \in Nat
  <2>1. \A j \in 1 .. Len(z.entries) + 1 : Offset(z, j) \in Nat
    BY <1>2, OffsetIs
  <2>2. \A j \in 1 .. n + 2 : j \in 1 .. Len(z.entries) + 1
    BY <1>1, <1>2
  <2>3. QED
    BY <2>1, <2>2
<1>10. Offset(z, k + 2) = Offset(zl, k + 1) + len + d
  <2>1. k + 1 \in 1 .. n + 1 /\ ~(k + 1 < k) /\ k + 1 # k /\ k + 1 - 1 = k /\ k \in 1 .. n /\ k + 1 + 1 = k + 2
        /\ k + 1 \in 1 .. Len(z.entries) /\ k \in 1 .. n + 1
    BY <1>1, <1>2, <1>7
  <2>2. z.entries[k + 1] = MovedEntry(zl, k, v, k)
    BY <1>3, <2>1
  <2>3. RawLength(z.entries[k + 1]) = RawLength(zl.entries[k]) + d
    BY <1>4, <2>1, <2>2
  <2>4. Offset(z, k + 1 + 1) = Offset(z, k + 1) + RawLength(z.entries[k + 1])
    BY <1>2, <2>1, OffsetIs
  <2>5. Offset(zl, k + 1) = Offset(zl, k) + RawLength(zl.entries[k])
    BY <2>1, OffsetIs
  <2>6. RawLength(zl.entries[k]) \in Nat /\ Offset(zl, k) \in Nat
    BY <1>8, <2>1, EntriesAre
  <2>7. Offset(z, k + 2) = Offset(z, k + 1) + RawLength(z.entries[k + 1])
    BY <2>1, <2>4
  <2>8. QED
    BY <1>5, <1>6, <2>3, <2>5, <2>6, <2>7
<1>11. \A j \in k + 1 .. n + 1 : Offset(z, j + 1) - Offset(zl, j) = Offset(z, k + 1 + 1) - Offset(zl, k + 1)
  <2>1. \A j \in k + 1 .. n : RawLength(z.entries[j + 1]) = RawLength(zl.entries[j])
    <3>1. \A j \in k + 1 .. n : j \in 1 .. n /\ j + 1 \in 1 .. n + 1 /\ ~(j + 1 < k) /\ j + 1 # k /\ j + 1 - 1 = j /\ j # k
      BY <1>1
    <3>2. \A j \in k + 1 .. n : z.entries[j + 1] = MovedEntry(zl, k, v, j)
      <4>1. SUFFICES ASSUME NEW j \in k + 1 .. n
                     PROVE  z.entries[j + 1] = MovedEntry(zl, k, v, j)
        OBVIOUS
      <4>2. j + 1 \in 1 .. n + 1 /\ ~(j + 1 < k) /\ j + 1 # k /\ j + 1 - 1 = j
        BY <3>1
      <4> DEFINE i == j + 1
      <4>3. i \in 1 .. n + 1 /\ ~(i < k) /\ i # k /\ i - 1 = j
        BY <4>2
      <4> HIDE DEF i, n
      <4>4. z.entries[i] = MovedEntry(zl, k, v, j)
        BY <1>3, <4>3
      <4>5. QED
        BY <4>4 DEF i
    <3>3. \A j \in k + 1 .. n : RawLength(zl.entries[j]) \in Nat
      BY <3>1, EntriesAre
    <3>4. \A j \in k + 1 .. n : RawLength(MovedEntry(zl, k, v, j)) = RawLength(zl.entries[j]) + 0
      <4>1. SUFFICES ASSUME NEW j \in k + 1 .. n
                     PROVE  RawLength(MovedEntry(zl, k, v, j)) = RawLength(zl.entries[j]) + 0
        OBVIOUS
      <4>2. j \in 1 .. n /\ j # k
        BY <3>1
      <4>3. QED
        BY <1>4, <4>2
    <3> HIDE DEF n
    <3>5. QED
      BY <3>2, <3>3, <3>4
  <2>2. k + 1 \in Nat \ {0} /\ n \in Int /\ 1 \in Int /\ k + 1 <= n + 1 /\ n <= Len(zl.entries) /\ k + 1 + 1 >= 1 /\ n + 1 <= Len(z.entries)
    BY <1>1, <1>2, <1>7
  <2> DEFINE a == k + 1
  <2>3. \A j \in a .. n : RawLength(z.entries[j + 1]) = RawLength(zl.entries[j])
    BY <2>1
  <2>4. a \in Nat \ {0} /\ n \in Int /\ 1 \in Int /\ a <= n + 1 /\ n <= Len(zl.entries) /\ a + 1 >= 1 /\ n + 1 <= Len(z.entries)
    BY <2>2
  <2> HIDE DEF n, a
  <2>5. Shifted(zl, z, a, n, 1)
    BY <1>2, <2>3, <2>4, ShiftedOffsets
  <2>6. QED
    BY <2>5 DEF Shifted, a
<1>12. Offset(z, k + 1 + 1) = Offset(z, k + 2)
  <2>1. k + 1 + 1 = k + 2
    BY <1>1
  <2>2. QED
    BY <2>1
<1>13. ASSUME NEW j \in k + 1 .. n + 1
       PROVE  Offset(z, j + 1) = Offset(zl, j) + len + d
  <2>1. j \in 1 .. n + 1 /\ j + 1 \in 1 .. n + 2 /\ k + 1 \in 1 .. n + 1 /\ k + 2 \in 1 .. n + 2
    BY <1>1, <1>7
  <2>2. Offset(z, j + 1) \in Nat /\ Offset(zl, j) \in Nat /\ Offset(z, k + 2) \in Nat /\ Offset(zl, k + 1) \in Nat
    BY <1>8, <1>9, <2>1
  <2>3. Offset(z, j + 1) - Offset(zl, j) = Offset(z, k + 2) - Offset(zl, k + 1)
    BY <1>11, <1>12
  <2> DEFINE w == Offset(z, j + 1)
             x == Offset(zl, j)
             y == Offset(z, k + 2)
             u == Offset(zl, k + 1)
  <2>4. w \in Nat /\ x \in Nat /\ y \in Nat /\ u \in Nat /\ w - x = y - u
    BY <2>2, <2>3
  <2>5. y = u + len + d
    BY <1>10
  <2> HIDE DEF w, x, y, u
  <2>6. w = x + len + d
    BY <1>6, <2>4, <2>5
  <2>7. QED
    BY <2>6 DEF w, x
<1>14. QED
  BY <1>13

\* What a good ziplist has room for.
LEMMA GoodBounds ==
  ASSUME NEW zl, GoodZiplist(zl)
  PROVE  zl \in Ziplist /\ zl.bytes >= 2 /\ zl.tail >= 2
<1> DEFINE n == Len(zl.entries)
           m == IF zl.entries = <<>> THEN 1 ELSE n
<1>1. zl \in Ziplist
  BY DEF GoodZiplist
<1>2. zl.bytes = Offset(zl, n + 1) + 1 /\ zl.tail = Offset(zl, m)
  BY <1>1, GoodIs
<1>3. n \in Nat /\ (zl.entries = <<>> <=> n = 0)
  BY <1>1, EntriesAre
<1>4. \A j \in 1 .. n + 1 : Offset(zl, j) \in Nat /\ Offset(zl, j) >= 10
  <2>1. Offset(zl, 1) = 10 /\ \A j \in 1 .. n + 1 : Offset(zl, j) \in Nat
    BY <1>1, OffsetIs DEF ZIPLIST_HEADER_SIZE
  <2>2. 1 \in 1 .. n + 1
    BY <1>3
  <2>3. \A j \in 1 .. n + 1 : 1 < j => Offset(zl, 1) + 2 <= Offset(zl, j)
    BY <1>1, <2>2, OffsetsAscend
  <2>4. \A j \in 1 .. n + 1 : j = 1 \/ 1 < j
    BY <1>3
  <2>5. QED
    BY <2>1, <2>3, <2>4
<1>5. m \in 1 .. n + 1 /\ n + 1 \in 1 .. n + 1
  BY <1>3
<1> HIDE DEF m
<1>6. QED
  BY <1>1, <1>2, <1>4, <1>5

\* After an insertion that loses nothing only one length may be wrong, that in
\* front of the entry after the next.
LEMMA OpenedAgrees ==
  ASSUME NEW zl, GoodZiplist(zl), NEW k \in 1 .. Len(zl.entries) + 1, NEW v \in Value, ~Lost(zl, k, v)
  PROVE  LET z == Opened(zl, k, v)
         IN \A j \in 1 .. Len(z.entries) : j # k + 2 \/ NextDiff(zl, k, v) = 0 => PrevlenAgrees(z, j)
<1> DEFINE n == Len(zl.entries)
           z == Opened(zl, k, v)
           e == NewEntry(zl, k, v)
           len == RawLength(e)
           d == NextDiff(zl, k, v)
<1>1. zl \in Ziplist /\ zl.bytes >= 2 /\ zl.tail >= 2
  BY GoodBounds
<1>2. n \in Nat /\ k \in Nat
  BY <1>1, EntriesAre
<1>3. PrevlenAt(zl, k) = (IF k = 1 THEN 0 ELSE RawLength(zl.entries[k - 1])) /\ PrevlenAt(zl, k) \in Nat
  BY PrevlenAtIs
<1>4. Len(z.entries) = n + 1 /\
      \A j \in 1 .. n + 1 : z.entries[j] = IF j < k THEN zl.entries[j]
                                           ELSE IF j = k THEN e
                                           ELSE MovedEntry(zl, k, v, j - 1)
  BY <1>1, <1>3, OpenedIs
<1>5. \A j \in 1 .. n : PrevlenAgrees(zl, j)
  BY <1>1, GoodIs
<1>6. \A j \in 1 .. n :
        /\ MovedEntry(zl, k, v, j).prevlen = IF j = k THEN len ELSE zl.entries[j].prevlen
        /\ MovedEntry(zl, k, v, j).prevsize = IF j = k THEN PrevSize(len) ELSE zl.entries[j].prevsize
        /\ RawLength(MovedEntry(zl, k, v, j)) = RawLength(zl.entries[j]) + (IF j = k THEN d ELSE 0)
        /\ RawLength(zl.entries[j]) \in Nat
  <2>1. SUFFICES ASSUME NEW j \in 1 .. n
                 PROVE  /\ MovedEntry(zl, k, v, j).prevlen = IF j = k THEN len ELSE zl.entries[j].prevlen
                        /\ MovedEntry(zl, k, v, j).prevsize = IF j = k THEN PrevSize(len) ELSE zl.entries[j].prevsize
                        /\ RawLength(MovedEntry(zl, k, v, j)) = RawLength(zl.entries[j]) + (IF j = k THEN d ELSE 0)
                        /\ RawLength(zl.entries[j]) \in Nat
    OBVIOUS
  <2>2. RawLength(zl.entries[j]) \in Nat
    BY <1>1, EntriesAre
  <2> DEFINE w == MovedEntry(zl, k, v, j)
  <2>3. /\ w.prevlen = IF j = k THEN len ELSE zl.entries[j].prevlen
        /\ w.prevsize = IF j = k THEN PrevSize(len) ELSE zl.entries[j].prevsize
        /\ RawLength(w) = RawLength(zl.entries[j]) + (IF j = k THEN d ELSE 0)
    BY <1>1, <1>3, MovedEntryIs
  <2>4. QED
    BY <2>2, <2>3
<1>7. e.prevlen = PrevlenAt(zl, k) /\ e.prevsize = PrevSize(e.prevlen)
  BY <1>3, NewEntryIs
<1> HIDE DEF z, e, len, d, n
<1>8. ASSUME NEW j \in 1 .. n + 1, j # k + 2 \/ d = 0
      PROVE  PrevlenAgrees(z, j)
  <2>1. j \in Int /\ 1 <= j /\ j <= n + 1
    BY <1>2
  <2>2. CASE j < k
    <3>1. j \in 1 .. n
      BY <1>2, <2>1, <2>2 DEF n
    <3>2. z.entries[j] = zl.entries[j]
      BY <1>4, <2>2
    <3>3. j # 1 => j - 1 \in 1 .. n + 1 /\ j - 1 < k
      BY <1>2, <2>1, <2>2
    <3>4. j # 1 => z.entries[j - 1] = zl.entries[j - 1]
      BY <1>4, <3>3
    <3>5. PrevlenAgrees(zl, j)
      BY <1>5, <3>1
    <3>6. QED
      BY <3>2, <3>4, <3>5 DEF PrevlenAgrees
  <2>3. CASE j = k
    <3>1. z.entries[k] = e
      BY <1>2, <1>4, <2>3
    <3>2. k # 1 => k - 1 \in 1 .. n + 1 /\ k - 1 < k
      BY <1>2, <2>1, <2>3
    <3>3. k # 1 => z.entries[k - 1] = zl.entries[k - 1]
      BY <1>4, <3>2
    <3>4. QED
      BY <1>3, <1>7, <2>3, <3>1, <3>3 DEF PrevlenAgrees
  <2>4. CASE j = k + 1
    <3>1. ~(j < k) /\ j # k /\ j - 1 = k /\ k \in 1 .. n /\ j # 1 /\ k \in 1 .. n + 1 /\ ~(k < k)
      BY <1>2, <2>1, <2>4
    <3>2. z.entries[j] = MovedEntry(zl, k, v, k) /\ z.entries[j - 1] = e
      BY <1>4, <3>1
    <3>3. z.entries[j].prevlen = len /\ z.entries[j].prevsize = PrevSize(len)
      BY <1>6, <3>1, <3>2
    <3>4. QED
      BY <3>1, <3>2, <3>3 DEF PrevlenAgrees, len
  <2>5. CASE j > k + 1
    <3>1. /\ ~(j < k) /\ j # k /\ j - 1 # k /\ j - 1 \in 1 .. n /\ j # 1 /\ j - 1 # 1
          /\ j - 1 \in 1 .. n + 1 /\ ~(j - 1 < k) /\ j - 2 \in 1 .. n /\ j - 1 - 1 = j - 2
      BY <1>2, <2>1, <2>5
    <3>2. z.entries[j] = MovedEntry(zl, k, v, j - 1) /\ z.entries[j - 1] = MovedEntry(zl, k, v, j - 2)
      BY <1>4, <3>1
    <3>3. z.entries[j].prevlen = zl.entries[j - 1].prevlen /\ z.entries[j].prevsize = zl.entries[j - 1].prevsize
      BY <1>6, <3>1, <3>2
    <3>4. RawLength(z.entries[j - 1]) = RawLength(zl.entries[j - 2])
      <4>1. j - 2 = k => d = 0
        BY <1>2, <1>8, <2>1
      <4>2. RawLength(z.entries[j - 1]) = RawLength(zl.entries[j - 2]) + (IF j - 2 = k THEN d ELSE 0) /\ RawLength(zl.entries[j - 2]) \in Nat
        BY <1>6, <3>1, <3>2
      <4>3. QED
        BY <4>1, <4>2
    <3>5. PrevlenAgrees(zl, j - 1)
      BY <1>5, <3>1
    <3>6. QED
      BY <3>1, <3>3, <3>4, <3>5 DEF PrevlenAgrees
  <2>6. j < k \/ j = k \/ j = k + 1 \/ j > k + 1
    BY <1>2, <2>1
  <2>7. QED
    BY <2>2, <2>3, <2>4, <2>5, <2>6
<1>9. QED
  BY <1>4, <1>8 DEF z, d, n

LEMMA OpenedHeader ==
  ASSUME NEW zl, GoodZiplist(zl), NEW k \in 1 .. Len(zl.entries) + 1, NEW v \in Value, ~Lost(zl, k, v)
  PROVE  LET z == Opened(zl, k, v)
         IN /\ z.bytes = Offset(z, Len(z.entries) + 1) + 1
            /\ z.tail = Offset(z, Len(z.entries))
            /\ z.length < UINT16_MAX => z.length = Len(z.entries)
<1> DEFINE n == Len(zl.entries)
           z == Opened(zl, k, v)
           len == RawLength(NewEntry(zl, k, v))
           d == NextDiff(zl, k, v)
           m == IF zl.entries = <<>> THEN 1 ELSE n
<1>1. zl \in Ziplist /\ zl.bytes >= 2 /\ zl.tail >= 2
  BY GoodBounds
<1>2. n \in Nat /\ k \in Nat /\ (zl.entries = <<>> <=> n = 0) /\ zl.length \in Nat
  BY <1>1, EntriesAre
<1>3. PrevlenAt(zl, k) \in Nat
  BY PrevlenAtIs
<1>4. /\ zl.bytes = Offset(zl, n + 1) + 1 /\ zl.tail = Offset(zl, m)
      /\ zl.length < UINT16_MAX => zl.length = n
  BY <1>1, GoodIs
<1>5. /\ Len(z.entries) = n + 1 /\ z.bytes = zl.bytes + len + d /\ z.length = IncrLength(zl, 1)
      /\ z.tail = IF k > n THEN Offset(zl, k) ELSE zl.tail + len + (IF k < n THEN d ELSE 0)
  BY <1>1, <1>3, OpenedIs
<1>6. len \in Nat /\ d \in Int /\ (k = n + 1 => d = 0)
  BY <1>1, <1>3, NewEntryIs, NextDiffIs
<1>7. (\A j \in 1 .. k : Offset(z, j) = Offset(zl, j)) /\ Offset(z, k + 1) = Offset(zl, k) + len
  BY <1>1, <1>3, OpenedFront
<1>8. \A j \in k + 1 .. n + 1 : Offset(z, j + 1) = Offset(zl, j) + len + d
  BY <1>1, <1>3, OpenedBehind
<1>9. \A j \in 1 .. n + 1 : Offset(zl, j) \in Nat
  BY <1>1, OffsetIs
<1> HIDE DEF z, len, d
<1>10. z.length < UINT16_MAX => z.length = n + 1
  BY <1>2, <1>4, <1>5, ZipListAssumption DEF IncrLength
<1>11. z.bytes = Offset(z, n + 2) + 1
  <2>1. CASE k = n + 1
    <3>1. k + 1 = n + 2 /\ Offset(zl, n + 1) \in Nat
      BY <1>2, <1>9, <2>1
    <3>2. Offset(z, n + 2) = Offset(zl, n + 1) + len
      BY <1>7, <2>1, <3>1
    <3>3. QED
      BY <1>4, <1>5, <1>6, <2>1, <3>1, <3>2
  <2>2. CASE k # n + 1
    <3>1. n + 1 \in k + 1 .. n + 1 /\ n + 1 + 1 = n + 2 /\ Offset(zl, n + 1) \in Nat
      BY <1>2, <1>9, <2>2
    <3>2. Offset(z, n + 2) = Offset(zl, n + 1) + len + d
      BY <1>8, <3>1
    <3>3. QED
      BY <1>4, <1>5, <1>6, <3>1, <3>2
  <2>3. QED
    BY <2>1, <2>2
<1>12. z.tail = Offset(z, n + 1)
  <2>1. CASE k = n + 1
    <3>1. k > n /\ k \in 1 .. k
      BY <1>2, <2>1
    <3>2. z.tail = Offset(zl, k) /\ Offset(z, k) = Offset(zl, k)
      BY <1>5, <1>7, <3>1
    <3>3. QED
      BY <2>1, <3>2
  <2>2. CASE k = n
    <3>1. ~(k > n) /\ ~(k < n) /\ n # 0 /\ n \in 1 .. n + 1
      BY <1>2, <2>2
    <3>2. Offset(zl, n) \in Nat /\ zl.tail = Offset(zl, n)
      BY <1>2, <1>4, <1>9, <3>1
    <3>3. z.tail = zl.tail + len + 0
      BY <1>5, <3>1
    <3>4. QED
      BY <1>6, <1>7, <2>2, <3>2, <3>3
  <2>3. CASE k < n
    <3>1. ~(k > n) /\ n # 0 /\ n \in k + 1 .. n + 1 /\ n \in 1 .. n + 1
      BY <1>2, <2>3
    <3>2. Offset(zl, n) \in Nat /\ zl.tail = Offset(zl, n)
      BY <1>2, <1>4, <1>9, <3>1
    <3>3. z.tail = zl.tail + len + d
      BY <1>5, <2>3, <3>1
    <3>4. Offset(z, n + 1) = Offset(zl, n) + len + d
      BY <1>8, <3>1
    <3>5. QED
      BY <3>2, <3>3, <3>4
  <2>4. k = n + 1 \/ k = n \/ k < n
    BY <1>2
  <2>5. QED
    BY <2>1, <2>2, <2>3, <2>4
<1>13. Offset(z, Len(z.entries) + 1) = Offset(z, n + 2)
  <2>1. Len(z.entries) + 1 = n + 2
    BY <1>2, <1>5
  <2>2. QED
    BY <2>1
<1>14. QED
  BY <1>5, <1>10, <1>11, <1>12, <1>13 DEF z

\* An insertion that loses nothing puts v in front of entry k.
LEMMA InsertIs ==
  ASSUME NEW zl, GoodZiplist(zl), NEW k \in 1 .. Len(zl.entries) + 1, NEW v \in Value, ~Lost(zl, k, v)
  PROVE  LET r == ZiplistInsert(zl, Offset(zl, k), v)
         IN /\ GoodZiplist(r) /\ Len(r.entries) = Len(zl.entries) + 1
            /\ \A j \in 1 .. Len(zl.entries) + 1 :
                 r.entries[j].val = IF j < k THEN zl.entries[j].val ELSE IF j = k THEN v ELSE zl.entries[j - 1].val
            /\ \A j \in 1 .. k : Offset(r, j) = Offset(zl, j)
<1> DEFINE n == Len(zl.entries)
           z == Opened(zl, k, v)
           r == ZiplistInsert(zl, Offset(zl, k), v)
<1>1. zl \in Ziplist /\ zl.bytes >= 2 /\ zl.tail >= 2 /\ PrevlenAt(zl, k) \in Nat
  BY GoodBounds, PrevlenAtIs
<1>2. n \in Nat /\ k \in Nat
  BY <1>1, EntriesAre
<1>3. z \in Ziplist /\ Len(z.entries) = n + 1
  BY <1>1, OpenedIs
<1>4. \A j \in 1 .. n + 1 :
        z.entries[j].val = IF j < k THEN zl.entries[j].val ELSE IF j = k THEN v ELSE zl.entries[j - 1].val
  <2>1. \A j \in 1 .. n + 1 : z.entries[j] = IF j < k THEN zl.entries[j]
                                             ELSE IF j = k THEN NewEntry(zl, k, v)
                                             ELSE MovedEntry(zl, k, v, j - 1)
    BY <1>1, OpenedIs
  <2>2. \A j \in 1 .. n : MovedEntry(zl, k, v, j).val = zl.entries[j].val
    BY <1>1, MovedEntryIs
  <2>3. NewEntry(zl, k, v).val = v
    BY <1>1, NewEntryIs
  <2>4. \A j \in 1 .. n + 1 : ~(j < k) /\ j # k => j - 1 \in 1 .. n
    BY <1>2
  <2> HIDE DEF z, n
  <2>5. QED
    BY <2>1, <2>2, <2>3, <2>4
<1>5. /\ z.bytes = Offset(z, n + 1 + 1) + 1 /\ z.tail = Offset(z, n + 1)
      /\ z.length < UINT16_MAX => z.length = n + 1
  BY <1>3, OpenedHeader
<1>6. \A j \in 1 .. n + 1 : j # k + 2 \/ NextDiff(zl, k, v) = 0 => PrevlenAgrees(z, j)
  BY <1>3, OpenedAgrees
<1>7. \A j \in 1 .. k : Offset(z, j) = Offset(zl, j)
  BY <1>1, OpenedFront
<1>8. r = IF NextDiff(zl, k, v) # 0 THEN Cascade(z, k + 1) ELSE z
  BY <1>1, InsertOpens
<1>9. k # n + 1 \/ NextDiff(zl, k, v) = 0
  BY <1>1, NextDiffIs
<1> HIDE DEF z, r, n
<1>10. CASE NextDiff(zl, k, v) = 0
  <2>1. z.entries # <<>>
    BY <1>2, <1>3
  <2>2. GoodZiplist(z)
    BY <1>3, <1>5, <1>6, <1>10, <2>1, GoodIs
  <2>3. QED
    BY <1>3, <1>4, <1>7, <1>8, <1>10, <2>2 DEF r, n
<1>11. CASE NextDiff(zl, k, v) # 0
  <2>1. r = Cascade(z, k + 1)
    BY <1>8, <1>11
  <2>2. k + 1 \in 1 .. Len(z.entries) /\ k + 1 + 1 = k + 2
    BY <1>2, <1>3, <1>9, <1>11 DEF n
  <2>3. GoodZiplist(r)
    BY <1>3, <1>5, <1>6, <2>1, <2>2, CascadeIs
  <2>4. /\ r \in Ziplist /\ Len(r.entries) = n + 1
        /\ \A j \in 1 .. n + 1 : r.entries[j].val = z.entries[j].val
        /\ \A j \in 1 .. k + 1 : r.entries[j] = z.entries[j]
    BY <1>3, <2>1, <2>2, CascadeKeeps
  <2>5. k <= Len(z.entries) /\ k <= Len(r.entries) /\ \A j \in 1 .. k : j \in 1 .. k + 1
    BY <1>2, <1>3, <2>2, <2>4
  <2>6. \A j \in 1 .. k + 1 : Offset(r, j) = Offset(z, j)
    BY <1>2, <1>3, <2>4, <2>5, SameOffsets
  <2>7. QED
    BY <1>4, <1>7, <2>3, <2>4, <2>5, <2>6 DEF r, n
<1>12. QED
  BY <1>10, <1>11

\* One that loses bytes spoils the last entry, and still finds the entry that
\* comes after the new one.
LEMMA InsertLost ==
  ASSUME NEW zl, GoodZiplist(zl), NEW k \in 1 .. Len(zl.entries) + 1, NEW v \in Value, Lost(zl, k, v)
  PROVE  LET r == ZiplistInsert(zl, Offset(zl, k), v)
         IN /\ r \in Ziplist /\ r.bytes >= 2 /\ r.tail >= 2 /\ Len(r.entries) = Len(zl.entries) + 1 /\ k <= Len(zl.entries)
            /\ r.entries[Len(zl.entries) + 1].val = Damaged
            /\ ZiplistNext(r, Offset(zl, k)) = Offset(r, k + 1)
<1> DEFINE n == Len(zl.entries)
           z == Opened(zl, k, v)
           r == ZiplistInsert(zl, Offset(zl, k), v)
           e == NewEntry(zl, k, v)
           len == RawLength(e)
           raw(j) == RawLength(zl.entries[j])
<1>1. zl \in Ziplist /\ zl.bytes >= 2 /\ zl.tail >= 2 /\ PrevlenAt(zl, k) \in Nat
  BY GoodBounds, PrevlenAtIs
<1>2. n \in Nat /\ k \in Nat /\ zl.bytes \in Nat /\ zl.tail \in Nat
  BY <1>1, EntriesAre
<1>3. k <= n /\ NextDiff(zl, k, v) = -4 /\ len \in Nat /\ len >= 2
  BY <1>1, NextDiffIs, NewEntryIs
<1>4. z \in Ziplist /\ Len(z.entries) = n + 1 /\ z.bytes = zl.bytes + len + NextDiff(zl, k, v)
      /\ z.tail = zl.tail + len + (IF k < n THEN NextDiff(zl, k, v) ELSE 0)
  <2>1. ~(k > n)
    BY <1>2, <1>3
  <2>2. z.tail = IF k > n THEN Offset(zl, k) ELSE zl.tail + len + (IF k < n THEN NextDiff(zl, k, v) ELSE 0)
    BY <1>1, OpenedIs
  <2>3. z \in Ziplist /\ Len(z.entries) = n + 1 /\ z.bytes = zl.bytes + len + NextDiff(zl, k, v)
    BY <1>1, OpenedIs
  <2> HIDE DEF z, n, len
  <2>4. QED
    BY <2>1, <2>2, <2>3
<1>5. (\A j \in 1 .. k : Offset(z, j) = Offset(zl, j)) /\ Offset(z, k + 1) = Offset(zl, k) + len /\ z.entries[k] = e
  BY <1>1, OpenedFront
<1>6. z.entries[n + 1].val = Damaged
  <2>1. ~(n + 1 < k) /\ n + 1 # k /\ n + 1 - 1 = n /\ n \in 1 .. n /\ n + 1 \in 1 .. n + 1
    BY <1>2, <1>3
  <2>2. z.entries[n + 1] = MovedEntry(zl, k, v, n)
    <3>1. \A j \in 1 .. n + 1 : z.entries[j] = IF j < k THEN zl.entries[j] ELSE IF j = k THEN NewEntry(zl, k, v)
                                               ELSE MovedEntry(zl, k, v, j - 1)
      BY <1>1, OpenedIs
    <3> HIDE DEF z, n
    <3>2. QED
      BY <2>1, <3>1
  <2>3. MovedEntry(zl, k, v, n).val = Damaged
    BY <1>1, <2>1, MovedEntryIs
  <2>4. QED
    BY <2>2, <2>3
<1>7. r = Cascade(z, k + 1)
  BY <1>1, <1>3, InsertOpens
<1>8. zl.bytes >= Offset(zl, k) + 7 /\ Offset(zl, k) \in Nat
  <2>1. k \in 1 .. n /\ k + 1 \in 1 .. n + 1 /\ n + 1 \in 1 .. n + 1 /\ k \in 1 .. n + 1
    BY <1>2, <1>3
  <2>2. raw(k) >= 6 /\ raw(k) \in Nat
    <3>1. /\ raw(k) = zl.entries[k].prevsize + Payload(zl.entries[k].val)
          /\ zl.entries[k].prevsize \in {1, 5}
          /\ Payload(zl.entries[k].val) \in Nat /\ Payload(zl.entries[k].val) >= 1
      BY <1>1, <2>1, EntriesAre, RawLengthIs
    <3>2. PrevSize(len) - zl.entries[k].prevsize = -4
      BY <1>3 DEF NextDiff
    <3>3. zl.entries[k].prevsize = 5
      BY <3>1, <3>2, PrevSizeIs
    <3>4. QED
      BY <3>1, <3>3
  <2>3. Offset(zl, k + 1) = Offset(zl, k) + raw(k) /\ Offset(zl, k) \in Nat /\ Offset(zl, k + 1) \in Nat /\ Offset(zl, n + 1) \in Nat
    BY <1>1, <2>1, OffsetIs
  <2>4. k + 1 = n + 1 \/ Offset(zl, k + 1) + 2 <= Offset(zl, n + 1)
    <3>1. k + 1 = n + 1 \/ k + 1 < n + 1
      BY <1>2, <1>3
    <3>2. QED
      BY <1>1, <2>1, <3>1, OffsetsAscend
  <2>5. zl.bytes = Offset(zl, n + 1) + 1
    BY <1>1, GoodIs
  <2> HIDE DEF raw
  <2>6. Offset(zl, n + 1) >= Offset(zl, k + 1)
    BY <2>3, <2>4
  <2>7. QED
    BY <2>2, <2>3, <2>5, <2>6
<1>9. zl.tail >= 10
  <2>1. zl.entries # <<>>
    BY <1>2, <1>3, EntriesAre
  <2>2. zl.tail = Offset(zl, n)
    BY <1>1, <2>1, GoodIs
  <2>0. n >= 1
    BY <1>2, <1>3
  <2> HIDE DEF n
  <2>3. n \in 1 .. n + 1 /\ 1 \in 1 .. n + 1 /\ (n = 1 \/ 1 < n)
    BY <1>2, <2>0
  <2>4. Offset(zl, 1) = 10 /\ Offset(zl, n) \in Nat /\ (1 < n => Offset(zl, 1) + 2 <= Offset(zl, n))
    BY <1>1, <2>3, OffsetIs, OffsetsAscend DEF ZIPLIST_HEADER_SIZE, n
  <2>5. QED
    BY <2>2, <2>3, <2>4
<1> HIDE DEF z, r, e, len, n
<1>10. z.bytes >= Offset(zl, k) + len + 3 /\ z.tail >= 8
  <2> DEFINE off == Offset(zl, k)
             d == IF k < n THEN NextDiff(zl, k, v) ELSE 0
  <2>1. off \in Nat /\ zl.bytes >= off + 7
    BY <1>8
  <2>2. d \in Int /\ d >= -4
    BY <1>3
  <2>3. z.tail = zl.tail + len + d
    BY <1>4
  <2>4. z.bytes = zl.bytes + len - 4
    BY <1>2, <1>3, <1>4
  <2> HIDE DEF off, d
  <2>5. z.bytes >= off + len + 3
    BY <1>2, <1>3, <2>1, <2>4
  <2>6. z.tail >= 8
    BY <1>2, <1>3, <1>9, <2>2, <2>3
  <2>7. QED
    BY <2>5, <2>6 DEF off
<1>11. k + 1 \in 1 .. Len(z.entries)
  BY <1>2, <1>3, <1>4
<1>12. /\ r \in Ziplist /\ Len(r.entries) = n + 1 /\ r.bytes >= z.bytes /\ r.tail >= z.tail
       /\ \A j \in 1 .. n + 1 : r.entries[j].val = z.entries[j].val
       /\ \A j \in 1 .. k + 1 : r.entries[j] = z.entries[j]
  BY <1>4, <1>7, <1>11, CascadeKeeps
<1>13. r.bytes \in Nat /\ r.tail \in Nat /\ z.bytes \in Nat /\ z.tail \in Nat
  BY <1>4, <1>12, EntriesAre
<1>14. r.bytes >= Offset(zl, k) + len + 3 /\ r.bytes >= 2 /\ r.tail >= 2
  <2> DEFINE off == Offset(zl, k)
  <2>1. off \in Nat /\ len \in Nat /\ z.bytes >= off + len + 3 /\ z.tail >= 8
    BY <1>3, <1>8, <1>10
  <2>2. r.bytes >= z.bytes /\ r.tail >= z.tail
    BY <1>12
  <2> HIDE DEF off
  <2>3. r.bytes >= off + len + 3 /\ r.bytes >= 2 /\ r.tail >= 2
    BY <1>13, <2>1, <2>2
  <2>4. QED
    BY <2>3 DEF off
<1>15. \A j \in 1 .. k + 2 : Offset(r, j) = Offset(z, j)
  <2>1. k + 1 \in Nat /\ k + 1 <= Len(z.entries) /\ k + 1 <= Len(r.entries) /\ k + 1 + 1 = k + 2
    BY <1>2, <1>4, <1>11, <1>12
  <2>2. QED
    BY <1>4, <1>12, <2>1, SameOffsets
<1>16. k \in 1 .. k /\ k \in 1 .. k + 2 /\ k + 1 \in 1 .. k + 2 /\ k \in 1 .. Len(r.entries) + 1 /\ k \in 1 .. k + 1
  BY <1>2, <1>3, <1>12
<1>17. Offset(r, k) = Offset(zl, k) /\ Offset(r, k + 1) = Offset(zl, k) + len /\ r.entries[k] = e
  BY <1>5, <1>12, <1>15, <1>16
<1>18. EntryAt(r, Offset(zl, k)) = e
  BY <1>12, <1>16, <1>17, PosOfOffset DEF EntryAt
<1>19. ~IsEnd(r, Offset(zl, k)) /\ ~IsEnd(r, Offset(zl, k) + len)
  BY <1>3, <1>8, <1>13, <1>14 DEF IsEnd
<1>20. ZiplistNext(r, Offset(zl, k)) = Offset(r, k + 1)
  BY <1>17, <1>18, <1>19 DEF ZiplistNext, len
<1>21. r.entries[n + 1].val = Damaged
  <2>1. n + 1 \in 1 .. n + 1
    BY <1>2
  <2>2. QED
    BY <1>6, <1>12, <2>1
<1>22. QED
  BY <1>3, <1>12, <1>14, <1>20, <1>21 DEF r, n

\* What is spoilt stays so.
LEMMA DamageStays ==
  ASSUME NEW zl \in Ziplist, zl.bytes >= 2, zl.tail >= 2, NEW k \in 1 .. Len(zl.entries), NEW v \in Value,
         zl.entries[Len(zl.entries)].val = Damaged
  PROVE  LET r == ZiplistInsert(zl, Offset(zl, k), v)
         IN r \in Ziplist /\ Len(r.entries) = Len(zl.entries) + 1 /\ r.entries[Len(zl.entries) + 1].val = Damaged
<1> DEFINE n == Len(zl.entries)
           z == Opened(zl, k, v)
           r == ZiplistInsert(zl, Offset(zl, k), v)
<1>1. n \in Nat /\ k \in Nat /\ k <= n /\ k \in 1 .. n + 1
  BY EntriesAre
<1>2. PrevlenAt(zl, k) \in Nat
  BY <1>1, EntriesAre DEF PrevlenAt, Entry
<1>3. z \in Ziplist /\ Len(z.entries) = n + 1
  BY <1>1, <1>2, OpenedIs
<1>4. z.entries[n + 1].val = Damaged
  <2>1. ~(n + 1 < k) /\ n + 1 # k /\ n + 1 - 1 = n /\ n \in 1 .. n /\ n + 1 \in 1 .. n + 1
    BY <1>1
  <2>2. z.entries[n + 1] = MovedEntry(zl, k, v, n)
    <3>1. \A j \in 1 .. n + 1 : z.entries[j] = IF j < k THEN zl.entries[j] ELSE IF j = k THEN NewEntry(zl, k, v)
                                               ELSE MovedEntry(zl, k, v, j - 1)
      BY <1>1, <1>2, OpenedIs
    <3> HIDE DEF z, n
    <3>2. QED
      BY <2>1, <3>1
  <2>3. MovedEntry(zl, k, v, n).val = IF Lost(zl, k, v) THEN Damaged ELSE zl.entries[n].val
    BY <1>1, <1>2, <2>1, MovedEntryIs
  <2>4. QED
    BY <2>2, <2>3
<1>5. r = IF NextDiff(zl, k, v) # 0 THEN Cascade(z, k + 1) ELSE z
  BY <1>1, InsertOpens
<1> HIDE DEF z, r, n
<1>6. k + 1 \in 1 .. Len(z.entries) /\ n + 1 \in 1 .. Len(z.entries)
  BY <1>1, <1>3
<1>7. /\ Cascade(z, k + 1) \in Ziplist /\ Len(Cascade(z, k + 1).entries) = n + 1
      /\ Cascade(z, k + 1).entries[n + 1].val = z.entries[n + 1].val
  BY <1>3, <1>6, CascadeKeeps
<1>8. QED
  BY <1>3, <1>4, <1>5, <1>7 DEF r, n

----------------------------------------------------------------------------
\* __ziplistDelete

\* The first entry that stays, of which the field shrinks or grows.
NextAfter(zl, k, num) == IF k + num <= Len(zl.entries) THEN k + num ELSE Len(zl.entries) + 1

GapDiff(zl, k, next) ==
  IF next <= Len(zl.entries) THEN PrevSize(zl.entries[k].prevlen) - zl.entries[next].prevsize ELSE 0

Rest(zl, k, next) ==
  [j \in 1 .. Len(zl.entries) |->
    IF j = next THEN Preceded(zl.entries[j], zl.entries[k].prevlen) ELSE zl.entries[j]]

\* The ziplist before the cascade.
Closed(zl, k, next) ==
  LET n == Len(zl.entries)
      totlen == Offset(zl, next) - Offset(zl, k)
      diff == GapDiff(zl, k, next)
  IN [bytes |-> zl.bytes - totlen + diff,
      tail |-> IF next > n THEN Offset(zl, k) - zl.entries[k].prevlen
               ELSE zl.tail - totlen + (IF next < n THEN diff ELSE 0),
      length |-> IncrLength(zl, k - next),
      entries |-> SubSeq(Rest(zl, k, next), 1, k - 1) \o SubSeq(Rest(zl, k, next), next, n)]

LEMMA MinOfTwo ==
  ASSUME NEW a \in Int, NEW b \in Int
  PROVE  Min({a, b}) = IF a <= b THEN a ELSE b
<1> DEFINE m == IF a <= b THEN a ELSE b
<1>1. m \in {a, b} /\ m \in Int /\ \A y \in {a, b} : m <= y /\ y \in Int
  OBVIOUS
<1>2. \A x \in {a, b} : (\A y \in {a, b} : x <= y) => x = m
  <2> HIDE DEF m
  <2>1. SUFFICES ASSUME NEW x \in {a, b}, \A y \in {a, b} : x <= y
                 PROVE  x = m
    OBVIOUS
  <2>2. x <= m /\ m <= x /\ x \in Int
    BY <1>1, <2>1
  <2>3. QED
    BY <1>1, <2>2
<1> HIDE DEF m
<1>3. Min({a, b}) = m
  BY <1>1, <1>2 DEF Min
<1>4. QED
  BY <1>3 DEF m

LEMMA DeleteCloses ==
  ASSUME NEW zl \in Ziplist, NEW k \in 1 .. Len(zl.entries) + 1, NEW num \in Nat
  PROVE  LET next == NextAfter(zl, k, num)
         IN /\ next \in k .. Len(zl.entries) + 1
            /\ DeleteFrom(zl, Offset(zl, k), num) =
                 IF next = k THEN zl
                 ELSE IF GapDiff(zl, k, next) # 0 THEN Cascade(Closed(zl, k, next), k)
                 ELSE Closed(zl, k, next)
<1> DEFINE n == Len(zl.entries)
           next == NextAfter(zl, k, num)
<1>1. n \in Nat /\ k \in Nat
  BY EntriesAre
<1>2. next \in k .. n + 1
  BY <1>1 DEF NextAfter
<1>3. Min({k + num, n + 1}) = next
  <2>1. Min({k + num, n + 1}) = IF k + num <= n + 1 THEN k + num ELSE n + 1
    <3>1. k + num \in Int /\ n + 1 \in Int
      BY <1>1
    <3> HIDE DEF n
    <3>2. QED
      BY <3>1, MinOfTwo
  <2>2. QED
    BY <1>1, <2>1 DEF NextAfter
<1> HIDE DEF next
<1>4. Offset(zl, next) - Offset(zl, k) = 0 <=> next = k
  <2>1. next \in 1 .. n + 1 /\ k \in 1 .. n + 1 /\ (next = k \/ k < next)
    BY <1>1, <1>2
  <2>2. Offset(zl, next) \in Nat /\ Offset(zl, k) \in Nat
    BY <2>1, OffsetIs
  <2>3. k < next => Offset(zl, k) + 2 <= Offset(zl, next)
    BY <2>1, OffsetsAscend
  <2>4. QED
    BY <1>1, <2>1, <2>2, <2>3
<1>5. PosOf(zl, Offset(zl, k)) = k
  BY PosOfOffset
<1>6. DeleteFrom(zl, Offset(zl, k), num) =
        IF Offset(zl, next) - Offset(zl, k) = 0 THEN zl
        ELSE IF GapDiff(zl, k, next) # 0 THEN Cascade(Closed(zl, k, next), k)
        ELSE Closed(zl, k, next)
  BY <1>3, <1>5 DEF DeleteFrom, Closed, GapDiff, Rest
<1>7. QED
  BY <1>2, <1>4, <1>6 DEF next

\* A sequence with a piece taken out.
LEMMA CutIs ==
  ASSUME NEW S, NEW s \in Seq(S), NEW k \in 1 .. Len(s) + 1, NEW next \in k .. Len(s) + 1
  PROVE  LET t == SubSeq(s, 1, k - 1) \o SubSeq(s, next, Len(s))
         IN /\ t \in Seq(S) /\ Len(t) = Len(s) + k - next
            /\ \A j \in 1 .. Len(s) + k - next : t[j] = IF j < k THEN s[j] ELSE s[j + next - k]
<1> DEFINE n == Len(s)
           a == SubSeq(s, 1, k - 1)
           b == SubSeq(s, next, n)
<1>1. n \in Nat /\ k \in Nat /\ next \in Nat /\ k <= next /\ next <= n + 1 /\ 1 <= k
  OBVIOUS
<1>2. a \in Seq(S) /\ Len(a) = k - 1 /\ \A j \in 1 .. k - 1 : a[j] = s[j]
  BY <1>1
<1>3. b \in Seq(S) /\ Len(b) = n - next + 1 /\ \A j \in 1 .. n - next + 1 : b[j] = s[next + j - 1]
  BY <1>1
<1> HIDE DEF a, b, n
<1>4. Len(a) = k - 1 /\ Len(b) = n - next + 1 /\ k - 1 \in Nat /\ n - next + 1 \in Nat
  BY <1>1, <1>2, <1>3
<1>5. a \o b \in Seq(S) /\ Len(a \o b) = n + k - next
  <2>1. k - 1 + (n - next + 1) = n + k - next
    BY <1>1
  <2>2. a \in Seq(S) /\ b \in Seq(S)
    BY <1>2, <1>3
  <2>3. a \o b \in Seq(S) /\ Len(a \o b) = Len(a) + Len(b)
    BY <2>2
  <2>4. QED
    BY <1>4, <2>1, <2>3
<1>6. ASSUME NEW j \in 1 .. n + k - next
      PROVE  (a \o b)[j] = IF j < k THEN s[j] ELSE s[j + next - k]
  <2>1. CASE j < k
    <3>1. j \in 1 .. Len(a) /\ j \in 1 .. k - 1
      BY <1>1, <1>4, <2>1
    <3>2. (a \o b)[j] = a[j]
      BY <1>2, <1>3, <3>1
    <3>3. QED
      BY <1>2, <2>1, <3>1, <3>2
  <2>2. CASE ~(j < k)
    <3>1. j - k + 1 \in 1 .. n - next + 1 /\ next + (j - k + 1) - 1 = j + next - k /\ Len(a) + (j - k + 1) = j
      BY <1>1, <1>4, <2>2
    <3>2. (a \o b)[Len(a) + (j - k + 1)] = b[j - k + 1]
      <4>1. a \in Seq(S) /\ b \in Seq(S)
        BY <1>2, <1>3
      <4>2. j - k + 1 \in 1 .. Len(b)
        BY <1>4, <3>1
      <4> DEFINE i == j - k + 1
      <4>3. i \in 1 .. Len(b)
        BY <4>2
      <4> HIDE DEF i
      <4>4. (a \o b)[Len(a) + i] = b[i]
        BY <4>1, <4>3
      <4>5. QED
        BY <4>4 DEF i
    <3>3. b[j - k + 1] = s[j + next - k]
      BY <1>3, <3>1
    <3>4. QED
      BY <2>2, <3>1, <3>2, <3>3
  <2>3. QED
    BY <2>1, <2>2
<1>7. QED
  BY <1>5, <1>6 DEF a, b, n

LEMMA RestIs ==
  ASSUME NEW zl \in Ziplist, NEW k \in 1 .. Len(zl.entries), NEW next \in k + 1 .. Len(zl.entries) + 1,
         NEW j \in 1 .. Len(zl.entries)
  PROVE  LET w == Rest(zl, k, next)[j]
         IN /\ w \in Entry /\ w.val = zl.entries[j].val
            /\ w.prevlen = IF j = next THEN zl.entries[k].prevlen ELSE zl.entries[j].prevlen
            /\ w.prevsize = IF j = next THEN PrevSize(zl.entries[k].prevlen) ELSE zl.entries[j].prevsize
            /\ RawLength(w) = RawLength(zl.entries[j]) + (IF j = next THEN GapDiff(zl, k, next) ELSE 0)
            /\ j # next => w = zl.entries[j]
<1> DEFINE n == Len(zl.entries)
           old == zl.entries[j]
           len == zl.entries[k].prevlen
           w == Rest(zl, k, next)[j]
           d == GapDiff(zl, k, next)
<1>1. n \in Nat /\ old \in Entry /\ len \in Nat /\ RawLength(old) \in Nat
  BY EntriesAre DEF Entry
<1>2. w = IF j = next THEN Preceded(old, len) ELSE old
  BY DEF Rest
<1>3. j = next => d = PrevSize(len) - old.prevsize
  <2>1. j <= n
    BY <1>1
  <2>2. QED
    BY <2>1 DEF GapDiff
<1>4. old.prevsize \in {1, 5} /\ PrevSize(len) \in {1, 5}
  BY <1>1, PrevSizeIs DEF Entry
<1> HIDE DEF n, old, len, w, d
<1>5. CASE j = next
  <2>1. /\ w \in Entry /\ w.val = old.val /\ w.prevlen = len /\ w.prevsize = PrevSize(len)
        /\ RawLength(w) = RawLength(old) + PrevSize(len) - old.prevsize
    BY <1>1, <1>2, <1>5, PrecededIs
  <2>2. RawLength(w) = RawLength(old) + d
    BY <1>1, <1>3, <1>4, <1>5, <2>1
  <2>3. QED
    BY <1>5, <2>1, <2>2 DEF w, old, len, d
<1>6. CASE j # next
  <2>1. RawLength(old) = RawLength(old) + 0
    BY <1>1
  <2>2. QED
    BY <1>1, <1>2, <1>6, <2>1 DEF w, old, len, d
<1>7. QED
  BY <1>5, <1>6

LEMMA GapDiffIs ==
  ASSUME NEW zl \in Ziplist, NEW k \in 1 .. Len(zl.entries), NEW next \in k + 1 .. Len(zl.entries) + 1
  PROVE  /\ GapDiff(zl, k, next) \in {-4, 0, 4}
         /\ next = Len(zl.entries) + 1 => GapDiff(zl, k, next) = 0
<1> DEFINE n == Len(zl.entries)
           d == GapDiff(zl, k, next)
<1>1. n \in Nat
  BY EntriesAre
<1>2. next <= n => d = PrevSize(zl.entries[k].prevlen) - zl.entries[next].prevsize /\ zl.entries[next].prevsize \in {1, 5}
  <2>1. next <= n => next \in 1 .. n
    BY <1>1
  <2>2. \A j \in 1 .. n : zl.entries[j].prevsize \in {1, 5}
    BY EntriesAre DEF Entry
  <2>3. QED
    BY <2>1, <2>2 DEF GapDiff
<1>3. ~(next <= n) => d = 0
  BY DEF GapDiff
<1>4. next = n + 1 => ~(next <= n)
  BY <1>1
<1> HIDE DEF n, d
<1>5. d \in {-4, 0, 4}
  BY <1>2, <1>3, PrevSizeIs
<1>6. QED
  BY <1>3, <1>4, <1>5 DEF n, d

\* The offsets around the gap, and the header.
LEMMA ClosedIs ==
  ASSUME NEW zl, GoodZiplist(zl), NEW k \in 1 .. Len(zl.entries), NEW next \in k + 1 .. Len(zl.entries) + 1
  PROVE  LET z == Closed(zl, k, next)
         IN /\ z \in Ziplist /\ Len(z.entries) = Len(zl.entries) + k - next
            /\ z.bytes = zl.bytes - (Offset(zl, next) - Offset(zl, k)) + GapDiff(zl, k, next)
            /\ z.length = IncrLength(zl, k - next)
            /\ z.tail = IF next > Len(zl.entries) THEN Offset(zl, k) - zl.entries[k].prevlen
                        ELSE zl.tail - (Offset(zl, next) - Offset(zl, k)) + (IF next < Len(zl.entries) THEN GapDiff(zl, k, next) ELSE 0)
            /\ \A j \in 1 .. Len(zl.entries) + k - next :
                 z.entries[j] = IF j < k THEN zl.entries[j] ELSE Rest(zl, k, next)[j + next - k]
<1> DEFINE n == Len(zl.entries)
           off(j) == Offset(zl, j)
           d == GapDiff(zl, k, next)
           first == zl.entries[k]
           s == Rest(zl, k, next)
           t == SubSeq(s, 1, k - 1) \o SubSeq(s, next, n)
           z == Closed(zl, k, next)
           gap == IF next < n THEN d ELSE 0
           tail == IF next > n THEN off(k) - first.prevlen ELSE zl.tail - (off(next) - off(k)) + gap
           bytes == zl.bytes - (off(next) - off(k)) + d
           length == IncrLength(zl, k - next)
<1>1. zl \in Ziplist
  BY GoodBounds
<1>2. n \in Nat /\ k \in Nat /\ next \in Nat /\ k < next /\ next <= n + 1 /\ 1 <= k /\ k <= n /\ zl.length \in Nat /\ (zl.entries = <<>> <=> n = 0)
  BY <1>1, EntriesAre
<1>3. /\ zl.bytes = off(n + 1) + 1 /\ zl.tail = off(IF zl.entries = <<>> THEN 1 ELSE n)
      /\ zl.length < UINT16_MAX => zl.length = n
      /\ PrevlenAgrees(zl, k)
  BY <1>1, GoodIs
<1>4. d \in {-4, 0, 4} /\ (next = n + 1 => d = 0)
  BY <1>1, GapDiffIs
<1>5. s \in Seq(Entry) /\ Len(s) = n
  <2>1. \A j \in 1 .. n : s[j] \in Entry
    BY <1>1, RestIs
  <2>2. s = [j \in 1 .. n |-> s[j]]
    BY DEF Rest
  <2> HIDE DEF n, s
  <2>3. s \in [1 .. n -> Entry]
    BY <2>1, <2>2
  <2>4. QED
    BY <1>2, <2>3
<1>6. t \in Seq(Entry) /\ Len(t) = n + k - next /\ \A j \in 1 .. n + k - next : t[j] = IF j < k THEN s[j] ELSE s[j + next - k]
  <2> HIDE DEF n, s
  <2> DEFINE u == SubSeq(s, 1, k - 1) \o SubSeq(s, next, Len(s))
  <2>1. k \in 1 .. Len(s) + 1 /\ next \in k .. Len(s) + 1
    BY <1>2, <1>5
  <2>2. u \in Seq(Entry) /\ Len(u) = Len(s) + k - next /\ \A j \in 1 .. Len(s) + k - next : u[j] = IF j < k THEN s[j] ELSE s[j + next - k]
    BY <1>5, <2>1, CutIs
  <2>3. u = t
    BY <1>5 DEF With
  <2> HIDE DEF u, t
  <2>4. QED
    BY <1>5, <2>2, <2>3
<1>7. \A j \in 1 .. n : j < k => s[j] = zl.entries[j]
  <2>1. \A j \in 1 .. n : j < k => j # next
    BY <1>2
  <2>2. QED
    BY <1>1, <2>1, RestIs
<1>8. \A j \in 1 .. n + 1 : off(j) \in Nat /\ off(j) >= 10
  <2>1. off(1) = 10 /\ \A j \in 1 .. n + 1 : off(j) \in Nat
    BY <1>1, OffsetIs DEF ZIPLIST_HEADER_SIZE
  <2>2. 1 \in 1 .. n + 1 /\ \A j \in 1 .. n + 1 : j = 1 \/ 1 < j
    BY <1>2
  <2>3. \A j \in 1 .. n + 1 : 1 < j => off(1) + 2 <= off(j)
    BY <1>1, <2>2, OffsetsAscend
  <2> HIDE DEF off, n
  <2>4. QED
    BY <2>1, <2>2, <2>3
<1>9. \A i, j \in 1 .. n + 1 : i <= j => off(i) <= off(j)
  <2>1. \A i, j \in 1 .. n + 1 : i < j => off(i) + 2 <= off(j)
    BY <1>1, OffsetsAscend
  <2>2. \A i, j \in 1 .. n + 1 : i <= j => i = j \/ i < j
    BY <1>2
  <2> HIDE DEF off, n
  <2>3. QED
    BY <1>8, <2>1, <2>2
<1>10. z = [bytes |-> bytes, tail |-> tail, length |-> length, entries |-> t]
  BY DEF Closed
<1>11. k \in 1 .. n + 1 /\ next \in 1 .. n + 1 /\ n + 1 \in 1 .. n + 1 /\ n \in 1 .. n + 1 /\ n # 0
  BY <1>2
<1>12. k = 1 \/ (k - 1 \in 1 .. n /\ k - 1 \in 1 .. n + 1 /\ k - 1 + 1 = k)
  BY <1>2
<1>13. off(k) - first.prevlen \in Nat /\ first.prevlen \in Nat
  <2>1. CASE k = 1
    BY <1>3, <1>8, <1>11, <2>1 DEF PrevlenAgrees
  <2>2. CASE k # 1
    <3>1. off(k - 1 + 1) = off(k - 1) + RawLength(zl.entries[k - 1]) /\ off(k - 1) \in Nat /\ RawLength(zl.entries[k - 1]) \in Nat
      BY <1>1, <1>12, <2>2, OffsetIs, EntriesAre
    <3>2. first.prevlen = RawLength(zl.entries[k - 1])
      BY <1>3, <2>2 DEF PrevlenAgrees
    <3>3. off(k) = off(k - 1 + 1)
      BY <1>12, <2>2
    <3> HIDE DEF off, first
    <3>4. QED
      BY <3>1, <3>2, <3>3
  <2>3. QED
    BY <2>1, <2>2
<1>14. zl.tail = off(n)
  BY <1>2, <1>3, <1>11
<1> HIDE DEF s, t, z, d, off, first, n
<1>15. bytes \in Nat
  <2>1. off(next) <= off(n + 1) /\ off(n + 1) \in Nat /\ off(next) \in Nat /\ off(k) \in Nat /\ off(k) >= 10
    BY <1>2, <1>8, <1>9, <1>11
  <2>2. QED
    BY <1>3, <1>4, <2>1
<1>16. tail \in Nat
  <2>1. CASE next > n
    BY <1>13, <2>1
  <2>2. CASE ~(next > n)
    <3>1. next <= n
      BY <1>2, <2>2
    <3>2. off(next) <= off(n) /\ off(n) \in Nat /\ off(next) \in Nat /\ off(k) \in Nat /\ off(k) >= 10
      BY <1>8, <1>9, <1>11, <3>1
    <3>3. gap \in {-4, 0, 4}
      BY <1>4
    <3> HIDE DEF gap
    <3>4. QED
      BY <1>14, <2>2, <3>2, <3>3
  <2>3. QED
    BY <2>1, <2>2
<1>17. length \in Nat
  <2>1. zl.length < UINT16_MAX => zl.length + (k - next) \in Nat
    BY <1>2, <1>3
  <2>2. QED
    BY <1>2, <2>1 DEF IncrLength
<1> HIDE DEF bytes, tail, length
<1>18. z \in Ziplist
  BY <1>6, <1>10, <1>15, <1>16, <1>17 DEF Ziplist
<1>19. z.bytes = bytes /\ z.tail = tail /\ z.length = length /\ z.entries = t
  BY <1>10
<1>20. \A j \in 1 .. n + k - next : t[j] = IF j < k THEN zl.entries[j] ELSE s[j + next - k]
  <2>1. \A j \in 1 .. n + k - next : j < k => j \in 1 .. n
    BY <1>2
  <2>2. QED
    BY <1>6, <1>7, <2>1
<1>21. QED
  BY <1>6, <1>18, <1>19, <1>20 DEF z, bytes, tail, gap, length, s, off, d, first, n

LEMMA ClosedFront ==
  ASSUME NEW zl, GoodZiplist(zl), NEW k \in 1 .. Len(zl.entries), NEW next \in k + 1 .. Len(zl.entries) + 1
  PROVE  \A j \in 1 .. k : Offset(Closed(zl, k, next), j) = Offset(zl, j)
<1> DEFINE n == Len(zl.entries)
           z == Closed(zl, k, next)
<1>1. zl \in Ziplist
  BY GoodBounds
<1>2. n \in Nat
  BY <1>1, EntriesAre
<1>3. z \in Ziplist /\ Len(z.entries) = n + k - next
  BY ClosedIs
<1>4. \A j \in 1 .. n + k - next : j < k => z.entries[j] = zl.entries[j]
  BY ClosedIs
<1>5. k \in Nat /\ k - 1 \in Nat /\ k - 1 <= n /\ k - 1 <= Len(z.entries) /\ k - 1 + 1 = k
      /\ \A j \in 1 .. k - 1 : j < k /\ j \in 1 .. n + k - next
  BY <1>2, <1>3
<1> HIDE DEF z
<1>6. \A j \in 1 .. k - 1 : RawLength(z.entries[j]) = RawLength(zl.entries[j])
  BY <1>4, <1>5
<1>7. \A j \in 1 .. k - 1 + 1 : Offset(z, j) = Offset(zl, j)
  BY <1>1, <1>3, <1>5, <1>6, SameOffsets
<1>8. QED
  BY <1>5, <1>7 DEF z

LEMMA ClosedBehind ==
  ASSUME NEW zl, GoodZiplist(zl), NEW k \in 1 .. Len(zl.entries), NEW next \in k + 1 .. Len(zl.entries) + 1
  PROVE  \A j \in next + 1 .. Len(zl.entries) + 1 :
           Offset(Closed(zl, k, next), j + (k - next)) =
             Offset(zl, j) - (Offset(zl, next) - Offset(zl, k)) + GapDiff(zl, k, next)
<1> DEFINE n == Len(zl.entries)
           z == Closed(zl, k, next)
           d == GapDiff(zl, k, next)
           c == k - next
           off(j) == Offset(zl, j)
           at(j) == Offset(z, j)
           raw(j) == RawLength(zl.entries[j])
           m == next + 1
<1>1. zl \in Ziplist
  BY GoodBounds
<1>2. n \in Nat /\ k \in Nat /\ next \in Nat /\ k < next /\ next <= n + 1 /\ 1 <= k /\ k <= n
  BY <1>1, EntriesAre
<1>3. z \in Ziplist /\ Len(z.entries) = n + k - next
  BY ClosedIs
<1>4. \A j \in 1 .. n + k - next : ~(j < k) => z.entries[j] = Rest(zl, k, next)[j + next - k]
  <2>1. \A j \in 1 .. n + k - next : z.entries[j] = IF j < k THEN zl.entries[j] ELSE Rest(zl, k, next)[j + next - k]
    BY ClosedIs
  <2> HIDE DEF n, z
  <2>2. QED
    BY <2>1
<1>5. at(k) = off(k)
  <2>1. k \in 1 .. k
    BY <1>2
  <2>2. QED
    BY <2>1, ClosedFront
<1>6. d \in {-4, 0, 4}
  BY <1>1, GapDiffIs
<1>7. SUFFICES ASSUME next <= n
               PROVE  \A j \in m .. n + 1 : at(j + c) = off(j) - (off(next) - off(k)) + d
  BY <1>2
<1>8. \A j \in next .. n : RawLength(z.entries[j + c]) = raw(j) + (IF j = next THEN d ELSE 0)
  <2>1. SUFFICES ASSUME NEW j \in next .. n
                 PROVE  RawLength(z.entries[j + c]) = raw(j) + (IF j = next THEN d ELSE 0)
    OBVIOUS
  <2>2. j + c \in 1 .. n + k - next /\ ~(j + c < k) /\ j + c + next - k = j /\ j \in 1 .. n
    BY <1>2
  <2>3. z.entries[j + c] = Rest(zl, k, next)[j]
    BY <1>4, <2>2
  <2>4. RawLength(Rest(zl, k, next)[j]) = raw(j) + (IF j = next THEN d ELSE 0)
    BY <1>1, <2>2, RestIs
  <2>5. QED
    BY <2>3, <2>4
<1>9. \A j \in 1 .. n : raw(j) \in Nat
  BY <1>1, EntriesAre
<1>10. (\A j \in 1 .. n + 1 : off(j) \in Nat) /\ \A j \in 1 .. n : off(j + 1) = off(j) + raw(j)
  BY <1>1, OffsetIs
<1>11. (\A j \in 1 .. n + k - next + 1 : at(j) \in Nat) /\ \A j \in 1 .. n + k - next : at(j + 1) = at(j) + RawLength(z.entries[j])
  BY <1>3, OffsetIs
<1>12. next + c = k /\ k \in 1 .. n + k - next /\ m + c = k + 1 /\ next \in 1 .. n /\ next \in next .. n /\ c \in Int /\ n + c = n + k - next
  BY <1>2, <1>7
<1>13. \A j \in m .. n : RawLength(z.entries[j + c]) = raw(j)
  <2>1. \A j \in m .. n : j \in next .. n /\ j # next /\ j \in 1 .. n
    BY <1>2
  <2> HIDE DEF z, raw, c, d, n, m
  <2>2. QED
    BY <1>8, <1>9, <2>1
<1>14. at(k + 1) = off(k) + raw(next) + d /\ off(m) = off(next) + raw(next)
  <2>1. RawLength(z.entries[k]) = raw(next) + d
    <3>1. RawLength(z.entries[next + c]) = raw(next) + d
      <4> HIDE DEF z, raw, c, d, n
      <4>1. QED
        BY <1>8, <1>12
    <3>2. z.entries[next + c] = z.entries[k]
      BY <1>12
    <3>3. QED
      BY <3>1, <3>2
  <2>2. at(k + 1) = at(k) + RawLength(z.entries[k])
    <3> HIDE DEF z, at, n
    <3>1. QED
      BY <1>11, <1>12
  <2>3. off(next + 1) = off(next) + raw(next)
    BY <1>10, <1>12
  <2>4. off(k) \in Nat /\ raw(next) \in Nat
    BY <1>2, <1>9, <1>10, <1>12
  <2> HIDE DEF at, off, raw, d, z
  <2>5. QED
    BY <1>5, <1>6, <2>1, <2>2, <2>3, <2>4
<1>15. \A j \in m .. n + 1 : at(j + c) - off(j) = at(m + c) - off(m)
  <2>1. m \in Nat \ {0} /\ n \in Int /\ c \in Int /\ m <= n + 1 /\ n <= Len(zl.entries) /\ m + c >= 1 /\ n + c <= Len(z.entries)
    BY <1>2, <1>3, <1>7
  <2>2. \A j \in m .. n : RawLength(z.entries[j + c]) = RawLength(zl.entries[j])
    BY <1>13
  <2> HIDE DEF z, m, n, c
  <2>3. Shifted(zl, z, m, n, c)
    BY <1>1, <1>3, <2>1, <2>2, ShiftedOffsets
  <2>4. QED
    BY <2>3 DEF Shifted
<1>16. ASSUME NEW j \in m .. n + 1
       PROVE  at(j + c) = off(j) - (off(next) - off(k)) + d
  <2>1. j \in 1 .. n + 1 /\ j + c \in 1 .. n + k - next + 1 /\ m \in 1 .. n + 1 /\ next \in 1 .. n + 1 /\ k \in 1 .. n + 1
    BY <1>2, <1>7
  <2>2. at(m + c) = at(k + 1)
    BY <1>12
  <2>3. at(j + c) - off(j) = at(k + 1) - off(m)
    BY <1>15, <2>2
  <2>4. at(j + c) \in Nat /\ off(j) \in Nat /\ off(k) \in Nat /\ off(next) \in Nat /\ raw(next) \in Nat
    <3> HIDE DEF at, off, raw, c, n, m
    <3>1. QED
      BY <1>9, <1>10, <1>11, <1>12, <2>1
  <2> DEFINE x == at(j + c)
             y == at(k + 1)
  <2>5. x - off(j) = y - off(m) /\ x \in Nat /\ y = off(k) + raw(next) + d /\ off(m) = off(next) + raw(next)
    BY <1>14, <2>3, <2>4
  <2> DEFINE oj == off(j)
             om == off(m)
             ok == off(k)
             on == off(next)
             rn == raw(next)
  <2>6. d \in Int
    BY <1>6
  <2>7. oj \in Nat /\ ok \in Nat /\ on \in Nat /\ rn \in Nat /\ x - oj = y - om /\ x \in Nat /\ y = ok + rn + d /\ om = on + rn
    BY <2>4, <2>5
  <2> HIDE DEF x, y, oj, om, ok, on, rn, d
  <2>8. x = oj - (on - ok) + d
    BY <2>6, <2>7
  <2>9. QED
    BY <2>8 DEF x, oj, on, ok
<1>17. QED
  BY <1>16

LEMMA ClosedHeader ==
  ASSUME NEW zl, GoodZiplist(zl), NEW k \in 1 .. Len(zl.entries), NEW next \in k + 1 .. Len(zl.entries) + 1
  PROVE  LET z == Closed(zl, k, next)
             m == Len(z.entries)
         IN /\ z.bytes = Offset(z, m + 1) + 1
            /\ z.tail = Offset(z, IF z.entries = <<>> THEN 1 ELSE m)
            /\ z.length < UINT16_MAX => z.length = m
<1> DEFINE n == Len(zl.entries)
           z == Closed(zl, k, next)
           d == GapDiff(zl, k, next)
           m == Len(z.entries)
           off(j) == Offset(zl, j)
           at(j) == Offset(z, j)
           tot == off(next) - off(k)
<1>1. zl \in Ziplist
  BY GoodBounds
<1>2. n \in Nat /\ k \in Nat /\ next \in Nat /\ k < next /\ next <= n + 1 /\ 1 <= k /\ k <= n /\ (zl.entries = <<>> <=> n = 0) /\ zl.length \in Nat
  BY <1>1, EntriesAre
<1>3. z \in Ziplist /\ m = n + k - next
  BY ClosedIs
<1>4. /\ z.bytes = zl.bytes - tot + d /\ z.length = IncrLength(zl, k - next)
      /\ z.tail = IF next > n THEN off(k) - zl.entries[k].prevlen ELSE zl.tail - tot + (IF next < n THEN d ELSE 0)
  BY ClosedIs
<1>5. (z.entries = <<>> <=> m = 0) /\ m \in Nat
  BY <1>3, EntriesAre
<1>6. /\ zl.bytes = off(n + 1) + 1 /\ zl.tail = off(IF zl.entries = <<>> THEN 1 ELSE n)
      /\ zl.length < UINT16_MAX => zl.length = n
      /\ PrevlenAgrees(zl, k)
  BY <1>1, GoodIs
<1>7. d \in {-4, 0, 4} /\ (next = n + 1 => d = 0)
  BY <1>1, GapDiffIs
<1>8. \A j \in 1 .. n + 1 : off(j) \in Nat
  BY <1>1, OffsetIs
<1>9. \A j \in 1 .. k : at(j) = off(j)
  BY ClosedFront
<1>10. \A j \in next + 1 .. n + 1 : at(j + (k - next)) = off(j) - tot + d
  BY ClosedBehind
<1>11. zl.tail = off(n)
  BY <1>2, <1>6
<1>12. k \in 1 .. k /\ k \in 1 .. n + 1 /\ next \in 1 .. n + 1 /\ n \in 1 .. n + 1 /\ n + 1 \in 1 .. n + 1
  BY <1>2
<1>13. off(k) \in Nat /\ off(next) \in Nat /\ off(n) \in Nat /\ off(n + 1) \in Nat
  BY <1>8, <1>12
<1> HIDE DEF z, m, off, at, d
<1>14. z.bytes = at(m + 1) + 1
  <2>1. CASE next = n + 1
    <3>1. m + 1 = k
      BY <1>2, <1>3, <2>1
    <3>2. at(m + 1) = off(k)
      BY <1>9, <1>12, <3>1
    <3>3. off(next) = off(n + 1)
      BY <2>1
    <3>4. QED
      BY <1>4, <1>6, <1>7, <1>13, <2>1, <3>2, <3>3
  <2>2. CASE next # n + 1
    <3>1. n + 1 \in next + 1 .. n + 1 /\ n + 1 + (k - next) = m + 1
      BY <1>2, <1>3, <2>2
    <3>2. at(n + 1 + (k - next)) = off(n + 1) - tot + d
      BY <1>10, <3>1
    <3>3. at(m + 1) = off(n + 1) - tot + d
      BY <3>1, <3>2
    <3>4. QED
      BY <1>4, <1>6, <1>7, <1>13, <3>3
  <2>3. QED
    BY <2>1, <2>2
<1>15. z.tail = at(IF m = 0 THEN 1 ELSE m)
  <2>1. CASE next = n + 1
    <3>1. m + 1 = k /\ next > n
      BY <1>2, <1>3, <2>1
    <3>2. z.tail = off(k) - zl.entries[k].prevlen
      BY <1>4, <3>1
    <3>3. CASE k = 1
      <4>1. m = 0 /\ at(1) = off(1)
        BY <1>5, <1>9, <1>12, <3>1, <3>3
      <4>2. zl.entries[k].prevlen = 0
        BY <1>6, <3>3 DEF PrevlenAgrees
      <4>3. z.tail = off(1)
        BY <1>13, <3>2, <3>3, <4>2
      <4>4. QED
        BY <4>1, <4>3
    <3>4. CASE k # 1
      <4>1. m # 0 /\ k - 1 = m /\ m \in 1 .. k /\ m \in 1 .. n /\ m \in 1 .. n + 1
        BY <1>2, <1>5, <3>1, <3>4
      <4>2. zl.entries[k].prevlen = RawLength(zl.entries[m])
        BY <1>6, <3>4, <4>1 DEF PrevlenAgrees
      <4>3. off(m + 1) = off(m) + RawLength(zl.entries[m]) /\ RawLength(zl.entries[m]) \in Nat /\ off(m) \in Nat
        BY <1>1, <1>8, <4>1, OffsetIs, EntriesAre DEF off
      <4>4. off(m + 1) = off(k)
        BY <3>1
      <4>5. z.tail = off(m)
        BY <3>2, <4>2, <4>3, <4>4
      <4>6. QED
        BY <1>9, <4>1, <4>5
    <3>5. QED
      BY <3>3, <3>4
  <2>2. CASE next = n
    <3>1. m = k /\ m # 0 /\ ~(next > n) /\ ~(next < n)
      BY <1>2, <1>3, <2>2
    <3>2. z.tail = zl.tail - tot + 0
      BY <1>4, <3>1
    <3>3. off(next) = off(n)
      BY <2>2
    <3>4. z.tail = off(k)
      BY <1>11, <1>13, <3>2, <3>3
    <3>5. at(k) = off(k)
      BY <1>9, <1>12
    <3>6. QED
      BY <3>1, <3>4, <3>5
  <2>3. CASE next < n
    <3>1. n \in next + 1 .. n + 1 /\ n + (k - next) = m /\ m # 0 /\ ~(next > n)
      BY <1>2, <1>3, <2>3
    <3>2. at(n + (k - next)) = off(n) - tot + d
      BY <1>10, <3>1
    <3>3. at(m) = off(n) - tot + d
      BY <3>1, <3>2
    <3>4. z.tail = zl.tail - tot + d
      BY <1>4, <2>3, <3>1
    <3>5. QED
      BY <1>11, <3>1, <3>3, <3>4
  <2>4. next = n + 1 \/ next = n \/ next < n
    BY <1>2
  <2>5. QED
    BY <2>1, <2>2, <2>3, <2>4
<1>16. z.length < UINT16_MAX => z.length = m
  <2>1. zl.length < UINT16_MAX => zl.length + (k - next) = m
    BY <1>2, <1>3, <1>6
  <2>2. QED
    BY <1>2, <1>4, <2>1, ZipListAssumption DEF IncrLength
<1>17. QED
  BY <1>5, <1>14, <1>15, <1>16 DEF z, m, at

LEMMA ClosedAgrees ==
  ASSUME NEW zl, GoodZiplist(zl), NEW k \in 1 .. Len(zl.entries), NEW next \in k + 1 .. Len(zl.entries) + 1
  PROVE  LET z == Closed(zl, k, next)
         IN \A j \in 1 .. Len(z.entries) : j # k + 1 \/ GapDiff(zl, k, next) = 0 => PrevlenAgrees(z, j)
<1> DEFINE n == Len(zl.entries)
           z == Closed(zl, k, next)
           d == GapDiff(zl, k, next)
           w(j) == Rest(zl, k, next)[j]
<1>1. zl \in Ziplist
  BY GoodBounds
<1>2. n \in Nat /\ k \in Nat /\ next \in Nat /\ k < next /\ next <= n + 1 /\ 1 <= k /\ k <= n
  BY <1>1, EntriesAre
<1>3. Len(z.entries) = n + k - next /\ \A j \in 1 .. n + k - next : z.entries[j] = IF j < k THEN zl.entries[j] ELSE w(j + next - k)
  BY ClosedIs
<1>4. \A j \in 1 .. n : PrevlenAgrees(zl, j)
  BY <1>1, GoodIs
<1>5. \A j \in 1 .. n :
        /\ w(j).prevlen = IF j = next THEN zl.entries[k].prevlen ELSE zl.entries[j].prevlen
        /\ w(j).prevsize = IF j = next THEN PrevSize(zl.entries[k].prevlen) ELSE zl.entries[j].prevsize
        /\ RawLength(w(j)) = RawLength(zl.entries[j]) + (IF j = next THEN d ELSE 0)
        /\ RawLength(zl.entries[j]) \in Nat
  <2>1. SUFFICES ASSUME NEW j \in 1 .. n
                 PROVE  /\ w(j).prevlen = IF j = next THEN zl.entries[k].prevlen ELSE zl.entries[j].prevlen
                        /\ w(j).prevsize = IF j = next THEN PrevSize(zl.entries[k].prevlen) ELSE zl.entries[j].prevsize
                        /\ RawLength(w(j)) = RawLength(zl.entries[j]) + (IF j = next THEN d ELSE 0)
                        /\ RawLength(zl.entries[j]) \in Nat
    OBVIOUS
  <2>2. QED
    BY <1>1, RestIs, EntriesAre
<1> HIDE DEF z, d, w, n
<1>6. ASSUME NEW j \in 1 .. n + k - next, j # k + 1 \/ d = 0
      PROVE  PrevlenAgrees(z, j)
  <2>1. j \in Int /\ 1 <= j /\ j <= n + k - next
    BY <1>2
  <2>2. CASE j < k
    <3>1. j \in 1 .. n
      BY <1>2, <2>1, <2>2
    <3>2. z.entries[j] = zl.entries[j]
      BY <1>3, <2>2
    <3>3. j # 1 => j - 1 \in 1 .. n + k - next /\ j - 1 < k
      BY <1>2, <2>1, <2>2
    <3>4. j # 1 => z.entries[j - 1] = zl.entries[j - 1]
      BY <1>3, <3>3
    <3>5. PrevlenAgrees(zl, j)
      BY <1>4, <3>1
    <3>6. QED
      BY <3>2, <3>4, <3>5 DEF PrevlenAgrees
  <2>3. CASE j = k
    <3>1. ~(j < k) /\ j + next - k = next /\ next \in 1 .. n /\ k \in 1 .. n
      BY <1>2, <2>1, <2>3
    <3>2. z.entries[j] = w(next)
      BY <1>3, <3>1
    <3>3. z.entries[j].prevlen = zl.entries[k].prevlen /\ z.entries[j].prevsize = PrevSize(zl.entries[k].prevlen)
      BY <1>5, <3>1, <3>2
    <3>4. k # 1 => k - 1 \in 1 .. n + k - next /\ k - 1 < k
      BY <1>2, <2>1, <2>3
    <3>5. k # 1 => z.entries[k - 1] = zl.entries[k - 1]
      BY <1>3, <3>4
    <3>6. PrevlenAgrees(zl, k)
      BY <1>4, <3>1
    <3>7. QED
      BY <2>3, <3>3, <3>5, <3>6 DEF PrevlenAgrees
  <2>4. CASE j > k
    <3> DEFINE i == j + next - k
    <3>1. ~(j < k) /\ i \in 1 .. n /\ i # next /\ j # 1 /\ i # 1 /\ i - 1 \in 1 .. n /\ (j - 1 = k <=> i - 1 = next)
      BY <1>2, <2>1, <2>4
    <3>2. j - 1 \in 1 .. n + k - next /\ ~(j - 1 < k) /\ j - 1 + next - k = i - 1
      BY <1>2, <2>1, <2>4
    <3>3. z.entries[j] = w(i) /\ z.entries[j - 1] = w(i - 1)
      BY <1>3, <3>1, <3>2
    <3>4. i - 1 = next => d = 0
      <4>1. i - 1 = next => j = k + 1
        BY <1>2, <2>1, <3>1
      <4>2. QED
        BY <1>6, <4>1
    <3> HIDE DEF i
    <3>5. z.entries[j].prevlen = zl.entries[i].prevlen /\ z.entries[j].prevsize = zl.entries[i].prevsize
      BY <1>5, <3>1, <3>3
    <3>6. RawLength(z.entries[j - 1]) = RawLength(zl.entries[i - 1])
      <4>1. RawLength(z.entries[j - 1]) = RawLength(zl.entries[i - 1]) + (IF i - 1 = next THEN d ELSE 0) /\ RawLength(zl.entries[i - 1]) \in Nat
        BY <1>5, <3>1, <3>3
      <4>2. QED
        BY <3>4, <4>1
    <3>7. PrevlenAgrees(zl, i)
      BY <1>4, <3>1
    <3>8. QED
      BY <3>1, <3>5, <3>6, <3>7 DEF PrevlenAgrees
  <2>5. j < k \/ j = k \/ j > k
    BY <1>2, <2>1
  <2>6. QED
    BY <2>2, <2>3, <2>4, <2>5
<1>7. QED
  BY <1>3, <1>6 DEF z, d, n

\* A deletion takes out the entries from k on, as many as asked for and there.
LEMMA DeleteIs ==
  ASSUME NEW zl, GoodZiplist(zl), NEW k \in 1 .. Len(zl.entries) + 1, NEW num \in Nat
  PROVE  LET r == DeleteFrom(zl, Offset(zl, k), num)
             next == NextAfter(zl, k, num)
         IN /\ GoodZiplist(r) /\ Len(r.entries) = Len(zl.entries) + k - next /\ next \in k .. Len(zl.entries) + 1
            /\ \A j \in 1 .. Len(zl.entries) + k - next :
                 r.entries[j].val = IF j < k THEN zl.entries[j].val ELSE zl.entries[j + next - k].val
            /\ \A j \in 1 .. k : Offset(r, j) = Offset(zl, j)
<1> DEFINE n == Len(zl.entries)
           next == NextAfter(zl, k, num)
           d == GapDiff(zl, k, next)
           z == Closed(zl, k, next)
           r == DeleteFrom(zl, Offset(zl, k), num)
<1>1. zl \in Ziplist
  BY GoodBounds
<1>2. n \in Nat /\ k \in Nat
  BY <1>1, EntriesAre
<1>3. next \in k .. n + 1 /\ r = IF next = k THEN zl ELSE IF d # 0 THEN Cascade(z, k) ELSE z
  BY <1>1, DeleteCloses
<1> HIDE DEF next, r
<1>4. CASE next = k
  <2>1. r = zl
    BY <1>3, <1>4
  <2>2. n + k - next = n /\ \A j \in 1 .. n : j + next - k = j
    BY <1>2, <1>4
  <2>3. \A j \in 1 .. n : zl.entries[j].val = IF j < k THEN zl.entries[j].val ELSE zl.entries[j + next - k].val
    BY <2>2
  <2>4. Len(r.entries) = n + k - next
    BY <2>1, <2>2
  <2>5. QED
    BY <1>3, <2>1, <2>2, <2>3, <2>4 DEF r, next
<1>5. CASE next # k
  <2>1. k \in 1 .. n /\ next \in k + 1 .. n + 1
    BY <1>2, <1>3, <1>5
  <2>2. z \in Ziplist /\ Len(z.entries) = n + k - next
    BY <2>1, ClosedIs
  <2>3. \A j \in 1 .. n + k - next : z.entries[j].val = IF j < k THEN zl.entries[j].val ELSE zl.entries[j + next - k].val
    <3>1. \A j \in 1 .. n + k - next : z.entries[j] = IF j < k THEN zl.entries[j] ELSE Rest(zl, k, next)[j + next - k]
      BY <2>1, ClosedIs
    <3>2. \A j \in 1 .. n : Rest(zl, k, next)[j].val = zl.entries[j].val
      BY <1>1, <2>1, RestIs
    <3>3. \A j \in 1 .. n + k - next : ~(j < k) => j + next - k \in 1 .. n
      BY <1>2, <2>1
    <3> HIDE DEF z, n
    <3>4. QED
      BY <3>1, <3>2, <3>3
  <2>4. LET m == Len(z.entries)
        IN /\ z.bytes = Offset(z, m + 1) + 1
           /\ z.tail = Offset(z, IF z.entries = <<>> THEN 1 ELSE m)
           /\ z.length < UINT16_MAX => z.length = m
    BY <2>1, ClosedHeader
  <2>5. \A j \in 1 .. Len(z.entries) : j # k + 1 \/ d = 0 => PrevlenAgrees(z, j)
    BY <2>1, ClosedAgrees
  <2>6. \A j \in 1 .. k : Offset(z, j) = Offset(zl, j)
    BY <2>1, ClosedFront
  <2>7. next = n + 1 => d = 0
    BY <1>1, <2>1, GapDiffIs
  <2> HIDE DEF z, d, n
  <2>8. CASE d = 0
    <3>1. r = z
      BY <1>3, <1>5, <2>8
    <3>2. GoodZiplist(z)
      BY <2>2, <2>4, <2>5, <2>8, GoodIs
    <3>3. QED
      BY <1>3, <2>2, <2>3, <2>6, <3>1, <3>2 DEF r, next, n
  <2>9. CASE d # 0
    <3>1. r = Cascade(z, k)
      BY <1>3, <1>5, <2>9
    <3>2. k \in 1 .. Len(z.entries)
      BY <1>2, <2>1, <2>2, <2>7, <2>9
    <3>3. z.entries # <<>>
      BY <2>2, <3>2, EntriesAre
    <3>4. GoodZiplist(r)
      BY <2>2, <2>4, <2>5, <3>1, <3>2, <3>3, CascadeIs
    <3>5. /\ r \in Ziplist /\ Len(r.entries) = n + k - next
          /\ \A j \in 1 .. n + k - next : r.entries[j].val = z.entries[j].val
          /\ \A j \in 1 .. k : r.entries[j] = z.entries[j]
      BY <2>2, <3>1, <3>2, CascadeKeeps
    <3>6. k - 1 \in Nat /\ k - 1 <= Len(z.entries) /\ k - 1 <= Len(r.entries) /\ k - 1 + 1 = k /\ \A j \in 1 .. k - 1 : j \in 1 .. k
      BY <1>2, <2>2, <3>2, <3>5
    <3>7. \A j \in 1 .. k - 1 + 1 : Offset(r, j) = Offset(z, j)
      BY <2>2, <3>5, <3>6, SameOffsets
    <3>8. \A j \in 1 .. k : Offset(r, j) = Offset(zl, j)
      BY <2>6, <3>6, <3>7
    <3>9. QED
      BY <1>3, <2>3, <3>4, <3>5, <3>8 DEF r, next, n
  <2>10. QED
    BY <2>8, <2>9
<1>6. QED
  BY <1>4, <1>5

----------------------------------------------------------------------------
\* Walks.

\* The offset of an entry leads back to it; that of none is ZIP_END.
LEMMA AtOffset ==
  ASSUME NEW zl, GoodZiplist(zl), NEW k \in 1 .. Len(zl.entries) + 1
  PROVE  /\ zl \in Ziplist /\ Offset(zl, k) \in Nat /\ Offset(zl, k) # NULL
         /\ PosOf(zl, Offset(zl, k)) = k /\ EntryAt(zl, Offset(zl, k)) = zl.entries[k]
         /\ IsEnd(zl, Offset(zl, k)) <=> k = Len(zl.entries) + 1
<1>1. zl \in Ziplist
  BY DEF GoodZiplist
<1>2. Len(zl.entries) \in Nat /\ zl.bytes \in Nat
  BY <1>1, EntriesAre
<1>3. Offset(zl, k) \in Nat /\ Offset(zl, Len(zl.entries) + 1) \in Nat
  BY <1>1, <1>2, OffsetIs
<1>4. zl.bytes = Offset(zl, Len(zl.entries) + 1) + 1
  BY <1>1, GoodIs
<1>5. PosOf(zl, Offset(zl, k)) = k
  BY <1>1, PosOfOffset
<1>6. EntryAt(zl, Offset(zl, k)) = zl.entries[k]
  BY <1>5 DEF EntryAt
<1>7. IsEnd(zl, Offset(zl, k)) <=> k = Len(zl.entries) + 1
  <2>1. zl.bytes - 1 = Offset(zl, Len(zl.entries) + 1)
    BY <1>2, <1>3, <1>4
  <2>2. k # Len(zl.entries) + 1 => Offset(zl, k) + 2 <= Offset(zl, Len(zl.entries) + 1)
    <3>1. SUFFICES ASSUME k # Len(zl.entries) + 1
                   PROVE  Offset(zl, k) + 2 <= Offset(zl, Len(zl.entries) + 1)
      OBVIOUS
    <3>2. k < Len(zl.entries) + 1 /\ Len(zl.entries) + 1 \in 1 .. Len(zl.entries) + 1
      BY <1>2, <3>1
    <3>3. QED
      BY <1>1, <3>2, OffsetsAscend
  <2>3. QED
    BY <1>3, <2>1, <2>2 DEF IsEnd
<1>8. Offset(zl, k) # NULL
  BY <1>3, ZipListAssumption
<1>9. QED
  BY <1>1, <1>3, <1>5, <1>6, <1>7, <1>8

\* The two ends.
LEMMA EndsAre ==
  ASSUME NEW zl, GoodZiplist(zl)
  PROVE  /\ zl \in Ziplist /\ Len(zl.entries) \in Nat
         /\ ZIPLIST_HEADER_SIZE = Offset(zl, 1) /\ zl.bytes - 1 = Offset(zl, Len(zl.entries) + 1)
         /\ zl.tail = Offset(zl, IF Len(zl.entries) = 0 THEN 1 ELSE Len(zl.entries))
<1>1. zl \in Ziplist
  BY DEF GoodZiplist
<1>2. Len(zl.entries) \in Nat /\ zl.bytes \in Nat /\ zl.entries \in Seq(Entry)
  BY <1>1, EntriesAre
<1>3. Offset(zl, Len(zl.entries) + 1) \in Nat /\ ZIPLIST_HEADER_SIZE = Offset(zl, 1)
  BY <1>1, <1>2, OffsetIs
<1>4. zl.bytes = Offset(zl, Len(zl.entries) + 1) + 1
  BY <1>1, GoodIs
<1>5. zl.tail = Offset(zl, IF zl.entries = <<>> THEN 1 ELSE Len(zl.entries))
  BY <1>1, GoodIs
<1>6. zl.entries = <<>> <=> Len(zl.entries) = 0
  BY <1>2
<1>7. QED
  BY <1>1, <1>2, <1>3, <1>4, <1>5, <1>6

LEMMA NextIs ==
  ASSUME NEW zl, GoodZiplist(zl), NEW k \in 1 .. Len(zl.entries) + 1
  PROVE  ZiplistNext(zl, Offset(zl, k)) = IF k < Len(zl.entries) THEN Offset(zl, k + 1) ELSE NULL
<1>1. Len(zl.entries) \in Nat /\ zl \in Ziplist
  BY EndsAre
<1>2. CASE k = Len(zl.entries) + 1
  <2>1. IsEnd(zl, Offset(zl, k))
    BY <1>2, AtOffset
  <2>2. QED
    BY <1>1, <1>2, <2>1 DEF ZiplistNext
<1>3. CASE k <= Len(zl.entries)
  <2>1. k \in 1 .. Len(zl.entries) /\ k + 1 \in 1 .. Len(zl.entries) + 1 /\ k # Len(zl.entries) + 1
    BY <1>1, <1>3
  <2>2. ~IsEnd(zl, Offset(zl, k)) /\ EntryAt(zl, Offset(zl, k)) = zl.entries[k]
    BY <2>1, AtOffset
  <2>3. Offset(zl, k) + RawLength(zl.entries[k]) = Offset(zl, k + 1)
    BY <1>1, <2>1, OffsetIs
  <2>4. IsEnd(zl, Offset(zl, k + 1)) <=> k + 1 = Len(zl.entries) + 1
    BY <2>1, AtOffset
  <2>5. IsEnd(zl, Offset(zl, k + 1)) <=> ~(k < Len(zl.entries))
    BY <1>1, <1>3, <2>1, <2>4
  <2>6. QED
    BY <2>2, <2>3, <2>5 DEF ZiplistNext
<1>4. QED
  BY <1>1, <1>2, <1>3

LEMMA PrevIs ==
  ASSUME NEW zl, GoodZiplist(zl), NEW k \in 1 .. Len(zl.entries) + 1
  PROVE  ZiplistPrev(zl, Offset(zl, k)) = IF k = 1 THEN NULL ELSE Offset(zl, k - 1)
<1>1. /\ Len(zl.entries) \in Nat /\ zl \in Ziplist /\ ZIPLIST_HEADER_SIZE = Offset(zl, 1)
      /\ zl.tail = Offset(zl, IF Len(zl.entries) = 0 THEN 1 ELSE Len(zl.entries))
  BY EndsAre
<1>2. CASE k = Len(zl.entries) + 1
  <2>1. IsEnd(zl, Offset(zl, k))
    BY <1>2, AtOffset
  <2>2. IsEnd(zl, zl.tail) <=> Len(zl.entries) = 0
    <3>1. CASE Len(zl.entries) = 0
      <4>1. zl.tail = Offset(zl, 1) /\ 1 \in 1 .. Len(zl.entries) + 1 /\ 1 = Len(zl.entries) + 1
        BY <1>1, <3>1
      <4>2. QED
        BY <3>1, <4>1, AtOffset
    <3>2. CASE Len(zl.entries) # 0
      <4>1. Len(zl.entries) \in 1 .. Len(zl.entries) + 1 /\ Len(zl.entries) # Len(zl.entries) + 1
        BY <1>1, <3>2
      <4>2. ~IsEnd(zl, Offset(zl, Len(zl.entries)))
        BY <4>1, AtOffset
      <4>3. QED
        BY <1>1, <3>2, <4>2
    <3>3. QED
      BY <3>1, <3>2
  <2>3. k = 1 <=> Len(zl.entries) = 0
    BY <1>1, <1>2
  <2>4. k - 1 = Len(zl.entries)
    BY <1>1, <1>2
  <2>5. QED
    BY <1>1, <2>1, <2>2, <2>3, <2>4 DEF ZiplistPrev
<1>3. CASE k <= Len(zl.entries)
  <2>1. k \in 1 .. Len(zl.entries) /\ k # Len(zl.entries) + 1 /\ 1 \in 1 .. Len(zl.entries) + 1
    BY <1>1, <1>3
  <2>2. ~IsEnd(zl, Offset(zl, k)) /\ EntryAt(zl, Offset(zl, k)) = zl.entries[k]
    BY <2>1, AtOffset
  <2>3. Offset(zl, k) = ZIPLIST_HEADER_SIZE <=> k = 1
    <3>1. PosOf(zl, Offset(zl, k)) = k /\ PosOf(zl, Offset(zl, 1)) = 1
      BY <1>1, <2>1, PosOfOffset
    <3>2. QED
      BY <1>1, <3>1
  <2>4. k # 1 => Offset(zl, k) - zl.entries[k].prevlen = Offset(zl, k - 1)
    <3>1. SUFFICES ASSUME k # 1
                   PROVE  Offset(zl, k) - zl.entries[k].prevlen = Offset(zl, k - 1)
      OBVIOUS
    <3> DEFINE j == k - 1
    <3>2. j \in 1 .. Len(zl.entries) /\ j + 1 = k /\ j \in 1 .. Len(zl.entries) + 1
      BY <1>1, <2>1, <3>1
    <3>3. zl.entries[k].prevlen = RawLength(zl.entries[j])
      BY <1>1, <2>1, <3>1, GoodIs DEF PrevlenAgrees
    <3> HIDE DEF j
    <3>4. Offset(zl, j + 1) = Offset(zl, j) + RawLength(zl.entries[j]) /\ Offset(zl, j) \in Nat
      BY <1>1, <3>2, OffsetIs
    <3>5. RawLength(zl.entries[j]) \in Nat
      BY <1>1, <3>2, EntriesAre
    <3>6. Offset(zl, k) - RawLength(zl.entries[j]) = Offset(zl, j)
      BY <3>2, <3>4, <3>5
    <3>7. QED
      BY <3>3, <3>6 DEF j
  <2>5. QED
    BY <2>2, <2>3, <2>4 DEF ZiplistPrev
<1>4. QED
  BY <1>1, <1>2, <1>3

\* The walk from the tail, i entries back.
BackStep(f, zl, i) ==
  IF i = 0 THEN ZiplistPrev(zl, zl.bytes - 1)
  ELSE IF f[i - 1] = NULL \/ EntryAt(zl, f[i - 1]).prevlen = 0 THEN NULL
  ELSE f[i - 1] - EntryAt(zl, f[i - 1]).prevlen

BackFrom(zl, i) == IF i < Len(zl.entries) THEN Offset(zl, Len(zl.entries) - i) ELSE NULL

\* One step of it, from an entry to the one before.
LEMMA PrevlenLeads ==
  ASSUME NEW zl, GoodZiplist(zl), NEW k \in 1 .. Len(zl.entries)
  PROVE  LET p == Offset(zl, k)
         IN (IF p = NULL \/ EntryAt(zl, p).prevlen = 0 THEN NULL ELSE p - EntryAt(zl, p).prevlen) =
              IF k = 1 THEN NULL ELSE Offset(zl, k - 1)
<1> DEFINE p == Offset(zl, k)
           e == zl.entries[k]
<1>1. Len(zl.entries) \in Nat /\ zl \in Ziplist /\ k \in 1 .. Len(zl.entries) + 1
  BY EndsAre
<1>2. p \in Nat /\ p # NULL /\ EntryAt(zl, p) = e
  BY <1>1, AtOffset
<1>3. e.prevlen = IF k = 1 THEN 0 ELSE RawLength(zl.entries[k - 1])
  BY <1>1, GoodIs DEF PrevlenAgrees
<1>4. CASE k = 1
  BY <1>2, <1>3, <1>4
<1>5. CASE k # 1
  <2> DEFINE j == k - 1
  <2>1. j \in 1 .. Len(zl.entries) /\ j + 1 = k
    BY <1>1, <1>5
  <2>2. e.prevlen = RawLength(zl.entries[j])
    BY <1>3, <1>5
  <2> HIDE DEF j
  <2>3. RawLength(zl.entries[j]) \in Nat /\ RawLength(zl.entries[j]) >= 2
    BY <1>1, <2>1, EntriesAre
  <2>4. Offset(zl, j + 1) = Offset(zl, j) + RawLength(zl.entries[j]) /\ Offset(zl, j) \in Nat
    BY <1>1, <2>1, OffsetIs
  <2>5. p = Offset(zl, j) + RawLength(zl.entries[j])
    BY <2>1, <2>4
  <2> HIDE DEF p
  <2>6. e.prevlen # 0 /\ p - e.prevlen = Offset(zl, j)
    BY <2>2, <2>3, <2>4, <2>5
  <2>7. QED
    BY <1>2, <1>5, <2>6 DEF j, p
<1>6. QED
  BY <1>4, <1>5

LEMMA BackIs ==
  ASSUME NEW zl, GoodZiplist(zl), NEW i \in Nat
  PROVE  LET back == CHOOSE f : f = [j \in Nat |-> BackStep(f, zl, j)]
         IN back[i] = BackFrom(zl, i)
<1> DEFINE n == Len(zl.entries)
           w == [j \in Nat |-> BackFrom(zl, j)]
           back == CHOOSE f : f = [j \in Nat |-> BackStep(f, zl, j)]
<1>1. n \in Nat /\ zl \in Ziplist /\ zl.bytes - 1 = Offset(zl, n + 1) /\ n + 1 \in 1 .. n + 1
  BY EndsAre
<1>2. ZiplistPrev(zl, zl.bytes - 1) = BackFrom(zl, 0)
  <2>1. ZiplistPrev(zl, Offset(zl, n + 1)) = IF n + 1 = 1 THEN NULL ELSE Offset(zl, n + 1 - 1)
    BY <1>1, PrevIs
  <2>2. n + 1 - 1 = n /\ n - 0 = n /\ (n + 1 = 1 <=> ~(0 < n))
    BY <1>1
  <2>3. QED
    BY <1>1, <2>1, <2>2 DEF BackFrom
<1>3. ASSUME NEW f, NEW j \in Nat, j # 0, f[j - 1] = BackFrom(zl, j - 1)
      PROVE  BackStep(f, zl, j) = BackFrom(zl, j)
  <2>1. CASE j - 1 < n
    <3> DEFINE k == n - (j - 1)
    <3>1. k \in 1 .. n /\ (k = 1 <=> ~(j < n)) /\ k - 1 = n - j
      BY <1>1, <1>3, <2>1
    <3>2. f[j - 1] = Offset(zl, k)
      BY <1>3, <2>1 DEF BackFrom
    <3> HIDE DEF k
    <3>3. BackStep(f, zl, j) = IF k = 1 THEN NULL ELSE Offset(zl, k - 1)
      BY <1>3, <3>1, <3>2, PrevlenLeads DEF BackStep
    <3>4. QED
      BY <3>1, <3>3 DEF BackFrom
  <2>2. CASE ~(j - 1 < n)
    <3>1. f[j - 1] = NULL /\ ~(j < n)
      BY <1>1, <1>3, <2>2 DEF BackFrom
    <3>2. QED
      BY <1>3, <3>1 DEF BackStep, BackFrom
  <2>3. QED
    BY <2>1, <2>2
<1>4. ASSUME NEW j \in Nat
      PROVE  w[j] = BackStep(w, zl, j)
  <2>1. CASE j = 0
    BY <1>2, <2>1 DEF BackStep
  <2>2. CASE j # 0
    <3>1. j - 1 \in Nat
      BY <2>2
    <3>2. w[j - 1] = BackFrom(zl, j - 1)
      BY <3>1
    <3> HIDE DEF w
    <3>3. BackStep(w, zl, j) = BackFrom(zl, j)
      BY <1>3, <2>2, <3>2
    <3>4. QED
      BY <3>3 DEF w
  <2>3. QED
    BY <2>1, <2>2
<1>5. w = [j \in Nat |-> BackStep(w, zl, j)]
  <2>1. w = [j \in Nat |-> w[j]]
    OBVIOUS
  <2> HIDE DEF w
  <2>2. QED
    BY <1>4, <2>1
<1>6. back = [j \in Nat |-> BackStep(back, zl, j)]
  <2> HIDE DEF w
  <2>1. QED
    BY <1>5
<1> HIDE DEF w, back
<1>7. \A j \in Nat : back[j] = BackStep(back, zl, j)
  BY <1>6
<1> DEFINE Wrong == {j \in Nat : back[j] # BackFrom(zl, j)}
<1>8. Wrong = {}
  <2>1. SUFFICES ASSUME Wrong # {}
                 PROVE  FALSE
    OBVIOUS
  <2>2. PICK j \in Wrong : \A m \in Wrong : j <= m
    BY <2>1, LeastNatural
  <2>3. j # 0
    BY <1>2, <1>7, <2>2 DEF BackStep
  <2>4. j \in Nat /\ j - 1 \in Nat /\ ~(j <= j - 1)
    BY <2>2, <2>3
  <2>5. back[j - 1] = BackFrom(zl, j - 1)
    BY <2>2, <2>4
  <2>6. BackStep(back, zl, j) = BackFrom(zl, j)
    BY <1>3, <2>3, <2>4, <2>5
  <2>7. QED
    BY <1>7, <2>2, <2>4, <2>6
<1>9. back[i] = BackFrom(zl, i)
  BY <1>8
<1>10. QED
  BY <1>9 DEF back

LEMMA IndexIs ==
  ASSUME NEW zl, GoodZiplist(zl), NEW index \in Int
  PROVE  LET n == Len(zl.entries)
         IN ZiplistIndex(zl, index) =
              IF index >= 0 THEN (IF index < n THEN Offset(zl, index + 1) ELSE NULL)
              ELSE IF -index <= n THEN Offset(zl, n + 1 + index) ELSE NULL
<1> DEFINE n == Len(zl.entries)
           back == CHOOSE f : f = [j \in Nat |-> BackStep(f, zl, j)]
<1>1. n \in Nat
  BY EndsAre
<1>2. CASE index >= 0
  BY <1>2 DEF ZiplistIndex
<1>3. CASE ~(index >= 0)
  <2>1. ZiplistIndex(zl, index) = back[-index - 1]
    BY <1>3 DEF ZiplistIndex, BackStep
  <2>2. -index - 1 \in Nat
    BY <1>3
  <2>3. back[-index - 1] = BackFrom(zl, -index - 1)
    BY <2>2, BackIs
  <2> HIDE DEF back
  <2>4. n - (-index - 1) = n + 1 + index /\ (-index - 1 < n <=> -index <= n)
    <3> HIDE DEF n
    <3>1. QED
      BY <1>1
  <2>5. QED
    BY <1>3, <2>1, <2>3, <2>4 DEF BackFrom
<1>4. QED
  BY <1>2, <1>3

----------------------------------------------------------------------------
\* The other functions.

LEMMA GetIs ==
  ASSUME NEW zl, GoodZiplist(zl)
  PROVE  /\ ZiplistGet(zl, NULL) = NULL
         /\ \A k \in 1 .. Len(zl.entries) + 1 :
              ZiplistGet(zl, Offset(zl, k)) = IF k <= Len(zl.entries) THEN zl.entries[k].val ELSE NULL
<1>1. Len(zl.entries) \in Nat
  BY EndsAre
<1>2. ASSUME NEW k \in 1 .. Len(zl.entries) + 1
      PROVE  ZiplistGet(zl, Offset(zl, k)) = IF k <= Len(zl.entries) THEN zl.entries[k].val ELSE NULL
  <2>1. /\ Offset(zl, k) # NULL /\ EntryAt(zl, Offset(zl, k)) = zl.entries[k]
        /\ IsEnd(zl, Offset(zl, k)) <=> k = Len(zl.entries) + 1
    BY AtOffset
  <2>2. k <= Len(zl.entries) <=> k # Len(zl.entries) + 1
    BY <1>1
  <2>3. QED
    BY <2>1, <2>2 DEF ZiplistGet
<1>3. QED
  BY <1>2 DEF ZiplistGet

LEMMA LengthAgrees ==
  ASSUME NEW zl, GoodZiplist(zl)
  PROVE  ZiplistLen(zl) = Len(zl.entries) /\ Len(zl.entries) \in Nat
<1>1. zl \in Ziplist /\ Len(zl.entries) \in Nat
  BY EndsAre
<1>2. QED
  BY <1>1, GoodIs DEF ZiplistLen

\* ziplistLen may set the counter, and nothing else.
LEMMA RecountedIs ==
  ASSUME NEW zl, GoodZiplist(zl)
  PROVE  GoodZiplist(Recounted(zl)) /\ Recounted(zl).entries = zl.entries
<1> DEFINE c == IF ZiplistLen(zl) < UINT16_MAX THEN ZiplistLen(zl) ELSE zl.length
           r == [zl EXCEPT !.length = c]
<1>1. zl \in Ziplist /\ Len(zl.entries) \in Nat /\ ZiplistLen(zl) = Len(zl.entries) /\ UINT16_MAX \in Nat
  BY EndsAre, LengthAgrees, ZipListAssumption
<1>2. Recounted(zl) = r
  BY DEF Recounted
<1>3. zl.bytes \in Nat /\ zl.tail \in Nat /\ zl.length \in Nat /\ zl.entries \in Seq(Entry)
  BY <1>1, EntriesAre
<1>4. c \in Nat /\ (c < UINT16_MAX => c = Len(zl.entries))
  BY <1>1, <1>3, GoodIs
<1> HIDE DEF c
<1>5. r.bytes = zl.bytes /\ r.tail = zl.tail /\ r.length = c /\ r.entries = zl.entries /\ r \in Ziplist
  BY <1>1, <1>4 DEF Ziplist
<1> HIDE DEF r
<1>6. \A k \in 1 .. Len(zl.entries) + 1 : Offset(r, k) = Offset(zl, k)
  BY <1>1, <1>5, SameOffsets
<1>7. /\ zl.bytes = Offset(zl, Len(zl.entries) + 1) + 1
      /\ zl.tail = Offset(zl, IF zl.entries = <<>> THEN 1 ELSE Len(zl.entries))
      /\ \A k \in 1 .. Len(zl.entries) : PrevlenAgrees(zl, k)
  BY <1>1, GoodIs
<1>8. r.bytes = Offset(r, Len(r.entries) + 1) + 1
  <2>1. Len(zl.entries) + 1 \in 1 .. Len(zl.entries) + 1
    BY <1>1
  <2>2. QED
    BY <1>5, <1>6, <1>7, <2>1
<1>9. r.tail = Offset(r, IF r.entries = <<>> THEN 1 ELSE Len(r.entries))
  <2>1. (IF zl.entries = <<>> THEN 1 ELSE Len(zl.entries)) \in 1 .. Len(zl.entries) + 1
    BY <1>1, <1>3
  <2>2. QED
    BY <1>5, <1>6, <1>7, <2>1
<1>10. \A k \in 1 .. Len(r.entries) : PrevlenAgrees(r, k)
  BY <1>5, <1>7 DEF PrevlenAgrees
<1>11. GoodZiplist(r)
  BY <1>4, <1>5, <1>8, <1>9, <1>10, GoodIs
<1>12. QED
  BY <1>2, <1>5, <1>11

LEMMA NewZiplistIs ==
  GoodZiplist(ZiplistNew) /\ ZiplistNew.entries = <<>>
<1> DEFINE r == ZiplistNew
<1>1. r.bytes = 11 /\ r.tail = 10 /\ r.length = 0 /\ r.entries = <<>>
  BY DEF ZiplistNew, ZIPLIST_HEADER_SIZE
<1>2. r \in Ziplist
  <2>1. <<>> \in Seq(Entry)
    OBVIOUS
  <2>2. QED
    BY <2>1 DEF ZiplistNew, ZIPLIST_HEADER_SIZE, Ziplist
<1> HIDE DEF r
<1>3. Len(r.entries) = 0
  BY <1>1
<1>4. Offset(r, 1) = 10
  BY <1>2, OffsetIs DEF ZIPLIST_HEADER_SIZE
<1>5. Len(r.entries) + 1 = 1
  BY <1>3
<1>6. r.bytes = Offset(r, Len(r.entries) + 1) + 1
  BY <1>1, <1>4, <1>5
<1>7. QED
  BY <1>1, <1>2, <1>3, <1>4, <1>6, GoodIs DEF r

\* ziplistFind finds the first of the entries it looks at.
FindsFirst(zl, k, v, skip) ==
  LET hits == {j \in k .. Len(zl.entries) : (j - k) % (skip + 1) = 0 /\ zl.entries[j].val = v}
      p == ZiplistFind(zl, Offset(zl, k), v, skip)
  IN /\ hits = {} => p = NULL
     /\ hits # {} => \E j \in hits : p = Offset(zl, j) /\ \A i \in hits : j <= i

LEMMA FoundIs ==
  ASSUME NEW zl, GoodZiplist(zl), NEW k \in 1 .. Len(zl.entries) + 1, NEW v, NEW skip \in Nat
  PROVE  FindsFirst(zl, k, v, skip)
<1> DEFINE hits == {j \in k .. Len(zl.entries) : (j - k) % (skip + 1) = 0 /\ zl.entries[j].val = v}
           p == ZiplistFind(zl, Offset(zl, k), v, skip)
<1>1. PosOf(zl, Offset(zl, k)) = k
  BY AtOffset
<1>2. p = IF hits = {} THEN NULL ELSE Offset(zl, Min(hits))
  BY <1>1 DEF ZiplistFind
<1>3. hits \in SUBSET Nat
  <2>1. Len(zl.entries) \in Nat
    BY EndsAre
  <2>2. QED
    BY <2>1
<1> HIDE DEF hits, p
<1>4. hits # {} => Min(hits) \in hits /\ \A i \in hits : Min(hits) <= i
  <2>1. hits # {} => \E x \in hits : \A y \in hits : x <= y
    BY <1>3, LeastNatural
  <2>2. QED
    BY <2>1 DEF Min
<1>5. (hits = {} => p = NULL) /\ (hits # {} => \E j \in hits : p = Offset(zl, j) /\ \A i \in hits : j <= i)
  BY <1>2, <1>4
<1>6. QED
  BY <1>5 DEF FindsFirst, hits, p

\* What an insertion in front of entry k is to do.
InsertedIn(r, zl, k, v) ==
  /\ GoodZiplist(r) /\ Len(r.entries) = Len(zl.entries) + 1
  /\ \A j \in 1 .. Len(zl.entries) + 1 :
       r.entries[j].val = IF j < k THEN zl.entries[j].val ELSE IF j = k THEN v ELSE zl.entries[j - 1].val
  /\ \A j \in 1 .. k : Offset(r, j) = Offset(zl, j)

\* The bytes of the last entry have been lost.
Spoilt(zl) ==
  /\ zl \in Ziplist /\ zl.bytes >= 2 /\ zl.tail >= 2 /\ Len(zl.entries) \in Nat \ {0}
  /\ zl.entries[Len(zl.entries)].val = Damaged

LEMMA InsertionIs ==
  ASSUME NEW zl, GoodZiplist(zl), NEW k \in 1 .. Len(zl.entries) + 1, NEW v \in Value
  PROVE  LET r == ZiplistInsert(zl, Offset(zl, k), v)
         IN \/ InsertedIn(r, zl, k, v)
            \/ Spoilt(r) /\ k <= Len(zl.entries) /\ Len(r.entries) = Len(zl.entries) + 1
               /\ ZiplistNext(r, Offset(zl, k)) = Offset(r, k + 1)
<1>1. Len(zl.entries) \in Nat
  BY EndsAre
<1> DEFINE r == ZiplistInsert(zl, Offset(zl, k), v)
<1>2. CASE ~Lost(zl, k, v)
  <2>1. InsertedIn(r, zl, k, v)
    <3>1. GoodZiplist(r) /\ Len(r.entries) = Len(zl.entries) + 1
      BY <1>2, InsertIs
    <3>2. \A j \in 1 .. Len(zl.entries) + 1 :
            r.entries[j].val = IF j < k THEN zl.entries[j].val ELSE IF j = k THEN v ELSE zl.entries[j - 1].val
      BY <1>2, InsertIs
    <3>3. \A j \in 1 .. k : Offset(r, j) = Offset(zl, j)
      BY <1>2, InsertIs
    <3> HIDE DEF r
    <3>4. QED
      BY <3>1, <3>2, <3>3 DEF InsertedIn
  <2>2. QED
    BY <2>1
<1>3. CASE Lost(zl, k, v)
  <2>1. /\ r \in Ziplist /\ r.bytes >= 2 /\ r.tail >= 2 /\ Len(r.entries) = Len(zl.entries) + 1 /\ k <= Len(zl.entries)
        /\ r.entries[Len(zl.entries) + 1].val = Damaged
        /\ ZiplistNext(r, Offset(zl, k)) = Offset(r, k + 1)
    BY <1>3, InsertLost
  <2> HIDE DEF r
  <2>2. Spoilt(r)
    BY <1>1, <2>1 DEF Spoilt
  <2>3. QED
    BY <2>1, <2>2 DEF r
<1>4. QED
  BY <1>2, <1>3

\* At the end nothing follows that could be lost.
LEMMA AppendIs ==
  ASSUME NEW zl, GoodZiplist(zl), NEW v \in Value
  PROVE  LET r == ZiplistPush(zl, v, ZIPLIST_TAIL)
         IN InsertedIn(r, zl, Len(zl.entries) + 1, v)
<1>1. Len(zl.entries) \in Nat /\ zl.bytes - 1 = Offset(zl, Len(zl.entries) + 1)
  BY EndsAre
<1>2. ZIPLIST_TAIL # ZIPLIST_HEAD
  BY DEF ZIPLIST_HEAD, ZIPLIST_TAIL
<1>3. ZiplistPush(zl, v, ZIPLIST_TAIL) = ZiplistInsert(zl, Offset(zl, Len(zl.entries) + 1), v)
  BY <1>1, <1>2 DEF ZiplistPush
<1>4. Len(zl.entries) + 1 \in 1 .. Len(zl.entries) + 1 /\ ~(Len(zl.entries) + 1 <= Len(zl.entries))
  BY <1>1
<1>5. QED
  BY <1>3, <1>4, InsertionIs

LEMMA PrependIs ==
  ASSUME NEW zl, GoodZiplist(zl), NEW v \in Value
  PROVE  LET r == ZiplistPush(zl, v, ZIPLIST_HEAD)
         IN InsertedIn(r, zl, 1, v) \/ Spoilt(r)
<1>1. Len(zl.entries) \in Nat /\ ZIPLIST_HEADER_SIZE = Offset(zl, 1)
  BY EndsAre
<1>2. ZiplistPush(zl, v, ZIPLIST_HEAD) = ZiplistInsert(zl, Offset(zl, 1), v)
  BY <1>1 DEF ZiplistPush
<1>3. 1 \in 1 .. Len(zl.entries) + 1
  BY <1>1
<1>4. QED
  BY <1>2, <1>3, InsertionIs

\* What shows of it.
Ruined(zl) == Len(zl.entries) \in DOMAIN zl.entries /\ zl.entries[Len(zl.entries)].val = Damaged

LEMMA SpoiltIsRuined ==
  ASSUME NEW zl, Spoilt(zl)
  PROVE  Ruined(zl) /\ Ruined(Recounted(zl))
<1>1. zl \in Ziplist /\ Len(zl.entries) \in Nat \ {0} /\ zl.entries[Len(zl.entries)].val = Damaged
  BY DEF Spoilt
<1>2. DOMAIN zl.entries = 1 .. Len(zl.entries)
  BY <1>1, EntriesAre
<1>3. Recounted(zl).entries = zl.entries
  BY <1>1 DEF Recounted, Ziplist
<1>4. QED
  BY <1>1, <1>2, <1>3 DEF Ruined

LEMMA SpoiltStays ==
  ASSUME NEW zl, Spoilt(zl), NEW k \in 1 .. Len(zl.entries), NEW v \in Value
  PROVE  Ruined(ZiplistInsert(zl, Offset(zl, k), v))
<1> DEFINE r == ZiplistInsert(zl, Offset(zl, k), v)
<1>1. zl \in Ziplist /\ zl.bytes >= 2 /\ zl.tail >= 2 /\ zl.entries[Len(zl.entries)].val = Damaged /\ Len(zl.entries) \in Nat
  BY DEF Spoilt
<1>2. r \in Ziplist /\ Len(r.entries) = Len(zl.entries) + 1 /\ r.entries[Len(zl.entries) + 1].val = Damaged
  BY <1>1, DamageStays
<1> HIDE DEF r
<1>3. DOMAIN r.entries = 1 .. Len(r.entries)
  BY <1>2, EntriesAre
<1>4. QED
  BY <1>1, <1>2, <1>3 DEF Ruined, r

\* What a deletion of num entries from entry k on is to do.
DeletedIn(r, zl, k, num) ==
  LET next == NextAfter(zl, k, num)
  IN /\ GoodZiplist(r) /\ Len(r.entries) = Len(zl.entries) + k - next /\ next \in k .. Len(zl.entries) + 1
     /\ \A j \in 1 .. Len(zl.entries) + k - next :
          r.entries[j].val = IF j < k THEN zl.entries[j].val ELSE zl.entries[j + next - k].val
     /\ \A j \in 1 .. k : Offset(r, j) = Offset(zl, j)

LEMMA DeleteAt ==
  ASSUME NEW zl, GoodZiplist(zl), NEW k \in 1 .. Len(zl.entries) + 1, NEW num \in Nat
  PROVE  DeletedIn(DeleteFrom(zl, Offset(zl, k), num), zl, k, num)
BY DeleteIs DEF DeletedIn

\* Of one entry.
LEMMA DeleteOne ==
  ASSUME NEW zl, GoodZiplist(zl), NEW k \in 1 .. Len(zl.entries)
  PROVE  LET r == ZiplistDelete(zl, Offset(zl, k))
         IN /\ GoodZiplist(r) /\ Len(r.entries) = Len(zl.entries) - 1
            /\ \A j \in 1 .. Len(zl.entries) - 1 :
                 r.entries[j].val = IF j < k THEN zl.entries[j].val ELSE zl.entries[j + 1].val
            /\ \A j \in 1 .. k : Offset(r, j) = Offset(zl, j)
<1> DEFINE n == Len(zl.entries)
           r == DeleteFrom(zl, Offset(zl, k), 1)
<1>1. n \in Nat /\ k \in 1 .. n + 1
  BY EndsAre
<1>2. DeletedIn(r, zl, k, 1)
  BY <1>1, DeleteAt
<1>3. ZiplistDelete(zl, Offset(zl, k)) = r
  BY DEF ZiplistDelete
<1> HIDE DEF r
<1>4. NextAfter(zl, k, 1) = k + 1
  BY <1>1 DEF NextAfter
<1>5. GoodZiplist(r) /\ Len(r.entries) = n + k - (k + 1)
  BY <1>2, <1>4 DEF DeletedIn
<1>6. \A j \in 1 .. k : Offset(r, j) = Offset(zl, j)
  BY <1>2 DEF DeletedIn
<1>7. \A j \in 1 .. n + k - (k + 1) : r.entries[j].val = IF j < k THEN zl.entries[j].val ELSE zl.entries[j + (k + 1) - k].val
  BY <1>2, <1>4 DEF DeletedIn
<1>8. n + k - (k + 1) = n - 1 /\ \A j \in 1 .. n - 1 : j + (k + 1) - k = j + 1
  BY <1>1
<1>9. \A j \in 1 .. n - 1 : r.entries[j].val = IF j < k THEN zl.entries[j].val ELSE zl.entries[j + 1].val
  BY <1>7, <1>8
<1>10. QED
  BY <1>3, <1>5, <1>6, <1>8, <1>9
=============================================================================
