--------------------------- MODULE DictScanProofs ---------------------------
(***************************************************************************)
(* Proofs about DictScan for every width of the cursor: scans are          *)
(* complete, advance and do not repeat.  The first part is arithmetic: the *)
(* entries of the bucket that a cursor points at are those whose reversed  *)
(* hashes lie in an interval that begins at the reversed cursor.           *)
(***************************************************************************)
EXTENDS DictScan, DictProofs

----------------------------------------------------------------------------
\* Powers of two.

IsPowers(f, n) == f = [b \in 0 .. n |-> IF b = 0 THEN 1 ELSE 2 * f[b - 1]]

LEMMA PowersExist ==
  ASSUME NEW n \in Nat
  PROVE  \E f : IsPowers(f, n)
<1> DEFINE Without == {m \in Nat : ~ \E f : IsPowers(f, m)}
<1>1. SUFFICES ASSUME Without # {}
               PROVE  FALSE
  OBVIOUS
<1>2. PICK m \in Without : \A k \in Without : m <= k
  <2>1. Without \in SUBSET Nat
    OBVIOUS
  <2>2. QED
    BY <1>1, <2>1, LeastNatural
<1>3. m \in Nat /\ ~ \E f : IsPowers(f, m)
  OBVIOUS
<1>4. CASE m = 0
  <2> DEFINE f == [b \in 0 .. 0 |-> 1]
  <2>1. f = [b \in 0 .. 0 |-> IF b = 0 THEN 1 ELSE 2 * f[b - 1]]
    OBVIOUS
  <2>2. QED
    BY <1>3, <1>4, <2>1 DEF IsPowers
<1>5. CASE m # 0
  <2>1. m - 1 \in Nat /\ m - 1 \notin Without
    BY <1>2, <1>3, <1>5
  <2>2. PICK g : IsPowers(g, m - 1)
    BY <2>1
  <2> DEFINE f == [b \in 0 .. m |-> IF b = m THEN 2 * g[m - 1] ELSE g[b]]
  <2>3. g = [b \in 0 .. m - 1 |-> IF b = 0 THEN 1 ELSE 2 * g[b - 1]]
    BY <2>2 DEF IsPowers
  <2>4. ASSUME NEW b \in 0 .. m
        PROVE  f[b] = IF b = 0 THEN 1 ELSE 2 * f[b - 1]
    <3>1. CASE b = m
      <4>1. f[b] = 2 * g[m - 1] /\ f[m - 1] = g[m - 1]
        BY <1>3, <1>5, <3>1
      <4>2. QED
        BY <1>5, <3>1, <4>1
    <3>2. CASE b # m
      <4>1. b \in 0 .. m - 1
        BY <1>3, <3>2
      <4>2. f[b] = g[b] /\ g[b] = IF b = 0 THEN 1 ELSE 2 * g[b - 1]
        BY <2>3, <3>2, <4>1
      <4>3. b # 0 => f[b - 1] = g[b - 1]
        BY <1>3, <4>1
      <4>4. QED
        BY <4>2, <4>3
    <3>3. QED
      BY <3>1, <3>2
  <2> HIDE DEF f
  <2>5. f = [b \in 0 .. m |-> f[b]]
    BY DEF f
  <2>6. f = [b \in 0 .. m |-> IF b = 0 THEN 1 ELSE 2 * f[b - 1]]
    BY <2>4, <2>5
  <2>7. QED
    BY <1>3, <2>6 DEF IsPowers
<1>6. QED
  BY <1>4, <1>5

LEMMA PowerIs ==
  /\ Width \in Nat /\ Power[0] = 1
  /\ \A b \in 1 .. Width : Power[b] = 2 * Power[b - 1]
  /\ \A b \in 0 .. Width : b # Width => Power[b + 1] = 2 * Power[b]
<1>1. Width \in Nat
  BY WidthAssumption
<1>2. IsPowers(Power, Width)
  <2>1. Power = CHOOSE f : IsPowers(f, Width)
    BY DEF Power, IsPowers
  <2>2. QED
    BY <1>1, <2>1, PowersExist
<1>3. \A b \in 0 .. Width : Power[b] = IF b = 0 THEN 1 ELSE 2 * Power[b - 1]
  BY <1>2 DEF IsPowers
<1>4. \A b \in 0 .. Width : b # Width => b + 1 \in 0 .. Width /\ b + 1 # 0 /\ (b + 1) - 1 = b
  BY <1>1
<1>5. \A b \in 1 .. Width : b \in 0 .. Width /\ b # 0
  BY <1>1
<1>6. 0 \in 0 .. Width
  BY <1>1
<1>7. QED
  BY <1>1, <1>3, <1>4, <1>5, <1>6

LEMMA PowerPositive ==
  \A b \in 0 .. Width : Power[b] \in Nat /\ Power[b] >= 1
<1> DEFINE Wrong == {b \in 0 .. Width : ~(Power[b] \in Nat /\ Power[b] >= 1)}
<1>1. SUFFICES ASSUME Wrong # {}
               PROVE  FALSE
  OBVIOUS
<1>2. PICK m \in Wrong : \A k \in Wrong : m <= k
  <2>1. Wrong \in SUBSET Nat
    OBVIOUS
  <2>2. QED
    BY <1>1, <2>1, LeastNatural
<1>3. m # 0
  BY PowerIs
<1>4. m - 1 \in 0 .. Width /\ m - 1 \notin Wrong /\ m \in 1 .. Width
  BY <1>2, <1>3, PowerIs
<1>5. Power[m - 1] \in Nat /\ Power[m - 1] >= 1
  BY <1>4
<1>6. Power[m] = 2 * Power[m - 1]
  BY <1>4, PowerIs
<1>7. QED
  BY <1>5, <1>6

LEMMA PowerSum ==
  \A a \in 0 .. Width : \A b \in 0 .. Width - a : Power[a + b] = Power[a] * Power[b]
<1>1. SUFFICES ASSUME NEW a \in 0 .. Width
               PROVE  \A b \in 0 .. Width - a : Power[a + b] = Power[a] * Power[b]
  OBVIOUS
<1> DEFINE Wrong == {b \in 0 .. Width - a : Power[a + b] # Power[a] * Power[b]}
<1>2. SUFFICES ASSUME Wrong # {}
               PROVE  FALSE
  OBVIOUS
<1>3. PICK m \in Wrong : \A k \in Wrong : m <= k
  <2>1. Wrong \in SUBSET Nat
    OBVIOUS
  <2>2. QED
    BY <1>2, <2>1, LeastNatural
<1>4. m # 0
  <2>1. Power[a] * Power[0] = Power[a] /\ a + 0 = a
    BY PowerIs, PowerPositive
  <2>2. QED
    BY <2>1
<1>5. /\ m - 1 \in 0 .. Width - a /\ m - 1 \notin Wrong /\ m \in 1 .. Width /\ a + m \in 1 .. Width
      /\ (a + m) - 1 = a + (m - 1) /\ m - 1 \in 0 .. Width
  BY <1>3, <1>4, PowerIs
<1>6. Power[a + (m - 1)] = Power[a] * Power[m - 1]
  BY <1>5
<1>7. Power[m] = 2 * Power[m - 1] /\ Power[a + m] = 2 * Power[a + (m - 1)]
  BY <1>5, PowerIs
<1>8. \A x, y \in Nat : 2 * (x * y) = x * (2 * y)
  OBVIOUS
<1>9. Power[a] \in Nat /\ Power[m - 1] \in Nat
  BY <1>5, PowerPositive
<1>10. Power[a + m] = Power[a] * Power[m]
  BY <1>6, <1>7, <1>8, <1>9
<1>11. QED
  BY <1>10

----------------------------------------------------------------------------
\* Numbers, their halves and their bits.

\* The quotient and the remainder of a division, and that there are no others.
LEMMA Division ==
  ASSUME NEW v \in Nat, NEW n \in Nat, n >= 1
  PROVE  /\ v \div n \in Nat /\ v % n \in 0 .. n - 1 /\ v = (v \div n) * n + (v % n)
         /\ \A q \in Nat, r \in 0 .. n - 1 : v = q * n + r => v \div n = q /\ v % n = r
<1>1. v \div n \in Nat /\ v % n \in 0 .. n - 1 /\ v = (v \div n) * n + (v % n)
  OBVIOUS
<1>2. ASSUME NEW q \in Nat, NEW r \in 0 .. n - 1, v = q * n + r
      PROVE  v \div n = q /\ v % n = r
  <2> DEFINE c == v \div n
             s == v % n
  <2>1. c \in Nat /\ s \in 0 .. n - 1 /\ c * n + s = q * n + r
    BY <1>1, <1>2
  <2> HIDE DEF c, s
  <2>2. (c - q) * n = r - s /\ r - s < n /\ s - r < n
    BY <2>1
  <2>3. c = q
    <3>1. CASE c > q
      <4>1. \A t, m \in Nat : t >= 1 => t * m >= m
        OBVIOUS
      <4>2. c - q \in Nat /\ c - q >= 1
        BY <2>1, <3>1
      <4>3. QED
        BY <2>2, <4>1, <4>2
    <3>2. CASE c < q
      <4>1. \A t, m \in Nat : t >= 1 => t * m >= m
        OBVIOUS
      <4>2. q - c \in Nat /\ q - c >= 1 /\ (q - c) * n = s - r
        BY <2>1, <3>2
      <4>3. QED
        BY <2>2, <4>1, <4>2
    <3>3. QED
      BY <2>1, <3>1, <3>2
  <2>4. s = r
    BY <2>1, <2>3
  <2>5. QED
    BY <2>3, <2>4 DEF c, s
<1>3. QED
  BY <1>1, <1>2

LEMMA QuotientIs ==
  ASSUME NEW v \in Nat, NEW n \in Nat, n >= 1, NEW q \in Nat, NEW r \in 0 .. n - 1, v = q * n + r
  PROVE  v \div n = q /\ v % n = r
BY Division

\* One more bit.
LEMMA OneBit ==
  ASSUME NEW v \in Nat, NEW b \in 0 .. Width, b # Width
  PROVE  /\ v \div Power[b] = 2 * (v \div Power[b + 1]) + Bit(v, b)
         /\ v % Power[b + 1] = Bit(v, b) * Power[b] + (v % Power[b])
         /\ Bit(v, b) \in {0, 1}
<1> DEFINE p == Power[b]
           q == v \div p
           r == v % p
           h == q \div 2
           o == q % 2
<1>1. p \in Nat /\ p >= 1 /\ Power[b + 1] = 2 * p
  BY PowerIs, PowerPositive
<1>2. q \in Nat /\ r \in 0 .. p - 1 /\ v = q * p + r
  <2> HIDE DEF p
  <2>1. QED
    BY <1>1, Division
<1>3. h \in Nat /\ o \in {0, 1} /\ q = 2 * h + o
  <2> HIDE DEF q
  <2>1. QED
    BY <1>2
<1> HIDE DEF p, q, r, h, o
<1>4. q * p = h * (2 * p) + o * p
  <2>1. \A x, y, z \in Nat : (2 * x + y) * z = x * (2 * z) + y * z
    OBVIOUS
  <2>2. QED
    BY <1>1, <1>3, <2>1
<1>5. o * p + r \in 0 .. 2 * p - 1
  BY <1>1, <1>2, <1>3
<1>6. v = h * (2 * p) + (o * p + r) /\ h * (2 * p) \in Nat /\ o * p \in Nat
  <2>1. \A x, y \in Nat : x * y \in Nat
    OBVIOUS
  <2>2. h * (2 * p) \in Nat /\ o * p \in Nat
    BY <1>1, <1>3, <2>1
  <2>3. QED
    BY <1>1, <1>2, <1>4, <2>2
<1>7. v \div (2 * p) = h /\ v % (2 * p) = o * p + r
  <2> DEFINE n == 2 * p
             s == o * p + r
  <2>1. n \in Nat /\ n >= 1 /\ s \in 0 .. n - 1 /\ v = h * n + s
    BY <1>1, <1>5, <1>6
  <2> HIDE DEF n, s
  <2>2. v \div n = h /\ v % n = s
    BY <1>3, <2>1, Division
  <2>3. QED
    BY <2>2 DEF n, s
<1>8. Bit(v, b) = o
  BY DEF Bit, o, q, p
<1>9. q = v \div Power[b] /\ r = v % Power[b] /\ p = Power[b]
  BY DEF q, r, p
<1>10. QED
  BY <1>1, <1>3, <1>7, <1>8, <1>9

LEMMA DivByOne == \A v \in Nat : v \div 1 = v /\ v % 1 = 0
OBVIOUS

\* Numbers with the same low bits leave the same remainder.
LEMMA SameLowBits ==
  ASSUME NEW x \in Nat, NEW y \in Nat, NEW n \in 0 .. Width, \A b \in 0 .. n - 1 : Bit(x, b) = Bit(y, b)
  PROVE  x % Power[n] = y % Power[n]
<1> DEFINE Wrong == {k \in 0 .. n : x % Power[k] # y % Power[k]}
<1>1. SUFFICES ASSUME Wrong # {}
               PROVE  FALSE
  OBVIOUS
<1>2. PICK m \in Wrong : \A k \in Wrong : m <= k
  <2>1. Wrong \in SUBSET Nat
    OBVIOUS
  <2>2. QED
    BY <1>1, <2>1, LeastNatural
<1>3. m # 0
  BY DivByOne, PowerIs
<1>4. m - 1 \in 0 .. n - 1 /\ m - 1 \in 0 .. n /\ m - 1 \in 0 .. Width /\ m - 1 # Width /\ (m - 1) + 1 = m
      /\ m - 1 \notin Wrong
  BY <1>2, <1>3, PowerIs
<1>5. x % Power[m - 1] = y % Power[m - 1] /\ Bit(x, m - 1) = Bit(y, m - 1)
  BY <1>4
<1>6. /\ x % Power[m] = Bit(x, m - 1) * Power[m - 1] + (x % Power[m - 1])
      /\ y % Power[m] = Bit(y, m - 1) * Power[m - 1] + (y % Power[m - 1])
  <2>1. \A v \in Nat : v % Power[(m - 1) + 1] = Bit(v, m - 1) * Power[m - 1] + (v % Power[m - 1])
    BY <1>4, OneBit
  <2>2. QED
    BY <1>4, <2>1
<1>7. x % Power[m] = y % Power[m]
  BY <1>5, <1>6
<1>8. QED
  BY <1>7

\* Two sums of a multiple of p and a remainder.
LEMMA SameParts ==
  ASSUME NEW p \in Nat, p >= 1, NEW a \in Nat, NEW c \in Nat, NEW r \in 0 .. p - 1, NEW s \in 0 .. p - 1,
         a * p + r = c * p + s
  PROVE  a = c /\ r = s
<1> DEFINE v == a * p + r
<1>1. v \in Nat
  OBVIOUS
<1>2. v \div p = a /\ v % p = r
  <2>1. v = a * p + r
    OBVIOUS
  <2> HIDE DEF v
  <2>2. QED
    BY <1>1, <2>1, Division
<1>3. v \div p = c /\ v % p = s
  <2>1. v = c * p + s
    OBVIOUS
  <2> HIDE DEF v
  <2>2. QED
    BY <1>1, <2>1, Division
<1>4. QED
  BY <1>2, <1>3

\* And the other way round.
LEMMA LowBitsSame ==
  ASSUME NEW x \in Nat, NEW y \in Nat, NEW n \in 0 .. Width, x % Power[n] = y % Power[n]
  PROVE  \A b \in 0 .. n - 1 : Bit(x, b) = Bit(y, b)
<1> DEFINE Wrong == {j \in 0 .. n : x % Power[n - j] # y % Power[n - j]}
<1>0. n \in Nat /\ n <= Width /\ Width \in Nat
  BY PowerIs
<1>1. Wrong = {}
  <2>1. SUFFICES ASSUME Wrong # {}
                 PROVE  FALSE
    OBVIOUS
  <2>2. PICK m \in Wrong : \A k \in Wrong : m <= k
    <3>1. Wrong \in SUBSET Nat
      OBVIOUS
    <3>2. QED
      BY <2>1, <3>1, LeastNatural
  <2>3. m # 0
    <3>1. n - 0 = n
      BY <1>0
    <3>2. QED
      BY <3>1
  <2> DEFINE k == n - m
  <2>4. m - 1 \in 0 .. n /\ m - 1 \notin Wrong /\ k \in 0 .. Width /\ k # Width /\ n - (m - 1) = k + 1
    BY <1>0, <2>2, <2>3
  <2> HIDE DEF k
  <2>5. x % Power[k + 1] = y % Power[k + 1]
    BY <2>4
  <2>6. /\ x % Power[k + 1] = Bit(x, k) * Power[k] + (x % Power[k]) /\ Bit(x, k) \in Nat
        /\ y % Power[k + 1] = Bit(y, k) * Power[k] + (y % Power[k]) /\ Bit(y, k) \in Nat
    BY <2>4, OneBit
  <2>7. Power[k] \in Nat /\ Power[k] >= 1
    BY <2>4, PowerPositive
  <2>8. x % Power[k] \in 0 .. Power[k] - 1 /\ y % Power[k] \in 0 .. Power[k] - 1
    BY <2>7, Division
  <2>9. x % Power[k] = y % Power[k]
    <3>1. Bit(x, k) * Power[k] + (x % Power[k]) = Bit(y, k) * Power[k] + (y % Power[k])
      BY <2>5, <2>6
    <3> DEFINE p == Power[k]
               a == Bit(x, k)
               c == Bit(y, k)
               r == x % Power[k]
               s == y % Power[k]
    <3>2. a * p + r = c * p + s /\ a \in Nat /\ c \in Nat /\ r \in 0 .. p - 1 /\ s \in 0 .. p - 1
      BY <2>6, <2>8, <3>1
    <3>3. p \in Nat /\ p >= 1
      BY <2>7
    <3> HIDE DEF p, a, c, r, s
    <3>4. r = s
      BY <3>2, <3>3, SameParts
    <3>5. QED
      BY <3>4 DEF r, s
  <2>10. QED
    BY <2>9 DEF k
<1>2. ASSUME NEW b \in 0 .. n - 1
      PROVE  Bit(x, b) = Bit(y, b)
  <2>1. b \in 0 .. Width /\ b # Width /\ n - (b + 1) \in 0 .. n /\ n - (n - (b + 1)) = b + 1
        /\ n - (n - b) = b /\ n - b \in 0 .. n
    BY <1>0
  <2>2. x % Power[b + 1] = y % Power[b + 1]
    BY <1>1, <2>1
  <2>3. /\ x % Power[b + 1] = Bit(x, b) * Power[b] + (x % Power[b]) /\ Bit(x, b) \in Nat
        /\ y % Power[b + 1] = Bit(y, b) * Power[b] + (y % Power[b]) /\ Bit(y, b) \in Nat
    BY <2>1, OneBit
  <2>4. Power[b] \in Nat /\ Power[b] >= 1
    BY <2>1, PowerPositive
  <2>5. x % Power[b] \in 0 .. Power[b] - 1 /\ y % Power[b] \in 0 .. Power[b] - 1
    BY <2>4, Division
  <2> DEFINE p == Power[b]
             a == Bit(x, b)
             c == Bit(y, b)
             r == x % Power[b]
             s == y % Power[b]
  <2>6. a * p + r = c * p + s /\ a \in Nat /\ c \in Nat /\ r \in 0 .. p - 1 /\ s \in 0 .. p - 1
        /\ p \in Nat /\ p >= 1
    BY <2>2, <2>3, <2>4, <2>5
  <2> HIDE DEF p, a, c, r, s
  <2>7. a = c
    BY <2>6, SameParts
  <2>8. QED
    BY <2>7 DEF a, c
<1>3. QED
  BY <1>2

\* Numbers of Width bits with the same high bits have the same high part.
LEMMA SameHighBits ==
  ASSUME NEW x \in Cursors, NEW y \in Cursors, NEW n \in 0 .. Width,
         \A b \in n .. Width - 1 : Bit(x, b) = Bit(y, b)
  PROVE  x \div Power[n] = y \div Power[n]
<1> DEFINE Wrong == {j \in 0 .. Width - n : x \div Power[Width - j] # y \div Power[Width - j]}
<1>0. Width \in Nat /\ x \in Nat /\ y \in Nat /\ n \in Nat /\ n <= Width
      /\ Power[Width] \in Nat /\ Power[Width] >= 1 /\ x < Power[Width] /\ y < Power[Width]
  BY PowerIs, PowerPositive DEF Cursors
<1>1. SUFFICES Wrong = {}
  <2>1. Width - n \in 0 .. Width - n /\ Width - (Width - n) = n
    BY <1>0
  <2>2. QED
    BY <2>1
<1>2. SUFFICES ASSUME Wrong # {}
               PROVE  FALSE
  OBVIOUS
<1>3. PICK m \in Wrong : \A k \in Wrong : m <= k
  <2>1. Wrong \in SUBSET Nat
    OBVIOUS
  <2>2. QED
    BY <1>2, <2>1, LeastNatural
<1>4. m # 0
  <2>1. \A v \in Nat, p \in Nat : p >= 1 /\ v < p => v \div p = 0
    OBVIOUS
  <2>2. x \div Power[Width] = 0 /\ y \div Power[Width] = 0
    BY <1>0, <2>1
  <2>3. Width - 0 = Width
    BY <1>0
  <2>4. QED
    BY <2>2, <2>3
<1> DEFINE k == Width - m
<1>5. m - 1 \in 0 .. Width - n /\ m - 1 \notin Wrong /\ k \in n .. Width - 1 /\ k \in 0 .. Width /\ k # Width
      /\ Width - (m - 1) = k + 1
  BY <1>0, <1>3, <1>4
<1> HIDE DEF k
<1>6. x \div Power[k + 1] = y \div Power[k + 1] /\ Bit(x, k) = Bit(y, k)
  BY <1>5
<1>7. /\ x \div Power[k] = 2 * (x \div Power[k + 1]) + Bit(x, k)
      /\ y \div Power[k] = 2 * (y \div Power[k + 1]) + Bit(y, k)
  BY <1>0, <1>5, OneBit
<1>8. x \div Power[k] = y \div Power[k]
  BY <1>6, <1>7
<1>9. QED
  BY <1>8 DEF k

\* And the other way round.
LEMMA HighBitsSame ==
  ASSUME NEW x \in Nat, NEW y \in Nat, NEW n \in 0 .. Width, x \div Power[n] = y \div Power[n]
  PROVE  \A b \in n .. Width - 1 : Bit(x, b) = Bit(y, b)
<1> DEFINE Wrong == {k \in 0 .. Width : k >= n /\ x \div Power[k] # y \div Power[k]}
<1>0. Width \in Nat /\ n \in Nat
  BY PowerIs
<1>1. Wrong = {}
  <2>1. SUFFICES ASSUME Wrong # {}
                 PROVE  FALSE
    OBVIOUS
  <2>2. PICK m \in Wrong : \A k \in Wrong : m <= k
    <3>1. Wrong \in SUBSET Nat
      OBVIOUS
    <3>2. QED
      BY <2>1, <3>1, LeastNatural
  <2>3. m # n
    OBVIOUS
  <2> DEFINE k == m - 1
  <2>4. k \in 0 .. Width /\ k >= n /\ k # Width /\ k + 1 = m /\ k \notin Wrong
    BY <1>0, <2>2, <2>3
  <2>5. x \div Power[k] = y \div Power[k]
    BY <2>4
  <2> HIDE DEF k
  <2>6. /\ x \div Power[k] = 2 * (x \div Power[k + 1]) + Bit(x, k) /\ Bit(x, k) \in {0, 1}
        /\ y \div Power[k] = 2 * (y \div Power[k + 1]) + Bit(y, k) /\ Bit(y, k) \in {0, 1}
    BY <2>4, OneBit
  <2>7. k + 1 \in 0 .. Width
    BY <1>0, <2>4
  <2>8. Power[k + 1] \in Nat /\ Power[k + 1] >= 1
    BY <2>7, PowerPositive
  <2>9. x \div Power[k + 1] \in Nat /\ y \div Power[k + 1] \in Nat
    BY <2>8, Division
  <2>10. x \div Power[k + 1] = y \div Power[k + 1]
    BY <2>5, <2>6, <2>9
  <2>11. QED
    BY <2>4, <2>10
<1>2. ASSUME NEW b \in n .. Width - 1
      PROVE  Bit(x, b) = Bit(y, b)
  <2>1. b \in 0 .. Width /\ b >= n
    BY <1>0
  <2>2. x \div Power[b] = y \div Power[b]
    BY <1>1, <2>1
  <2>3. QED
    BY <2>2 DEF Bit
<1>3. QED
  BY <1>2
----------------------------------------------------------------------------
\* Reversed bits.

LEMMA CursorIs ==
  ASSUME NEW v \in Cursors
  PROVE  v \in Nat /\ v < Power[Width] /\ v \div Power[Width] = 0 /\ v % Power[Width] = v
<1>1. Power[Width] \in Nat /\ Power[Width] >= 1
  BY PowerIs, PowerPositive
<1>2. v \in Nat /\ v < Power[Width]
  BY <1>1 DEF Cursors
<1>3. \A x, p \in Nat : p >= 1 /\ x < p => x \div p = 0 /\ x % p = x
  OBVIOUS
<1>4. QED
  BY <1>1, <1>2, <1>3

\* A cursor is known by its bits.
LEMMA SameBits ==
  ASSUME NEW x \in Cursors, NEW y \in Cursors, \A b \in 0 .. Width - 1 : Bit(x, b) = Bit(y, b)
  PROVE  x = y
<1>1. Width \in 0 .. Width
  BY PowerIs
<1>2. x % Power[Width] = y % Power[Width]
  BY <1>1, CursorIs, SameLowBits
<1>3. QED
  BY <1>2, CursorIs

\* There is a number with any bits.
LEMMA BitsExist ==
  ASSUME NEW f \in [0 .. Width - 1 -> {0, 1}]
  PROVE  \E u \in Cursors : \A b \in 0 .. Width - 1 : Bit(u, b) = f[b]
<1> DEFINE Has(n) == \E u \in 0 .. Power[n] - 1 : \A b \in 0 .. n - 1 : Bit(u, b) = f[b]
           Wrong == {n \in 0 .. Width : ~Has(n)}
<1>0. Width \in Nat /\ Power[0] = 1
  BY PowerIs
<1>1. Has(0)
  <2>1. 0 \in 0 .. Power[0] - 1
    BY <1>0
  <2>2. QED
    BY <2>1
<1>2. ASSUME NEW n \in 0 .. Width, n # Width, Has(n)
      PROVE  Has(n + 1)
  <2>1. PICK u \in 0 .. Power[n] - 1 : \A b \in 0 .. n - 1 : Bit(u, b) = f[b]
    BY <1>2
  <2> DEFINE p == Power[n]
             w == f[n] * p + u
  <2>2. p \in Nat /\ p >= 1 /\ u \in 0 .. p - 1 /\ u \in Nat
    BY PowerPositive
  <2>3. f[n] \in {0, 1} /\ f[n] \in Nat
    <3>1. n \in 0 .. Width - 1
      BY <1>0, <1>2
    <3>2. QED
      BY <3>1
  <2>4. Power[n + 1] = 2 * p
    BY <1>2, PowerIs
  <2> DEFINE g == f[n]
  <2>5. w \in Nat /\ w \in 0 .. Power[n + 1] - 1
    <3>1. w = g * p + u /\ g \in {0, 1} /\ Power[n + 1] = 2 * p
      BY <2>3, <2>4
    <3> HIDE DEF w, p, g
    <3>2. g * p \in {0, p}
      BY <2>2, <3>1
    <3>3. QED
      BY <2>2, <3>1, <3>2
  <2>6. w \div p = f[n] /\ w % p = u
    <3>1. w = g * p + u /\ g \in Nat
      BY <2>3
    <3> HIDE DEF w, p, g
    <3>2. \A q \in Nat, r \in 0 .. p - 1 : w = q * p + r => w \div p = q /\ w % p = r
      BY <2>2, <2>5, Division
    <3>3. w \div p = g /\ w % p = u
      BY <2>2, <3>1, <3>2
    <3>4. QED
      BY <3>3 DEF g
  <2> HIDE DEF w
  <2>7. Bit(w, n) = f[n]
    <3>1. f[n] % 2 = f[n]
      BY <2>3
    <3>2. QED
      BY <2>6, <3>1 DEF Bit
  <2>8. w % Power[n] = u % Power[n]
    <3>1. \A x, q \in Nat : q >= 1 /\ x < q => x % q = x
      OBVIOUS
    <3>2. u % p = u
      BY <2>2, <3>1
    <3>3. QED
      BY <2>6, <3>2
  <2>9. \A b \in 0 .. n - 1 : Bit(w, b) = Bit(u, b)
    BY <2>2, <2>5, <2>8, LowBitsSame
  <2>10. \A b \in 0 .. (n + 1) - 1 : b = n \/ b \in 0 .. n - 1
    BY <1>0
  <2>11. QED
    BY <2>1, <2>5, <2>7, <2>9, <2>10
<1> HIDE DEF Has
<1>3. Wrong = {}
  <2>1. SUFFICES ASSUME Wrong # {}
                 PROVE  FALSE
    OBVIOUS
  <2>2. PICK m \in Wrong : \A k \in Wrong : m <= k
    <3>1. Wrong \in SUBSET Nat
      OBVIOUS
    <3>2. QED
      BY <2>1, <3>1, LeastNatural
  <2>3. m # 0
    BY <1>1
  <2>4. m - 1 \in 0 .. Width /\ m - 1 # Width /\ m - 1 \notin Wrong /\ (m - 1) + 1 = m
    BY <1>0, <2>2, <2>3
  <2>5. Has((m - 1) + 1)
    BY <1>2, <2>4
  <2>6. QED
    BY <2>4, <2>5
<1>4. Has(Width)
  BY <1>0, <1>3
<1>5. QED
  BY <1>4 DEF Has, Cursors

LEMMA RevIs ==
  ASSUME NEW v \in Cursors
  PROVE  /\ Rev(v) \in Cursors
         /\ \A b \in 0 .. Width - 1 : Bit(Rev(v), b) = Bit(v, Width - 1 - b)
         /\ \A b \in 0 .. Width - 1 : Bit(Rev(v), Width - 1 - b) = Bit(v, b)
         /\ Rev(Rev(v)) = v
<1> DEFINE IsRev(u, x) == \A b \in 0 .. Width - 1 : Bit(u, b) = Bit(x, Width - 1 - b)
<1>1. \A b \in 0 .. Width - 1 : Width - 1 - b \in 0 .. Width - 1 /\ Width - 1 - (Width - 1 - b) = b
  BY PowerIs
<1>2. ASSUME NEW x \in Cursors
      PROVE  Rev(x) \in Cursors /\ IsRev(Rev(x), x)
  <2> DEFINE f == [b \in 0 .. Width - 1 |-> Bit(x, Width - 1 - b)]
  <2>1. f \in [0 .. Width - 1 -> {0, 1}]
    <3>1. \A b \in 0 .. Width - 1 : b \in 0 .. Width /\ b # Width
      BY PowerIs
    <3>2. \A b \in 0 .. Width - 1 : Bit(x, b) \in {0, 1}
      BY <3>1, CursorIs, OneBit
    <3>3. QED
      BY <1>1, <3>2
  <2>2. \E u \in Cursors : IsRev(u, x)
    <3>1. \E u \in Cursors : \A b \in 0 .. Width - 1 : Bit(u, b) = f[b]
      <4> HIDE DEF f
      <4>1. QED
        BY <2>1, BitsExist
    <3>2. QED
      BY <3>1
  <2>3. Rev(x) = CHOOSE u \in Cursors : IsRev(u, x)
    BY DEF Rev
  <2> HIDE DEF IsRev
  <2>4. QED
    BY <2>2, <2>3
<1>3. IsRev(Rev(v), v) /\ IsRev(Rev(Rev(v)), Rev(v)) /\ Rev(v) \in Cursors /\ Rev(Rev(v)) \in Cursors
  BY <1>2
<1>4. \A b \in 0 .. Width - 1 : Bit(Rev(v), Width - 1 - b) = Bit(v, b)
  BY <1>1, <1>3
<1>5. \A b \in 0 .. Width - 1 : Bit(Rev(Rev(v)), b) = Bit(v, b)
  BY <1>3, <1>4
<1>6. Rev(Rev(v)) = v
  BY <1>3, <1>5, SameBits
<1>7. QED
  BY <1>3, <1>4, <1>6

\* The low part of a number decides the high part of its reversal, and is decided by it.
LEMMA LowIsHigh ==
  ASSUME NEW v \in Cursors, NEW w \in Cursors, NEW b \in 0 .. Width
  PROVE  v % Power[b] = w % Power[b] <=> Rev(v) \div Power[Width - b] = Rev(w) \div Power[Width - b]
<1>1. /\ v \in Nat /\ w \in Nat /\ Rev(v) \in Nat /\ Rev(w) \in Nat /\ Rev(v) \in Cursors /\ Rev(w) \in Cursors
      /\ Width - b \in 0 .. Width
  BY RevIs, CursorIs, PowerIs
<1>2. \A j \in 0 .. Width - 1 : /\ Bit(Rev(v), Width - 1 - j) = Bit(v, j) /\ Bit(Rev(v), j) = Bit(v, Width - 1 - j)
                                /\ Bit(Rev(w), Width - 1 - j) = Bit(w, j) /\ Bit(Rev(w), j) = Bit(w, Width - 1 - j)
  BY RevIs
<1>3. ASSUME v % Power[b] = w % Power[b]
      PROVE  Rev(v) \div Power[Width - b] = Rev(w) \div Power[Width - b]
  <2>1. \A j \in 0 .. b - 1 : Bit(v, j) = Bit(w, j)
    BY <1>1, <1>3, LowBitsSame
  <2>2. \A j \in Width - b .. Width - 1 : j \in 0 .. Width - 1 /\ Width - 1 - j \in 0 .. b - 1
    BY PowerIs
  <2>3. \A j \in Width - b .. Width - 1 : Bit(Rev(v), j) = Bit(Rev(w), j)
    BY <1>2, <2>1, <2>2
  <2>4. QED
    BY <1>1, <2>3, SameHighBits
<1>4. ASSUME Rev(v) \div Power[Width - b] = Rev(w) \div Power[Width - b]
      PROVE  v % Power[b] = w % Power[b]
  <2>1. \A j \in Width - b .. Width - 1 : Bit(Rev(v), j) = Bit(Rev(w), j)
    BY <1>1, <1>4, HighBitsSame
  <2>2. \A j \in 0 .. b - 1 : j \in 0 .. Width - 1 /\ Width - 1 - j \in Width - b .. Width - 1
    BY PowerIs
  <2>3. \A j \in 0 .. b - 1 : Bit(v, j) = Bit(w, j)
    BY <1>2, <2>1, <2>2
  <2>4. QED
    BY <1>1, <2>3, SameLowBits
<1>5. QED
  BY <1>3, <1>4

----------------------------------------------------------------------------
\* Sizes divide one another and the number of cursors.

LEMMA PowerSplit ==
  ASSUME NEW b \in 0 .. Width
  PROVE  /\ Width - b \in 0 .. Width /\ Power[Width - b] \in Nat /\ Power[Width - b] >= 1
         /\ Power[b] \in Nat /\ Power[b] >= 1 /\ Power[Width] \in Nat
         /\ Power[Width] = Power[b] * Power[Width - b]
         /\ Power[Width] = Power[Width - b] * Power[b]
         /\ Power[Width] \div Power[b] = Power[Width - b]
<1> DEFINE p == Power[b]
           c == Power[Width - b]
           w == Power[Width]
<1>1. Width - b \in 0 .. Width /\ Width \in 0 .. Width /\ b + (Width - b) = Width
  BY PowerIs
<1>2. p \in Nat /\ p >= 1 /\ c \in Nat /\ c >= 1 /\ w \in Nat
  BY <1>1, PowerPositive
<1>3. w = p * c
  BY <1>1, PowerSum
<1> HIDE DEF p, c, w
<1>4. w = c * p
  BY <1>2, <1>3
<1>5. w \div p = c
  <2>1. w = c * p + 0 /\ 0 \in 0 .. p - 1
    BY <1>2, <1>4
  <2>2. \A q \in Nat, r \in 0 .. p - 1 : w = q * p + r => w \div p = q /\ w % p = r
    BY <1>2, Division
  <2>3. QED
    BY <1>2, <2>1, <2>2
<1>6. QED
  BY <1>1, <1>2, <1>3, <1>4, <1>5 DEF p, c, w

\* A smaller power divides a larger one.
LEMMA PowerDivides ==
  ASSUME NEW a \in 0 .. Width, NEW b \in 0 .. Width, Power[a] <= Power[b]
  PROVE  a <= b /\ b - a \in 0 .. Width /\ Power[b] = Power[a] * Power[b - a]
<1>1. a \in Nat /\ b \in Nat /\ Width \in Nat
  BY PowerIs
<1>2. a <= b
  <2>1. SUFFICES ASSUME b < a
                 PROVE  FALSE
    BY <1>1
  <2>2. a - b \in 0 .. Width - b /\ b + (a - b) = a /\ a - b \in 1 .. Width /\ (a - b) - 1 \in 0 .. Width
    BY <1>1, <2>1
  <2>3. Power[a] = Power[b] * Power[a - b]
    BY <2>2, PowerSum
  <2>4. Power[a - b] = 2 * Power[(a - b) - 1] /\ Power[(a - b) - 1] \in Nat /\ Power[(a - b) - 1] >= 1
    BY <2>2, PowerIs, PowerPositive
  <2>5. Power[b] \in Nat /\ Power[b] >= 1 /\ Power[a - b] \in Nat /\ Power[a - b] >= 2
    BY <2>4, PowerPositive
  <2>6. \A x, y \in Nat : y >= 2 /\ x >= 1 => x * y > x
    OBVIOUS
  <2>7. Power[b] * Power[a - b] > Power[b]
    BY <2>5, <2>6
  <2>8. QED
    BY <2>3, <2>5, <2>7
<1>3. b - a \in 0 .. Width - a /\ a + (b - a) = b /\ b - a \in 0 .. Width
  BY <1>1, <1>2
<1>4. Power[b] = Power[a] * Power[b - a]
  BY <1>3, PowerSum
<1>5. QED
  BY <1>2, <1>3, <1>4

LEMMA ModMod ==
  ASSUME NEW x \in Nat, NEW p \in Nat, NEW q \in Nat, p >= 1, q >= 1
  PROVE  (x % (p * q)) % p = x % p
<1> DEFINE n == p * q
           a == x \div n
           r == x % n
           e == r \div p
           s == r % p
<1>1. n \in Nat /\ n >= 1
  OBVIOUS
<1>2. a \in Nat /\ r \in Nat /\ x = a * n + r
  <2> HIDE DEF n
  <2>1. QED
    BY <1>1, Division
<1>3. e \in Nat /\ s \in 0 .. p - 1 /\ r = e * p + s
  <2> HIDE DEF r
  <2>1. QED
    BY <1>2, Division
<1>4. a * n = (a * q) * p /\ a * q \in Nat
  <2> HIDE DEF a
  <2>1. \A i, j, k \in Nat : i * (j * k) = (i * k) * j /\ i * k \in Nat
    OBVIOUS
  <2>2. QED
    BY <1>2, <2>1
<1> DEFINE f == a * q
<1>5. f \in Nat /\ x = f * p + (e * p + s)
  BY <1>2, <1>3, <1>4
<1> HIDE DEF a, e, s, f
<1>6. x = (f + e) * p + s /\ f + e \in Nat
  <2>1. \A i, j, k \in Nat : i * k + j * k = (i + j) * k
    OBVIOUS
  <2>2. f * p + e * p = (f + e) * p
    BY <1>3, <1>5, <2>1
  <2>3. f * p \in Nat /\ e * p \in Nat
    BY <1>3, <1>5
  <2>4. QED
    BY <1>3, <1>5, <2>2, <2>3
<1>7. x % p = s
  <2>1. \A i \in Nat, j \in 0 .. p - 1 : x = i * p + j => x \div p = i /\ x % p = j
    BY Division
  <2>2. QED
    BY <1>3, <1>6, <2>1
<1>8. QED
  BY <1>7 DEF s, r, n

\* A key's place in the order in which a scan goes through the dict.
Pos(k) == Rev(Hash[k] % Power[Width])

LEMMA PosIs ==
  ASSUME NEW k \in Keys
  PROVE  /\ Hash[k] \in Nat /\ Hash[k] % Power[Width] \in Cursors
         /\ Pos(k) \in Cursors /\ Pos(k) \in Nat /\ Pos(k) < Power[Width]
         /\ \A b \in 0 .. Width : (Hash[k] % Power[Width]) % Power[b] = Slot(k, Power[b])
<1>1. Hash[k] \in Nat
  BY KeysAssumption
<1>2. Hash[k] % Power[Width] \in Cursors
  <2>1. Power[Width] \in Nat /\ Power[Width] >= 1
    BY PowerIs, PowerPositive
  <2>2. QED
    BY <1>1, <2>1, Division DEF Cursors
<1>3. ASSUME NEW b \in 0 .. Width
      PROVE  (Hash[k] % Power[Width]) % Power[b] = Slot(k, Power[b])
  <2>1. (Hash[k] % (Power[b] * Power[Width - b])) % Power[b] = Hash[k] % Power[b]
    BY <1>1, PowerSplit, ModMod
  <2>2. QED
    BY <2>1, PowerSplit DEF Slot
<1>4. Pos(k) \in Cursors
  BY <1>2, RevIs DEF Pos
<1>5. QED
  BY <1>1, <1>2, <1>3, <1>4, CursorIs

\* The bucket that a cursor points at holds an interval of places.
LEMMA BucketIs ==
  ASSUME NEW k \in Keys, NEW v \in Cursors, NEW b \in 0 .. Width
  PROVE  Slot(k, Power[b]) = v % Power[b] <=> Pos(k) \div Power[Width - b] = Rev(v) \div Power[Width - b]
<1>1. Hash[k] % Power[Width] \in Cursors /\ (Hash[k] % Power[Width]) % Power[b] = Slot(k, Power[b])
  BY PosIs
<1>2. QED
  BY <1>1, LowIsHigh DEF Pos

----------------------------------------------------------------------------
\* The next cursor.

LEMMA AllOnes ==
  /\ Power[Width] - 1 \in Cursors
  /\ \A b \in 0 .. Width - 1 : Bit(Power[Width] - 1, b) = 1
  /\ \A b \in 0 .. Width : /\ (Power[Width] - 1) \div Power[b] = Power[Width - b] - 1
                           /\ (Power[Width] - 1) % Power[b] = Power[b] - 1
<1> DEFINE m == Power[Width] - 1
<1>1. m \in Nat /\ m \in Cursors
  <2>1. Power[Width] \in Nat /\ Power[Width] >= 1
    BY PowerIs, PowerPositive
  <2>2. QED
    BY <2>1 DEF Cursors
<1>2. ASSUME NEW b \in 0 .. Width
      PROVE  m \div Power[b] = Power[Width - b] - 1 /\ m % Power[b] = Power[b] - 1
  <2> DEFINE p == Power[b]
             c == Power[Width - b]
             q == c - 1
             r == p - 1
  <2>1. p \in Nat /\ p >= 1 /\ c \in Nat /\ c >= 1 /\ Power[Width] = c * p
    BY PowerSplit
  <2>2. q \in Nat /\ r \in 0 .. p - 1
    BY <2>1
  <2>3. m = q * p + r
    <3> HIDE DEF p, c
    <3>1. \A x, y \in Nat : x * y - 1 = (x - 1) * y + (y - 1)
      OBVIOUS
    <3>2. c * p - 1 = (c - 1) * p + (p - 1)
      BY <2>1, <3>1
    <3>3. QED
      BY <2>1, <3>2
  <2> HIDE DEF m, p, c, q, r
  <2>4. \A i \in Nat, j \in 0 .. p - 1 : m = i * p + j => m \div p = i /\ m % p = j
    BY <1>1, <2>1, Division
  <2>5. m \div p = q /\ m % p = r
    BY <2>2, <2>3, <2>4
  <2>6. QED
    BY <2>5 DEF p, c, q, r
<1> HIDE DEF m
<1>3. ASSUME NEW b \in 0 .. Width - 1
      PROVE  Bit(m, b) = 1
  <2>1. b \in 0 .. Width /\ Width - b \in 1 .. Width /\ (Width - b) - 1 \in 0 .. Width
    BY PowerIs
  <2>2. m \div Power[b] = Power[Width - b] - 1
    BY <1>2, <2>1
  <2>3. Power[Width - b] = 2 * Power[(Width - b) - 1] /\ Power[(Width - b) - 1] \in Nat
        /\ Power[(Width - b) - 1] >= 1
    BY <2>1, PowerIs, PowerPositive
  <2>4. \A x \in Nat : x >= 1 => (2 * x - 1) % 2 = 1
    OBVIOUS
  <2>5. QED
    BY <2>2, <2>3, <2>4 DEF Bit
<1>4. QED
  BY <1>1, <1>2, <1>3 DEF m

LEMMA RevZero == 0 \in Cursors /\ Rev(0) = 0
<1>1. 0 \in Cursors
  <2>1. Power[Width] \in Nat /\ Power[Width] >= 1
    BY PowerIs, PowerPositive
  <2>2. QED
    BY <2>1 DEF Cursors
<1>2. \A b \in 0 .. Width - 1 : Bit(0, b) = 0
  <2>1. ASSUME NEW b \in 0 .. Width - 1
        PROVE  Bit(0, b) = 0
    <3>1. Power[b] \in Nat /\ Power[b] >= 1
      BY PowerIs, PowerPositive
    <3>2. 0 \div Power[b] = 0
      BY <3>1
    <3>3. QED
      BY <3>2 DEF Bit
  <2>2. QED
    BY <2>1
<1>3. \A b \in 0 .. Width - 1 : Bit(Rev(0), b) = Bit(0, b)
  <2>1. \A b \in 0 .. Width - 1 : Width - 1 - b \in 0 .. Width - 1
    BY PowerIs
  <2>2. QED
    BY <1>1, <1>2, <2>1, RevIs
<1>4. QED
  BY <1>1, <1>3, RevIs, SameBits

\* Adding one to the reversed bits, with ones below those of the table, goes to
\* the beginning of the next interval, or back to 0 after the last.
LEMMA NextCursorIs ==
  ASSUME NEW v \in Cursors, NEW b \in 0 .. Width
  PROVE  LET next == NextCursor(v, Power[b])
             c == Power[Width - b]
             i == Rev(v) \div c
         IN /\ next \in Cursors
            /\ i \in 0 .. Power[b] - 1
            /\ next = 0 <=> i + 1 = Power[b]
            /\ next # 0 => Rev(next) = (i + 1) * c
<1> DEFINE s == Power[b]
           c == Power[Width - b]
           w == Power[Width]
           i == Rev(v) \div c
           x == (w - s) + (v % s)
           y == (Rev(x) + 1) % w
           next == NextCursor(v, s)
<1>1. /\ s \in Nat /\ s >= 1 /\ c \in Nat /\ c >= 1 /\ w \in Nat /\ w = c * s /\ w = s * c
      /\ Width - b \in 0 .. Width /\ s - 1 \in Nat /\ c - 1 \in Nat
  <2>1. s \in Nat /\ s >= 1 /\ c \in Nat /\ c >= 1 /\ w \in Nat /\ w = c * s /\ w = s * c
        /\ Width - b \in 0 .. Width
    BY PowerSplit
  <2>2. QED
    BY <2>1
<1>2. v \in Nat /\ v % s \in 0 .. s - 1
  <2>1. v \in Nat
    BY CursorIs
  <2> HIDE DEF s
  <2>2. QED
    BY <1>1, <2>1, Division
<1>3. x = (c - 1) * s + (v % s) /\ x \in 0 .. w - 1
  <2> DEFINE r == v % s
  <2>1. r \in 0 .. s - 1 /\ x = (w - s) + r
    BY <1>2
  <2> HIDE DEF s, c, w, x, r
  <2>2. \A m, n \in Nat : m * n - n = (m - 1) * n
    OBVIOUS
  <2>3. w - s = (c - 1) * s
    BY <1>1, <2>2
  <2>4. (c - 1) * s \in Nat
    BY <1>1
  <2>5. w - s \in Nat
    BY <2>3, <2>4
  <2>6. x \in 0 .. w - 1
    BY <1>1, <2>1, <2>5
  <2>7. QED
    BY <2>1, <2>3, <2>6 DEF r
<1>4. x \in Cursors /\ x \in Nat
  BY <1>1, <1>3 DEF Cursors
<1>5. x \div s = c - 1 /\ x % s = v % s
  <2> HIDE DEF s, c, w, x
  <2>1. \A m \in Nat, n \in 0 .. s - 1 : x = m * s + n => x \div s = m /\ x % s = n
    BY <1>1, <1>4, Division
  <2>2. QED
    BY <1>1, <1>2, <1>3, <2>1
<1>6. Rev(x) \in Cursors /\ Rev(v) \in Cursors /\ Rev(x) \in Nat /\ Rev(v) \in Nat
      /\ Rev(x) < w /\ Rev(v) < w
  BY <1>4, RevIs, CursorIs
<1>7. Rev(x) \div c = i
  BY <1>4, <1>5, LowIsHigh
<1>8. Rev(x) % c = c - 1
  <2> DEFINE m == Power[Width] - 1
  <2>1. m \in Cursors /\ m \in Nat /\ (\A j \in 0 .. Width - 1 : Bit(m, j) = 1)
        /\ m \div s = c - 1 /\ m % c = c - 1
    <3>1. Width - (Width - b) = b
      BY PowerIs
    <3>2. QED
      BY <1>1, AllOnes, CursorIs
  <2> HIDE DEF m, x
  <2>2. \A j \in b .. Width - 1 : Bit(x, j) = Bit(m, j)
    BY <1>4, <1>5, <2>1, HighBitsSame
  <2>3. \A j \in 0 .. (Width - b) - 1 :
          /\ j \in 0 .. Width - 1 /\ Width - 1 - j \in b .. Width - 1 /\ Width - 1 - j \in 0 .. Width - 1
    BY PowerIs
  <2>4. \A j \in 0 .. (Width - b) - 1 : Bit(Rev(x), j) = Bit(m, j)
    BY <1>4, <2>1, <2>2, <2>3, RevIs
  <2>5. Rev(x) % c = m % c
    BY <1>1, <1>6, <2>1, <2>4, SameLowBits
  <2>6. QED
    BY <2>1, <2>5
<1>9. i \in Nat /\ Rev(x) = i * c + (c - 1)
  <2> DEFINE u == Rev(x)
  <2>1. u \in Nat /\ u \div c = i /\ u % c = c - 1
    BY <1>6, <1>7, <1>8
  <2> HIDE DEF u, c, i
  <2>2. u \div c \in Nat /\ u = (u \div c) * c + (u % c)
    BY <1>1, <2>1, Division
  <2>3. QED
    BY <2>1, <2>2 DEF u
<1> HIDE DEF s, c, w, i, x
<1>10. Rev(x) + 1 = (i + 1) * c /\ i + 1 <= s
  <2>1. i * c + c = (i + 1) * c
    BY <1>1, <1>9
  <2>2. Rev(x) + 1 = (i + 1) * c
    <3>1. i * c \in Nat
      BY <1>1, <1>9
    <3>2. QED
      BY <1>1, <1>9, <2>1, <3>1
  <2>3. (i + 1) * c <= s * c
    BY <1>1, <1>6, <2>2
  <2>4. \A m, n, k \in Nat : k >= 1 /\ m * k <= n * k => m <= n
    <3>1. ASSUME NEW m \in Nat, NEW n \in Nat, NEW k \in Nat, k >= 1, m * k <= n * k, n < m
          PROVE  FALSE
      <4>1. m - n \in Nat /\ m - n >= 1 /\ (m - n) * k <= 0
        BY <3>1
      <4>2. \A p, q \in Nat : p >= 1 /\ q >= 1 => p * q >= 1
        OBVIOUS
      <4>3. (m - n) * k >= 1
        BY <3>1, <4>1, <4>2
      <4>4. (m - n) * k \in Int
        BY <4>1
      <4>5. QED
        BY <4>1, <4>3, <4>4
    <3>2. QED
      BY <3>1
  <2>5. i + 1 \in Nat
    BY <1>9
  <2>6. QED
    BY <1>1, <2>2, <2>3, <2>4, <2>5
<1>11. y = IF i + 1 = s THEN 0 ELSE (i + 1) * c
  <2>1. CASE i + 1 = s
    <3>1. y = w % w
      BY <1>1, <1>10, <2>1
    <3>2. \A m \in Nat : m >= 1 => m % m = 0
      OBVIOUS
    <3>3. w >= 1
      BY <1>1, <1>6
    <3>4. QED
      BY <1>1, <2>1, <3>1, <3>2, <3>3
  <2>2. CASE i + 1 # s
    <3>1. Rev(x) + 1 # w
      <4>1. SUFFICES ASSUME (i + 1) * c = s * c
                     PROVE  FALSE
        BY <1>1, <1>10
      <4>2. s - (i + 1) \in Nat /\ s - (i + 1) >= 1
        BY <1>1, <1>9, <1>10, <2>2
      <4>3. (s - (i + 1)) * c = 0
        <5>1. \A m, n, k \in Nat : m * k = n * k => (n - m) * k = 0
          OBVIOUS
        <5>2. i + 1 \in Nat
          BY <1>9
        <5>3. QED
          BY <1>1, <4>1, <5>1, <5>2
      <4>4. \A p, q \in Nat : p >= 1 /\ q >= 1 => p * q >= 1
        OBVIOUS
      <4>5. QED
        BY <1>1, <4>2, <4>3, <4>4
    <3>2. Rev(x) + 1 \in Nat /\ Rev(x) + 1 < w
      BY <1>1, <1>6, <3>1
    <3>3. \A m, n \in Nat : m < n => m % n = m
      OBVIOUS
    <3>4. y = Rev(x) + 1
      BY <1>1, <3>2, <3>3
    <3>5. QED
      BY <1>10, <2>2, <3>4
  <2>3. QED
    BY <2>1, <2>2
<1>12. y \in Cursors
  <2>1. Rev(x) + 1 \in Nat /\ w >= 1
    BY <1>1, <1>6
  <2>2. y \in 0 .. w - 1
    BY <1>1, <2>1, Division
  <2>3. QED
    BY <2>2 DEF Cursors, w
<1>13. next = Rev(y)
  BY DEF NextCursor, x, w, y
<1> HIDE DEF y, next
<1>14. next \in Cursors /\ Rev(next) = y
  BY <1>12, <1>13, RevIs
<1>15. next = 0 <=> y = 0
  BY <1>12, <1>13, <1>14, RevZero
<1>16. i + 1 # s => (i + 1) * c # 0
  <2>1. \A p, q \in Nat : p >= 1 /\ q >= 1 => p * q >= 1
    OBVIOUS
  <2>2. i + 1 \in Nat /\ i + 1 >= 1
    BY <1>9
  <2>3. QED
    BY <1>1, <2>1, <2>2
<1>17. i \in 0 .. s - 1
  BY <1>1, <1>9, <1>10
<1>18. /\ next \in Cursors /\ i \in 0 .. s - 1 /\ (next = 0 <=> i + 1 = s)
       /\ next # 0 => Rev(next) = (i + 1) * c
  BY <1>11, <1>14, <1>15, <1>16, <1>17
<1>19. QED
  BY <1>18 DEF next, i, s, c

----------------------------------------------------------------------------
\* The buckets that one call goes through.

\* The table sizes are powers: a size, its exponent and how many cursors there
\* are to a bucket.
LEMMA SizeIs ==
  ASSUME NEW s \in TableSizes
  PROVE  \E b \in 0 .. Width : s = Power[b] /\ Power[Width] \div s = Power[Width - b]
<1>1. PICK b \in 0 .. Width : s = Power[b]
  BY WidthAssumption
<1>2. QED
  BY <1>1, PowerSplit

\* Wherever a cursor points, the turns of the inner loop stay in buckets of the
\* large table that hold the same hashes.
LEMMA WidenedLow ==
  ASSUME NEW v \in Cursors, NEW a \in 0 .. Width, NEW b \in 0 .. Width, Power[a] <= Power[b], NEW j \in Nat
  PROVE  LET i == Widened(v, j, Power[a]) % Power[b]
         IN i \in 0 .. Power[b] - 1 /\ i % Power[a] = v % Power[a]
<1> DEFINE s == Power[a]
           n == Power[b]
           w == Power[Width]
           t == ((v \div s) + j) * s
           q == t \div w
           x == Widened(v, j, s)
           i == x % n
<1>1. /\ s \in Nat /\ s >= 1 /\ n \in Nat /\ n >= 1 /\ w \in Nat /\ w >= 1
      /\ w = Power[Width - a] * s /\ Power[Width - a] \in Nat /\ Power[Width - a] >= 1
      /\ n = s * Power[b - a] /\ Power[b - a] \in Nat /\ Power[b - a] >= 1
  <2>1. b - a \in 0 .. Width /\ n = s * Power[b - a]
    BY PowerDivides
  <2>2. Width \in 0 .. Width
    BY PowerIs
  <2>3. QED
    BY <2>1, <2>2, PowerSplit, PowerPositive
<1>2. v \in Nat
  BY CursorIs
<1>3. v \div s \in Nat /\ v % s \in 0 .. s - 1
  <2> HIDE DEF s
  <2>1. QED
    BY <1>1, <1>2, Division
<1>4. t \in Nat
  <2> DEFINE e == v \div s
  <2>1. e + j \in Nat /\ t = (e + j) * s
    BY <1>3
  <2> HIDE DEF e, s, t
  <2>2. QED
    BY <1>1, <2>1
<1>0. s \in Nat /\ s >= 1 /\ n \in Nat /\ n >= 1 /\ w \in Nat /\ w >= 1
  BY <1>1
<1>5. q \in Nat /\ t % w \in Nat /\ t = q * w + (t % w)
  <2> HIDE DEF t, w, q
  <2>1. t \div w \in Nat /\ t % w \in 0 .. w - 1 /\ t = (t \div w) * w + (t % w)
    BY <1>0, <1>4, Division
  <2>2. t % w \in Nat
    BY <1>0, <2>1
  <2>3. QED
    BY <2>1, <2>2 DEF q
<1>6. (t % w) % s = 0
  <2>1. t % s = 0
    <3> DEFINE m == (v \div s) + j
    <3>1. m \in Nat /\ t = m * s
      BY <1>3
    <3> HIDE DEF m, t, s
    <3>2. t = m * s + 0 /\ 0 \in 0 .. s - 1
      BY <1>1, <1>4, <3>1
    <3>3. QED
      BY <1>1, <1>4, <3>1, <3>2, QuotientIs
  <2> DEFINE c == Power[Width - a]
  <2>2. w = s * c /\ c \in Nat /\ c >= 1
    BY PowerSplit
  <2> HIDE DEF t, w, s, c
  <2>3. (t % (s * c)) % s = t % s
    BY <1>1, <1>4, <2>2, ModMod
  <2>4. QED
    BY <2>1, <2>2, <2>3
<1>7. x = (t % w) + (v % s) /\ x \in Nat
  BY <1>3, <1>5 DEF Widened
<1>8. x % s = v % s
  <2> DEFINE r == t % w
             u == v % s
             m == r \div s
  <2>1. r \in Nat /\ r % s = 0 /\ u \in 0 .. s - 1 /\ x = r + u
    BY <1>3, <1>5, <1>6, <1>7
  <2> HIDE DEF x, t, w, s, r, u
  <2>2. m \in Nat /\ r = m * s
    <3>1. m \in Nat /\ r = m * s + (r % s)
      BY <1>1, <2>1, Division
    <3>2. QED
      BY <1>1, <2>1, <3>1
  <2> HIDE DEF m
  <2>3. x = m * s + u
    BY <2>1, <2>2
  <2>4. x \in Nat
    BY <1>7
  <2>5. u \in 0 .. s - 1 /\ m \in Nat
    BY <2>1, <2>2
  <2>6. x % s = u
    BY <1>0, <2>3, <2>4, <2>5, QuotientIs
  <2>7. QED
    BY <2>6 DEF u
<1> HIDE DEF x, t, q
<1>9. i \in 0 .. n - 1
  <2> HIDE DEF n
  <2>1. x \in Nat
    BY <1>7
  <2>2. QED
    BY <1>0, <2>1, Division
<1>10. i % s = x % s
  <2> DEFINE c == Power[b - a]
  <2>1. n = s * c /\ c \in Nat /\ c >= 1
    BY <1>1
  <2>2. x \in Nat
    BY <1>7
  <2> HIDE DEF n, s, c
  <2>3. (x % (s * c)) % s = x % s
    BY <1>0, <2>1, <2>2, ModMod
  <2>4. QED
    BY <2>1, <2>3
<1>11. i \in 0 .. n - 1 /\ i % s = v % s
  BY <1>8, <1>9, <1>10
<1>12. QED
  BY <1>11 DEF i, n, s, x

\* From a bucket of the small table on, they go through all of these.
LEMMA WidenedAll ==
  ASSUME NEW a \in 0 .. Width, NEW b \in 0 .. Width, Power[a] <= Power[b], NEW v \in 0 .. Power[a] - 1
  PROVE  LET s == Power[a]
             n == Power[b]
         IN /\ Turns(v, s, n) = n \div s
            /\ \A j \in 0 .. (n \div s) - 1 : Widened(v, j, s) % n = j * s + v
<1> DEFINE s == Power[a]
           n == Power[b]
           w == Power[Width]
           m == n \div s
           above(j) == (Widened(v, j, s) % n) \div s
<1>1. /\ s \in Nat /\ s >= 1 /\ n \in Nat /\ n >= 1 /\ w \in Nat /\ w >= 1 /\ n <= w
      /\ m \in Nat /\ m >= 1 /\ n = m * s
  <2> DEFINE e == Power[b - a]
             c == Power[Width - b]
  <2>1. b - a \in 0 .. Width /\ n = s * e /\ Width \in 0 .. Width
    BY PowerDivides, PowerIs
  <2>2. e \in Nat /\ e >= 1 /\ s \in Nat /\ s >= 1 /\ n \in Nat /\ n >= 1 /\ w \in Nat /\ w >= 1
        /\ w = n * c /\ c \in Nat /\ c >= 1
    BY <2>1, PowerPositive, PowerSplit
  <2> HIDE DEF s, n, w, e, c
  <2>3. n = e * s + 0 /\ 0 \in 0 .. s - 1
    BY <2>1, <2>2
  <2>4. \A q \in Nat, r \in 0 .. s - 1 : n = q * s + r => n \div s = q /\ n % s = r
    BY <2>2, Division
  <2>5. m = e
    BY <2>2, <2>3, <2>4
  <2>6. \A x, y \in Nat : y >= 1 => x <= x * y
    OBVIOUS
  <2>7. QED
    BY <2>2, <2>3, <2>5, <2>6
<1>2. v \in Nat /\ v < s /\ v \div s = 0 /\ v % s = v
  <2>1. v \in Nat /\ v < s
    BY <1>1
  <2>2. \A x, y \in Nat : x < y => x \div y = 0 /\ x % y = x
    OBVIOUS
  <2>3. QED
    BY <1>1, <2>1, <2>2
<1>3. ASSUME NEW j \in 0 .. m - 1
      PROVE  Widened(v, j, s) % n = j * s + v /\ above(j) = j
  <2> DEFINE x == j * s + v
  <2>1. j \in Nat /\ j + 1 <= m
    BY <1>1
  <2>2. j * s \in Nat /\ x \in Nat /\ x < n /\ j * s < w
    <3>1. \A p, q, r \in Nat : p + 1 <= q => p * r + r <= q * r /\ p * r \in Nat
      <4>1. ASSUME NEW p \in Nat, NEW q \in Nat, NEW r \in Nat, p + 1 <= q
            PROVE  p * r + r <= q * r /\ p * r \in Nat
        <5>1. (p + 1) * r <= q * r /\ (p + 1) * r = p * r + r
          BY <4>1
        <5>2. QED
          BY <5>1
      <4>2. QED
        BY <4>1
    <3> HIDE DEF s, n, w, m
    <3>2. j * s + s <= m * s /\ j * s \in Nat
      BY <1>1, <2>1, <3>1
    <3>3. QED
      BY <1>1, <1>2, <3>2
  <2>3. \A p, q \in Nat : p < q => p % q = p
    OBVIOUS
  <2>4. (v \div s) + j = j
    BY <1>2, <2>1
  <2>5. Widened(v, j, s) = ((j * s) % w) + v
    BY <1>2, <2>4 DEF Widened
  <2>6. (j * s) % w = j * s /\ x % n = x
    <3> HIDE DEF s, n, w, x
    <3>1. QED
      BY <1>1, <2>2, <2>3
  <2>7. Widened(v, j, s) % n = x
    BY <2>5, <2>6
  <2>8. x \div s = j
    <3>1. x = j * s + v /\ v \in 0 .. s - 1
      OBVIOUS
    <3> HIDE DEF x, s
    <3>2. \A p \in Nat, r \in 0 .. s - 1 : x = p * s + r => x \div s = p /\ x % s = r
      BY <1>1, <2>2, Division
    <3>3. QED
      BY <2>1, <3>1, <3>2
  <2>9. QED
    BY <2>7, <2>8
<1>4. above(m) = 0
  <2>1. (v \div s) + m = m
    BY <1>1, <1>2
  <2>2. Widened(v, m, s) = (n % w) + v
    BY <1>1, <1>2, <2>1 DEF Widened
  <2>3. ((n % w) + v) % n = v
    <3> HIDE DEF s, n, w, m
    <3>0. \A p, q \in Nat : p < q => p % q = p
      OBVIOUS
    <3>00. s <= n
      <4>1. \A p, q \in Nat : p >= 1 => q <= p * q
        OBVIOUS
      <4>2. QED
        BY <1>1, <4>1
    <3>1. CASE n = w
      <4>1. n % w = 0
        BY <1>1, <3>1
      <4>2. (n % w) + v = v /\ v < n
        BY <1>1, <1>2, <3>00, <4>1
      <4>3. QED
        BY <1>1, <1>2, <3>0, <4>2
    <3>2. CASE n < w
      <4>1. n % w = n
        BY <1>1, <3>0, <3>2
      <4>2. n + v = 1 * n + v /\ v \in 0 .. n - 1 /\ n + v \in Nat
        BY <1>1, <1>2, <3>00
      <4>3. \A p \in Nat : p = n + v => p % n = v
        BY <1>1, <4>2, QuotientIs
      <4>4. (n + v) % n = v
        BY <4>2, <4>3
      <4>5. QED
        BY <4>1, <4>4
    <3>3. QED
      BY <1>1, <3>1, <3>2
  <2>4. QED
    BY <1>2, <2>2, <2>3
<1>5. m \in 1 .. m
  BY <1>1
<1>6. \A j \in 1 .. m : IsTurns(j, v, s, n) <=> j = m
  <2>1. \A j \in 1 .. m : j # m => j \in 0 .. m - 1 /\ above(j) = j /\ j # 0
    <3>1. \A j \in 1 .. m : j # m => j \in 0 .. m - 1 /\ j # 0
      BY <1>1
    <3> HIDE DEF m, above
    <3>2. QED
      BY <1>3, <3>1
  <2>2. \A j \in 1 .. m - 1 : j \in 1 .. m /\ j # m
    BY <1>1
  <2>3. \A j \in 1 .. m : IsTurns(j, v, s, n) <=> above(j) = 0 /\ \A k \in 1 .. j - 1 : above(k) # 0
    BY DEF IsTurns
  <2> HIDE DEF above, m
  <2>4. QED
    BY <1>4, <1>5, <2>1, <2>2, <2>3
<1>7. Turns(v, s, n) = m
  <2>1. Turns(v, s, n) = CHOOSE j \in 1 .. m : IsTurns(j, v, s, n)
    BY DEF Turns
  <2> HIDE DEF m, s, n
  <2>2. QED
    BY <1>5, <1>6, <2>1
<1>8. QED
  BY <1>3, <1>7

----------------------------------------------------------------------------
\* What one call emits.

\* A bucket holds the entries of its table with its index for a slot.
LEMMA BucketHolds ==
  ASSUME NEW h, GoodTable(h), NEW i \in 0 .. h.size - 1
  PROVE  h.table[i] = {k \in Entries(h) : Slot(k, h.size) = i}
<1>1. h.table[i] \subseteq Entries(h)
  BY DEF Entries
<1>2. ASSUME NEW k \in h.table[i]
      PROVE  Slot(k, h.size) = i
  BY <1>2 DEF GoodTable
<1>3. ASSUME NEW k \in Entries(h), Slot(k, h.size) = i
      PROVE  k \in h.table[i]
  <2>1. k \in Keys
    BY EntriesFinite DEF GoodTable
  <2>2. QED
    BY <1>3, <2>1, EntryInItsSlot
<1>4. QED
  BY <1>1, <1>2, <1>3

LEMMA NoEntries ==
  ASSUME NEW h, GoodTable(h), h.size = 0
  PROVE  Entries(h) = {} /\ h.used = 0
<1>1. Entries(h) = {}
  BY DEF Entries
<1>2. QED
  BY <1>1, FS_EmptySet DEF GoodTable

\* The two tables that a call looks at.
LEMMA ScannedTables ==
  ASSUME NEW dd, Consistent(dd), Size(dd) # 0
  PROVE  LET s == dd.ht[Small(dd)].size
             n == dd.ht[Large(dd)].size
         IN /\ {Small(dd), Large(dd)} = {0, 1}
            /\ s \in TableSizes /\ GoodTable(dd.ht[Small(dd)]) /\ GoodTable(dd.ht[Large(dd)])
            /\ IsRehashing(dd) => n \in TableSizes /\ s <= n
            /\ ~IsRehashing(dd) => Small(dd) = 0 /\ InTable(dd, Large(dd)) = {}
            /\ ~Shrinking(dd) => Small(dd) = 0
<1>1. GoodTable(dd.ht[0]) /\ GoodTable(dd.ht[1])
  BY DEF Consistent
<1>2. /\ dd.ht[0].size \in Nat /\ dd.ht[1].size \in Nat
      /\ dd.ht[0].size # 0 => dd.ht[0].size \in TableSizes
      /\ dd.ht[1].size # 0 => dd.ht[1].size \in TableSizes
      /\ dd.ht[0].used \in Nat /\ dd.ht[1].used \in Nat
  BY <1>1, TableNumbers DEF GoodTable
<1>3. CASE IsRehashing(dd)
  <2>0. IsRehashing(dd) <=> dd.ht[1].size > 0
    BY DEF Consistent, Phase
  <2>1. dd.ht[0].size > 0 /\ dd.ht[1].size > 0
    BY <1>3, <2>0 DEF Consistent, Phase
  <2>2. CASE dd.ht[0].size > dd.ht[1].size
    <3>1. Small(dd) = 1 /\ Large(dd) = 0
      BY <1>3, <2>2 DEF Small, Large
    <3>2. QED
      BY <1>1, <1>2, <1>3, <2>1, <2>2, <3>1 DEF Shrinking
  <2>3. CASE ~(dd.ht[0].size > dd.ht[1].size)
    <3>1. Small(dd) = 0 /\ Large(dd) = 1
      BY <1>3, <2>3 DEF Small, Large
    <3>2. QED
      BY <1>1, <1>2, <1>3, <2>1, <2>3, <3>1
  <2>4. QED
    BY <2>2, <2>3
<1>4. CASE ~IsRehashing(dd)
  <2>1. Small(dd) = 0 /\ Large(dd) = 1
    BY <1>4 DEF Small, Large
  <2>2. dd.ht[1].size = 0
    <3>1. IsRehashing(dd) <=> dd.ht[1].size > 0
      BY DEF Consistent, Phase
    <3>2. QED
      BY <1>2, <1>4, <3>1
  <2>3. Entries(dd.ht[1]) = {} /\ dd.ht[1].used = 0
    BY <1>1, <2>2, NoEntries
  <2>4. dd.ht[0].size # 0
    <3>1. SUFFICES ASSUME dd.ht[0].size = 0
                   PROVE  FALSE
      OBVIOUS
    <3>2. dd.ht[0].used = 0
      BY <1>1, <3>1, NoEntries
    <3>3. QED
      BY <2>3, <3>2 DEF Size
  <2>5. QED
    BY <1>1, <1>2, <1>4, <2>1, <2>3, <2>4 DEF InTable
<1>5. QED
  BY <1>3, <1>4

\* A call emits only entries of the small bucket's hashes, and when the cursor
\* is a bucket of the small table it emits all of them.
LEMMA EmittedIs ==
  ASSUME NEW dd, Consistent(dd), Size(dd) # 0, NEW v \in Cursors
  PROVE  LET s == dd.ht[Small(dd)].size
         IN /\ \A k \in Emitted(dd, v) : k \in Stored(dd) /\ Slot(k, s) = v % s
            /\ v < s => \A k \in Stored(dd) : Slot(k, s) = v % s => k \in Emitted(dd, v)
<1> DEFINE t == Small(dd)
           u == Large(dd)
           s == dd.ht[t].size
           n == dd.ht[u].size
           low == v % s
           turn(j) == Widened(v, j, s) % n
           inSmall == dd.ht[t].table[low]
           inLarge == UNION {dd.ht[u].table[turn(j)] : j \in 0 .. Turns(v, s, n) - 1}
<1>1. /\ {t, u} = {0, 1} /\ s \in TableSizes /\ GoodTable(dd.ht[t]) /\ GoodTable(dd.ht[u])
      /\ IsRehashing(dd) => n \in TableSizes /\ s <= n
      /\ ~IsRehashing(dd) => InTable(dd, u) = {}
  BY ScannedTables
<1>2. Emitted(dd, v) = IF IsRehashing(dd) THEN inSmall \cup inLarge ELSE inSmall
  <2>1. Visited(dd, v) = {<<t, low>>}
                           \cup (IF IsRehashing(dd)
                                 THEN {<<u, turn(j)>> : j \in 0 .. Turns(v, s, n) - 1} ELSE {})
    BY DEF Visited
  <2>2. Emitted(dd, v) = UNION {dd.ht[p[1]].table[p[2]] : p \in Visited(dd, v)}
    BY DEF Emitted
  <2> HIDE DEF t, u, s, n, low, turn
  <2>3. \A k : k \in Emitted(dd, v) <=> \E p \in Visited(dd, v) : k \in dd.ht[p[1]].table[p[2]]
    BY <2>2
  <2>4. \A k : k \in inLarge <=> \E j \in 0 .. Turns(v, s, n) - 1 : k \in dd.ht[u].table[turn(j)]
    OBVIOUS
  <2>5. CASE IsRehashing(dd)
    <3>1. \A p : p \in Visited(dd, v) <=> p = <<t, low>> \/ \E j \in 0 .. Turns(v, s, n) - 1 : p = <<u, turn(j)>>
      BY <2>1, <2>5
    <3> DEFINE bucket(p) == dd.ht[p[1]].table[p[2]]
    <3>a. bucket(<<t, low>>) = inSmall /\ \A j : bucket(<<u, turn(j)>>) = dd.ht[u].table[turn(j)]
      OBVIOUS
    <3>b. \A k : k \in Emitted(dd, v) <=> \E p \in Visited(dd, v) : k \in bucket(p)
      BY <2>3
    <3> HIDE DEF bucket, inSmall
    <3>2. \A k : k \in Emitted(dd, v) <=> k \in inSmall \/ k \in inLarge
      <4> HIDE DEF inLarge
      <4>1. ASSUME NEW k \in Emitted(dd, v), k \notin inSmall
            PROVE  k \in inLarge
        <5>1. PICK p \in Visited(dd, v) : k \in bucket(p)
          BY <3>b
        <5>2. p # <<t, low>>
          BY <3>a, <4>1, <5>1
        <5>3. PICK j \in 0 .. Turns(v, s, n) - 1 : p = <<u, turn(j)>>
          BY <3>1, <5>2
        <5>4. k \in dd.ht[u].table[turn(j)]
          BY <3>a, <5>1, <5>3
        <5>5. QED
          BY <2>4, <5>4
      <4>2. ASSUME NEW k \in inLarge
            PROVE  k \in Emitted(dd, v)
        <5>1. PICK j \in 0 .. Turns(v, s, n) - 1 : k \in dd.ht[u].table[turn(j)]
          BY <2>4
        <5>2. k \in bucket(<<u, turn(j)>>) /\ <<u, turn(j)>> \in Visited(dd, v)
          BY <3>1, <3>a, <5>1
        <5>3. QED
          BY <3>b, <5>2
      <4>3. ASSUME NEW k \in inSmall
            PROVE  k \in Emitted(dd, v)
        BY <3>1, <3>a, <3>b
      <4>4. QED
        BY <4>1, <4>2, <4>3
    <3> HIDE DEF inSmall, inLarge
    <3>3. QED
      BY <2>5, <3>2
  <2>6. CASE ~IsRehashing(dd)
    <3>1. \A p : p \in Visited(dd, v) <=> p = <<t, low>>
      BY <2>1, <2>6
    <3> DEFINE bucket(p) == dd.ht[p[1]].table[p[2]]
    <3>a. bucket(<<t, low>>) = inSmall
      OBVIOUS
    <3>b. \A k : k \in Emitted(dd, v) <=> \E p \in Visited(dd, v) : k \in bucket(p)
      BY <2>3
    <3> HIDE DEF bucket, inSmall
    <3>2. \A k : k \in Emitted(dd, v) <=> k \in inSmall
      BY <3>1, <3>a, <3>b
    <3> HIDE DEF inSmall
    <3>3. QED
      BY <2>6, <3>2
  <2>7. QED
    BY <2>5, <2>6
<1>3. Stored(dd) = InTable(dd, t) \cup InTable(dd, u) /\ Stored(dd) \subseteq Keys
  <2>1. InTable(dd, 0) \cup InTable(dd, 1) = InTable(dd, t) \cup InTable(dd, u)
    BY <1>1
  <2>2. QED
    BY <2>1, StoredAreKeys DEF Stored
<1>0. \A x \in TableSizes : x \in Nat /\ x >= 1
  BY SizesAssumption
<1>4. s \in Nat /\ s >= 1 /\ v \in Nat
  <2>1. v \in Nat
    BY CursorIs
  <2> HIDE DEF s
  <2>2. QED
    BY <1>0, <1>1, <2>1
<1>5. inSmall = {k \in InTable(dd, t) : Slot(k, s) = low}
  <2>1. low \in 0 .. s - 1
    <3> HIDE DEF s
    <3>1. QED
      BY <1>4, Division
  <2> HIDE DEF low
  <2>2. QED
    BY <1>1, <2>1, BucketHolds DEF InTable
<1>6. PICK a \in 0 .. Width : s = Power[a]
  BY <1>1, WidthAssumption
<1> HIDE DEF inSmall, inLarge
<1>7. CASE ~IsRehashing(dd)
  BY <1>1, <1>2, <1>3, <1>5, <1>7
<1>8. CASE IsRehashing(dd)
  <2>1. PICK b \in 0 .. Width : n = Power[b]
    BY <1>1, <1>8, WidthAssumption
  <2>2. n \in Nat /\ n >= 1 /\ s <= n /\ n = s * Power[b - a] /\ Power[b - a] \in Nat /\ Power[b - a] >= 1
    <3>1. s <= n /\ n \in TableSizes
      BY <1>1, <1>8
    <3>2. b - a \in 0 .. Width /\ n = s * Power[b - a]
      BY <1>6, <2>1, <3>1, PowerDivides
    <3>3. Power[b - a] \in Nat /\ Power[b - a] >= 1
      BY <3>2, PowerPositive
    <3>4. n \in Nat /\ n >= 1
      BY <1>0, <3>1
    <3>5. QED
      BY <3>1, <3>2, <3>3, <3>4
  <2>3. \A j \in Nat : turn(j) \in 0 .. n - 1 /\ turn(j) % s = low
    <3>1. Power[a] <= Power[b]
      BY <1>6, <2>1, <2>2
    <3>2. \A j \in Nat : /\ Widened(v, j, Power[a]) % Power[b] \in 0 .. Power[b] - 1
                          /\ (Widened(v, j, Power[a]) % Power[b]) % Power[a] = v % Power[a]
      BY <3>1, WidenedLow
    <3>3. QED
      BY <1>6, <2>1, <3>2
  <2>4. \A k \in Keys : Slot(k, n) \in 0 .. n - 1 /\ Slot(k, n) % s = Slot(k, s)
    <3>1. ASSUME NEW k \in Keys
          PROVE  Slot(k, n) \in 0 .. n - 1 /\ Slot(k, n) % s = Slot(k, s)
      <4> DEFINE c == Power[b - a]
                 x == Hash[k]
      <4>1. x \in Nat
        BY KeysAssumption
      <4>2. s \in Nat /\ s >= 1 /\ c \in Nat /\ c >= 1 /\ n = s * c
        BY <1>4, <2>2
      <4> HIDE DEF s, n, c, x
      <4>3. (x % (s * c)) % s = x % s
        BY <4>1, <4>2, ModMod
      <4>4. (x % n) % s = x % s
        BY <4>2, <4>3
      <4>5. Slot(k, n) \in 0 .. n - 1
        BY <2>2, SlotInTable
      <4>6. QED
        BY <4>4, <4>5 DEF Slot, x
    <3>2. QED
      BY <3>1
  <2>5. \A i \in 0 .. n - 1 : dd.ht[u].table[i] = {k \in InTable(dd, u) : Slot(k, n) = i}
    BY <1>1, BucketHolds DEF InTable
  <2>6. \A k \in inLarge : k \in InTable(dd, u) /\ Slot(k, s) = low
    <3>1. ASSUME NEW k \in inLarge
          PROVE  k \in InTable(dd, u) /\ Slot(k, s) = low
      <4>1. PICK j \in 0 .. Turns(v, s, n) - 1 : k \in dd.ht[u].table[turn(j)]
        BY DEF inLarge
      <4>2. j \in Nat
        OBVIOUS
      <4> HIDE DEF turn, low, s, n
      <4>3. turn(j) \in 0 .. n - 1 /\ turn(j) % s = low
        BY <2>3, <4>2
      <4>4. k \in InTable(dd, u) /\ Slot(k, n) = turn(j)
        BY <2>5, <4>1, <4>3
      <4>5. k \in Keys
        BY <1>3, <4>4
      <4>6. QED
        BY <2>4, <4>3, <4>4, <4>5
    <3>2. QED
      BY <3>1
  <2>7. ASSUME v < s, NEW k \in InTable(dd, u), Slot(k, s) = low
        PROVE  k \in inLarge
    <3> DEFINE i == Slot(k, n)
               j == i \div s
               m == n \div s
    <3>1. k \in Keys
      BY <1>3
    <3>2. i \in 0 .. n - 1 /\ i % s = low /\ i \in Nat
      BY <2>4, <2>7, <3>1
    <3>3. low = v
      <4>1. \A x, y \in Nat : x < y => x % y = x
        OBVIOUS
      <4> HIDE DEF s
      <4>2. QED
        BY <1>4, <2>7, <4>1
    <3>4. j \in Nat /\ i = j * s + low
      <4> HIDE DEF i, s, low
      <4>1. j \in Nat /\ i = j * s + (i % s)
        BY <1>4, <3>2, Division
      <4>2. QED
        BY <3>2, <4>1
    <3>5. m \in Nat /\ n = m * s
      <4> DEFINE c == Power[b - a]
      <4>1. c \in Nat /\ n = s * c
        BY <2>2
      <4> HIDE DEF s, n, c
      <4>2. n = c * s + 0 /\ 0 \in 0 .. s - 1 /\ n \in Nat
        BY <1>4, <2>2, <4>1
      <4>3. n \div s = c
        BY <1>4, <4>1, <4>2, QuotientIs
      <4>4. n = c * s
        BY <1>4, <4>1
      <4>5. QED
        BY <4>1, <4>3, <4>4
    <3>6. j \in 0 .. m - 1
      <4>0. v \in Nat /\ i < n /\ i = j * s + v
        <5>1. v \in Nat /\ i = j * s + v
          BY <1>4, <3>3, <3>4
        <5> HIDE DEF i, s, n, j
        <5>2. QED
          BY <2>2, <3>2, <5>1
      <4> HIDE DEF i, s, n, m, j
      <4>1. SUFFICES ASSUME m <= j
                     PROVE  FALSE
        BY <3>4, <3>5
      <4>2. \A x, y, z \in Nat : x <= y => x * z <= y * z
        OBVIOUS
      <4>3. m * s <= j * s
        BY <1>4, <3>4, <3>5, <4>1, <4>2
      <4>4. j * s \in Nat /\ m * s \in Nat
        BY <1>4, <3>4, <3>5
      <4>5. QED
        BY <2>2, <3>5, <4>0, <4>3, <4>4
    <3>7. v \in 0 .. Power[a] - 1 /\ Power[a] <= Power[b]
      BY <1>4, <1>6, <2>1, <2>2, <2>7
    <3>8. Turns(v, s, n) = m /\ \A x \in 0 .. m - 1 : turn(x) = x * s + v
      BY <1>6, <2>1, <3>7, WidenedAll
    <3>9. turn(j) = i
      <4> HIDE DEF turn, m, j, i
      <4>1. QED
        BY <3>3, <3>4, <3>6, <3>8
    <3>10. k \in dd.ht[u].table[i]
      BY <2>5, <3>2
    <3>11. \E x \in 0 .. Turns(v, s, n) - 1 : k \in dd.ht[u].table[turn(x)]
      <4> HIDE DEF turn, i, j, m
      <4>1. QED
        BY <3>6, <3>8, <3>9, <3>10
    <3> HIDE DEF turn
    <3>12. QED
      BY <3>11 DEF inLarge
  <2>8. QED
    BY <1>2, <1>3, <1>5, <1>8, <2>6, <2>7
<1>9. QED
  BY <1>7, <1>8

----------------------------------------------------------------------------
\* One call.

LEMMA Interval ==
  ASSUME NEW x \in Nat, NEW c \in Nat, c >= 1, NEW i \in Nat
  PROVE  /\ i * c \in Nat /\ (i + 1) * c \in Nat
         /\ x \div c = i <=> x \in i * c .. (i + 1) * c - 1
<1> DEFINE low == i * c
           high == (i + 1) * c
<1>1. low \in Nat /\ high = low + c /\ high \in Nat
  OBVIOUS
<1>2. ASSUME x \div c = i
      PROVE  x \in low .. high - 1
  <2>1. x % c \in 0 .. c - 1 /\ x = (x \div c) * c + (x % c)
    BY Division
  <2>2. x = low + (x % c)
    BY <1>2, <2>1
  <2> HIDE DEF low, high
  <2>3. QED
    BY <1>1, <2>1, <2>2
<1>3. ASSUME x \in low .. high - 1
      PROVE  x \div c = i
  <2> DEFINE r == x - low
  <2>1. r \in 0 .. c - 1
    <3> HIDE DEF low, high
    <3>1. QED
      BY <1>1, <1>3
  <2>2. x = i * c + r
    BY <1>1
  <2> HIDE DEF r, low, high
  <2>3. QED
    BY <2>1, <2>2, QuotientIs
<1>4. QED
  BY <1>1, <1>2, <1>3

\* The cursor is where a bucket of a table of s begins.
Aligned(v, s) == Rev(v) % (Power[Width] \div s) = 0

LEMMA AlignedLow ==
  ASSUME NEW v \in Cursors, NEW b \in 0 .. Width, Aligned(v, Power[b])
  PROVE  v < Power[b]
<1> DEFINE c == Power[Width - b]
           u == Rev(v)
           s == Power[b]
<1>1. s \in Nat /\ s >= 1 /\ c \in Nat /\ c >= 1 /\ Width - b \in 0 .. Width /\ Power[Width] \div s = c
  BY PowerSplit
<1>2. u \in Cursors /\ Rev(u) = v /\ v \in Nat
  BY RevIs, CursorIs
<1>3. u % c = 0
  BY <1>1 DEF Aligned
<1>4. 0 % c = 0 /\ 0 \div s = 0
  <2> HIDE DEF c, s
  <2>1. QED
    BY <1>1
<1>5. Width - (Width - b) = b
  BY PowerIs
<1>6. v \div s = 0
  <2>1. Rev(u) \div Power[Width - (Width - b)] = Rev(0) \div Power[Width - (Width - b)]
    <3> HIDE DEF u
    <3>1. QED
      BY <1>1, <1>2, <1>3, <1>4, RevZero, LowIsHigh
  <2>2. QED
    BY <1>2, <1>4, <1>5, <2>1, RevZero
<1>7. QED
  <2> HIDE DEF s
  <2>1. v \in 0 * s .. (0 + 1) * s - 1
    BY <1>1, <1>2, <1>6, Interval
  <2>2. v < s
    BY <1>1, <1>2, <2>1
  <2>3. QED
    BY <2>2 DEF s

\* What a call emits lies between two places: it begins at the cursor, if that
\* is aligned, and the next call begins at the other.
LEMMA CallGoesOn ==
  ASSUME NEW dd, Consistent(dd), Size(dd) # 0, NEW v \in Cursors
  PROVE  LET s == dd.ht[Small(dd)].size
             next == NextCursor(v, s)
         IN /\ next \in Cursors
            /\ \E low, high \in Nat :
                 /\ Rev(v) \in low .. high - 1
                 /\ next = 0 => high = Power[Width]
                 /\ next # 0 => Rev(next) = high /\ Aligned(next, s)
                 /\ \A k \in Emitted(dd, v) : k \in Stored(dd) /\ Pos(k) \in low .. high - 1
                 /\ Aligned(v, s) =>
                      /\ low = Rev(v)
                      /\ \A k \in Stored(dd) : Pos(k) \in low .. high - 1 => k \in Emitted(dd, v)
<1> DEFINE s == dd.ht[Small(dd)].size
           next == NextCursor(v, s)
<1>1. s \in TableSizes
  BY ScannedTables
<1>2. PICK b \in 0 .. Width : s = Power[b] /\ Power[Width] \div s = Power[Width - b]
  BY <1>1, SizeIs
<1> DEFINE c == Power[Width - b]
           i == Rev(v) \div c
           low == i * c
           high == (i + 1) * c
<1>3. /\ c \in Nat /\ c >= 1 /\ s \in Nat /\ s >= 1 /\ Power[Width] = s * c
      /\ Rev(v) \in Nat /\ v \in Nat
  BY <1>2, PowerSplit, RevIs, CursorIs
<1>4. /\ next \in Cursors /\ i \in 0 .. s - 1 /\ (next = 0 <=> i + 1 = s)
      /\ next # 0 => Rev(next) = high
  BY <1>2, NextCursorIs
<1>5. /\ \A k \in Emitted(dd, v) : k \in Stored(dd) /\ Slot(k, s) = v % s
      /\ v < s => \A k \in Stored(dd) : Slot(k, s) = v % s => k \in Emitted(dd, v)
  BY EmittedIs
<1>6. Stored(dd) \subseteq Keys
  BY StoredAreKeys
<1>7. \A k \in Keys : Slot(k, s) = v % s <=> Pos(k) \div c = i
  BY <1>2, BucketIs
<1>8. Aligned(v, s) => Rev(v) % c = 0 /\ v < s
  BY <1>2, AlignedLow DEF Aligned
<1>9. Rev(next) % c = 0 => Aligned(next, s)
  BY <1>2 DEF Aligned
<1>10. i \in Nat
  BY <1>3, <1>4
<1>11. \A k \in Keys : Pos(k) \in Nat
  BY PosIs
<1> DEFINE u == Rev(v)
           nu == Rev(next)
<1>12. i = u \div c /\ u \in Nat
  BY <1>3
<1> HIDE DEF s, next, c, i, u, nu
<1>13. low \in Nat /\ high \in Nat /\ \A x \in Nat : x \div c = i <=> x \in low .. high - 1
  BY <1>3, <1>10, Interval
<1>14. u % c = 0 => low = u
  <2>1. u = (u \div c) * c + (u % c)
    BY <1>3, <1>12, Division
  <2>2. QED
    BY <1>12, <1>13, <2>1
<1>15. high % c = 0
  <2>1. i + 1 \in Nat
    BY <1>10
  <2>2. high = (i + 1) * c + 0 /\ 0 \in 0 .. c - 1
    BY <1>3, <1>13
  <2> HIDE DEF high
  <2>3. QED
    BY <1>3, <1>13, <2>1, <2>2, QuotientIs
<1>16. next # 0 => Rev(next) = high /\ Aligned(next, s)
  BY <1>4, <1>9, <1>15
<1>17. next = 0 => high = Power[Width]
  BY <1>3, <1>4
<1> HIDE DEF low, high
<1>18. \A k \in Emitted(dd, v) : k \in Stored(dd) /\ Pos(k) \in low .. high - 1
  BY <1>5, <1>6, <1>7, <1>11, <1>13
<1>19. Aligned(v, s) => low = u /\ \A k \in Stored(dd) : Pos(k) \in low .. high - 1 => k \in Emitted(dd, v)
  <2>1. ASSUME Aligned(v, s), NEW k \in Stored(dd), Pos(k) \in low .. high - 1
        PROVE  k \in Emitted(dd, v)
    <3>1. Slot(k, s) = v % s
      BY <1>6, <1>7, <1>11, <1>13, <2>1
    <3>2. QED
      BY <1>5, <1>8, <2>1, <3>1
  <2>2. Aligned(v, s) => u % c = 0
    BY <1>8 DEF u
  <2>3. QED
    BY <1>14, <2>1, <2>2
<1>20. u \in low .. high - 1
  BY <1>12, <1>13
<1>21. QED
  BY <1>4, <1>13, <1>16, <1>17, <1>18, <1>19, <1>20 DEF u, s, next

----------------------------------------------------------------------------
\* The inductive invariant: what a scan owes lies at the cursor or after it,
\* what it has emitted before.  The cursor is where a bucket of ht[0] begins
\* unless dictEmpty has freed everything.

Scans ==
  [on : BOOLEAN, cursor : Cursors, seen : SUBSET Keys, due : SUBSET Keys, grown : BOOLEAN]

Ordered(dd, sc) ==
  /\ ~Shrinking(dd)
  /\ sc.due \cup sc.seen # {} => Aligned(sc.cursor, dd.ht[0].size)
  /\ \A k \in sc.due : Pos(k) >= Rev(sc.cursor)
  /\ \A k \in sc.seen : Pos(k) < Rev(sc.cursor)

GoodScan(dd, sc) ==
  /\ sc \in Scans
  /\ sc.seen \subseteq Stored(dd) /\ sc.due \subseteq Stored(dd)
  /\ ~sc.on => sc.cursor = 0 /\ sc.seen = {} /\ (sc.grown => sc.due = {})
  /\ sc.on /\ sc.grown => Ordered(dd, sc)

LEMMA NoScanGood ==
  ASSUME NEW dd
  PROVE  GoodScan(dd, NoScan)
BY RevZero DEF GoodScan, NoScan, Scans

LEMMA EmptyIsZero ==
  ASSUME NEW dd, Consistent(dd)
  PROVE  Size(dd) = 0 <=> Stored(dd) = {}
<1>1. /\ dd.ht[0].used = Cardinality(InTable(dd, 0)) /\ dd.ht[1].used = Cardinality(InTable(dd, 1))
      /\ dd.ht[0].used \in Nat /\ dd.ht[1].used \in Nat
      /\ IsFiniteSet(InTable(dd, 0)) /\ IsFiniteSet(InTable(dd, 1))
  BY TableNumbers, EntriesFinite DEF Consistent, GoodTable, InTable
<1>2. Size(dd) = 0 <=> dd.ht[0].used = 0 /\ dd.ht[1].used = 0
  BY <1>1 DEF Size
<1>3. \A t \in {0, 1} : Cardinality(InTable(dd, t)) = 0 <=> InTable(dd, t) = {}
  BY <1>1, FS_EmptySet
<1>4. QED
  BY <1>1, <1>2, <1>3 DEF Stored

\* What the properties say of a call.
GoesOn == scan'.cursor = 0 \/ Rev(scan'.cursor) > Rev(scan.cursor)

NoRepeat == scan.on /\ scan'.grown => Emitted(d, scan.cursor) \cap scan.seen = {}

LEMMA CallKeeps ==
  ASSUME Consistent(d), GoodScan(d, scan), ScanCall
  PROVE  GoodScan(d', scan') /\ GoesOn /\ NoRepeat
<1> DEFINE v == scan.cursor
           s == d.ht[Small(d)].size
           next == NextCursor(v, s)
           out == Emitted(d, v)
           seen == scan.seen
           due == IF scan.on THEN scan.due ELSE Stored(d)
           grown == (scan.on => scan.grown) /\ ~Shrinking(d)
<1>1. scan \in Scans /\ seen \subseteq Stored(d) /\ scan.due \subseteq Stored(d) /\ v \in Cursors
  BY DEF GoodScan, Scans
<1>2. ~scan.on => v = 0 /\ seen = {}
  BY DEF GoodScan
<1>3. d' = d /\ scan' = IF Size(d) = 0 THEN NoScan
                        ELSE IF next = 0 THEN [NoScan EXCEPT !.due = due \ out, !.grown = grown]
                        ELSE [on |-> TRUE, cursor |-> next, seen |-> seen \cup out, due |-> due \ out,
                              grown |-> grown]
  BY <1>2 DEF ScanCall, vars
<1>4. CASE Size(d) = 0
  <2>1. scan' = NoScan /\ Stored(d) = {}
    BY <1>3, <1>4, EmptyIsZero
  <2>2. NoScan.cursor = 0
    BY DEF NoScan
  <2>3. GoodScan(d', scan')
    BY <2>1, NoScanGood
  <2>4. QED
    BY <1>1, <2>1, <2>2, <2>3 DEF GoesOn, NoRepeat
<1>5. CASE Size(d) # 0
  <2>1. next \in Cursors
    BY <1>1, <1>5, CallGoesOn
  <2>2. PICK low \in Nat, high \in Nat :
          /\ Rev(v) \in low .. high - 1
          /\ next = 0 => high = Power[Width]
          /\ next # 0 => Rev(next) = high /\ Aligned(next, s)
          /\ \A k \in out : k \in Stored(d) /\ Pos(k) \in low .. high - 1
          /\ Aligned(v, s) => /\ low = Rev(v)
                              /\ \A k \in Stored(d) : Pos(k) \in low .. high - 1 => k \in out
    BY <1>1, <1>5, CallGoesOn
  <2>3. \A k \in Stored(d) : k \in Keys /\ Pos(k) \in Nat /\ Pos(k) < Power[Width]
    BY StoredAreKeys, PosIs
  <2>4. Rev(v) \in Nat /\ low <= Rev(v) /\ Rev(v) < high /\ Power[Width] \in Nat
    BY <1>1, <2>2, RevIs, CursorIs, PowerIs, PowerPositive
  <2>5. grown => Small(d) = 0 /\ s = d.ht[0].size
    BY <1>5, ScannedTables
  <2>6. ASSUME grown
        PROVE  /\ \A k \in due : k \in Stored(d) /\ Pos(k) >= Rev(v)
               /\ \A k \in seen : Pos(k) < Rev(v)
               /\ due \cup seen # {} => Aligned(v, s)
    <3>1. CASE scan.on
      BY <1>1, <2>5, <2>6, <3>1 DEF GoodScan, Ordered
    <3>2. CASE ~scan.on
      <4>1. Rev(v) = 0 /\ seen = {}
        BY <1>2, <3>2, RevZero
      <4>2. Aligned(v, s)
        <5>1. PICK b \in 0 .. Width : Power[Width] \div s = Power[Width - b]
          BY <1>5, ScannedTables, SizeIs
        <5>2. Power[Width - b] \in Nat /\ Power[Width - b] >= 1
          BY PowerSplit
        <5>3. \A x \in Nat : x >= 1 => 0 % x = 0
          OBVIOUS
        <5>4. QED
          BY <4>1, <5>1, <5>2, <5>3 DEF Aligned
      <4>3. QED
        BY <2>3, <3>2, <4>1, <4>2
    <3>3. QED
      BY <3>1, <3>2
  <2> HIDE DEF next, out, s, v
  <2>7. grown => /\ \A k \in due \ out : Pos(k) >= high
                 /\ \A k \in seen \cup out : Pos(k) < high
    <3>1. ASSUME grown, NEW k \in due \ out
          PROVE  Pos(k) >= high
      <4>1. k \in Stored(d) /\ Pos(k) \in Nat /\ Pos(k) >= Rev(v) /\ Aligned(v, s)
        BY <2>3, <2>6, <3>1
      <4>2. low = Rev(v) /\ Pos(k) \notin low .. high - 1
        BY <2>2, <3>1, <4>1
      <4>3. QED
        BY <2>4, <4>1, <4>2
    <3>2. ASSUME grown, NEW k \in seen \cup out
          PROVE  Pos(k) < high
      <4>1. CASE k \in out
        BY <2>2, <2>3, <4>1
      <4>2. CASE k \in seen
        BY <1>1, <2>3, <2>4, <2>6, <3>2, <4>2
      <4>3. QED
        BY <3>2, <4>1, <4>2
    <3>3. QED
      BY <3>1, <3>2
  <2>8. due \ out \subseteq Stored(d) /\ seen \cup out \subseteq Stored(d) /\ Stored(d) \subseteq Keys
        /\ grown \in BOOLEAN
    BY <1>1, <2>2, <2>3
  <2>9. NoRepeat
    <3>1. SUFFICES ASSUME scan.on, scan'.grown, NEW k \in out, k \in seen
                   PROVE  FALSE
      BY DEF NoRepeat, out, v
    <3>2. scan'.grown = grown
      BY <1>3, <1>5 DEF NoScan
    <3>3. Aligned(v, s) /\ Pos(k) < Rev(v)
      BY <2>6, <3>1, <3>2
    <3>4. Pos(k) \in low .. high - 1 /\ low = Rev(v)
      BY <2>2, <3>1, <3>3
    <3>5. QED
      BY <2>3, <2>4, <2>8, <3>1, <3>3, <3>4
  <2> HIDE DEF due, seen, grown
  <2>10. CASE next = 0
    <3>1. scan' = [on |-> FALSE, cursor |-> 0, seen |-> {}, due |-> due \ out, grown |-> grown]
      BY <1>3, <1>5, <2>10 DEF NoScan
    <3>2. grown => due \ out = {}
      <4>1. ASSUME grown, NEW k \in due \ out
            PROVE  FALSE
        <5>1. Pos(k) >= Power[Width] /\ k \in Stored(d)
          BY <2>2, <2>7, <2>8, <2>10, <4>1
        <5>2. QED
          BY <2>3, <2>4, <5>1
      <4>2. QED
        BY <4>1
    <3>3. GoodScan(d, scan')
      <4> DEFINE sc == scan'
      <4>1. sc.on = FALSE /\ sc.cursor = 0 /\ sc.seen = {} /\ sc.due = due \ out /\ sc.grown = grown
        BY <3>1
      <4>2. sc \in Scans
        BY <2>8, <3>1, RevZero DEF Scans
      <4> HIDE DEF sc
      <4>3. GoodScan(d, sc)
        BY <2>8, <3>2, <4>1, <4>2 DEF GoodScan
      <4>4. QED
        BY <4>3 DEF sc
    <3>4. QED
      <4>1. scan'.cursor = 0
        BY <3>1
      <4>2. GoodScan(d', scan')
        BY <1>3, <3>3
      <4>3. QED
        BY <2>9, <4>1, <4>2 DEF GoesOn
  <2>11. CASE next # 0
    <3>1. scan' = [on |-> TRUE, cursor |-> next, seen |-> seen \cup out, due |-> due \ out, grown |-> grown]
      BY <1>3, <1>5, <2>11
    <3>2. GoodScan(d, scan')
      <4> DEFINE sc == scan'
      <4>1. /\ sc.on = TRUE /\ sc.cursor = next /\ sc.seen = seen \cup out /\ sc.due = due \ out
            /\ sc.grown = grown
        BY <3>1
      <4>2. sc \in Scans
        BY <2>1, <2>8, <3>1 DEF Scans
      <4> HIDE DEF sc
      <4>3. Rev(sc.cursor) = high /\ Aligned(sc.cursor, s)
        BY <2>2, <2>11, <4>1
      <4>4. grown => Ordered(d, sc)
        <5>1. grown => ~Shrinking(d) /\ s = d.ht[0].size
          BY <2>5 DEF grown
        <5>2. QED
          BY <2>7, <4>1, <4>3, <5>1 DEF Ordered
      <4>5. GoodScan(d, sc)
        BY <2>8, <4>1, <4>2, <4>4 DEF GoodScan
      <4>6. QED
        BY <4>5 DEF sc
    <3>3. scan'.cursor = next
      BY <3>1
    <3>4. GoesOn
      BY <2>2, <2>4, <2>11, <3>3 DEF GoesOn, v
    <3>5. QED
      BY <1>3, <2>9, <3>2, <3>4
  <2>12. QED
    BY <2>10, <2>11
<1>6. QED
  BY <1>4, <1>5

----------------------------------------------------------------------------
\* The other calls: unless they begin a rehash to a smaller table or empty the
\* dict, no table that a scan has counted in gets smaller.

GrownBy(dd, e) == ~Shrinking(dd) => ~Shrinking(e) /\ e.ht[0].size >= dd.ht[0].size

SizesOf(dd) == dd.ht[0].size \in Nat /\ dd.ht[1].size \in Nat

LEMMA ConsistentSizes ==
  ASSUME NEW dd, Consistent(dd)
  PROVE  SizesOf(dd)
BY TableNumbers DEF Consistent, GoodTable, SizesOf

LEMMA GrownTwice ==
  ASSUME NEW x, NEW y, NEW z, SizesOf(x), SizesOf(y), SizesOf(z), GrownBy(x, y), GrownBy(y, z)
  PROVE  GrownBy(x, z)
BY DEF GrownBy, SizesOf

LEMMA SameTablesGrown ==
  ASSUME NEW dd, NEW e, SizesOf(dd), e.ht[0].size = dd.ht[0].size, e.ht[1].size = dd.ht[1].size,
         e.rehashidx = dd.rehashidx
  PROVE  GrownBy(dd, e)
BY DEF GrownBy, Shrinking, IsRehashing, SizesOf

LEMMA RehashOneGrows ==
  ASSUME NEW dd, Consistent(dd)
  PROVE  GrownBy(dd, RehashOne(dd))
<1>1. SizesOf(dd) /\ SizesOf(RehashOne(dd))
  BY RehashOneKeeps, ConsistentSizes DEF Keeps
<1>2. CASE ~IsRehashing(dd)
  BY <1>1, <1>2 DEF RehashOne, GrownBy, SizesOf
<1>3. CASE IsRehashing(dd) /\ dd.ht[0].used = 0
  <2> DEFINE e == FinishRehash(dd)
  <2>1. RehashOne(dd) = e
    BY <1>3 DEF RehashOne
  <2>2. e.ht[0].size = dd.ht[1].size
    BY <1>3, FinishRehashKeeps
  <2>3. e.rehashidx = -1
    <3>1. IsDict(dd)
      BY DEF Consistent
    <3>2. QED
      BY <3>1 DEF FinishRehash, IsDict
  <2>4. QED
    BY <1>1, <1>3, <2>1, <2>2, <2>3 DEF GrownBy, Shrinking, IsRehashing, SizesOf
<1>4. CASE IsRehashing(dd) /\ dd.ht[0].used # 0
  <2> DEFINE e == MoveBucket(dd, NextBucket(dd))
  <2>1. RehashOne(dd) = e
    BY <1>4 DEF RehashOne
  <2>2. e.ht[0].size = dd.ht[0].size /\ e.ht[1].size = dd.ht[1].size
    BY <1>4, NextBucketExists, MoveBucketKeeps
  <2>3. QED
    BY <1>1, <1>4, <2>1, <2>2 DEF GrownBy, Shrinking, SizesOf
<1>5. QED
  BY <1>2, <1>3, <1>4

LEMMA RehashStepGrows ==
  ASSUME NEW dd, Consistent(dd)
  PROVE  GrownBy(dd, RehashStep(dd))
<1>1. GrownBy(dd, dd)
  BY ConsistentSizes DEF GrownBy, SizesOf
<1>2. QED
  BY <1>1, RehashOneGrows DEF RehashStep

LEMMA BeforeSearchGrows ==
  ASSUME NEW dd, Consistent(dd)
  PROVE  GrownBy(dd, BeforeSearch(dd))
<1>1. GrownBy(dd, dd)
  BY ConsistentSizes DEF GrownBy, SizesOf
<1>2. QED
  BY <1>1, RehashStepGrows DEF BeforeSearch

LEMMA RehashGrows ==
  ASSUME NEW dd, Consistent(dd), NEW n \in Nat
  PROVE  GrownBy(dd, Rehash(dd, n))
<1> DEFINE after == CHOOSE f : TurnsAre(f, dd, n)
           Wrong == {i \in 0 .. n : ~(Consistent(after[i]) /\ GrownBy(dd, after[i]))}
<1>1. Rehash(dd, n) = after[n]
  BY DEF Rehash, TurnsAre
<1>2. TurnsAre(after, dd, n)
  BY TurnsExist
<1> HIDE DEF after
<1>3. \A i \in 0 .. n : after[i] = IF i = 0 THEN dd ELSE RehashOne(after[i - 1])
  BY <1>2 DEF TurnsAre
<1>4. Wrong = {}
  <2>1. SUFFICES ASSUME Wrong # {}
                 PROVE  FALSE
    OBVIOUS
  <2>2. Wrong \in SUBSET Nat
    OBVIOUS
  <2>3. PICK j \in Wrong : \A k \in Wrong : j <= k
    BY <2>1, <2>2, LeastNatural
  <2>4. j \in 0 .. n /\ ~(Consistent(after[j]) /\ GrownBy(dd, after[j]))
    OBVIOUS
  <2>5. CASE j = 0
    <3>1. after[j] = dd
      BY <1>3, <2>4, <2>5
    <3>2. GrownBy(dd, dd)
      BY ConsistentSizes DEF GrownBy, SizesOf
    <3>3. QED
      BY <2>4, <3>1, <3>2
  <2>6. CASE j # 0
    <3>1. j - 1 \in 0 .. n /\ j - 1 \notin Wrong
      BY <2>3, <2>4, <2>6
    <3>2. Consistent(after[j - 1]) /\ GrownBy(dd, after[j - 1])
      BY <3>1
    <3>3. after[j] = RehashOne(after[j - 1])
      BY <1>3, <2>4, <2>6
    <3>4. Consistent(after[j])
      BY <3>2, <3>3, RehashOneKeeps DEF Keeps
    <3>5. GrownBy(after[j - 1], after[j])
      BY <3>2, <3>3, RehashOneGrows
    <3>6. SizesOf(dd) /\ SizesOf(after[j - 1]) /\ SizesOf(after[j])
      BY <3>2, <3>4, ConsistentSizes
    <3>7. GrownBy(dd, after[j])
      BY <3>2, <3>5, <3>6, GrownTwice
    <3>8. QED
      BY <2>4, <3>4, <3>7
  <2>7. QED
    BY <2>5, <2>6
<1>5. QED
  BY <1>1, <1>4

\* The tables after an expansion: the first one is new only if there was none.
LEMMA ExpandedSizes ==
  ASSUME NEW dd, Consistent(dd), NEW n \in Requests, CanExpand(dd, n)
  PROVE  LET e == Expand(dd, n)
         IN /\ e.ht[0].size >= dd.ht[0].size
            /\ dd.ht[0].size = 0 => ~IsRehashing(e)
            /\ dd.ht[0].size # 0 => e.ht[0].size = dd.ht[0].size /\ e.ht[1].size = NextPower(n)
<1> DEFINE e == Expand(dd, n)
<1>1. SizesOf(dd) /\ IsDict(dd)
  BY ConsistentSizes DEF Consistent
<1>2. NextPower(n) \in Nat
  BY NextPowerHolds
<1>3. CASE dd.ht[0].size = 0
  <2>1. e.ht[0].size = NextPower(n) /\ e.rehashidx = dd.rehashidx
    BY <1>1, <1>3 DEF Expand, IsDict, NewTable
  <2>2. QED
    BY <1>1, <1>2, <1>3, <2>1 DEF SizesOf, CanExpand, IsRehashing
<1>4. CASE dd.ht[0].size # 0
  <2>1. e.ht[0] = dd.ht[0] /\ e.ht[1].size = NextPower(n)
    BY <1>1, <1>4 DEF Expand, IsDict, NewTable
  <2>2. QED
    BY <1>1, <1>4, <2>1 DEF SizesOf
<1>5. QED
  BY <1>3, <1>4

\* _dictExpandIfNeeded only doubles.
LEMMA ExpandIfNeededGrows ==
  ASSUME NEW dd, Consistent(dd)
  PROVE  GrownBy(dd, ExpandIfNeeded(dd))
<1> DEFINE n == GrowTo(dd)
           e == Expand(dd, n)
<1>0. SizesOf(dd) /\ n \in Requests /\ dd.ht[0].used \in Nat
  BY ConsistentSizes, SizesRequested, TableNumbers DEF Consistent, GoodTable
<1>1. CASE MustExpand(dd) /\ CanExpand(dd, n)
  <2>1. ExpandIfNeeded(dd) = e
    BY <1>1 DEF ExpandIfNeeded
  <2>2. CASE dd.ht[0].size = 0
    BY <1>0, <1>1, <2>1, <2>2, ExpandedSizes DEF GrownBy, Shrinking
  <2>3. CASE dd.ht[0].size # 0
    <3>1. dd.ht[0].size \in Nat /\ dd.ht[0].size >= 1
      BY <1>0, <2>3 DEF SizesOf
    <3>2. dd.ht[0].used >= dd.ht[0].size
      <4>1. Overloaded(dd.ht[0])
        BY <1>1, <2>3 DEF MustExpand
      <4>2. \A x, y \in Nat : y >= 1 /\ x \div y > ForceRatio => x >= y
        <5>1. \A x, y \in Nat : y >= 1 /\ x < y => x \div y = 0
          OBVIOUS
        <5>2. ForceRatio \in Nat
          BY RatiosAssumption
        <5>3. QED
          BY <5>1, <5>2
      <4>3. QED
        BY <1>0, <3>1, <4>1, <4>2 DEF Overloaded
    <3>3. n = 2 * dd.ht[0].used
      BY <2>3 DEF GrowTo
    <3>4. NextPower(n) \in Nat /\ NextPower(n) >= n
      BY <1>0, NextPowerHolds
    <3>5. e.ht[0].size = dd.ht[0].size /\ e.ht[1].size = NextPower(n)
      BY <1>0, <1>1, <2>3, ExpandedSizes
    <3>6. ~(e.ht[1].size < e.ht[0].size)
      BY <1>0, <3>1, <3>2, <3>3, <3>4, <3>5
    <3>7. QED
      BY <2>1, <3>1, <3>5, <3>6 DEF GrownBy, Shrinking
  <2>4. QED
    BY <2>2, <2>3
<1>2. CASE ~(MustExpand(dd) /\ CanExpand(dd, n))
  BY <1>0, <1>2 DEF ExpandIfNeeded, GrownBy, SizesOf
<1>3. QED
  BY <1>1, <1>2

\* One table is replaced by one of the same size.
LEMMA SameSizes ==
  ASSUME NEW dd, IsDict(dd), NEW t \in {0, 1}, NEW g, g.size = dd.ht[t].size
  PROVE  LET ht == [dd.ht EXCEPT ![t] = g]
         IN ht[0].size = dd.ht[0].size /\ ht[1].size = dd.ht[1].size
BY DEF IsDict

LEMMA UnlinkGrows ==
  ASSUME NEW dd, Consistent(dd), NEW k \in Keys
  PROVE  GrownBy(dd, Unlink(dd, k))
<1> DEFINE t == TableOf(dd, k)
           e == Unlink(dd, k)
<1>1. SizesOf(dd) /\ IsDict(dd)
  BY ConsistentSizes DEF Consistent
<1>2. t \in {0, 1}
  BY DEF TableOf
<1>3. e.ht = [dd.ht EXCEPT ![t] = UnlinkIn(dd.ht[t], k)] /\ e.rehashidx = dd.rehashidx
  BY <1>1 DEF Unlink, IsDict
<1>4. UnlinkIn(dd.ht[t], k).size = dd.ht[t].size
  BY DEF UnlinkIn
<1> HIDE DEF t, e
<1>5. e.ht[0].size = dd.ht[0].size /\ e.ht[1].size = dd.ht[1].size
  BY <1>1, <1>2, <1>3, <1>4, SameSizes
<1>6. GrownBy(dd, e)
  BY <1>1, <1>3, <1>5, SameTablesGrown
<1>7. QED
  BY <1>6 DEF e

LEMMA WritesGrow ==
  ASSUME NEW dd, Consistent(dd), NEW k \in Keys, NEW v \in Vals
  PROVE  GrownBy(dd, Insert(dd, k, v)) /\ GrownBy(dd, SetVal(dd, k, v))
<1>1. SizesOf(dd) /\ IsDict(dd)
  BY ConsistentSizes DEF Consistent
<1>2. GrownBy(dd, Insert(dd, k, v))
  <2> DEFINE t == Target(dd)
             e == Insert(dd, k, v)
  <2>1. t \in {0, 1}
    BY DEF Target
  <2>2. e.ht = [dd.ht EXCEPT ![t] = LinkIn(dd.ht[t], k)] /\ e.rehashidx = dd.rehashidx
    BY <1>1 DEF Insert, IsDict
  <2>3. LinkIn(dd.ht[t], k).size = dd.ht[t].size
    BY DEF LinkIn
  <2> HIDE DEF t, e
  <2>4. e.ht[0].size = dd.ht[0].size /\ e.ht[1].size = dd.ht[1].size
    BY <1>1, <2>1, <2>2, <2>3, SameSizes
  <2>5. GrownBy(dd, e)
    BY <1>1, <2>2, <2>4, SameTablesGrown
  <2>6. QED
    BY <2>5 DEF e
<1>3. GrownBy(dd, SetVal(dd, k, v))
  <2>1. SetVal(dd, k, v).ht = dd.ht /\ SetVal(dd, k, v).rehashidx = dd.rehashidx
    BY <1>1 DEF SetVal, IsDict
  <2>2. QED
    BY <1>1, <2>1, SameTablesGrown
<1>4. QED
  BY <1>2, <1>3

LEMMA AddRawGrows ==
  ASSUME NEW dd, Consistent(dd), NEW k \in Keys, NEW v \in Vals
  PROVE  GrownBy(dd, PrepareAdd(dd)) /\ GrownBy(dd, AddRaw(dd, k, v))
<1> DEFINE x == RehashStep(dd)
           y == ExpandIfNeeded(x)
           z == AddRaw(dd, k, v)
<1>1. Consistent(x) /\ GrownBy(dd, x)
  BY RehashStepKeeps, RehashStepGrows DEF Keeps
<1> HIDE DEF x
<1>2. Consistent(y) /\ GrownBy(x, y)
  BY <1>1, ExpandIfNeededKeeps, ExpandIfNeededGrows DEF Keeps
<1> HIDE DEF y
<1>3. y = PrepareAdd(dd)
  BY DEF PrepareAdd, x, y
<1>4. GrownBy(dd, y)
  BY <1>1, <1>2, ConsistentSizes, GrownTwice
<1>5. CASE Addable(dd, k)
  <2>1. z = Insert(y, k, v) /\ Consistent(z)
    BY <1>3, <1>5, AddRawAdds DEF AddRaw
  <2> HIDE DEF z
  <2>2. GrownBy(y, z)
    BY <1>2, <2>1, WritesGrow
  <2>3. GrownBy(dd, z)
    BY <1>2, <1>4, <2>1, <2>2, ConsistentSizes, GrownTwice
  <2>4. QED
    BY <1>3, <1>4, <2>3 DEF z
<1>6. CASE ~Addable(dd, k)
  BY <1>3, <1>4, <1>6 DEF AddRaw
<1>7. QED
  BY <1>5, <1>6

\* A call that is no scan either lets the tables grow, or begins to shrink
\* them, or leaves nothing.
Lets(dd, e) == GrownBy(dd, e) \/ Shrinking(e) \/ Stored(e) = {}

LEMMA UpdateLets ==
  ASSUME Consistent(d), Consistent(d'), NEW k \in Keys,
         \/ DictDelete(k)
         \/ \E v \in Vals : DictAdd(k, v) \/ DictReplace(k, v) \/ DictReplaceRaw(k, v)
  PROVE  GrownBy(d, d')
<1> DEFINE x == BeforeSearch(d)
<1>1. Consistent(x) /\ GrownBy(d, x)
  BY BeforeSearchKeeps, BeforeSearchGrows DEF Keeps
<1>2. ASSUME NEW v \in Vals, DictAdd(k, v)
      PROVE  GrownBy(d, d')
  BY <1>2, AddRawGrows DEF DictAdd
<1>3. ASSUME NEW v \in Vals, DictReplace(k, v)
      PROVE  GrownBy(d, d')
  <2>1. CASE Addable(d, k)
    BY <1>3, <2>1, AddRawGrows DEF DictReplace
  <2>2. CASE ~Addable(d, k)
    <3> DEFINE y == PrepareAdd(d)
               z == BeforeSearch(y)
    <3>1. Consistent(y) /\ GrownBy(d, y)
      BY AddRawAdds, AddRawGrows DEF Keeps
    <3>2. d' = SetVal(z, k, v)
      BY <1>3, <2>2 DEF DictReplace
    <3> HIDE DEF y
    <3>3. Consistent(z) /\ GrownBy(y, z)
      BY <3>1, BeforeSearchKeeps, BeforeSearchGrows DEF Keeps
    <3> HIDE DEF z
    <3>4. GrownBy(z, d')
      BY <3>2, <3>3, WritesGrow
    <3>5. GrownBy(d, z)
      BY <3>1, <3>3, ConsistentSizes, GrownTwice
    <3>6. QED
      BY <3>3, <3>4, <3>5, ConsistentSizes, GrownTwice
  <2>3. QED
    BY <2>1, <2>2
<1>4. ASSUME NEW v \in Vals, DictReplaceRaw(k, v)
      PROVE  GrownBy(d, d')
  <2>1. d' = SetVal(x, k, v) \/ d' = AddRaw(x, k, v)
    BY <1>4 DEF DictReplaceRaw
  <2> HIDE DEF x
  <2>2. GrownBy(x, d')
    BY <1>1, <2>1, WritesGrow, AddRawGrows
  <2>3. QED
    BY <1>1, <2>2, ConsistentSizes, GrownTwice
<1>5. CASE DictDelete(k)
  <2>1. d' = Unlink(x, k) \/ d' = x
    BY <1>5 DEF DictDelete
  <2> HIDE DEF x
  <2>2. CASE d' = x
    BY <1>1, <2>2
  <2>3. CASE d' = Unlink(x, k)
    <3>1. GrownBy(x, d')
      BY <1>1, <2>3, UnlinkGrows
    <3>2. QED
      BY <1>1, <3>1, ConsistentSizes, GrownTwice
  <2>4. QED
    BY <2>1, <2>2, <2>3
<1>6. QED
  BY <1>2, <1>3, <1>4, <1>5

LEMMA ExpandLets ==
  ASSUME Consistent(d), NEW n \in Requests, CanExpand(d, n)
  PROVE  Lets(d, Expand(d, n))
<1> DEFINE e == Expand(d, n)
<1>1. /\ e.ht[0].size >= d.ht[0].size
      /\ d.ht[0].size = 0 => ~IsRehashing(e)
      /\ d.ht[0].size # 0 => e.ht[0].size = d.ht[0].size
  BY ExpandedSizes
<1>2. QED
  BY <1>1 DEF Lets, GrownBy, Shrinking

LEMMA StepLets ==
  ASSUME Consistent(d), Consistent(d'), [AnyNext]_vars
  PROVE  Lets(d, d')
<1>0. GrownBy(d, d)
  BY ConsistentSizes DEF GrownBy, SizesOf
<1>1. ASSUME NEW k \in Keys, DictFetchValue(k)
      PROVE  GrownBy(d, d')
  BY <1>1, BeforeSearchGrows DEF DictFetchValue
<1>2. ASSUME NEW k \in Keys,
             \/ DictDelete(k)
             \/ \E v \in Vals : DictAdd(k, v) \/ DictReplace(k, v) \/ DictReplaceRaw(k, v)
      PROVE  GrownBy(d, d')
  BY <1>2, UpdateLets
<1>3. CASE DictGetRandomKey
  BY <1>0, <1>3, RehashStepGrows DEF DictGetRandomKey, Lets
<1>4. CASE Maintain
  <2>1. ASSUME NEW n \in ExpandSizes, DictExpand(n)
        PROVE  Lets(d, d')
    <3>1. n \in Requests
      BY DEF Requests
    <3>2. QED
      BY <1>0, <2>1, <3>1, ExpandLets DEF DictExpand, Lets
  <2>2. CASE DictResize
    BY <1>0, <2>2, SizesRequested, ExpandLets DEF DictResize, Lets
  <2>3. ASSUME NEW b \in BOOLEAN, SetResize(b)
        PROVE  Lets(d, d')
    BY <1>0, <2>3 DEF SetResize, Lets
  <2>4. QED
    BY <1>4, <2>1, <2>2, <2>3 DEF Maintain
<1>5. CASE OnDemand
  <2>1. ASSUME NEW n \in 0 .. RehashBatch, DictRehash(n)
        PROVE  Lets(d, d')
    <3>1. n \in Nat
      BY RatiosAssumption
    <3>2. QED
      BY <2>1, <3>1, RehashGrows DEF DictRehash, Lets
  <2>2. CASE DictRehashMilliseconds
    <3>1. PICK b \in 1 .. MaxBatches : d' = Rehash(d, b * RehashBatch)
      BY <2>2 DEF DictRehashMilliseconds
    <3>2. b * RehashBatch \in Nat
      BY RatiosAssumption
    <3>3. QED
      BY <3>1, <3>2, RehashGrows DEF Lets
  <2>3. CASE DictEmpty
    BY <2>3, EmptyDictConsistent DEF DictEmpty, Lets
  <2>4. QED
    BY <1>5, <2>1, <2>2, <2>3 DEF OnDemand
<1>6. CASE Iterate
  <2>1. d'.ht = d.ht /\ d'.rehashidx = d.rehashidx
    <3>1. IsDict(d)
      BY DEF Consistent
    <3>2. \A n : [d EXCEPT !.iterators = n].ht = d.ht /\ [d EXCEPT !.iterators = n].rehashidx = d.rehashidx
      BY <3>1 DEF IsDict
    <3>3. QED
      BY <1>6, <3>2 DEF Iterate, DictGetIterator, DictNext, DictReleaseIterator
  <2>2. QED
    BY <2>1, ConsistentSizes, SameTablesGrown DEF Lets
<1>7. CASE UNCHANGED vars
  BY <1>0, <1>7 DEF vars, Lets
<1>8. QED
  BY <1>1, <1>2, <1>3, <1>4, <1>5, <1>6, <1>7 DEF AnyNext, Lookup, Lets

----------------------------------------------------------------------------
\* The theorems.

\* Where a bucket of a table begins, a bucket of every larger table begins.
LEMMA AlignedMore ==
  ASSUME NEW s \in TableSizes, NEW n \in TableSizes, s <= n, NEW v \in Cursors, Aligned(v, s)
  PROVE  Aligned(v, n)
<1>1. PICK a \in 0 .. Width : s = Power[a] /\ Power[Width] \div s = Power[Width - a]
  BY SizeIs
<1>2. PICK b \in 0 .. Width : n = Power[b] /\ Power[Width] \div n = Power[Width - b]
  BY SizeIs
<1>3. a <= b /\ b - a \in 0 .. Width
  BY <1>1, <1>2, PowerDivides
<1> DEFINE p == Power[Width - b]
           q == Power[b - a]
           u == Rev(v)
<1>4. Power[Width - a] = p * q
  <2>1. Width - b \in 0 .. Width /\ b - a \in 0 .. Width - (Width - b) /\ (Width - b) + (b - a) = Width - a
    BY <1>3, PowerIs
  <2>2. QED
    BY <2>1, PowerSum
<1>5. u \in Nat /\ p \in Nat /\ p >= 1 /\ q \in Nat /\ q >= 1
  BY <1>3, PowerSplit, PowerPositive, RevIs, CursorIs
<1>6. u % (p * q) = 0
  BY <1>1, <1>4 DEF Aligned
<1> HIDE DEF u, p, q
<1>7. (u % (p * q)) % p = u % p
  BY <1>5, ModMod
<1>8. 0 % p = 0
  BY <1>5
<1>9. u % p = 0
  BY <1>6, <1>7, <1>8
<1>10. QED
  BY <1>2, <1>9 DEF Aligned, u, p

LEMMA BetweenKeeps ==
  ASSUME Consistent(d), Consistent(d'), GoodScan(d, scan), [AnyNext]_vars, Between
  PROVE  GoodScan(d', scan')
<1> DEFINE sc == scan'
<1>1. scan \in Scans
  BY DEF GoodScan
<1>2. /\ sc.on = scan.on /\ sc.cursor = scan.cursor
      /\ sc.seen = scan.seen \cap Stored(d') /\ sc.due = scan.due \cap Stored(d')
      /\ sc.grown = (scan.grown /\ (scan.on => ~Shrinking(d')))
      /\ sc \in Scans
  BY <1>1 DEF Between, Scans
<1> HIDE DEF sc
<1>3. ~scan.on => scan.cursor = 0 /\ scan.seen = {} /\ (scan.grown => scan.due = {})
  BY DEF GoodScan
<1>4. ASSUME sc.on, sc.grown
      PROVE  Ordered(d', sc)
  <2>1. scan.on /\ scan.grown /\ ~Shrinking(d') /\ Ordered(d, scan)
    BY <1>2, <1>4 DEF GoodScan
  <2>2. ASSUME sc.due \cup sc.seen # {}
        PROVE  Aligned(sc.cursor, d'.ht[0].size)
    <3>1. Stored(d') # {} /\ Stored(d) # {} /\ scan.due \cup scan.seen # {}
      BY <1>2, <2>2 DEF GoodScan
    <3>2. ~Shrinking(d) /\ Aligned(scan.cursor, d.ht[0].size)
      BY <2>1, <3>1 DEF Ordered
    <3>3. d.ht[0].size \in TableSizes
      <4>1. Size(d) # 0
        BY <3>1, EmptyIsZero
      <4>2. QED
        BY <3>2, <4>1, ScannedTables
    <3>4. d'.ht[0].size \in TableSizes
      <4>1. Size(d') # 0
        BY <3>1, EmptyIsZero
      <4>2. QED
        BY <2>1, <4>1, ScannedTables
    <3>5. d.ht[0].size <= d'.ht[0].size
      <4>1. GrownBy(d, d')
        BY <2>1, <3>1, StepLets DEF Lets
      <4>2. SizesOf(d) /\ SizesOf(d')
        BY ConsistentSizes
      <4>3. QED
        BY <3>2, <4>1, <4>2 DEF GrownBy, SizesOf
    <3>6. scan.cursor \in Cursors
      BY <1>1 DEF Scans
    <3>7. QED
      BY <1>2, <3>2, <3>3, <3>4, <3>5, <3>6, AlignedMore
  <2>3. QED
    BY <1>2, <2>1, <2>2 DEF Ordered
<1>5. GoodScan(d', sc)
  BY <1>2, <1>3, <1>4 DEF GoodScan
<1>6. QED
  BY <1>5 DEF sc

ScanInv == IInv /\ GoodScan(d, scan)

LEMMA ScanStep ==
  ScanInv /\ [ScanNext]_scanVars =>
    ScanInv' /\ [ScanCall => GoesOn]_scanVars /\ [ScanCall => NoRepeat]_scanVars
<1> SUFFICES ASSUME ScanInv, [ScanNext]_scanVars
             PROVE  ScanInv' /\ [ScanCall => GoesOn]_scanVars /\ [ScanCall => NoRepeat]_scanVars
  OBVIOUS
<1>1. IInv /\ Consistent(d) /\ GoodScan(d, scan)
  BY DEF ScanInv, IInv, Consistency
<1>2. [AnyNext]_vars
  <2>1. Next => AnyNext
    BY NextIsAnyNext
  <2>2. QED
    BY <2>1 DEF ScanNext, ScanCall, scanVars, vars
<1>3. IInv' /\ Consistent(d')
  BY <1>1, <1>2, AnyStepGood DEF Good, IInv, Consistency
<1>4. ScanCall => GoodScan(d', scan') /\ GoesOn /\ NoRepeat
  BY <1>1, CallKeeps
<1>5. Next /\ Between => GoodScan(d', scan')
  BY <1>1, <1>2, <1>3, BetweenKeeps
<1>6. UNCHANGED scanVars => GoodScan(d', scan')
  BY <1>1 DEF scanVars
<1>7. GoodScan(d', scan')
  BY <1>4, <1>5, <1>6 DEF ScanNext
<1>8. QED
  BY <1>3, <1>4, <1>7 DEF ScanInv

LEMMA ScanInvariant == ScanSpec => []ScanInv
<1>1. ScanInit => ScanInv
  BY InitGood, NoScanGood DEF ScanInit, ScanInv
<1>2. QED
  BY <1>1, ScanStep, PTL DEF ScanSpec

\* A scan emits every entry that is in the dict from its first call to its
\* last, whatever is added, deleted and rehashed between its calls, so long as
\* no rehash to a smaller table is on: the cursor goes through the hashes in the
\* order of their reversed bits, in which the buckets of every table are intervals.
THEOREM ScanAlwaysComplete == ScanSpec => []ScanComplete
<1>1. ScanInv => ScanComplete
  BY DEF ScanInv, GoodScan, ScanComplete
<1>2. QED
  BY <1>1, ScanInvariant, PTL

\* Every call moves the cursor on in that order, or ends the scan, also when
\* tables shrink: a scan is not sent back.
THEOREM ScanAlwaysAdvances == ScanSpec => ScanAdvances
<1>1. ScanInv /\ [ScanNext]_scanVars =>
        [ScanCall => scan'.cursor = 0 \/ Rev(scan'.cursor) > Rev(scan.cursor)]_scanVars
  BY ScanStep DEF GoesOn
<1>2. QED
  BY <1>1, ScanInvariant, PTL DEF ScanSpec, ScanAdvances

\* And while the tables only grow no entry is emitted by two calls.
THEOREM ScanNeverReturnsTwice == ScanSpec => ScanNeverRepeats
<1>1. ScanInv /\ [ScanNext]_scanVars =>
        [ScanCall /\ scan.on /\ scan'.grown => Emitted(d, scan.cursor) \cap scan.seen = {}]_scanVars
  BY ScanStep DEF NoRepeat
<1>2. QED
  BY <1>1, ScanInvariant, PTL DEF ScanSpec, ScanNeverRepeats
=============================================================================
