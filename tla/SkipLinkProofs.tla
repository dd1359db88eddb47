---------------------------- MODULE SkipLinkProofs ----------------------------
(***************************************************************************)
(* Lemmas about SkipList for every set of members, every set of scores and *)
(* every number of levels.  Laid says that a skip list lays out a sequence *)
(* of members; the walk that all functions make (Path) then ends, on every *)
(* level, at the last node that is not behind the place it looks for.  The *)
(* second part is about what the calls do to such a list: an insertion     *)
(* links the new node, a removal unlinks one, and the removal of a range   *)
(* those behind the path.                                                  *)
(***************************************************************************)
EXTENDS SkipList, FiniteSetTheorems, WellFoundedInduction, TLAPS

SkipLists ==
  [level : 1 .. MaxLevel, length : Nat, tail : Objs \cup {NULL},
   score : [Objs -> Scores \cup {NULL}], height : [Objs -> 0 .. MaxLevel],
   forward : [Levels -> [Nodes -> Objs \cup {NULL}]],
   span : [Levels -> [Nodes -> Nat]], backward : [Objs -> Objs \cup {NULL}]]

\* The node at place k of the sequence s; the header is at 0.
Pos(s, k) == IF k = 0 THEN Header ELSE s[k]

\* The node at place k is linked on level i.
On(z, s, i, k) == k = 0 \/ z.height[s[k]] > i

\* Place m is the next behind k that level i links, or the place behind the
\* end if there is none.
NextOn(z, s, i, k, m) ==
  /\ m \in k + 1 .. z.length + 1
  /\ m <= z.length => On(z, s, i, m)
  /\ \A j \in k + 1 .. m - 1 : ~On(z, s, i, j)

\* The forward pointer and the span of place k lead to place m.
LeadsTo(z, s, i, k, m) ==
  /\ z.forward[i][Pos(s, k)] = IF m = z.length + 1 THEN NULL ELSE s[m]
  /\ i < z.level => z.span[i][Pos(s, k)] = (IF m = z.length + 1 THEN z.length ELSE m) - k

LevelLaid(z, s, i) ==
  /\ \A k \in 0 .. z.length :
       On(z, s, i, k) => \E m \in Nat : NextOn(z, s, i, k, m) /\ LeadsTo(z, s, i, k, m)
  /\ \A o \in Objs : z.height[o] <= i => z.forward[i][o] = NULL

\* In the order of the list.
Before(z, x, y) == z.score[x] < z.score[y] \/ (z.score[x] = z.score[y] /\ x < y)

\* The members and their heights.
Members(z, s) ==
  /\ s \in [1 .. z.length -> Objs]
  /\ \A j, k \in 1 .. z.length : j < k => Before(z, s[j], s[k])
  /\ \A j \in 1 .. z.length : z.score[s[j]] \in Scores /\ z.height[s[j]] \in 1 .. z.level
  /\ \A o \in Objs : (\A j \in 1 .. z.length : s[j] # o) => z.score[o] = NULL /\ z.height[o] = 0
  /\ z.level = 1 \/ \E j \in 1 .. z.length : z.height[s[j]] = z.level

\* The way back.
Backwards(z, s) ==
  /\ z.tail = IF z.length = 0 THEN NULL ELSE s[z.length]
  /\ \A j \in 1 .. z.length : z.backward[s[j]] = IF j = 1 THEN NULL ELSE s[j - 1]

\* The skip list has the members of s in order, and all its links agree.
Laid(z, s) ==
  /\ z \in SkipLists
  /\ Members(z, s)
  /\ Backwards(z, s)
  /\ \A i \in Levels : LevelLaid(z, s, i)

----------------------------------------------------------------------------
\* Numbers.

LEMMA LeastNatural ==
  ASSUME NEW S \in SUBSET Nat, S # {}
  PROVE  \E x \in S : \A y \in S : x <= y
<1>1. PICK x \in S : \A y \in S : ~(<<y, x>> \in OpToRel(<, Nat))
  BY NatLessThanWellFounded, WFMin
<1>2. \A y \in S : ~(y < x)
  BY <1>1 DEF OpToRel
<1>3. QED
  BY <1>2

LEMMA Greatest ==
  ASSUME NEW n \in Nat, NEW S \in SUBSET (0 .. n), S # {}
  PROVE  \E x \in S : \A y \in S : y <= x
<1> DEFINE T == {n - x : x \in S}
<1>1. T \in SUBSET Nat /\ T # {}
  <2>1. \A x \in S : n - x \in Nat
    OBVIOUS
  <2>2. QED
    BY <2>1
<1>2. PICK m \in T : \A y \in T : m <= y
  <2> HIDE DEF T
  <2>1. QED
    BY <1>1, LeastNatural
<1>3. PICK x \in S : m = n - x
  BY <1>2
<1>4. \A y \in S : n - x <= n - y
  BY <1>2, <1>3
<1>5. QED
  BY <1>4

----------------------------------------------------------------------------
\* The order of the list.

LEMMA MembersOnce ==
  ASSUME NEW z, NEW s, z \in SkipLists, Members(z, s)
  PROVE  /\ z.length \in Nat /\ z.level \in 1 .. MaxLevel /\ MaxLevel \in Nat
         /\ s \in [1 .. z.length -> Objs]
         /\ \A j \in 1 .. z.length : s[j] # Header /\ s[j] # NULL /\ s[j] \in Int /\ s[j] \in Nodes
         /\ \A j, k \in 1 .. z.length : s[j] = s[k] => j = k
         /\ \A j, k \in 0 .. z.length : Pos(s, j) = Pos(s, k) => j = k
         /\ \A j \in 0 .. z.length : Pos(s, j) \in Nodes
<1>1. /\ z.length \in Nat /\ z.level \in 1 .. MaxLevel /\ MaxLevel \in Nat
      /\ s \in [1 .. z.length -> Objs] /\ Objs \subseteq Int /\ Scores \subseteq Int
      /\ Header \notin Objs /\ NULL \notin Objs
  <2>1. \A n \in Nat : 1 .. n \subseteq Int
    OBVIOUS
  <2>2. Objs \subseteq Int
    BY SkipListAssumption, FS_CardinalityType, <2>1
  <2>3. QED
    BY <2>2, SkipListAssumption DEF SkipLists, Members
<1>2. ASSUME NEW j \in 1 .. z.length, NEW k \in 1 .. z.length, s[j] = s[k]
      PROVE  j = k
  <2>1. \A a, b \in 1 .. z.length : a < b => s[a] # s[b]
    <3>1. SUFFICES ASSUME NEW a \in 1 .. z.length, NEW b \in 1 .. z.length, a < b, s[a] = s[b]
                   PROVE  FALSE
      OBVIOUS
    <3>2. Before(z, s[a], s[a]) /\ z.score[s[a]] \in Int /\ s[a] \in Int
      BY <1>1, <3>1 DEF Members
    <3>3. QED
      BY <3>2 DEF Before
  <2>2. QED
    BY <1>1, <1>2, <2>1
<1>3. \A j \in 1 .. z.length : s[j] # Header /\ s[j] # NULL /\ s[j] \in Int /\ s[j] \in Nodes
  BY <1>1 DEF Nodes
<1>4. \A j, k \in 0 .. z.length : Pos(s, j) = Pos(s, k) => j = k
  BY <1>1, <1>2, <1>3 DEF Pos
<1>5. \A j \in 0 .. z.length : Pos(s, j) \in Nodes
  BY <1>1, <1>3 DEF Pos, Nodes
<1>6. QED
  BY <1>1, <1>2, <1>3, <1>4, <1>5

----------------------------------------------------------------------------
\* The walk on one level.

\* The walk that starts at place k with the sum t can get to place m.
Free(z, s, i, ahead, k, t, m) ==
  /\ m \in k .. z.length /\ On(z, s, i, m)
  /\ \A j \in k + 1 .. m : On(z, s, i, j) => ahead[s[j]][t + j - k]

\* It ends there.
IsFar(z, s, i, ahead, k, t, m) ==
  Free(z, s, i, ahead, k, t, m) /\ \A n \in Int : Free(z, s, i, ahead, k, t, n) => n <= m

LEMMA FarExists ==
  ASSUME NEW z, NEW s, Laid(z, s), NEW i \in Levels, NEW ahead, NEW k \in 0 .. z.length,
         On(z, s, i, k), NEW t \in Int
  PROVE  \E m \in k .. z.length : IsFar(z, s, i, ahead, k, t, m)
<1> DEFINE S == {m \in k .. z.length : Free(z, s, i, ahead, k, t, m)}
<1>1. z.length \in Nat /\ S \in SUBSET (0 .. z.length)
  BY DEF Laid, SkipLists
<1>2. k \in S
  BY <1>1 DEF Free
<1>3. PICK m \in S : \A n \in S : n <= m
  <2> HIDE DEF S
  <2>1. QED
    BY <1>1, <1>2, Greatest
<1>4. \A n \in Int : Free(z, s, i, ahead, k, t, n) => n \in S
  BY DEF Free
<1>5. QED
  BY <1>3, <1>4 DEF IsFar

LEMMA FarOnce ==
  ASSUME NEW z, NEW s, NEW i, NEW ahead, NEW k \in Int, NEW t, NEW m, NEW n, z.length \in Nat,
         IsFar(z, s, i, ahead, k, t, m), IsFar(z, s, i, ahead, k, t, n)
  PROVE  m = n
<1>1. m \in Int /\ n \in Int
  BY DEF IsFar, Free
<1>2. m <= n /\ n <= m
  BY <1>1 DEF IsFar
<1>3. QED
  BY <1>1, <1>2

\* One step of the walk.
LEMMA FarStep ==
  ASSUME NEW z, NEW s, Laid(z, s), NEW i \in Levels, i < z.level, NEW ahead,
         NEW k \in 0 .. z.length, On(z, s, i, k), NEW t \in Int,
         NEW f, f = z.forward[i][Pos(s, k)], NEW reach, reach = t + z.span[i][Pos(s, k)]
  PROVE  /\ f # NULL /\ ahead[f][reach] =>
              \E m \in k + 1 .. z.length :
                /\ On(z, s, i, m) /\ f = s[m] /\ reach = t + m - k
                /\ \A n \in Int : IsFar(z, s, i, ahead, m, reach, n) => IsFar(z, s, i, ahead, k, t, n)
         /\ ~(f # NULL /\ ahead[f][reach]) => IsFar(z, s, i, ahead, k, t, k)
<1> DEFINE len == z.length
<1>1. /\ len \in Nat /\ s \in [1 .. len -> Objs] /\ k \in 0 .. len
      /\ \A j \in 1 .. len : s[j] # NULL
  BY MembersOnce DEF Laid
<1>2. PICK m \in Nat : NextOn(z, s, i, k, m) /\ LeadsTo(z, s, i, k, m)
  BY DEF Laid, LevelLaid
<1>3. /\ m \in k + 1 .. len + 1 /\ (m <= len => On(z, s, i, m))
      /\ \A j \in k + 1 .. m - 1 : ~On(z, s, i, j)
  BY <1>2 DEF NextOn
<1>4. /\ f = IF m = len + 1 THEN NULL ELSE s[m]
      /\ reach = t + ((IF m = len + 1 THEN len ELSE m) - k)
  BY <1>2 DEF LeadsTo
<1>5. Free(z, s, i, ahead, k, t, k)
  BY <1>1 DEF Free
<1>6. CASE f # NULL /\ ahead[f][reach]
  <2>1. m \in k + 1 .. len /\ On(z, s, i, m) /\ f = s[m] /\ reach = t + m - k
    BY <1>1, <1>3, <1>4, <1>6
  <2>2. ASSUME NEW n \in Int
        PROVE  Free(z, s, i, ahead, m, reach, n) => Free(z, s, i, ahead, k, t, n)
    <3>1. SUFFICES ASSUME Free(z, s, i, ahead, m, reach, n)
                   PROVE  Free(z, s, i, ahead, k, t, n)
      OBVIOUS
    <3>2. n \in m .. len /\ On(z, s, i, n)
      BY <3>1 DEF Free
    <3>3. ASSUME NEW j \in k + 1 .. n, On(z, s, i, j)
          PROVE  ahead[s[j]][t + j - k]
      <4>1. CASE j < m
        BY <1>3, <2>1, <3>3, <4>1
      <4>2. CASE j = m
        BY <1>6, <2>1, <4>2
      <4>3. CASE j > m
        <5>1. j \in m + 1 .. n /\ reach + j - m = t + j - k
          <6>1. k \in Int /\ t \in Int /\ m \in Int /\ n \in Int /\ j \in Int /\ j <= n /\ reach = t + m - k
            BY <1>1, <2>1, <3>2
          <6>2. QED
            BY <4>3, <6>1
        <5>2. ahead[s[j]][reach + j - m]
          BY <3>1, <3>3, <5>1 DEF Free
        <5>3. QED
          BY <5>1, <5>2
      <4>4. QED
        BY <2>1, <4>1, <4>2, <4>3
    <3>4. n \in k .. len
      BY <1>1, <2>1, <3>2
    <3>5. QED
      BY <3>2, <3>3, <3>4 DEF Free
  <2>3. ASSUME NEW n \in Int, Free(z, s, i, ahead, k, t, n), n > k
        PROVE  Free(z, s, i, ahead, m, reach, n)
    <3>1. n \in k .. len /\ On(z, s, i, n)
      BY <2>3 DEF Free
    <3>2. n \in m .. len
      BY <1>3, <2>1, <2>3, <3>1
    <3>3. ASSUME NEW j \in m + 1 .. n, On(z, s, i, j)
          PROVE  ahead[s[j]][reach + j - m]
      <4>1. j \in k + 1 .. n /\ reach + j - m = t + j - k
        <5>1. k \in Int /\ t \in Int /\ m \in Int /\ n \in Int /\ j \in Int /\ m >= k + 1 /\ reach = t + m - k
          BY <1>1, <2>1, <3>2
        <5>2. QED
          BY <5>1
      <4>2. ahead[s[j]][t + j - k]
        BY <2>3, <3>3, <4>1 DEF Free
      <4>3. QED
        BY <4>1, <4>2
    <3>4. QED
      BY <3>1, <3>2, <3>3 DEF Free
  <2>4. ASSUME NEW n \in Int, IsFar(z, s, i, ahead, m, reach, n)
        PROVE  IsFar(z, s, i, ahead, k, t, n)
    <3>1. Free(z, s, i, ahead, k, t, n) /\ n > k
      BY <2>1, <2>2, <2>4 DEF IsFar, Free
    <3>2. \A q \in Int : Free(z, s, i, ahead, k, t, q) => q <= n
      BY <2>1, <2>3, <2>4, <3>1 DEF IsFar
    <3>3. QED
      BY <3>1, <3>2 DEF IsFar
  <2>5. QED
    BY <1>6, <2>1, <2>4
<1>7. CASE ~(f # NULL /\ ahead[f][reach])
  <2>1. ASSUME NEW n \in Int, Free(z, s, i, ahead, k, t, n), n > k
        PROVE  FALSE
    <3>1. n \in k + 1 .. len /\ On(z, s, i, n)
      BY <1>1, <2>1 DEF Free
    <3>2. m <= n
      BY <1>3, <3>1
    <3>3. f = s[m] /\ reach = t + m - k /\ f # NULL /\ m \in k + 1 .. n /\ On(z, s, i, m)
      BY <1>1, <1>3, <1>4, <3>1, <3>2
    <3>4. ahead[s[m]][t + m - k]
      BY <2>1, <3>3 DEF Free
    <3>5. QED
      BY <1>7, <3>3, <3>4
  <2>2. QED
    <3>1. k \in Int
      BY <1>1
    <3>2. \A n \in Int : Free(z, s, i, ahead, k, t, n) => n <= k
      BY <2>1, <3>1
    <3>3. QED
      BY <1>5, <1>7, <3>2 DEF IsFar
<1>8. QED
  BY <1>6, <1>7

IsWalk(w, z, ahead, i) ==
  w = [at \in Nodes \X Int |->
        LET f == z.forward[i][at[1]]
            reach == at[2] + z.span[i][at[1]]
        IN IF f # NULL /\ ahead[f][reach] THEN w[<<f, reach>>] ELSE at]

\* The walk is well defined: on a level that is laid out it comes to an end from
\* every node and with every sum.
LEMMA WalkExists ==
  ASSUME NEW z, NEW s, Laid(z, s), NEW i \in Levels, i < z.level, NEW ahead
  PROVE  \E w : IsWalk(w, z, ahead, i)
<1> DEFINE len == z.length
           linked(x, k) == k \in 0 .. len /\ On(z, s, i, k) /\ Pos(s, k) = x
           place(x) == CHOOSE k \in 0 .. len : linked(x, k)
           far(k, t) == CHOOSE m \in k .. len : IsFar(z, s, i, ahead, k, t, m)
           end(x, t) == <<Pos(s, far(place(x), t)), t + far(place(x), t) - place(x)>>
           w == [at \in Nodes \X Int |->
                  IF \E k \in 0 .. len : linked(at[1], k) THEN end(at[1], at[2]) ELSE at]
<1>1. /\ len \in Nat /\ s \in [1 .. len -> Objs]
      /\ \A j \in 1 .. len : s[j] # NULL /\ s[j] # Header /\ s[j] \in Nodes
      /\ \A j, k \in 0 .. len : Pos(s, j) = Pos(s, k) => j = k
      /\ \A j \in 0 .. len : Pos(s, j) \in Nodes
  BY MembersOnce DEF Laid
<1>2. /\ z.span[i] \in [Nodes -> Nat] /\ z.forward[i] \in [Nodes -> Objs \cup {NULL}]
      /\ z.height \in [Objs -> 0 .. MaxLevel] /\ MaxLevel \in Nat /\ i \in Int
  BY SkipListAssumption DEF Laid, SkipLists, Levels
<1>3. ASSUME NEW k \in 0 .. len, On(z, s, i, k)
      PROVE  linked(Pos(s, k), k) /\ place(Pos(s, k)) = k
  <2>1. linked(Pos(s, k), k)
    BY <1>3
  <2>2. \A j \in 0 .. len : linked(Pos(s, k), j) => j = k
    BY <1>1
  <2>3. QED
    BY <2>1, <2>2
<1>4. ASSUME NEW k \in 0 .. len, On(z, s, i, k), NEW t \in Int
      PROVE  far(k, t) \in k .. len /\ IsFar(z, s, i, ahead, k, t, far(k, t))
  <2>1. \E m \in k .. len : IsFar(z, s, i, ahead, k, t, m)
    BY <1>4, FarExists
  <2>2. QED
    BY <2>1
<1>5. ASSUME NEW k \in 0 .. len, On(z, s, i, k), NEW t \in Int
      PROVE  w[<<Pos(s, k), t>>] = <<Pos(s, far(k, t)), t + far(k, t) - k>>
  <2>1. <<Pos(s, k), t>> \in Nodes \X Int
    BY <1>1
  <2>2. \E j \in 0 .. len : linked(Pos(s, k), j)
    BY <1>3, <1>5
  <2>3. w[<<Pos(s, k), t>>] = end(Pos(s, k), t)
    <3> HIDE DEF end, linked
    <3>1. QED
      BY <2>1, <2>2
  <2>4. place(Pos(s, k)) = k
    BY <1>3, <1>5
  <2>5. QED
    <3> HIDE DEF place, far, w
    <3>1. QED
      BY <2>3, <2>4
<1>6. ASSUME NEW x \in Nodes, NEW t \in Int, ~\E k \in 0 .. len : linked(x, k)
      PROVE  w[<<x, t>>] = <<x, t>>
  <2>1. <<x, t>> \in Nodes \X Int
    OBVIOUS
  <2>2. QED
    <3> HIDE DEF end, linked
    <3>1. QED
      BY <1>6, <2>1
<1> HIDE DEF w
<1>7. ASSUME NEW x \in Nodes, NEW t \in Int
      PROVE  w[<<x, t>>] =
               LET f == z.forward[i][x]
                   reach == t + z.span[i][x]
               IN IF f # NULL /\ ahead[f][reach] THEN w[<<f, reach>>] ELSE <<x, t>>
  <2> DEFINE f == z.forward[i][x]
             reach == t + z.span[i][x]
  <2>1. CASE \E k \in 0 .. len : linked(x, k)
    <3>1. PICK k \in 0 .. len : On(z, s, i, k) /\ Pos(s, k) = x
      BY <2>1
    <3>2. w[<<x, t>>] = <<Pos(s, far(k, t)), t + far(k, t) - k>>
      BY <1>5, <3>1
    <3>3. far(k, t) \in k .. len /\ IsFar(z, s, i, ahead, k, t, far(k, t))
      BY <1>4, <3>1
    <3>4. f = z.forward[i][Pos(s, k)] /\ reach = t + z.span[i][Pos(s, k)] /\ reach \in Int
      BY <1>2, <3>1
    <3> HIDE DEF f, reach, far
    <3>5. CASE f # NULL /\ ahead[f][reach]
      <4>1. PICK m \in k + 1 .. len :
              /\ On(z, s, i, m) /\ f = s[m] /\ reach = t + m - k
              /\ \A n \in Int : IsFar(z, s, i, ahead, m, reach, n) => IsFar(z, s, i, ahead, k, t, n)
        BY <3>1, <3>4, <3>5, FarStep
      <4>2. m \in 0 .. len /\ Pos(s, m) = f
        BY <1>1, <4>1 DEF Pos
      <4>3. far(m, reach) \in m .. len /\ IsFar(z, s, i, ahead, m, reach, far(m, reach))
        BY <1>4, <3>4, <4>1, <4>2
      <4>4. far(m, reach) = far(k, t)
        BY <1>1, <3>3, <4>1, <4>3, FarOnce
      <4>5. w[<<f, reach>>] = <<Pos(s, far(m, reach)), reach + far(m, reach) - m>>
        BY <1>5, <3>4, <4>1, <4>2
      <4>6. reach + far(m, reach) - m = t + far(k, t) - k
        BY <1>1, <3>3, <4>1, <4>4
      <4>7. QED
        BY <3>2, <3>5, <4>4, <4>5, <4>6 DEF f, reach
    <3>6. CASE ~(f # NULL /\ ahead[f][reach])
      <4>1. IsFar(z, s, i, ahead, k, t, k)
        BY <3>1, <3>4, <3>6, FarStep
      <4>2. far(k, t) = k
        BY <1>1, <3>3, <4>1, FarOnce
      <4>3. w[<<x, t>>] = <<x, t>>
        BY <3>1, <3>2, <4>2
      <4>4. QED
        BY <3>6, <4>3 DEF f, reach
    <3>7. QED
      BY <3>5, <3>6
  <2>2. CASE ~\E k \in 0 .. len : linked(x, k)
    <3>1. w[<<x, t>>] = <<x, t>>
      BY <1>6, <2>2
    <3>2. f = NULL
      <4>1. x # Header
        BY <1>1, <2>2 DEF On, Pos
      <4>2. x \in Objs /\ z.height[x] <= i
        <5>1. x \in Objs
          BY <4>1 DEF Nodes
        <5>2. CASE \E j \in 1 .. len : s[j] = x
          <6>1. PICK j \in 1 .. len : s[j] = x
            BY <5>2
          <6>2. j \in 0 .. len /\ j # 0 /\ Pos(s, j) = x
            BY <1>1, <6>1 DEF Pos
          <6>3. ~On(z, s, i, j)
            BY <2>2, <6>2
          <6>4. QED
            BY <1>2, <5>1, <6>1, <6>2, <6>3 DEF On
        <5>3. CASE \A j \in 1 .. len : s[j] # x
          <6>1. z.height[x] = 0
            BY <5>1, <5>3 DEF Laid, Members
          <6>2. QED
            BY <5>1, <6>1 DEF Levels
        <5>4. QED
          BY <5>2, <5>3
      <4>3. QED
        BY <4>2 DEF Laid, LevelLaid
    <3>3. QED
      BY <3>1, <3>2
  <2>3. QED
    BY <2>1, <2>2
<1>8. IsWalk(w, z, ahead, i)
  <2>1. w = [at \in Nodes \X Int |-> w[at]]
    BY DEF w
  <2>2. ASSUME NEW at \in Nodes \X Int
        PROVE  w[at] = LET f == z.forward[i][at[1]]
                           reach == at[2] + z.span[i][at[1]]
                       IN IF f # NULL /\ ahead[f][reach] THEN w[<<f, reach>>] ELSE at
    <3>1. at[1] \in Nodes /\ at[2] \in Int /\ at = <<at[1], at[2]>>
      OBVIOUS
    <3>2. QED
      BY <1>7, <3>1
  <2>3. QED
    BY <2>1, <2>2 DEF IsWalk
<1>9. QED
  BY <1>8

\* "ahead" holds of the first p places of the list and of no other.
Splits(z, s, ahead, p) == \A j \in 1 .. z.length : ahead[s[j]][j] <=> j <= p

\* The last place up to p that level i links.
LastOn(z, s, i, p, q) ==
  q \in 0 .. p /\ On(z, s, i, q) /\ \A j \in q + 1 .. p : ~On(z, s, i, j)

\* From a place before p the walk on level i goes to the last one up to p.
LEMMA WalkEnds ==
  ASSUME NEW z, NEW s, Laid(z, s), NEW i \in Levels, i < z.level, NEW ahead,
         NEW p \in 0 .. z.length, Splits(z, s, ahead, p), NEW w, IsWalk(w, z, ahead, i)
  PROVE  \A k \in 0 .. p : On(z, s, i, k) =>
           \E q \in 0 .. p : LastOn(z, s, i, p, q) /\ w[<<Pos(s, k), k>>] = <<Pos(s, q), q>>
<1> DEFINE len == z.length
           good(k) == \E q \in 0 .. p : LastOn(z, s, i, p, q) /\ w[<<Pos(s, k), k>>] = <<Pos(s, q), q>>
           Wrong == {p - k : k \in {j \in 0 .. p : On(z, s, i, j) /\ ~good(j)}}
<1>1. /\ len \in Nat /\ p \in 0 .. len /\ p \in Nat
      /\ \A j \in 1 .. len : s[j] # NULL
      /\ \A j \in 0 .. len : Pos(s, j) \in Nodes
  BY MembersOnce DEF Laid
<1>2. SUFFICES ASSUME Wrong # {}
               PROVE  FALSE
  OBVIOUS
<1>3. PICK k \in 0 .. p : On(z, s, i, k) /\ ~good(k) /\ \A j \in 0 .. p : On(z, s, i, j) /\ j > k => good(j)
  <2>1. Wrong \in SUBSET Nat
    <3>1. \A k \in 0 .. p : p - k \in Nat
      OBVIOUS
    <3>2. QED
      BY <3>1
  <2>2. PICK m \in Wrong : \A n \in Wrong : m <= n
    <3> HIDE DEF Wrong
    <3>1. QED
      BY <1>2, <2>1, LeastNatural
  <2>3. PICK k \in 0 .. p : On(z, s, i, k) /\ ~good(k) /\ m = p - k
    OBVIOUS
  <2>4. ASSUME NEW j \in 0 .. p, On(z, s, i, j), j > k
        PROVE  good(j)
    <3>1. p - j \in Wrong => m <= p - j
      BY <2>2
    <3>2. ~(m <= p - j)
      BY <2>3, <2>4
    <3>3. QED
      BY <2>4, <3>1, <3>2
  <2>5. QED
    BY <2>3, <2>4
<1>4. PICK m \in Nat : NextOn(z, s, i, k, m) /\ LeadsTo(z, s, i, k, m)
  BY <1>1, <1>3 DEF Laid, LevelLaid
<1>5. /\ m \in k + 1 .. len + 1 /\ (m <= len => On(z, s, i, m))
      /\ \A j \in k + 1 .. m - 1 : ~On(z, s, i, j)
  BY <1>4 DEF NextOn
<1> DEFINE f == z.forward[i][Pos(s, k)]
           reach == k + z.span[i][Pos(s, k)]
<1>6. w[<<Pos(s, k), k>>] = IF f # NULL /\ ahead[f][reach] THEN w[<<f, reach>>] ELSE <<Pos(s, k), k>>
  <2>1. <<Pos(s, k), k>> \in Nodes \X Int
    BY <1>1, <1>3
  <2>2. QED
    BY <2>1 DEF IsWalk
<1>7. /\ f = IF m = len + 1 THEN NULL ELSE s[m]
      /\ reach = IF m = len + 1 THEN len ELSE m
  <2>1. z.span[i][Pos(s, k)] = (IF m = len + 1 THEN len ELSE m) - k
    BY <1>4 DEF LeadsTo
  <2>2. QED
    BY <1>1, <1>4, <1>5, <2>1 DEF LeadsTo
<1> HIDE DEF f, reach
<1>8. CASE m <= p
  <2>1. m \in 1 .. len /\ m \in 0 .. p /\ m # len + 1 /\ m > k
    BY <1>1, <1>5, <1>8
  <2>2. f = s[m] /\ f # NULL /\ reach = m /\ Pos(s, m) = s[m]
    BY <1>1, <1>7, <2>1 DEF Pos
  <2>3. ahead[s[m]][m]
    BY <1>8, <2>1 DEF Splits
  <2>4. w[<<Pos(s, k), k>>] = w[<<Pos(s, m), m>>]
    BY <1>6, <2>2, <2>3
  <2>5. good(m)
    BY <1>1, <1>3, <1>5, <2>1
  <2>6. QED
    BY <1>3, <2>4, <2>5
<1>9. CASE m > p
  <2>1. ~(f # NULL /\ ahead[f][reach])
    <3>1. CASE m = len + 1
      BY <1>7, <3>1
    <3>2. CASE m # len + 1
      <4>1. m \in 1 .. len /\ f = s[m] /\ reach = m
        BY <1>1, <1>5, <1>7, <3>2
      <4>2. ~ahead[s[m]][m]
        BY <1>1, <1>9, <4>1 DEF Splits
      <4>3. QED
        BY <4>1, <4>2
    <3>3. QED
      BY <3>1, <3>2
  <2>2. w[<<Pos(s, k), k>>] = <<Pos(s, k), k>>
    BY <1>6, <2>1
  <2>3. LastOn(z, s, i, p, k)
    BY <1>1, <1>3, <1>5, <1>9 DEF LastOn
  <2>4. QED
    BY <1>3, <2>2, <2>3
<1>10. QED
  BY <1>1, <1>5, <1>8, <1>9

LEMMA LastOnOnce ==
  ASSUME NEW z, NEW s, NEW i, NEW p \in Nat, NEW q, NEW r, LastOn(z, s, i, p, q), LastOn(z, s, i, p, r)
  PROVE  q = r
<1>1. q \in 0 .. p /\ r \in 0 .. p
  BY DEF LastOn
<1>2. ~(q < r) /\ ~(r < q)
  BY <1>1 DEF LastOn
<1>3. QED
  BY <1>1, <1>2

LEMMA LastOnExists ==
  ASSUME NEW z, NEW s, NEW i, NEW p \in Nat
  PROVE  \E q \in 0 .. p : LastOn(z, s, i, p, q)
<1> DEFINE S == {q \in 0 .. p : On(z, s, i, q)}
<1>1. S \in SUBSET (0 .. p) /\ 0 \in S
  BY DEF On
<1>2. PICK q \in S : \A j \in S : j <= q
  <2> HIDE DEF S
  <2>1. QED
    BY <1>1, Greatest
<1>3. QED
  BY <1>2 DEF LastOn

----------------------------------------------------------------------------
\* The walk from the top level down.

\* On every level the path ends at the last node up to place p.
PathTo(z, s, path, p) ==
  \A i \in Levels : \E q \in 0 .. p : LastOn(z, s, i, p, q) /\ path[i] = <<Pos(s, q), q>>

IsPath(path, z, ahead) ==
  path = [i \in Levels |->
           IF i >= z.level THEN <<Header, 0>>
           ELSE Walk(z, ahead, i)[IF i = z.level - 1 THEN <<Header, 0>> ELSE path[i + 1]]]

LEMMA WalkIsWalk ==
  ASSUME NEW z, NEW s, Laid(z, s), NEW i \in Levels, i < z.level, NEW ahead
  PROVE  IsWalk(Walk(z, ahead, i), z, ahead, i)
<1>1. Walk(z, ahead, i) = CHOOSE w : IsWalk(w, z, ahead, i)
  BY DEF Walk, IsWalk
<1>2. \E w : IsWalk(w, z, ahead, i)
  BY WalkExists
<1>3. QED
  BY <1>1, <1>2

\* One level of the path, from where the level above was left.
LEMMA LevelStep ==
  ASSUME NEW z, NEW s, Laid(z, s), NEW i \in Levels, i < z.level, NEW ahead,
         NEW p \in 0 .. z.length, Splits(z, s, ahead, p),
         NEW above, IF i = z.level - 1 THEN above = <<Header, 0>>
                    ELSE \E q \in 0 .. p : LastOn(z, s, i + 1, p, q) /\ above = <<Pos(s, q), q>>
  PROVE  \E q \in 0 .. p : LastOn(z, s, i, p, q) /\ Walk(z, ahead, i)[above] = <<Pos(s, q), q>>
<1>1. z.length \in Nat /\ i \in Int /\ z.height \in [Objs -> 0 .. MaxLevel] /\ MaxLevel \in Nat
      /\ s \in [1 .. z.length -> Objs]
  BY SkipListAssumption DEF Laid, SkipLists, Levels, Members
<1>2. PICK k \in 0 .. p : On(z, s, i, k) /\ above = <<Pos(s, k), k>>
  <2>1. CASE i = z.level - 1
    BY <1>1, <2>1 DEF On, Pos
  <2>2. CASE i # z.level - 1
    <3>1. PICK q \in 0 .. p : LastOn(z, s, i + 1, p, q) /\ above = <<Pos(s, q), q>>
      BY <2>2
    <3>2. On(z, s, i + 1, q)
      BY <3>1 DEF LastOn
    <3>3. On(z, s, i, q)
      <4>1. CASE q = 0
        BY <4>1 DEF On
      <4>2. CASE q # 0
        <5>1. z.height[s[q]] \in 0 .. MaxLevel /\ z.height[s[q]] > i + 1
          BY <1>1, <3>2, <4>2 DEF On
        <5>2. QED
          BY <1>1, <5>1 DEF On
      <4>3. QED
        BY <4>1, <4>2
    <3>4. QED
      BY <3>1, <3>3
  <2>3. QED
    BY <2>1, <2>2
<1>3. QED
  BY <1>2, WalkIsWalk, WalkEnds

LEMMA HighLevel ==
  ASSUME NEW z, NEW s, Laid(z, s), NEW i \in Levels, i >= z.level, NEW k \in 1 .. z.length
  PROVE  ~On(z, s, i, k)
<1>1. z.height[s[k]] \in 1 .. z.level /\ z.level \in Int /\ i \in Int /\ k # 0
  BY SkipListAssumption DEF Laid, Members, SkipLists, Levels
<1>2. QED
  BY <1>1 DEF On

\* Path finds, on every level, the last node up to the place that "ahead" splits
\* the list at.
LEMMA PathLeads ==
  ASSUME NEW z, NEW s, Laid(z, s), NEW ahead, NEW p \in 0 .. z.length, Splits(z, s, ahead, p)
  PROVE  PathTo(z, s, Path(z, ahead), p)
<1> DEFINE last(i) == CHOOSE q \in 0 .. p : LastOn(z, s, i, p, q)
           v == [i \in Levels |-> <<Pos(s, last(i)), last(i)>>]
           path == CHOOSE f : IsPath(f, z, ahead)
           step(f, i) == IF i >= z.level THEN <<Header, 0>>
                         ELSE Walk(z, ahead, i)[IF i = z.level - 1 THEN <<Header, 0>> ELSE f[i + 1]]
           fits(f, i) == \E q \in 0 .. p : LastOn(z, s, i, p, q) /\ f[i] = <<Pos(s, q), q>>
           Wrong == {i \in Levels : ~fits(path, i)}
<1>1. z.length \in Nat /\ p \in Nat /\ p \in 0 .. z.length /\ z.level \in 1 .. MaxLevel /\ MaxLevel \in Nat
  BY SkipListAssumption DEF Laid, SkipLists
<1>2. ASSUME NEW i \in Levels
      PROVE  last(i) \in 0 .. p /\ LastOn(z, s, i, p, last(i))
  BY <1>1, LastOnExists
<1>3. Path(z, ahead) = path
  BY DEF Path, IsPath
<1> HIDE DEF last, path
\* Above the top level.
<1>4. ASSUME NEW i \in Levels, i >= z.level
      PROVE  LastOn(z, s, i, p, 0) /\ <<Header, 0>> = <<Pos(s, 0), 0>>
  <2>1. \A j \in 0 + 1 .. p : ~On(z, s, i, j)
    BY <1>1, <1>4, HighLevel
  <2>2. QED
    BY <1>1, <2>1 DEF LastOn, On, Pos
\* The step from one level to the next below it, for any function.
<1>5. ASSUME NEW f, NEW i \in Levels, i < z.level, i # z.level - 1 => fits(f, i + 1)
      PROVE  \E q \in 0 .. p : LastOn(z, s, i, p, q) /\ step(f, i) = <<Pos(s, q), q>>
  <2> DEFINE above == IF i = z.level - 1 THEN <<Header, 0>> ELSE f[i + 1]
  <2>1. IF i = z.level - 1 THEN above = <<Header, 0>>
        ELSE \E q \in 0 .. p : LastOn(z, s, i + 1, p, q) /\ above = <<Pos(s, q), q>>
    BY <1>5
  <2>2. step(f, i) = Walk(z, ahead, i)[above]
    BY <1>1, <1>5 DEF Levels
  <2> HIDE DEF above, step
  <2>3. \E q \in 0 .. p : LastOn(z, s, i, p, q) /\ Walk(z, ahead, i)[above] = <<Pos(s, q), q>>
    BY <1>5, <2>1, LevelStep
  <2>4. QED
    BY <2>2, <2>3
<1>6. ASSUME NEW i \in Levels
      PROVE  fits(v, i)
  <2>1. v[i] = <<Pos(s, last(i)), last(i)>>
    OBVIOUS
  <2>2. QED
    BY <1>2, <2>1
<1>7. \A i \in Levels : i < z.level /\ i # z.level - 1 => i + 1 \in Levels /\ i + 1 < z.level
  BY <1>1 DEF Levels
<1>8. IsPath(v, z, ahead)
  <2>1. ASSUME NEW i \in Levels
        PROVE  v[i] = step(v, i)
    <3>1. PICK q \in 0 .. p : LastOn(z, s, i, p, q) /\ v[i] = <<Pos(s, q), q>>
      BY <1>6
    <3>2. \E r \in 0 .. p : LastOn(z, s, i, p, r) /\ step(v, i) = <<Pos(s, r), r>>
      <4>0. i >= z.level \/ i < z.level
        BY <1>1 DEF Levels
      <4>1. CASE i >= z.level
        <5>1. step(v, i) = <<Header, 0>> /\ 0 \in 0 .. p
          BY <1>1, <4>1
        <5> HIDE DEF step
        <5>2. QED
          BY <1>4, <4>1, <5>1
      <4>2. CASE i < z.level
        <5>1. i # z.level - 1 => fits(v, i + 1)
          BY <1>6, <1>7, <4>2
        <5> HIDE DEF v
        <5>2. QED
          BY <1>5, <4>2, <5>1
      <4>3. QED
        BY <4>0, <4>1, <4>2
    <3>3. QED
      <4> HIDE DEF v, step
      <4>1. QED
        BY <1>1, <3>1, <3>2, LastOnOnce
  <2>2. v = [i \in Levels |-> v[i]]
    OBVIOUS
  <2> HIDE DEF v
  <2>3. QED
    BY <2>1, <2>2 DEF IsPath
<1> HIDE DEF v
<1>9. IsPath(path, z, ahead)
  BY <1>8 DEF path
<1>10. \A i \in Levels : path[i] = step(path, i)
  BY <1>9 DEF IsPath
<1>11. Wrong = {}
  <2>1. SUFFICES ASSUME Wrong # {}
                 PROVE  FALSE
    OBVIOUS
  <2>2. PICK i \in Wrong : \A j \in Wrong : j <= i
    <3>1. Wrong \in SUBSET (0 .. MaxLevel - 1) /\ MaxLevel - 1 \in Nat
      BY SkipListAssumption DEF Levels
    <3> HIDE DEF Wrong
    <3>2. QED
      BY <2>1, <3>1, Greatest
  <2>3. i \in Levels /\ ~fits(path, i)
    OBVIOUS
  <2>4. CASE i >= z.level
    BY <1>1, <1>4, <1>10, <2>3, <2>4
  <2>5. CASE i < z.level
    <3>1. i # z.level - 1 => fits(path, i + 1)
      <4>1. SUFFICES ASSUME i # z.level - 1
                     PROVE  fits(path, i + 1)
        OBVIOUS
      <4>2. i + 1 \in Levels /\ ~(i + 1 <= i)
        BY <1>7, <2>3, <2>5, <4>1 DEF Levels
      <4>3. i + 1 \notin Wrong
        BY <2>2, <4>2
      <4>4. QED
        BY <4>2, <4>3
    <3>2. \E q \in 0 .. p : LastOn(z, s, i, p, q) /\ step(path, i) = <<Pos(s, q), q>>
      BY <1>5, <2>3, <2>5, <3>1
    <3>3. QED
      <4> HIDE DEF step
      <4>1. QED
        BY <1>10, <2>3, <3>2
  <2>6. QED
    BY <1>1, <2>3, <2>4, <2>5 DEF Levels
<1>12. QED
  BY <1>3, <1>11 DEF PathTo

----------------------------------------------------------------------------
\* Linking and unlinking.

\* The sequence s with o at place i, and without what is at place i.
Placed(s, len, o, i) ==
  [j \in 1 .. len + 1 |-> IF j < i THEN s[j] ELSE IF j = i THEN o ELSE s[j - 1]]

Dropped(s, len, i) == [j \in 1 .. len - 1 |-> IF j < i THEN s[j] ELSE s[j + 1]]

\* The distance from place p to place m, or to the end.
Gap(len, p, m) == (IF m = len + 1 THEN len ELSE m) - p

----------------------------------------------------------------------------
\* Insertion.

LEMMA LeadsFurther ==
  ASSUME NEW e, NEW t, NEW s, NEW i, NEW k \in Int, NEW m \in Nat, NEW len \in Nat, e.length = len + 1,
         m <= len => t[m + 1] = s[m], m <= len + 1,
         e.forward[i][Pos(t, k)] = IF m = len + 1 THEN NULL ELSE s[m],
         i < e.level => e.span[i][Pos(t, k)] = Gap(len, k - 1, m)
  PROVE  LeadsTo(e, t, i, k, m + 1)
<1>1. (m + 1 = e.length + 1 <=> m = len + 1) /\ (m # len + 1 => m <= len)
  OBVIOUS
<1>2. e.forward[i][Pos(t, k)] = IF m + 1 = e.length + 1 THEN NULL ELSE t[m + 1]
  BY <1>1
<1>3. Gap(len, k - 1, m) = (IF m + 1 = e.length + 1 THEN e.length ELSE m + 1) - k
  BY <1>1 DEF Gap
<1>4. QED
  BY <1>2, <1>3 DEF LeadsTo

\* What an insertion behind place p does to level i, on which the path ends at
\* place q and place m is the next.
LinkedLevel(z, s, e, o, h, p, i, q, m) ==
  /\ \A x \in Nodes :
       e.forward[i][x] =
         IF h <= i THEN z.forward[i][x]
         ELSE IF x = o THEN IF m = z.length + 1 THEN NULL ELSE s[m]
         ELSE IF x = Pos(s, q) THEN o ELSE z.forward[i][x]
  /\ \A x \in Nodes :
       e.span[i][x] =
         IF i < h THEN IF x = o THEN Gap(z.length, p, m)
                       ELSE IF x = Pos(s, q) THEN p - q + 1 ELSE z.span[i][x]
         ELSE IF i < z.level /\ x = Pos(s, q) THEN z.span[i][x] + 1 ELSE z.span[i][x]

LEMMA LinkLevel ==
  ASSUME NEW z, NEW s, Laid(z, s), NEW o \in Objs, \A j \in 1 .. z.length : s[j] # o,
         NEW h \in 1 .. MaxLevel, NEW p \in 0 .. z.length, NEW i \in Levels,
         NEW q, LastOn(z, s, i, p, q), NEW m \in Nat, NextOn(z, s, i, q, m), LeadsTo(z, s, i, q, m),
         NEW e, e.length = z.length + 1, e.level = IF h > z.level THEN h ELSE z.level,
         \A x \in Objs : e.height[x] = IF x = o THEN h ELSE z.height[x],
         LinkedLevel(z, s, e, o, h, p, i, q, m)
  PROVE  LevelLaid(e, Placed(s, z.length, o, p + 1), i)
<1> DEFINE len == z.length
           t == Placed(s, len, o, p + 1)
           u == Pos(s, q)
<1>1. /\ len \in Nat /\ p \in 0 .. len /\ i \in Int /\ h \in Int /\ i >= 0 /\ z.level \in Int
      /\ s \in [1 .. len -> Objs] /\ o # Header /\ o # NULL
      /\ z.height \in [Objs -> 0 .. MaxLevel] /\ MaxLevel \in Nat
      /\ \A j \in 1 .. len : s[j] # Header /\ s[j] # o
      /\ \A j, k \in 0 .. len : Pos(s, j) = Pos(s, k) => j = k
      /\ \A j \in 0 .. len : Pos(s, j) \in Nodes /\ Pos(s, j) # o
  <2>1. i \in Int /\ i >= 0 /\ h \in Int /\ o # Header /\ o # NULL /\ z.height \in [Objs -> 0 .. MaxLevel]
    BY SkipListAssumption DEF Levels, Laid, SkipLists
  <2>2. /\ len \in Nat /\ s \in [1 .. len -> Objs] /\ z.level \in Int /\ MaxLevel \in Nat
        /\ \A j \in 1 .. len : s[j] # Header
        /\ \A j, k \in 0 .. len : Pos(s, j) = Pos(s, k) => j = k
        /\ \A j \in 0 .. len : Pos(s, j) \in Nodes
    BY MembersOnce DEF Laid
  <2>3. \A j \in 0 .. len : Pos(s, j) # o
    BY <2>1, <2>2 DEF Pos
  <2>4. QED
    BY <2>1, <2>2, <2>3
<1>2. /\ q \in 0 .. p /\ On(z, s, i, q) /\ \A j \in q + 1 .. p : ~On(z, s, i, j)
      /\ m \in q + 1 .. len + 1 /\ (m <= len => On(z, s, i, m))
      /\ \A j \in q + 1 .. m - 1 : ~On(z, s, i, j)
      /\ z.forward[i][u] = (IF m = len + 1 THEN NULL ELSE s[m])
      /\ (i < z.level => z.span[i][u] = Gap(len, q, m))
  BY DEF LastOn, NextOn, LeadsTo, Gap
<1>3. m > p
  BY <1>1, <1>2
\* Places and levels of the new sequence.
<1>4. /\ \A k \in 0 .. p : Pos(t, k) = Pos(s, k) /\ (On(e, t, i, k) <=> On(z, s, i, k))
      /\ Pos(t, p + 1) = o /\ t[p + 1] = o /\ (On(e, t, i, p + 1) <=> h > i)
      /\ \A k \in p + 1 .. len :
           Pos(t, k + 1) = Pos(s, k) /\ t[k + 1] = s[k] /\ (On(e, t, i, k + 1) <=> On(z, s, i, k))
      /\ \A k \in 1 .. p : t[k] = s[k]
  <2>1. \A j \in 1 .. len + 1 : t[j] = IF j < p + 1 THEN s[j] ELSE IF j = p + 1 THEN o ELSE s[j - 1]
    BY DEF Placed
  <2> HIDE DEF t
  <2>2. \A k \in 1 .. p : t[k] = s[k] /\ s[k] \in Objs /\ s[k] # o
    <3>1. \A k \in 1 .. p : k \in 1 .. len /\ k \in 1 .. len + 1 /\ k < p + 1
      BY <1>1
    <3>2. \A k \in 1 .. len : s[k] \in Objs /\ s[k] # o
      BY <1>1
    <3>3. QED
      BY <2>1, <3>1, <3>2
  <2>3. t[p + 1] = o
    BY <1>1, <2>1
  <2>4. \A k \in p + 1 .. len : t[k + 1] = s[k] /\ s[k] \in Objs /\ s[k] # o
    <3>1. ASSUME NEW k \in p + 1 .. len
          PROVE  t[k + 1] = s[k] /\ s[k] \in Objs /\ s[k] # o
      <4>1. k + 1 \in 1 .. len + 1 /\ ~(k + 1 < p + 1) /\ k + 1 # p + 1 /\ (k + 1) - 1 = k /\ k \in 1 .. len
        BY <1>1
      <4>2. s[k] \in Objs /\ s[k] # o
        BY <1>1, <4>1
      <4>3. QED
        BY <2>1, <4>1, <4>2
    <3>2. QED
      BY <3>1
  <2>5. \A k \in p + 1 .. len : k + 1 # 0 /\ k # 0
    BY <1>1
  <2>6. QED
    <3>1. \A k \in 0 .. p : Pos(t, k) = Pos(s, k) /\ (On(e, t, i, k) <=> On(z, s, i, k))
      <4>1. \A k \in 0 .. p : k = 0 \/ k \in 1 .. p
        BY <1>1
      <4>2. QED
        BY <2>2, <4>1 DEF Pos, On
    <3>2. Pos(t, p + 1) = o /\ t[p + 1] = o /\ (On(e, t, i, p + 1) <=> h > i)
      BY <1>1, <2>3 DEF Pos, On
    <3>3. \A k \in p + 1 .. len :
            Pos(t, k + 1) = Pos(s, k) /\ t[k + 1] = s[k] /\ (On(e, t, i, k + 1) <=> On(z, s, i, k))
      BY <2>4, <2>5 DEF Pos, On
    <3>4. QED
      BY <2>2, <3>1, <3>2, <3>3
<1> HIDE DEF t, u
<1>5. /\ \A x \in Nodes : e.forward[i][x] =
           IF h <= i THEN z.forward[i][x]
           ELSE IF x = o THEN IF m = len + 1 THEN NULL ELSE s[m]
           ELSE IF x = u THEN o ELSE z.forward[i][x]
      /\ \A x \in Nodes : e.span[i][x] =
           IF i < h THEN IF x = o THEN Gap(len, p, m) ELSE IF x = u THEN p - q + 1 ELSE z.span[i][x]
           ELSE IF i < z.level /\ x = u THEN z.span[i][x] + 1 ELSE z.span[i][x]
  BY DEF LinkedLevel, u
<1>6. i < e.level <=> i < h \/ i < z.level
  BY <1>1
<1>7. u = Pos(s, q) /\ u \in Nodes /\ u # o
  BY <1>1, <1>2 DEF u
<1>8. o \in Nodes
  BY DEF Nodes
\* Behind a place in front of the new one.
<1>9. ASSUME NEW k \in 0 .. p, On(z, s, i, k), k # q
      PROVE  \E n \in Nat : NextOn(e, t, i, k, n) /\ LeadsTo(e, t, i, k, n)
  <2>1. k < q
    BY <1>1, <1>2, <1>9
  <2>2. PICK n \in Nat : NextOn(z, s, i, k, n) /\ LeadsTo(z, s, i, k, n)
    BY <1>1, <1>9 DEF Laid, LevelLaid
  <2>3. /\ n \in k + 1 .. len + 1 /\ (n <= len => On(z, s, i, n))
        /\ \A j \in k + 1 .. n - 1 : ~On(z, s, i, j)
    BY <2>2 DEF NextOn
  <2>4. n <= q /\ n \in 1 .. p /\ n <= len /\ n # len + 1
    BY <1>1, <1>2, <2>1, <2>3
  <2>5. z.forward[i][Pos(s, k)] = s[n] /\ (i < z.level => z.span[i][Pos(s, k)] = n - k)
    BY <2>2, <2>4 DEF LeadsTo
  <2>6. i < z.level
    <3>1. n \in 1 .. len /\ On(z, s, i, n)
      BY <1>1, <2>3, <2>4
    <3>2. QED
      BY <1>1, <3>1, HighLevel
  <2>7. Pos(s, k) \in Nodes /\ Pos(s, k) # o /\ Pos(s, k) # u
    BY <1>1, <1>2, <1>7, <1>9
  <2>8. e.forward[i][Pos(s, k)] = s[n] /\ e.span[i][Pos(s, k)] = n - k
    BY <1>5, <2>5, <2>6, <2>7
  <2>9. NextOn(e, t, i, k, n)
    BY <1>1, <1>4, <2>3, <2>4 DEF NextOn
  <2>10. LeadsTo(e, t, i, k, n)
    <3>1. n # e.length + 1 /\ t[n] = s[n] /\ Pos(t, k) = Pos(s, k)
      BY <1>1, <1>4, <2>4
    <3>2. QED
      BY <2>8, <3>1 DEF LeadsTo
  <2>11. QED
    BY <2>9, <2>10
\* Behind the place where the path ends.
<1>10. \E n \in Nat : NextOn(e, t, i, q, n) /\ LeadsTo(e, t, i, q, n)
  <2>0. Pos(t, q) = u
    BY <1>2, <1>4, <1>7
  <2>1. CASE i < h
    <3>1. e.forward[i][u] = o /\ e.span[i][u] = p - q + 1
      BY <1>1, <1>5, <1>7, <2>1
    <3>2. NextOn(e, t, i, q, p + 1)
      BY <1>1, <1>2, <1>4, <2>1 DEF NextOn
    <3>3. LeadsTo(e, t, i, q, p + 1)
      BY <1>1, <1>2, <1>4, <2>0, <3>1 DEF LeadsTo
    <3>4. QED
      BY <1>1, <3>2, <3>3
  <2>2. CASE ~(i < h)
    <3>1. e.forward[i][u] = z.forward[i][u]
      BY <1>1, <1>5, <1>7, <2>2
    <3>2. i < e.level => e.span[i][u] = Gap(len, q, m) + 1
      BY <1>1, <1>2, <1>5, <1>6, <1>7, <2>2
    <3>3. NextOn(e, t, i, q, m + 1)
      <4>1. m + 1 \in q + 1 .. e.length + 1
        BY <1>1, <1>2
      <4>2. m + 1 <= e.length => On(e, t, i, m + 1)
        BY <1>1, <1>2, <1>3, <1>4
      <4>3. ASSUME NEW j \in q + 1 .. (m + 1) - 1
            PROVE  ~On(e, t, i, j)
        <5>1. CASE j <= p
          BY <1>1, <1>2, <1>4, <5>1
        <5>2. CASE j = p + 1
          BY <1>1, <1>4, <2>2, <5>2
        <5>3. CASE j > p + 1
          <6>1. j - 1 \in p + 1 .. len /\ j - 1 \in q + 1 .. m - 1 /\ (j - 1) + 1 = j
            BY <1>1, <1>2, <5>3
          <6>2. ~On(e, t, i, (j - 1) + 1)
            BY <1>2, <1>4, <6>1
          <6>3. QED
            BY <6>1, <6>2
        <5>4. QED
          BY <1>1, <1>2, <5>1, <5>2, <5>3
      <4>4. QED
        BY <4>1, <4>2, <4>3 DEF NextOn
    <3>4. LeadsTo(e, t, i, q, m + 1)
      <4>1. m <= len => t[m + 1] = s[m]
        BY <1>1, <1>2, <1>3, <1>4
      <4>2. i < e.level => e.span[i][Pos(t, q)] = Gap(len, q - 1, m)
        BY <1>1, <1>2, <2>0, <3>2 DEF Gap
      <4>3. e.forward[i][Pos(t, q)] = (IF m = len + 1 THEN NULL ELSE s[m]) /\ m <= len + 1 /\ q \in Int
        BY <1>1, <1>2, <2>0, <3>1
      <4>4. QED
        BY <1>1, <4>1, <4>2, <4>3, LeadsFurther
    <3>5. QED
      BY <3>3, <3>4
  <2>3. QED
    BY <2>1, <2>2
\* Behind the new place.
<1>11. ASSUME h > i
       PROVE  \E n \in Nat : NextOn(e, t, i, p + 1, n) /\ LeadsTo(e, t, i, p + 1, n)
  <2>1. /\ e.forward[i][o] = (IF m = len + 1 THEN NULL ELSE s[m])
        /\ e.span[i][o] = Gap(len, p, m)
    BY <1>1, <1>5, <1>8, <1>11
  <2>2. NextOn(e, t, i, p + 1, m + 1)
    <3>1. m + 1 \in p + 1 + 1 .. e.length + 1
      BY <1>1, <1>2, <1>3
    <3>2. m + 1 <= e.length => On(e, t, i, m + 1)
      BY <1>1, <1>2, <1>3, <1>4
    <3>3. ASSUME NEW j \in p + 1 + 1 .. (m + 1) - 1
          PROVE  ~On(e, t, i, j)
      <4>1. j - 1 \in p + 1 .. len /\ j - 1 \in q + 1 .. m - 1 /\ (j - 1) + 1 = j
        BY <1>1, <1>2
      <4>2. ~On(e, t, i, (j - 1) + 1)
        BY <1>2, <1>4, <4>1
      <4>3. QED
        BY <4>1, <4>2
    <3>4. QED
      BY <3>1, <3>2, <3>3 DEF NextOn
  <2>3. LeadsTo(e, t, i, p + 1, m + 1)
    <3>1. m <= len => t[m + 1] = s[m]
      BY <1>1, <1>2, <1>3, <1>4
    <3>2. m <= len + 1 /\ p + 1 \in Int /\ (p + 1) - 1 = p
      BY <1>1, <1>2
    <3>3. /\ e.forward[i][Pos(t, p + 1)] = (IF m = len + 1 THEN NULL ELSE s[m])
          /\ e.span[i][Pos(t, p + 1)] = Gap(len, (p + 1) - 1, m)
      BY <1>4, <2>1, <3>2
    <3>4. QED
      BY <1>1, <3>1, <3>2, <3>3, LeadsFurther
  <2>4. QED
    BY <2>2, <2>3
\* Behind a place after the new one.
<1>12. ASSUME NEW k \in p + 1 .. len, On(z, s, i, k)
       PROVE  \E n \in Nat : NextOn(e, t, i, k + 1, n) /\ LeadsTo(e, t, i, k + 1, n)
  <2>0. k \in 0 .. len /\ k \in 1 .. len /\ k # q
    BY <1>1, <1>2
  <2>1. PICK n \in Nat : NextOn(z, s, i, k, n) /\ LeadsTo(z, s, i, k, n)
    BY <1>12, <2>0 DEF Laid, LevelLaid
  <2>2. /\ n \in k + 1 .. len + 1 /\ (n <= len => On(z, s, i, n))
        /\ \A j \in k + 1 .. n - 1 : ~On(z, s, i, j)
    BY <2>1 DEF NextOn
  <2>3. i < z.level
    BY <1>1, <1>12, <2>0, HighLevel
  <2>4. /\ z.forward[i][Pos(s, k)] = (IF n = len + 1 THEN NULL ELSE s[n])
        /\ z.span[i][Pos(s, k)] = Gap(len, k, n)
    BY <2>1, <2>3 DEF LeadsTo, Gap
  <2>5. Pos(s, k) \in Nodes /\ Pos(s, k) # o /\ Pos(s, k) # u
    BY <1>1, <1>2, <1>7, <2>0
  <2>6. /\ e.forward[i][Pos(s, k)] = (IF n = len + 1 THEN NULL ELSE s[n])
        /\ e.span[i][Pos(s, k)] = Gap(len, k, n)
    BY <1>5, <2>4, <2>5
  <2>7. NextOn(e, t, i, k + 1, n + 1)
    <3>1. n + 1 \in k + 1 + 1 .. e.length + 1
      BY <1>1, <2>2
    <3>2. n + 1 <= e.length => On(e, t, i, n + 1)
      BY <1>1, <1>4, <2>2
    <3>3. ASSUME NEW j \in k + 1 + 1 .. (n + 1) - 1
          PROVE  ~On(e, t, i, j)
      <4>1. j - 1 \in p + 1 .. len /\ j - 1 \in k + 1 .. n - 1 /\ (j - 1) + 1 = j
        BY <1>1, <2>2
      <4>2. ~On(e, t, i, (j - 1) + 1)
        BY <1>4, <2>2, <4>1
      <4>3. QED
        BY <4>1, <4>2
    <3>4. QED
      BY <3>1, <3>2, <3>3 DEF NextOn
  <2>8. LeadsTo(e, t, i, k + 1, n + 1)
    <3>1. n <= len => t[n + 1] = s[n]
      BY <1>1, <1>4, <2>2
    <3>2. n <= len + 1 /\ k + 1 \in Int /\ (k + 1) - 1 = k /\ Pos(t, k + 1) = Pos(s, k)
      BY <1>1, <1>4, <2>2
    <3>3. QED
      BY <1>1, <2>6, <3>1, <3>2, LeadsFurther
  <2>9. QED
    BY <2>7, <2>8
<1>13. ASSUME NEW k \in 0 .. e.length, On(e, t, i, k)
       PROVE  \E n \in Nat : NextOn(e, t, i, k, n) /\ LeadsTo(e, t, i, k, n)
  <2>1. CASE k \in 0 .. p
    BY <1>4, <1>9, <1>10, <1>13, <2>1
  <2>2. CASE k = p + 1
    BY <1>4, <1>11, <1>13, <2>2
  <2>3. CASE k > p + 1
    <3>1. k - 1 \in p + 1 .. len /\ (k - 1) + 1 = k
      BY <1>1, <2>3
    <3>2. On(z, s, i, k - 1)
      BY <1>4, <1>13, <3>1
    <3>3. \E n \in Nat : NextOn(e, t, i, (k - 1) + 1, n) /\ LeadsTo(e, t, i, (k - 1) + 1, n)
      BY <1>12, <3>1, <3>2
    <3>4. QED
      BY <3>1, <3>3
  <2>4. QED
    BY <1>1, <2>1, <2>2, <2>3
<1>14. ASSUME NEW x \in Objs, e.height[x] <= i
       PROVE  e.forward[i][x] = NULL
  <2>1. x \in Nodes
    BY DEF Nodes
  <2>2. CASE x = o
    <3>1. z.height[o] = 0
      BY DEF Laid, Members
    <3>2. z.forward[i][o] = NULL /\ h <= i
      BY <1>1, <1>14, <2>2, <3>1 DEF Laid, LevelLaid
    <3>3. QED
      BY <1>5, <2>1, <2>2, <3>2
  <2>3. CASE x # o
    <3>1. z.height[x] <= i /\ z.forward[i][x] = NULL
      BY <1>14, <2>3 DEF Laid, LevelLaid
    <3>2. x # u
      <4>1. x # Header
        BY SkipListAssumption
      <4>2. q # 0 => z.height[s[q]] \in Int /\ z.height[s[q]] > i
        BY <1>1, <1>2 DEF On
      <4>3. QED
        BY <1>1, <1>7, <3>1, <4>1, <4>2 DEF Pos
    <3>3. QED
      BY <1>5, <2>1, <2>3, <3>1, <3>2
  <2>4. QED
    BY <2>2, <2>3
<1>15. QED
  BY <1>13, <1>14 DEF LevelLaid, t

\* On the lowest level every place is linked.
LEMMA PathBottom ==
  ASSUME NEW z, NEW s, Laid(z, s), NEW p \in 0 .. z.length
  PROVE  /\ 0 \in Levels
         /\ z.forward[0][Pos(s, p)] = IF p = z.length THEN NULL ELSE s[p + 1]
         /\ \A path : PathTo(z, s, path, p) => path[0] = <<Pos(s, p), p>>
<1>1. /\ z.length \in Nat /\ 0 \in Levels /\ \A k \in 0 .. z.length : On(z, s, 0, k)
  <2>1. z.length \in Nat /\ 0 \in Levels /\ z.level \in Nat
    BY SkipListAssumption DEF Laid, SkipLists, Levels
  <2>2. \A k \in 0 .. z.length : On(z, s, 0, k)
    BY <2>1 DEF On, Laid, Members
  <2>3. QED
    BY <2>1, <2>2
<1>2. PICK m \in Nat : NextOn(z, s, 0, p, m) /\ LeadsTo(z, s, 0, p, m)
  BY <1>1 DEF Laid, LevelLaid
<1>3. m = p + 1
  BY <1>1, <1>2 DEF NextOn
<1>4. z.forward[0][Pos(s, p)] = IF p = z.length THEN NULL ELSE s[p + 1]
  BY <1>1, <1>2, <1>3 DEF LeadsTo
<1>5. ASSUME NEW path, PathTo(z, s, path, p)
      PROVE  path[0] = <<Pos(s, p), p>>
  <2>1. PICK q \in 0 .. p : LastOn(z, s, 0, p, q) /\ path[0] = <<Pos(s, q), q>>
    BY <1>1, <1>5 DEF PathTo
  <2>2. q = p
    BY <1>1, <2>1 DEF LastOn
  <2>3. QED
    BY <2>1, <2>2
<1>6. QED
  BY <1>1, <1>4, <1>5

\* The new list has the new member, at its place in the order.
LEMMA LinkMembers ==
  ASSUME NEW z, NEW s, Laid(z, s), NEW o \in Objs, \A j \in 1 .. z.length : s[j] # o,
         NEW h \in 1 .. MaxLevel, NEW c \in Scores, NEW p \in 0 .. z.length,
         \A j \in 1 .. z.length : Precedes(z, s[j], c, o) <=> j <= p,
         NEW e, e.length = z.length + 1, e.level = IF h > z.level THEN h ELSE z.level,
         e.height = [z.height EXCEPT ![o] = h], e.score = [z.score EXCEPT ![o] = c]
  PROVE  Members(e, Placed(s, z.length, o, p + 1))
<1> DEFINE len == z.length
           t == Placed(s, len, o, p + 1)
<1>1. /\ len \in Nat /\ p \in 0 .. len /\ s \in [1 .. len -> Objs] /\ h \in Int /\ z.level \in Int /\ h >= 1
      /\ z.height \in [Objs -> 0 .. MaxLevel] /\ z.score \in [Objs -> Scores \cup {NULL}]
      /\ \A j \in 1 .. len : s[j] \in Int /\ z.score[s[j]] \in Scores /\ z.height[s[j]] \in 1 .. z.level
      /\ \A x \in Objs : (\A j \in 1 .. len : s[j] # x) => z.score[x] = NULL /\ z.height[x] = 0
      /\ (z.level = 1 \/ \E j \in 1 .. len : z.height[s[j]] = z.level)
      /\ \A j, k \in 1 .. len : j < k => Before(z, s[j], s[k])
      /\ c \in Int /\ o \in Int /\ Scores \subseteq Int
  <2>1. s \in [1 .. len -> Objs] /\ len \in Nat /\ z.level \in 1 .. MaxLevel /\ \A j \in 1 .. len : s[j] \in Int
    BY MembersOnce DEF Laid
  <2>2. o \in Int
    BY SkipListAssumption, FS_CardinalityType
  <2>3. QED
    BY <2>1, <2>2, SkipListAssumption DEF Laid, SkipLists, Members
<1>2. t \in [1 .. len + 1 -> Objs]
  <2>1. \A j \in 1 .. len + 1 : (j < p + 1 => j \in 1 .. len) /\ (j > p + 1 => j - 1 \in 1 .. len)
    BY <1>1
  <2>2. QED
    BY <1>1, <2>1 DEF Placed
<1>3. \A j \in 1 .. len + 1 : \/ j <= p /\ j \in 1 .. len /\ t[j] = s[j]
                              \/ j = p + 1 /\ t[j] = o
                              \/ j > p + 1 /\ j - 1 \in 1 .. len /\ j - 1 > p /\ t[j] = s[j - 1]
  BY <1>1 DEF Placed
<1>4. \A j \in 1 .. len : \E k \in 1 .. len + 1 : t[k] = s[j]
  <2>1. ASSUME NEW j \in 1 .. len
        PROVE  \E k \in 1 .. len + 1 : t[k] = s[j]
    <3>1. CASE j <= p
      <4>1. j \in 1 .. len + 1 /\ t[j] = s[j]
        BY <1>1, <3>1 DEF Placed
      <4>2. QED
        BY <4>1
    <3>2. CASE j > p
      <4>1. j + 1 \in 1 .. len + 1 /\ t[j + 1] = s[j]
        BY <1>1, <3>2 DEF Placed
      <4>2. QED
        BY <4>1
    <3>3. QED
      BY <1>1, <3>1, <3>2
  <2>2. QED
    BY <2>1
<1>5. p + 1 \in 1 .. len + 1 /\ t[p + 1] = o
  BY <1>1 DEF Placed
<1> HIDE DEF t
<1>6. /\ e.height[o] = h /\ e.score[o] = c
      /\ \A x \in Objs : x # o => e.height[x] = z.height[x] /\ e.score[x] = z.score[x]
  BY <1>1
<1>7. \A j \in 1 .. len : s[j] \in Objs /\ e.height[s[j]] = z.height[s[j]] /\ e.score[s[j]] = z.score[s[j]]
  BY <1>1, <1>6
<1>8. ASSUME NEW j \in 1 .. len
      PROVE  (j <= p => Before(e, s[j], o)) /\ (j > p => Before(e, o, s[j]))
  <2>1. s[j] # o /\ z.score[s[j]] \in Int /\ s[j] \in Int
    BY <1>1
  <2>2. Precedes(z, s[j], c, o) <=> j <= p
    OBVIOUS
  <2>3. QED
    BY <1>1, <1>6, <1>7, <2>1, <2>2 DEF Precedes, Before
<1>9. \A j, k \in 1 .. len : j < k => Before(e, s[j], s[k])
  BY <1>1, <1>7 DEF Before
<1>10. ASSUME NEW j \in 1 .. len + 1, NEW k \in 1 .. len + 1, j < k
       PROVE  Before(e, t[j], t[k])
  <2>1. CASE j <= p
    <3>1. j \in 1 .. len /\ t[j] = s[j]
      BY <1>1, <1>3, <2>1
    <3>2. CASE k <= p
      <4>1. k \in 1 .. len /\ t[k] = s[k]
        BY <1>1, <1>3, <3>2
      <4>2. QED
        BY <1>9, <1>10, <3>1, <4>1
    <3>3. CASE k = p + 1
      BY <1>5, <1>8, <2>1, <3>1, <3>3
    <3>4. CASE k > p + 1
      <4>1. k - 1 \in 1 .. len /\ t[k] = s[k - 1] /\ j < k - 1
        BY <1>1, <1>3, <2>1, <3>4
      <4>2. QED
        BY <1>9, <3>1, <4>1
    <3>5. QED
      BY <1>1, <3>2, <3>3, <3>4
  <2>2. CASE j = p + 1
    <3>1. k - 1 \in 1 .. len /\ t[k] = s[k - 1] /\ k - 1 > p
      BY <1>1, <1>3, <1>10, <2>2
    <3>2. QED
      BY <1>5, <1>8, <2>2, <3>1
  <2>3. CASE j > p + 1
    <3>1. j - 1 \in 1 .. len /\ t[j] = s[j - 1] /\ k - 1 \in 1 .. len /\ t[k] = s[k - 1] /\ j - 1 < k - 1
      BY <1>1, <1>3, <1>10, <2>3
    <3>2. QED
      BY <1>9, <3>1
  <2>4. QED
    BY <1>1, <2>1, <2>2, <2>3
<1>11. ASSUME NEW j \in 1 .. len + 1
       PROVE  e.score[t[j]] \in Scores /\ e.height[t[j]] \in 1 .. e.level
  <2>1. t[j] = o \/ \E k \in 1 .. len : t[j] = s[k]
    BY <1>3
  <2>2. h \in 1 .. e.level
    BY <1>1
  <2>3. \A k \in 1 .. len : z.height[s[k]] \in 1 .. e.level
    <3>1. \A k \in 1 .. len : z.height[s[k]] \in 1 .. z.level
      BY <1>1
    <3>2. z.level \in Int /\ e.level \in Int /\ z.level <= e.level
      BY <1>1
    <3>3. \A y \in 1 .. z.level : y \in 1 .. e.level
      BY <3>2
    <3>4. QED
      BY <3>1, <3>3
  <2>4. QED
    BY <1>1, <1>6, <1>7, <2>1, <2>2, <2>3
<1>12. ASSUME NEW x \in Objs, \A j \in 1 .. len + 1 : t[j] # x
       PROVE  e.score[x] = NULL /\ e.height[x] = 0
  <2>1. x # o /\ \A j \in 1 .. len : s[j] # x
    BY <1>4, <1>5, <1>12
  <2>2. QED
    BY <1>1, <1>6, <2>1
<1>13. e.level = 1 \/ \E j \in 1 .. len + 1 : e.height[t[j]] = e.level
  <2>1. CASE h > z.level
    BY <1>1, <1>5, <1>6, <2>1
  <2>2. CASE ~(h > z.level)
    <3>1. e.level = z.level
      BY <2>2
    <3>2. z.level = 1 \/ \E j \in 1 .. len : z.height[s[j]] = z.level
      BY <1>1
    <3>3. QED
      BY <1>4, <1>7, <3>1, <3>2
  <2>3. QED
    BY <2>1, <2>2
<1>14. e.length = len + 1
  OBVIOUS
<1> HIDE DEF len
<1>15. QED
  BY <1>2, <1>10, <1>11, <1>12, <1>13, <1>14 DEF Members, t, len

\* An insertion at the place that the path leads to gives a well laid out list.
LEMMA LinkLaid ==
  ASSUME NEW z, NEW s, Laid(z, s), NEW o \in Objs, \A j \in 1 .. z.length : s[j] # o,
         NEW h \in 1 .. MaxLevel, NEW c \in Scores, NEW p \in 0 .. z.length,
         \A j \in 1 .. z.length : Precedes(z, s[j], c, o) <=> j <= p,
         NEW path, PathTo(z, s, path, p)
  PROVE  Laid(Link(z, path, c, o, h), Placed(s, z.length, o, p + 1))
<1> DEFINE len == z.length
           t == Placed(s, len, o, p + 1)
           e == Link(z, path, c, o, h)
           update(i) == path[i][1]
           gap(i) == path[0][2] - path[i][2]
           next(i) == IF i < z.level THEN z.forward[i][update(i)] ELSE NULL
           span(i) == IF i < h THEN [z.span[i] EXCEPT ![update(i)] = gap(i) + 1,
                                                     ![o] = OldSpan(z, path, i) - gap(i)]
                      ELSE IF i < z.level THEN [z.span[i] EXCEPT ![update(i)] = @ + 1]
                      ELSE z.span[i]
           forward(i) == IF i < h THEN [z.forward[i] EXCEPT ![update(i)] = o, ![o] = next(i)] ELSE z.forward[i]
           back(x) == IF x = o THEN IF update(0) = Header THEN NULL ELSE update(0)
                      ELSE IF x = next(0) THEN o ELSE z.backward[x]
<1>1. /\ e.level = Max({h, z.level})
      /\ e.length = len + 1
      /\ e.tail = IF next(0) = NULL THEN o ELSE z.tail
      /\ e.score = [z.score EXCEPT ![o] = c]
      /\ e.height = [z.height EXCEPT ![o] = h]
      /\ e.forward = [i \in Levels |-> forward(i)]
      /\ e.span = [i \in Levels |-> span(i)]
      /\ e.backward = [x \in Objs |-> back(x)]
  BY DEF Link
<1>2. e = [level |-> e.level, length |-> e.length, tail |-> e.tail, score |-> e.score,
           height |-> e.height, forward |-> e.forward, span |-> e.span, backward |-> e.backward]
  BY DEF Link
<1>3. /\ len \in Nat /\ p \in 0 .. len /\ s \in [1 .. len -> Objs] /\ h \in Int /\ h >= 1
      /\ z.level \in 1 .. MaxLevel /\ MaxLevel \in Nat
      /\ z.tail \in Objs \cup {NULL} /\ z.backward \in [Objs -> Objs \cup {NULL}]
      /\ z.score \in [Objs -> Scores \cup {NULL}] /\ z.height \in [Objs -> 0 .. MaxLevel]
      /\ z.forward \in [Levels -> [Nodes -> Objs \cup {NULL}]] /\ z.span \in [Levels -> [Nodes -> Nat]]
      /\ \A j \in 1 .. len : s[j] # Header /\ s[j] # NULL /\ s[j] \in Nodes /\ s[j] \in Objs
      /\ \A j, k \in 1 .. len : s[j] = s[k] => j = k
      /\ \A j \in 0 .. len : Pos(s, j) \in Nodes
      /\ o \in Nodes /\ Levels \subseteq Int
  <2>1. o \in Nodes /\ Levels \subseteq Int
    BY SkipListAssumption DEF Nodes, Levels
  <2>2. s \in [1 .. len -> Objs] => \A j \in 1 .. len : s[j] \in Objs
    OBVIOUS
  <2>3. /\ len \in Nat /\ s \in [1 .. len -> Objs] /\ MaxLevel \in Nat
        /\ \A j \in 1 .. len : s[j] # Header /\ s[j] # NULL /\ s[j] \in Nodes
        /\ \A j, k \in 1 .. len : s[j] = s[k] => j = k
        /\ \A j \in 0 .. len : Pos(s, j) \in Nodes
    BY MembersOnce DEF Laid
  <2>4. /\ z.level \in 1 .. MaxLevel
        /\ z.tail \in Objs \cup {NULL} /\ z.backward \in [Objs -> Objs \cup {NULL}]
        /\ z.score \in [Objs -> Scores \cup {NULL}] /\ z.height \in [Objs -> 0 .. MaxLevel]
        /\ z.forward \in [Levels -> [Nodes -> Objs \cup {NULL}]] /\ z.span \in [Levels -> [Nodes -> Nat]]
    BY DEF Laid, SkipLists
  <2>5. h \in Int /\ h >= 1
    BY <2>3
  <2>6. QED
    BY <2>1, <2>2, <2>3, <2>4, <2>5
<1>0. len \in Nat /\ p \in 0 .. len /\ h \in Int /\ h >= 1 /\ z.level \in Int /\ z.level <= MaxLevel /\ MaxLevel \in Nat
  BY <1>3
<1>4. path[0] = <<Pos(s, p), p>> /\ 0 \in Levels /\ z.forward[0][Pos(s, p)] = IF p = len THEN NULL ELSE s[p + 1]
  BY PathBottom
<1>5. update(0) = Pos(s, p) /\ next(0) = (IF p = len THEN NULL ELSE s[p + 1]) /\ path[0][2] = p
  BY <1>3, <1>4
<1>6. e.level = (IF h > z.level THEN h ELSE z.level) /\ e.level \in 1 .. MaxLevel
  <2>1. \A x \in {h, z.level} : (\A y \in {h, z.level} : x >= y) <=> x = (IF h > z.level THEN h ELSE z.level)
    BY <1>3
  <2>2. Max({h, z.level}) = IF h > z.level THEN h ELSE z.level
    BY <2>1 DEF Max
  <2>3. QED
    <3>1. z.level \in Int /\ 1 <= z.level /\ z.level <= MaxLevel /\ h \in 1 .. MaxLevel
      BY <1>3
    <3> HIDE DEF e, t, forward, span, back, update, gap, next
    <3>2. QED
      BY <1>1, <2>2, <3>1
\* Every level is laid out.
<1>7. ASSUME NEW i \in Levels
      PROVE  /\ LevelLaid(e, t, i)
             /\ forward(i) \in [Nodes -> Objs \cup {NULL}] /\ span(i) \in [Nodes -> Nat]
  <2>1. PICK q \in 0 .. p : LastOn(z, s, i, p, q) /\ path[i] = <<Pos(s, q), q>>
    BY DEF PathTo
  <2>2. PICK m \in Nat : NextOn(z, s, i, q, m) /\ LeadsTo(z, s, i, q, m)
    <3>1. q \in 0 .. len /\ On(z, s, i, q)
      BY <1>3, <2>1 DEF LastOn
    <3>2. QED
      BY <3>1 DEF Laid, LevelLaid
  <2>3. /\ update(i) = Pos(s, q) /\ gap(i) = p - q
        /\ Pos(s, q) \in Nodes /\ Pos(s, q) # o
        /\ z.forward[i] \in [Nodes -> Objs \cup {NULL}] /\ z.span[i] \in [Nodes -> Nat]
        /\ q \in 0 .. len
    <3>1. q \in 0 .. len /\ path[i][1] = Pos(s, q) /\ path[i][2] = q
      BY <1>3, <2>1
    <3>2. Pos(s, q) # o
      BY <1>3, <3>1, SkipListAssumption DEF Pos
    <3>3. QED
      BY <1>3, <1>5, <3>1, <3>2
  <2>4. m \in q + 1 .. len + 1 /\ (\A j \in q + 1 .. m - 1 : ~On(z, s, i, j)) /\ (m <= len => On(z, s, i, m))
    BY <2>2 DEF NextOn
  <2>5. i >= z.level => q = 0 /\ m = len + 1
    <3>1. SUFFICES ASSUME i >= z.level
                   PROVE  q = 0 /\ m = len + 1
      OBVIOUS
    <3>2. \A k \in 1 .. len : ~On(z, s, i, k)
      BY <3>1, HighLevel
    <3>3. On(z, s, i, q)
      BY <2>1 DEF LastOn
    <3>4. QED
      BY <1>0, <2>3, <2>4, <3>2, <3>3
  <2>6. m > p
    <3>1. \A j \in q + 1 .. p : ~On(z, s, i, j)
      BY <2>1 DEF LastOn
    <3>2. QED
      BY <1>0, <2>3, <2>4, <3>1
  <2>7. z.forward[i][Pos(s, q)] = IF m = len + 1 THEN NULL ELSE s[m]
    BY <2>2 DEF LeadsTo
  <2>8. next(i) = (IF m = len + 1 THEN NULL ELSE s[m]) /\ next(i) \in Objs \cup {NULL}
    <3>0. m # len + 1 => m \in 1 .. len
      BY <1>0, <2>3, <2>4
    <3>1. m # len + 1 => s[m] \in Objs
      BY <1>3, <3>0
    <3>2. i < z.level \/ i >= z.level
      BY <1>3
    <3>3. QED
      BY <2>3, <2>5, <2>7, <3>1, <3>2
  <2>9. OldSpan(z, path, i) - gap(i) = Gap(len, p, m) /\ Gap(len, p, m) \in Nat /\ gap(i) + 1 \in Nat
    <3>1. Gap(len, p, m) \in Nat /\ Gap(len, q, m) - (p - q) = Gap(len, p, m) /\ p - q + 1 \in Nat
      <4>1. len \in Nat /\ p \in 0 .. len /\ q \in 0 .. len
        BY <1>3, <2>3
      <4>2. m \in q + 1 .. len + 1 /\ m > p
        BY <2>4, <2>6
      <4>3. QED
        BY <4>1, <4>2 DEF Gap
    <3>2. OldSpan(z, path, i) = Gap(len, q, m)
      <4>1. CASE i < z.level
        BY <2>2, <2>3, <4>1 DEF OldSpan, LeadsTo, Gap
      <4>2. CASE i >= z.level
        BY <1>3, <2>5, <4>2 DEF OldSpan, Gap
      <4>3. QED
        BY <1>3, <4>1, <4>2
    <3>3. QED
      BY <2>3, <3>1, <3>2
  <2>10. /\ forward(i) \in [Nodes -> Objs \cup {NULL}]
         /\ \A x \in Nodes :
              forward(i)[x] =
                IF h <= i THEN z.forward[i][x]
                ELSE IF x = o THEN IF m = len + 1 THEN NULL ELSE s[m]
                ELSE IF x = Pos(s, q) THEN o ELSE z.forward[i][x]
    <3> HIDE DEF next, update
    <3>0. i < h \/ (h <= i /\ ~(i < h))
      BY <1>0 DEF Levels
    <3>1. CASE i < h
      <4>1. ~(h <= i) /\ forward(i) = [z.forward[i] EXCEPT ![Pos(s, q)] = o, ![o] = next(i)]
        BY <1>3, <2>3, <3>1
      <4>2. o \in Nodes
        BY <1>3
      <4> HIDE DEF forward
      <4>3. QED
        BY <2>3, <2>8, <4>1, <4>2
    <3>2. CASE h <= i /\ ~(i < h)
      BY <2>3, <3>2
    <3>3. QED
      BY <3>0, <3>1, <3>2
  <2>11. /\ span(i) \in [Nodes -> Nat]
         /\ \A x \in Nodes :
              span(i)[x] =
                IF i < h THEN IF x = o THEN Gap(len, p, m)
                              ELSE IF x = Pos(s, q) THEN p - q + 1 ELSE z.span[i][x]
                ELSE IF i < z.level /\ x = Pos(s, q) THEN z.span[i][x] + 1 ELSE z.span[i][x]
    <3>0. z.span[i][Pos(s, q)] + 1 \in Nat
      BY <2>3
    <3> HIDE DEF gap, update
    <3>1. CASE i < h
      BY <1>3, <2>3, <2>9, <3>1
    <3>2. CASE ~(i < h) /\ i < z.level
      BY <1>3, <2>3, <3>0, <3>2
    <3>3. CASE ~(i < h) /\ ~(i < z.level)
      BY <2>3, <3>3
    <3>4. QED
      BY <3>1, <3>2, <3>3
  <2>12. LinkedLevel(z, s, e, o, h, p, i, q, m)
    <3>1. e.forward[i] = forward(i) /\ e.span[i] = span(i)
      <4> HIDE DEF e, t, back, update, gap, next
      <4>1. QED
        BY <1>1
    <3> HIDE DEF e, forward, span
    <3>2. QED
      BY <2>10, <2>11, <3>1 DEF LinkedLevel
  <2>13. \A x \in Objs : e.height[x] = IF x = o THEN h ELSE z.height[x]
    <3> HIDE DEF e, t, forward, span, back, update, gap, next
    <3>1. QED
      BY <1>1, <1>3
  <2>14. LevelLaid(e, t, i)
    <3>0. e.length = z.length + 1
      BY <1>1
    <3> HIDE DEF e
    <3>1. QED
      BY <1>6, <2>1, <2>2, <2>12, <2>13, <3>0, LinkLevel
  <2>15. QED
    BY <2>10, <2>11, <2>14
<1>8. Members(e, t)
  <2> HIDE DEF e, forward, span, back, update, gap, next
  <2>1. QED
    BY <1>1, <1>6, LinkMembers
<1>9. e.tail \in Objs \cup {NULL} /\ e.backward \in [Objs -> Objs \cup {NULL}]
  <2>1. update(0) # Header => update(0) \in Objs
    BY <1>3, <1>5 DEF Nodes
  <2>2. \A x \in Objs : back(x) \in Objs \cup {NULL}
    <3> HIDE DEF update, next
    <3>1. QED
      BY <1>3, <2>1
  <2>3. e.tail \in Objs \cup {NULL}
    <3> HIDE DEF e, next
    <3>1. QED
      BY <1>1, <1>3
  <2> HIDE DEF e, back
  <2>4. QED
    BY <1>1, <2>2, <2>3
<1>10. e \in SkipLists
  <2>1. e.forward \in [Levels -> [Nodes -> Objs \cup {NULL}]] /\ e.span \in [Levels -> [Nodes -> Nat]]
    <3> HIDE DEF e, forward, span
    <3>1. QED
      BY <1>1, <1>7
  <2>2. e.length \in Nat /\ e.score \in [Objs -> Scores \cup {NULL}] /\ e.height \in [Objs -> 0 .. MaxLevel]
    <3> HIDE DEF e, t, forward, span, back, update, gap, next
    <3>1. QED
      BY <1>1, <1>3
  <2> HIDE DEF e
  <2>3. QED
    BY <1>2, <1>6, <1>9, <2>1, <2>2 DEF SkipLists
<1>11. Backwards(e, t)
  <2>1. \A j \in 1 .. len + 1 : t[j] = IF j < p + 1 THEN s[j] ELSE IF j = p + 1 THEN o ELSE s[j - 1]
    BY DEF Placed
  <2>2. /\ z.tail = (IF len = 0 THEN NULL ELSE s[len])
        /\ \A j \in 1 .. len : z.backward[s[j]] = IF j = 1 THEN NULL ELSE s[j - 1]
    BY DEF Laid, Backwards
  <2> HIDE DEF t
  <2>3. e.tail = t[len + 1]
    <3>1. CASE p = len
      <4>1. len + 1 = p + 1 /\ len + 1 \in 1 .. len + 1 /\ ~(len + 1 < p + 1)
        BY <1>0, <3>1
      <4>2. t[len + 1] = o /\ next(0) = NULL
        BY <1>5, <2>1, <3>1, <4>1
      <4>3. QED
        BY <1>1, <4>2
    <3>2. CASE p # len
      <4>1. p + 1 \in 1 .. len /\ ~(len + 1 < p + 1) /\ len + 1 # p + 1 /\ (len + 1) - 1 = len /\ len # 0
        BY <1>0, <3>2
      <4>2. t[len + 1] = s[len] /\ len + 1 \in 1 .. len + 1
        BY <1>0, <2>1, <4>1
      <4>4. next(0) # NULL
        BY <1>3, <1>5, <3>2, <4>1
      <4>3. QED
        BY <1>1, <2>2, <4>1, <4>2, <4>4
    <3>3. QED
      BY <3>1, <3>2
  <2>4. \A x \in Objs : e.backward[x] = back(x)
    BY <1>1
  <2>5. update(0) = Header <=> p = 0
    BY <1>3, <1>5 DEF Pos
  <2>6. ASSUME NEW j \in 1 .. len + 1
        PROVE  e.backward[t[j]] = IF j = 1 THEN NULL ELSE t[j - 1]
    <3> HIDE DEF e, update, next
    <3>1. CASE j < p + 1
      <4>1. /\ j \in 1 .. len /\ t[j] = s[j] /\ s[j] \in Objs /\ s[j] # o /\ j <= p
            /\ (j # 1 => j - 1 \in 1 .. len /\ t[j - 1] = s[j - 1])
        <5>1. j \in 1 .. len /\ j <= p /\ (j # 1 => j - 1 \in 1 .. len /\ j - 1 \in 1 .. len + 1 /\ j - 1 < p + 1)
          BY <1>0, <3>1
        <5>2. QED
          BY <1>3, <2>1, <3>1, <5>1
      <4>2. s[j] # next(0)
        BY <1>3, <1>5, <3>1, <4>1
      <4>3. QED
        BY <2>2, <2>4, <4>1, <4>2
    <3>2. CASE j = p + 1
      <4>1. t[j] = o
        BY <2>1, <3>2
      <4>2. p # 0 => t[j - 1] = s[p] /\ Pos(s, p) = s[p] /\ j # 1
        <5>1. p # 0 => p \in 1 .. len + 1 /\ p < p + 1 /\ j # 1 /\ j - 1 = p
          BY <1>0, <3>2
        <5>2. QED
          BY <2>1, <5>1 DEF Pos
      <4>3. p = 0 <=> j = 1
        BY <1>3, <3>2
      <4>4. QED
        BY <1>5, <2>4, <2>5, <4>1, <4>2, <4>3
    <3>3. CASE j = p + 2
      <4>1. t[j] = s[p + 1] /\ p + 1 \in 1 .. len /\ j # 1 /\ t[j - 1] = o /\ p # len
        <5>1. /\ p + 1 \in 1 .. len /\ j # 1 /\ p # len /\ ~(j < p + 1) /\ j # p + 1 /\ j - 1 = p + 1
              /\ p + 1 \in 1 .. len + 1 /\ ~(p + 1 < p + 1)
          BY <1>0, <3>3
        <5>2. QED
          BY <2>1, <5>1
      <4>2. next(0) = s[p + 1] /\ s[p + 1] # o /\ s[p + 1] \in Objs
        BY <1>3, <1>5, <4>1
      <4>3. QED
        BY <2>4, <4>1, <4>2
    <3>4. CASE j > p + 2
      <4>1. /\ j - 1 \in 1 .. len /\ j # 1 /\ j - 1 # 1 /\ t[j] = s[j - 1] /\ t[j - 1] = s[(j - 1) - 1]
            /\ s[j - 1] # o /\ s[j - 1] \in Objs
        <5>1. /\ j - 1 \in 1 .. len /\ j # 1 /\ j - 1 # 1 /\ ~(j < p + 1) /\ j # p + 1
              /\ j - 1 \in 1 .. len + 1 /\ ~(j - 1 < p + 1) /\ j - 1 # p + 1
          BY <1>0, <3>4
        <5>2. QED
          BY <1>3, <2>1, <5>1
      <4>2. s[j - 1] # next(0)
        BY <1>3, <1>5, <3>4, <4>1
      <4>3. QED
        BY <2>2, <2>4, <4>1, <4>2
    <3>5. QED
      BY <1>3, <3>1, <3>2, <3>3, <3>4
  <2>7. e.length = len + 1 /\ len + 1 # 0
    <3> HIDE DEF e, t, forward, span, back, update, gap, next
    <3>1. QED
      BY <1>1, <1>3
  <2> HIDE DEF e
  <2>8. QED
    BY <2>3, <2>6, <2>7 DEF Backwards
<1> HIDE DEF e, t
<1>12. Laid(e, t)
  BY <1>7, <1>8, <1>10, <1>11 DEF Laid
<1>13. QED
  BY <1>12 DEF e, t

----------------------------------------------------------------------------
\* Removal.

LEMMA LeadsNearer ==
  ASSUME NEW e, NEW t, NEW s, NEW i, NEW k \in Int, NEW m \in Nat, NEW len \in Nat, e.length = len - 1,
         m <= len => t[m - 1] = s[m], m <= len + 1,
         e.forward[i][Pos(t, k)] = IF m = len + 1 THEN NULL ELSE s[m],
         i < e.level => e.span[i][Pos(t, k)] = Gap(len, k + 1, m)
  PROVE  LeadsTo(e, t, i, k, m - 1)
<1>1. (m - 1 = e.length + 1 <=> m = len + 1) /\ (m # len + 1 => m <= len)
  OBVIOUS
<1>2. e.forward[i][Pos(t, k)] = IF m - 1 = e.length + 1 THEN NULL ELSE t[m - 1]
  BY <1>1
<1>3. Gap(len, k + 1, m) = (IF m - 1 = e.length + 1 THEN e.length ELSE m - 1) - k
  BY <1>1 DEF Gap
<1>4. QED
  BY <1>2, <1>3 DEF LeadsTo

\* What the removal of the node behind place p does to level i, on which the path
\* ends at place q, place m is the next, and place n is the next behind p + 1.
UnlinkedLevel(z, s, e, p, i, q, m, n) ==
  /\ \A x \in Nodes :
       e.forward[i][x] =
         IF m = p + 1 /\ x = Pos(s, q) THEN IF n = z.length + 1 THEN NULL ELSE s[n]
         ELSE IF m = p + 1 /\ x = s[p + 1] THEN NULL ELSE z.forward[i][x]
  /\ \A x \in Nodes : x # s[p + 1] /\ i < z.level =>
       e.span[i][x] =
         IF x = Pos(s, q)
         THEN IF m = p + 1 THEN Gap(z.length, p + 1, n) + p - q ELSE z.span[i][x] - 1
         ELSE z.span[i][x]

LEMMA UnlinkLevel ==
  ASSUME NEW z, NEW s, Laid(z, s), NEW p \in 0 .. z.length - 1, NEW i \in Levels,
         NEW q, LastOn(z, s, i, p, q), NEW m \in Nat, NextOn(z, s, i, q, m), LeadsTo(z, s, i, q, m),
         NEW n \in Nat, m = p + 1 => NextOn(z, s, i, p + 1, n),
         NEW e, e.length = z.length - 1, e.level \in Int, e.level <= z.level,
         \A x \in Objs : e.height[x] = IF x = s[p + 1] THEN 0 ELSE z.height[x],
         UnlinkedLevel(z, s, e, p, i, q, m, n)
  PROVE  LevelLaid(e, Dropped(s, z.length, p + 1), i)
<1> DEFINE len == z.length
           t == Dropped(s, len, p + 1)
           u == Pos(s, q)
           o == s[p + 1]
<1>1. /\ len \in Nat /\ p \in 0 .. len - 1 /\ i \in Int /\ i >= 0 /\ z.level \in Int
      /\ e.level \in Int /\ e.level <= z.level /\ e.length = len - 1
  <2>1. i \in Int /\ i >= 0
    BY SkipListAssumption DEF Levels
  <2>2. len \in Nat /\ z.level \in Int
    BY MembersOnce DEF Laid
  <2>3. QED
    BY <2>1, <2>2
<1>2. /\ s \in [1 .. len -> Objs] /\ p + 1 \in 1 .. len /\ o \in Objs /\ o \in Nodes
      /\ z.height \in [Objs -> 0 .. MaxLevel] /\ MaxLevel \in Nat
      /\ \A j \in 1 .. len : s[j] # Header /\ s[j] \in Objs
      /\ \A j, k \in 0 .. len : Pos(s, j) = Pos(s, k) => j = k
      /\ \A j \in 0 .. len : Pos(s, j) \in Nodes
      /\ \A j \in 0 .. len : j # p + 1 => Pos(s, j) # o
  <2>1. /\ s \in [1 .. len -> Objs] /\ MaxLevel \in Nat
        /\ \A j \in 1 .. len : s[j] # Header
        /\ \A j, k \in 0 .. len : Pos(s, j) = Pos(s, k) => j = k
        /\ \A j \in 0 .. len : Pos(s, j) \in Nodes
    BY MembersOnce DEF Laid
  <2>2. \A j \in 1 .. len : s[j] \in Objs
    BY <2>1
  <2>3. z.height \in [Objs -> 0 .. MaxLevel]
    BY DEF Laid, SkipLists
  <2>4. p + 1 \in 1 .. len /\ p + 1 \in 0 .. len /\ p + 1 # 0
    BY <1>1
  <2>5. o \in Objs /\ Pos(s, p + 1) = o
    BY <2>2, <2>4 DEF Pos
  <2>6. \A j \in 0 .. len : j # p + 1 => Pos(s, j) # o
    BY <2>1, <2>4, <2>5
  <2>7. o \in Nodes
    BY <2>5 DEF Nodes
  <2>8. QED
    BY <2>1, <2>2, <2>3, <2>4, <2>5, <2>6, <2>7
<1>3. /\ q \in 0 .. p /\ On(z, s, i, q) /\ \A j \in q + 1 .. p : ~On(z, s, i, j)
      /\ m \in q + 1 .. len + 1 /\ (m <= len => On(z, s, i, m))
      /\ \A j \in q + 1 .. m - 1 : ~On(z, s, i, j)
      /\ z.forward[i][u] = (IF m = len + 1 THEN NULL ELSE s[m])
      /\ (i < z.level => z.span[i][u] = Gap(len, q, m))
  BY DEF LastOn, NextOn, LeadsTo, Gap
<1>4. m > p
  BY <1>1, <1>3
<1>5. m = p + 1 => /\ n \in p + 2 .. len + 1 /\ (n <= len => On(z, s, i, n))
                   /\ \A j \in p + 2 .. n - 1 : ~On(z, s, i, j)
  BY <1>1 DEF NextOn
\* Places and levels of the new sequence.
<1>6. /\ \A k \in 0 .. p : Pos(t, k) = Pos(s, k) /\ (On(e, t, i, k) <=> On(z, s, i, k))
      /\ \A k \in p + 2 .. len :
           Pos(t, k - 1) = Pos(s, k) /\ t[k - 1] = s[k] /\ (On(e, t, i, k - 1) <=> On(z, s, i, k))
      /\ \A k \in 1 .. p : t[k] = s[k]
  <2>1. \A j \in 1 .. len - 1 : t[j] = IF j < p + 1 THEN s[j] ELSE s[j + 1]
    BY DEF Dropped
  <2>2. \A j \in 1 .. len : j # p + 1 => s[j] # o /\ s[j] \in Objs /\ e.height[s[j]] = z.height[s[j]]
    <3>1. \A j \in 1 .. len : j \in 0 .. len /\ Pos(s, j) = s[j]
      BY <1>1 DEF Pos
    <3> HIDE DEF o
    <3>2. \A j \in 1 .. len : j # p + 1 => s[j] # o /\ s[j] \in Objs
      BY <1>2, <3>1
    <3>3. QED
      BY <3>2 DEF o
  <2> HIDE DEF t, o
  <2>3. \A k \in 1 .. p : t[k] = s[k] /\ e.height[s[k]] = z.height[s[k]]
    <3>1. ASSUME NEW k \in 1 .. p
          PROVE  k \in 1 .. len - 1 /\ k < p + 1 /\ k \in 1 .. len /\ k # p + 1
      BY <1>1
    <3>2. QED
      BY <2>1, <2>2, <3>1
  <2>4. \A k \in p + 2 .. len : t[k - 1] = s[k] /\ e.height[s[k]] = z.height[s[k]]
    <3>1. ASSUME NEW k \in p + 2 .. len
          PROVE  k - 1 \in 1 .. len - 1 /\ ~(k - 1 < p + 1) /\ (k - 1) + 1 = k /\ k \in 1 .. len /\ k # p + 1
      BY <1>1
    <3>2. QED
      BY <2>1, <2>2, <3>1
  <2>5. \A k \in p + 2 .. len : k # 0 /\ k - 1 # 0
    BY <1>1
  <2>6. \A k \in 0 .. p : k = 0 \/ k \in 1 .. p
    BY <1>1
  <2>7. QED
    BY <2>3, <2>4, <2>5, <2>6 DEF Pos, On
<1> HIDE DEF t, u, o
<1>7. u = Pos(s, q) /\ u \in Nodes /\ u # o
  BY <1>1, <1>2, <1>3 DEF u
<1>8. /\ \A x \in Nodes : x # u /\ x # o => e.forward[i][x] = z.forward[i][x]
      /\ \A x \in Nodes : x # u /\ x # o /\ i < z.level => e.span[i][x] = z.span[i][x]
  BY <1>7 DEF UnlinkedLevel, o
<1>9. /\ e.forward[i][u] = (IF m = p + 1 THEN IF n = len + 1 THEN NULL ELSE s[n] ELSE z.forward[i][u])
      /\ i < z.level => e.span[i][u] = IF m = p + 1 THEN Gap(len, p + 1, n) + p - q ELSE z.span[i][u] - 1
  BY <1>7 DEF UnlinkedLevel, o
<1>10. i < e.level => i < z.level
  BY <1>1
\* Behind a place in front of the removed one.
<1>11. ASSUME NEW k \in 0 .. p, On(z, s, i, k), k # q
       PROVE  \E b \in Nat : NextOn(e, t, i, k, b) /\ LeadsTo(e, t, i, k, b)
  <2>1. k < q /\ k \in 0 .. len
    BY <1>1, <1>3, <1>11
  <2>2. PICK b \in Nat : NextOn(z, s, i, k, b) /\ LeadsTo(z, s, i, k, b)
    BY <1>11, <2>1 DEF Laid, LevelLaid
  <2>3. /\ b \in k + 1 .. len + 1 /\ (b <= len => On(z, s, i, b))
        /\ \A j \in k + 1 .. b - 1 : ~On(z, s, i, j)
    BY <2>2 DEF NextOn
  <2>4. b <= q /\ b \in 1 .. p /\ b <= len /\ b # len + 1 /\ b # len
    BY <1>1, <1>3, <2>1, <2>3
  <2>5. z.forward[i][Pos(s, k)] = s[b] /\ (i < z.level => z.span[i][Pos(s, k)] = b - k)
    BY <2>2, <2>4 DEF LeadsTo
  <2>6. Pos(s, k) \in Nodes /\ Pos(s, k) # o /\ Pos(s, k) # u
    <3>1. k # p + 1 /\ q \in 0 .. len
      BY <1>1, <1>3
    <3>2. QED
      BY <1>2, <1>7, <1>11, <2>1, <3>1
  <2>7. e.forward[i][Pos(s, k)] = s[b] /\ (i < e.level => e.span[i][Pos(s, k)] = b - k)
    BY <1>8, <1>10, <2>5, <2>6
  <2>8. NextOn(e, t, i, k, b)
    BY <1>1, <1>6, <2>3, <2>4 DEF NextOn
  <2>9. b # e.length + 1 /\ t[b] = s[b] /\ Pos(t, k) = Pos(s, k)
    BY <1>1, <1>6, <1>11, <2>4
  <2>10. LeadsTo(e, t, i, k, b)
    BY <2>7, <2>9 DEF LeadsTo
  <2>11. QED
    BY <2>8, <2>10
\* Behind the place where the path ends.
<1>12. \E b \in Nat : NextOn(e, t, i, q, b) /\ LeadsTo(e, t, i, q, b)
  <2>0. Pos(t, q) = u
    BY <1>3, <1>6, <1>7
  <2>1. CASE m = p + 1
    <3>1. n \in p + 2 .. len + 1 /\ (n <= len => On(z, s, i, n)) /\ \A j \in p + 2 .. n - 1 : ~On(z, s, i, j)
      BY <1>5, <2>1
    <3>2. NextOn(e, t, i, q, n - 1)
      <4>1. n - 1 \in q + 1 .. e.length + 1
        BY <1>1, <1>3, <3>1
      <4>2. n - 1 <= e.length => On(e, t, i, n - 1)
        BY <1>1, <1>6, <3>1
      <4>3. ASSUME NEW j \in q + 1 .. (n - 1) - 1
            PROVE  ~On(e, t, i, j)
        <5>1. CASE j <= p
          BY <1>1, <1>3, <1>6, <5>1
        <5>2. CASE j > p
          <6>1. j + 1 \in p + 2 .. len /\ j + 1 \in p + 2 .. n - 1 /\ (j + 1) - 1 = j
            BY <1>1, <1>3, <3>1, <5>2
          <6>2. ~On(e, t, i, (j + 1) - 1)
            BY <1>6, <3>1, <6>1
          <6>3. QED
            BY <6>1, <6>2
        <5>3. QED
          BY <1>1, <1>3, <5>1, <5>2
      <4>4. QED
        BY <4>1, <4>2, <4>3 DEF NextOn
    <3>3. LeadsTo(e, t, i, q, n - 1)
      <4>1. n <= len => t[n - 1] = s[n]
        BY <1>1, <1>6, <3>1
      <4>2. i < e.level => e.span[i][Pos(t, q)] = Gap(len, q + 1, n)
        BY <1>1, <1>3, <1>9, <1>10, <2>0, <2>1, <3>1 DEF Gap
      <4>3. e.forward[i][Pos(t, q)] = (IF n = len + 1 THEN NULL ELSE s[n]) /\ n <= len + 1 /\ q \in Int
        BY <1>1, <1>3, <1>9, <2>0, <2>1, <3>1
      <4>4. QED
        BY <1>1, <4>1, <4>2, <4>3, LeadsNearer
    <3>4. n - 1 \in Nat
      BY <1>1, <3>1
    <3>5. QED
      BY <3>2, <3>3, <3>4
  <2>2. CASE m # p + 1
    <3>1. m \in p + 2 .. len + 1
      BY <1>1, <1>3, <1>4, <2>2
    <3>2. NextOn(e, t, i, q, m - 1)
      <4>1. m - 1 \in q + 1 .. e.length + 1
        BY <1>1, <1>3, <3>1
      <4>2. m - 1 <= e.length => On(e, t, i, m - 1)
        BY <1>1, <1>3, <1>6, <3>1
      <4>3. ASSUME NEW j \in q + 1 .. (m - 1) - 1
            PROVE  ~On(e, t, i, j)
        <5>1. CASE j <= p
          BY <1>1, <1>3, <1>6, <5>1
        <5>2. CASE j > p
          <6>1. j + 1 \in p + 2 .. len /\ j + 1 \in q + 1 .. m - 1 /\ (j + 1) - 1 = j
            BY <1>1, <1>3, <3>1, <5>2
          <6>2. ~On(e, t, i, (j + 1) - 1)
            BY <1>3, <1>6, <6>1
          <6>3. QED
            BY <6>1, <6>2
        <5>3. QED
          BY <1>1, <1>3, <5>1, <5>2
      <4>4. QED
        BY <4>1, <4>2, <4>3 DEF NextOn
    <3>3. LeadsTo(e, t, i, q, m - 1)
      <4>1. m <= len => t[m - 1] = s[m]
        BY <1>1, <1>6, <3>1
      <4>2. i < e.level => e.span[i][Pos(t, q)] = Gap(len, q + 1, m)
        BY <1>1, <1>3, <1>9, <1>10, <2>0, <2>2, <3>1 DEF Gap
      <4>3. e.forward[i][Pos(t, q)] = (IF m = len + 1 THEN NULL ELSE s[m]) /\ m <= len + 1 /\ q \in Int
        BY <1>1, <1>3, <1>9, <2>0, <2>2, <3>1
      <4>4. QED
        BY <1>1, <4>1, <4>2, <4>3, LeadsNearer
    <3>4. m - 1 \in Nat
      BY <1>1, <3>1
    <3>5. QED
      BY <3>2, <3>3, <3>4
  <2>3. QED
    BY <2>1, <2>2
\* Behind a place after the removed one.
<1>13. ASSUME NEW k \in p + 2 .. len, On(z, s, i, k)
       PROVE  \E b \in Nat : NextOn(e, t, i, k - 1, b) /\ LeadsTo(e, t, i, k - 1, b)
  <2>0. k \in 0 .. len /\ k \in 1 .. len /\ k # q /\ k # p + 1 /\ q \in 0 .. len
    BY <1>1, <1>3
  <2>1. PICK b \in Nat : NextOn(z, s, i, k, b) /\ LeadsTo(z, s, i, k, b)
    BY <1>13, <2>0 DEF Laid, LevelLaid
  <2>2. /\ b \in k + 1 .. len + 1 /\ (b <= len => On(z, s, i, b))
        /\ \A j \in k + 1 .. b - 1 : ~On(z, s, i, j)
    BY <2>1 DEF NextOn
  <2>3. /\ z.forward[i][Pos(s, k)] = (IF b = len + 1 THEN NULL ELSE s[b])
        /\ i < z.level => z.span[i][Pos(s, k)] = Gap(len, k, b)
    BY <2>1 DEF LeadsTo, Gap
  <2>4. Pos(s, k) \in Nodes /\ Pos(s, k) # o /\ Pos(s, k) # u
    BY <1>2, <1>7, <2>0
  <2>5. /\ e.forward[i][Pos(s, k)] = (IF b = len + 1 THEN NULL ELSE s[b])
        /\ i < e.level => e.span[i][Pos(s, k)] = Gap(len, k, b)
    BY <1>8, <1>10, <2>3, <2>4
  <2>6. NextOn(e, t, i, k - 1, b - 1)
    <3>1. b - 1 \in (k - 1) + 1 .. e.length + 1
      BY <1>1, <2>2
    <3>2. b - 1 <= e.length => On(e, t, i, b - 1)
      BY <1>1, <1>6, <2>2
    <3>3. ASSUME NEW j \in (k - 1) + 1 .. (b - 1) - 1
          PROVE  ~On(e, t, i, j)
      <4>1. j + 1 \in p + 2 .. len /\ j + 1 \in k + 1 .. b - 1 /\ (j + 1) - 1 = j
        BY <1>1, <2>2
      <4>2. ~On(e, t, i, (j + 1) - 1)
        BY <1>6, <2>2, <4>1
      <4>3. QED
        BY <4>1, <4>2
    <3>4. QED
      BY <3>1, <3>2, <3>3 DEF NextOn
  <2>7. LeadsTo(e, t, i, k - 1, b - 1)
    <3>1. b <= len => t[b - 1] = s[b]
      BY <1>1, <1>6, <2>2
    <3>2. b <= len + 1 /\ k - 1 \in Int /\ (k - 1) + 1 = k /\ Pos(t, k - 1) = Pos(s, k)
      BY <1>1, <1>6, <2>2
    <3>3. QED
      <4>1. \/ b = len + 1
            \/ b <= len
        BY <1>1, <2>2
      <4>2. e.forward[i][Pos(t, k - 1)] = IF b = len + 1 THEN NULL ELSE s[b]
        BY <2>5, <3>2
      <4>3. i < e.level => e.span[i][Pos(t, k - 1)] = Gap(len, (k - 1) + 1, b)
        BY <2>5, <3>2
      <4>4. len \in Nat /\ e.length = len - 1
        BY <1>1
      <4>5. QED
        BY <3>1, <3>2, <4>2, <4>3, <4>4, LeadsNearer
  <2>8. b - 1 \in Nat
    BY <1>1, <2>2
  <2>9. QED
    BY <2>6, <2>7, <2>8
<1>14. ASSUME NEW k \in 0 .. e.length, On(e, t, i, k)
       PROVE  \E b \in Nat : NextOn(e, t, i, k, b) /\ LeadsTo(e, t, i, k, b)
  <2>1. CASE k \in 0 .. p
    BY <1>6, <1>11, <1>12, <1>14, <2>1
  <2>2. CASE k > p
    <3>1. k + 1 \in p + 2 .. len /\ (k + 1) - 1 = k
      BY <1>1, <2>2
    <3>2. On(z, s, i, k + 1)
      BY <1>6, <1>14, <3>1
    <3>3. \E b \in Nat : NextOn(e, t, i, (k + 1) - 1, b) /\ LeadsTo(e, t, i, (k + 1) - 1, b)
      BY <1>13, <3>1, <3>2
    <3>4. QED
      BY <3>1, <3>3
  <2>3. QED
    BY <1>1, <2>1, <2>2
<1>15. ASSUME NEW x \in Objs, e.height[x] <= i
       PROVE  e.forward[i][x] = NULL
  <2>1. x \in Nodes
    BY DEF Nodes
  <2>2. CASE x = o
    <3>1. CASE m = p + 1
      BY <1>7, <2>1, <2>2, <3>1 DEF UnlinkedLevel, o
    <3>2. CASE m # p + 1
      <4>1. ~On(z, s, i, p + 1)
        BY <1>1, <1>3, <1>4, <3>2
      <4>2. ~(z.height[o] > i) /\ z.height[o] \in 0 .. MaxLevel
        BY <1>1, <1>2, <4>1 DEF On, o
      <4>3. z.height[o] <= i
        BY <1>1, <1>2, <4>2
      <4>4. z.forward[i][o] = NULL
        BY <1>2, <4>3 DEF Laid, LevelLaid
      <4>5. e.forward[i][x] = z.forward[i][x]
        BY <2>1, <3>2 DEF UnlinkedLevel
      <4>6. QED
        BY <2>2, <4>4, <4>5
    <3>3. QED
      BY <3>1, <3>2
  <2>3. CASE x # o
    <3>1. z.height[x] <= i /\ z.forward[i][x] = NULL
      BY <1>15, <2>3 DEF Laid, LevelLaid, o
    <3>2. x # u
      <4>1. x # Header
        BY SkipListAssumption
      <4>2. q # 0 => z.height[s[q]] \in Int /\ z.height[s[q]] > i
        <5>1. q # 0 => q \in 1 .. len
          BY <1>1, <1>3
        <5>2. QED
          BY <1>2, <1>3, <5>1 DEF On
      <4>3. QED
        BY <1>1, <1>7, <3>1, <4>1, <4>2 DEF Pos
    <3>3. QED
      BY <1>8, <2>1, <2>3, <3>1, <3>2
  <2>4. QED
    BY <2>2, <2>3
<1>16. QED
  BY <1>14, <1>15 DEF LevelLaid, t

\* The new list has the other members.
LEMMA UnlinkMembers ==
  ASSUME NEW z, NEW s, Laid(z, s), NEW p \in 0 .. z.length - 1,
         NEW t, t = Dropped(s, z.length, p + 1),
         NEW e, e.length = z.length - 1,
         \A x \in Objs : e.height[x] = IF x = s[p + 1] THEN 0 ELSE z.height[x],
         \A x \in Objs : e.score[x] = IF x = s[p + 1] THEN NULL ELSE z.score[x]
  PROVE  /\ /\ e.level \in Int /\ \A j \in 1 .. e.length : e.height[t[j]] <= e.level
            /\ e.level = 1 \/ \E j \in 1 .. e.length : e.height[t[j]] = e.level
            => Members(e, t)
         /\ \A j \in 1 .. e.length : e.height[t[j]] \in Int /\ e.height[t[j]] >= 1 /\ e.height[t[j]] <= z.level
<1> DEFINE len == z.length
           o == s[p + 1]
<1>1. /\ len \in Nat /\ p \in 0 .. len - 1 /\ z.level \in Int
      /\ s \in [1 .. len -> Objs]
      /\ \A j, k \in 1 .. len : s[j] = s[k] => j = k
  BY MembersOnce DEF Laid
<1>2. /\ z.height \in [Objs -> 0 .. MaxLevel] /\ z.score \in [Objs -> Scores \cup {NULL}]
      /\ \A j \in 1 .. len : z.score[s[j]] \in Scores /\ z.height[s[j]] \in 1 .. z.level
      /\ \A x \in Objs : (\A j \in 1 .. len : s[j] # x) => z.score[x] = NULL /\ z.height[x] = 0
      /\ \A j, k \in 1 .. len : j < k => Before(z, s[j], s[k])
  BY DEF Laid, SkipLists, Members
<1>3. p + 1 \in 1 .. len /\ o \in Objs
  BY <1>1
<1>4. t \in [1 .. len - 1 -> Objs]
  <2>1. \A j \in 1 .. len - 1 : j \in 1 .. len /\ j + 1 \in 1 .. len
    BY <1>1
  <2>2. QED
    BY <1>1, <2>1 DEF Dropped
<1>5. \A j \in 1 .. len - 1 : \/ j <= p /\ j \in 1 .. len /\ t[j] = s[j] /\ j # p + 1
                              \/ j > p /\ j + 1 \in 1 .. len /\ t[j] = s[j + 1] /\ j + 1 # p + 1
  BY <1>1 DEF Dropped
<1>6. \A k \in 1 .. len : k # p + 1 => \E j \in 1 .. len - 1 : t[j] = s[k]
  <2>1. ASSUME NEW k \in 1 .. len, k # p + 1
        PROVE  \E j \in 1 .. len - 1 : t[j] = s[k]
    <3>1. CASE k <= p
      <4>1. k \in 1 .. len - 1 /\ t[k] = s[k]
        BY <1>1, <3>1 DEF Dropped
      <4>2. QED
        BY <4>1
    <3>2. CASE k > p
      <4>1. k - 1 \in 1 .. len - 1 /\ t[k - 1] = s[k]
        BY <1>1, <2>1, <3>2 DEF Dropped
      <4>2. QED
        BY <4>1
    <3>3. QED
      BY <1>1, <3>1, <3>2
  <2>2. QED
    BY <2>1
<1>7. \A k \in 1 .. len : k # p + 1 => /\ s[k] \in Objs /\ s[k] # o
                                       /\ e.height[s[k]] = z.height[s[k]] /\ e.score[s[k]] = z.score[s[k]]
  <2>1. \A k \in 1 .. len : k # p + 1 => s[k] \in Objs /\ s[k] # o
    BY <1>1, <1>3
  <2>2. \A x \in Objs : x # o => e.height[x] = z.height[x] /\ e.score[x] = z.score[x]
    BY <1>2
  <2> HIDE DEF o
  <2>3. QED
    BY <2>1, <2>2
<1>8. e.height[o] = 0 /\ e.score[o] = NULL
  BY <1>2, <1>3
<1>9. \A j, k \in 1 .. len : j < k /\ j # p + 1 /\ k # p + 1 => Before(e, s[j], s[k])
  BY <1>2, <1>7 DEF Before
<1>10. ASSUME NEW j \in 1 .. len - 1, NEW k \in 1 .. len - 1, j < k
       PROVE  Before(e, t[j], t[k])
  <2>1. CASE k <= p
    <3>1. j \in 1 .. len /\ k \in 1 .. len /\ t[j] = s[j] /\ t[k] = s[k] /\ j # p + 1 /\ k # p + 1
      BY <1>1, <1>5, <1>10, <2>1
    <3>2. QED
      BY <1>9, <1>10, <3>1
  <2>2. CASE j <= p /\ k > p
    <3>1. /\ j \in 1 .. len /\ k + 1 \in 1 .. len /\ t[j] = s[j] /\ t[k] = s[k + 1]
          /\ j # p + 1 /\ k + 1 # p + 1 /\ j < k + 1
      BY <1>1, <1>5, <1>10, <2>2
    <3>2. QED
      BY <1>9, <3>1
  <2>3. CASE j > p
    <3>1. /\ j + 1 \in 1 .. len /\ k + 1 \in 1 .. len /\ t[j] = s[j + 1] /\ t[k] = s[k + 1]
          /\ j + 1 # p + 1 /\ k + 1 # p + 1 /\ j + 1 < k + 1
      BY <1>1, <1>5, <1>10, <2>3
    <3>2. QED
      BY <1>9, <3>1
  <2>4. QED
    BY <1>1, <2>1, <2>2, <2>3
<1>11. ASSUME NEW j \in 1 .. len - 1
       PROVE  /\ e.score[t[j]] \in Scores /\ t[j] \in Objs
              /\ e.height[t[j]] \in Int /\ e.height[t[j]] >= 1 /\ e.height[t[j]] <= z.level
  <2>1. PICK k \in 1 .. len : k # p + 1 /\ t[j] = s[k]
    BY <1>5
  <2>2. e.score[t[j]] \in Scores /\ e.height[t[j]] \in 1 .. z.level
    BY <1>2, <1>7, <2>1
  <2>3. QED
    BY <1>1, <1>4, <2>2
<1>12. ASSUME NEW x \in Objs, \A j \in 1 .. len - 1 : t[j] # x
       PROVE  e.score[x] = NULL /\ e.height[x] = 0
  <2>1. CASE x = o
    BY <1>8, <2>1
  <2>2. CASE x # o
    <3>1. \A k \in 1 .. len : s[k] # x
      BY <1>6, <1>12, <2>2
    <3>2. QED
      BY <1>2, <2>2, <3>1
  <2>3. QED
    BY <2>1, <2>2
<1>13. e.length = len - 1
  OBVIOUS
<1> HIDE DEF len
<1>14. ASSUME e.level \in Int, \A j \in 1 .. e.length : e.height[t[j]] <= e.level,
              e.level = 1 \/ \E j \in 1 .. e.length : e.height[t[j]] = e.level
       PROVE  Members(e, t)
  <2>1. \A j \in 1 .. e.length : e.height[t[j]] \in 1 .. e.level
    BY <1>11, <1>13, <1>14
  <2>2. QED
    BY <1>4, <1>10, <1>11, <1>12, <1>13, <1>14, <2>1 DEF Members
<1>15. QED
  BY <1>11, <1>13, <1>14

LEMMA MaxIs ==
  ASSUME NEW n \in Nat, NEW S \in SUBSET (0 .. n), S # {}
  PROVE  Max(S) \in S /\ \A y \in S : y <= Max(S)
<1>1. PICK x \in S : \A y \in S : y <= x
  BY Greatest
<1>2. x \in S /\ \A y \in S : x >= y
  BY <1>1
<1>3. Max(S) \in S /\ \A y \in S : Max(S) >= y
  BY <1>2 DEF Max
<1>4. QED
  BY <1>3

\* The level to which the list goes down is that of its highest node.
LEMMA LoweredIs ==
  ASSUME NEW z, z.level \in 1 .. MaxLevel, MaxLevel \in Nat, NEW forward,
         NEW e, e.forward = forward, e.level = Lowered(z, forward), e.length \in Nat, NEW t,
         \A j \in 1 .. e.length : t[j] # NULL /\ e.height[t[j]] \in Int,
         \A j \in 1 .. e.length : e.height[t[j]] >= 1 /\ e.height[t[j]] <= z.level,
         \A i \in Levels : LevelLaid(e, t, i)
  PROVE  /\ \A j \in 1 .. e.length : e.height[t[j]] <= e.level
         /\ e.level = 1 \/ \E j \in 1 .. e.length : e.height[t[j]] = e.level
<1> DEFINE S == {1} \cup {i + 1 : i \in {j \in 0 .. z.level - 1 : forward[j][Header] # NULL}}
<1>1. S \in SUBSET (0 .. z.level) /\ S # {} /\ z.level \in Nat
  OBVIOUS
<1>2. e.level \in S /\ \A y \in S : y <= e.level
  <2>1. e.level = Max(S)
    BY DEF Lowered
  <2> HIDE DEF S
  <2>2. QED
    BY <1>1, <2>1, MaxIs
<1>3. \A i \in 0 .. z.level - 1 : i \in Levels /\ i \in Int /\ (forward[i][Header] # NULL => i + 1 <= e.level)
  BY <1>2 DEF Levels
\* What the header leads to.
<1>4. ASSUME NEW i \in Levels
      PROVE  \E m \in Nat : NextOn(e, t, i, 0, m) /\ forward[i][Header] = IF m = e.length + 1 THEN NULL ELSE t[m]
  <2>1. PICK m \in Nat : NextOn(e, t, i, 0, m) /\ LeadsTo(e, t, i, 0, m)
    BY DEF LevelLaid, On
  <2>2. QED
    BY <2>1 DEF LeadsTo, Pos
<1>5. ASSUME NEW j \in 1 .. e.length
      PROVE  e.height[t[j]] <= e.level
  <2> DEFINE i == e.height[t[j]] - 1
  <2>1. i \in 0 .. z.level - 1 /\ i \in Levels /\ e.height[t[j]] > i /\ i + 1 = e.height[t[j]]
    <3>1. i \in 0 .. z.level - 1
      BY <1>1
    <3>2. QED
      BY <1>3, <3>1
  <2> HIDE DEF i
  <2>2. PICK m \in Nat : NextOn(e, t, i, 0, m) /\ forward[i][Header] = IF m = e.length + 1 THEN NULL ELSE t[m]
    BY <1>4, <2>1
  <2>3. On(e, t, i, j)
    BY <2>1 DEF On
  <2>4. m \in 1 .. e.length /\ m # e.length + 1
    BY <2>2, <2>3 DEF NextOn
  <2>5. forward[i][Header] # NULL
    BY <2>2, <2>4
  <2>6. QED
    BY <1>3, <2>1, <2>5
<1>6. e.level = 1 \/ \E j \in 1 .. e.length : e.height[t[j]] = e.level
  <2>1. SUFFICES ASSUME e.level # 1
                 PROVE  \E j \in 1 .. e.length : e.height[t[j]] = e.level
    OBVIOUS
  <2>2. PICK i \in 0 .. z.level - 1 : e.level = i + 1 /\ forward[i][Header] # NULL
    BY <1>2, <2>1
  <2>3. PICK m \in Nat : NextOn(e, t, i, 0, m) /\ forward[i][Header] = IF m = e.length + 1 THEN NULL ELSE t[m]
    BY <1>3, <1>4
  <2>4. m \in 1 .. e.length /\ On(e, t, i, m)
    BY <2>2, <2>3 DEF NextOn
  <2>5. e.height[t[m]] > i /\ e.height[t[m]] <= e.level /\ e.height[t[m]] \in Int
    BY <1>5, <2>4 DEF On
  <2>6. QED
    BY <2>2, <2>4, <2>5
<1>7. QED
  BY <1>5, <1>6

\* The removal of the node behind the place that the path leads to gives a well
\* laid out list, for which the path still leads to that place.
LEMMA UnlinkLaid ==
  ASSUME NEW z, NEW s, Laid(z, s), NEW p \in 0 .. z.length - 1, NEW path, PathTo(z, s, path, p)
  PROVE  /\ Laid(Unlink(z, path, s[p + 1]), Dropped(s, z.length, p + 1))
         /\ PathTo(Unlink(z, path, s[p + 1]), Dropped(s, z.length, p + 1), path, p)
<1> DEFINE len == z.length
           x == s[p + 1]
           t == Dropped(s, len, p + 1)
           e == Unlink(z, path, x)
           update(i) == path[i][1]
           after == z.forward[0][x]
           leads(i) == i < z.level /\ z.forward[i][update(i)] = x
           forward(i) == IF leads(i) THEN [z.forward[i] EXCEPT ![update(i)] = z.forward[i][x], ![x] = NULL]
                         ELSE z.forward[i]
           span(i) == IF i >= z.level THEN z.span[i]
                      ELSE IF z.forward[i][update(i)] = x
                      THEN [z.span[i] EXCEPT ![update(i)] = @ + z.span[i][x] - 1, ![x] = 0]
                      ELSE [z.span[i] EXCEPT ![update(i)] = @ - 1]
           back(y) == IF y = x THEN NULL ELSE IF y = after THEN z.backward[x] ELSE z.backward[y]
           links == [i \in Levels |-> forward(i)]
<1>1. /\ e.level = Lowered(z, links)
      /\ e.length = len - 1
      /\ e.tail = TailWithout(z, x)
      /\ e.score = [z.score EXCEPT ![x] = NULL]
      /\ e.height = [z.height EXCEPT ![x] = 0]
      /\ e.forward = links
      /\ e.span = [i \in Levels |-> span(i)]
      /\ e.backward = [y \in Objs |-> back(y)]
  BY DEF Unlink
<1>2. e = [level |-> e.level, length |-> e.length, tail |-> e.tail, score |-> e.score,
           height |-> e.height, forward |-> e.forward, span |-> e.span, backward |-> e.backward]
  BY DEF Unlink
<1>3. /\ len \in Nat /\ p \in 0 .. len - 1 /\ z.level \in 1 .. MaxLevel /\ z.level \in Int /\ MaxLevel \in Nat
      /\ p + 1 \in 1 .. len /\ p + 1 \in 0 .. len /\ p \in 0 .. len /\ p + 1 # 0
  <2>1. len \in Nat /\ z.level \in 1 .. MaxLevel /\ MaxLevel \in Nat
    BY MembersOnce DEF Laid
  <2>2. QED
    BY <2>1
<1>4. /\ s \in [1 .. len -> Objs]
      /\ \A j \in 1 .. len : s[j] # Header /\ s[j] # NULL /\ s[j] \in Nodes
      /\ \A j, k \in 1 .. len : s[j] = s[k] => j = k
      /\ \A j, k \in 0 .. len : Pos(s, j) = Pos(s, k) => j = k
      /\ \A j \in 0 .. len : Pos(s, j) \in Nodes
      /\ x \in Objs /\ x \in Nodes /\ Pos(s, p + 1) = x /\ x # NULL /\ x # Header
      /\ Levels \subseteq Int
  <2>1. /\ s \in [1 .. len -> Objs]
        /\ \A j \in 1 .. len : s[j] # Header /\ s[j] # NULL /\ s[j] \in Nodes
        /\ \A j, k \in 1 .. len : s[j] = s[k] => j = k
        /\ \A j, k \in 0 .. len : Pos(s, j) = Pos(s, k) => j = k
        /\ \A j \in 0 .. len : Pos(s, j) \in Nodes
    BY MembersOnce DEF Laid
  <2>2. x \in Objs /\ x \in Nodes /\ Pos(s, p + 1) = x /\ x # NULL /\ x # Header
    BY <1>3, <2>1 DEF Pos
  <2>3. Levels \subseteq Int
    BY SkipListAssumption DEF Levels
  <2>4. QED
    BY <2>1, <2>2, <2>3
<1>5. /\ z.tail \in Objs \cup {NULL} /\ z.backward \in [Objs -> Objs \cup {NULL}]
      /\ z.score \in [Objs -> Scores \cup {NULL}] /\ z.height \in [Objs -> 0 .. MaxLevel]
      /\ z.forward \in [Levels -> [Nodes -> Objs \cup {NULL}]] /\ z.span \in [Levels -> [Nodes -> Nat]]
  BY DEF Laid, SkipLists
<1>6. e.level \in 1 .. z.level
  <2> DEFINE S == {1} \cup {i + 1 : i \in {j \in 0 .. z.level - 1 : links[j][Header] # NULL}}
  <2>1. S \in SUBSET (0 .. z.level) /\ S \subseteq 1 .. z.level /\ S # {} /\ z.level \in Nat
    <3>1. z.level \in Nat /\ 1 \in 1 .. z.level /\ 1 .. z.level \subseteq 0 .. z.level
      BY <1>3
    <3>2. \A i \in 0 .. z.level - 1 : i + 1 \in 1 .. z.level
      BY <3>1
    <3> HIDE DEF links
    <3>3. QED
      BY <3>1, <3>2
  <2>2. e.level = Max(S)
    <3> HIDE DEF links, e
    <3>1. QED
      BY <1>1 DEF Lowered
  <2> HIDE DEF S, e
  <2>3. QED
    BY <2>1, <2>2, MaxIs
\* Every level is laid out.
<1>7. ASSUME NEW i \in Levels
      PROVE  /\ LevelLaid(e, t, i)
             /\ forward(i) \in [Nodes -> Objs \cup {NULL}] /\ span(i) \in [Nodes -> Nat]
  <2>1. PICK q \in 0 .. p : LastOn(z, s, i, p, q) /\ path[i] = <<Pos(s, q), q>>
    BY DEF PathTo
  <2>2. PICK m \in Nat : NextOn(z, s, i, q, m) /\ LeadsTo(z, s, i, q, m)
    <3>1. q \in 0 .. len /\ On(z, s, i, q)
      BY <1>3, <2>1 DEF LastOn
    <3>2. QED
      BY <3>1 DEF Laid, LevelLaid
  <2>3. /\ update(i) = Pos(s, q)
        /\ Pos(s, q) \in Nodes /\ Pos(s, q) # x
        /\ z.forward[i] \in [Nodes -> Objs \cup {NULL}] /\ z.span[i] \in [Nodes -> Nat]
        /\ q \in 0 .. len
    <3>1. q \in 0 .. len /\ path[i][1] = Pos(s, q) /\ q # p + 1
      BY <1>3, <2>1
    <3>2. Pos(s, q) # x
      BY <1>3, <1>4, <3>1
    <3>3. QED
      BY <1>4, <1>5, <3>1, <3>2
  <2>4. m \in q + 1 .. len + 1 /\ (\A j \in q + 1 .. m - 1 : ~On(z, s, i, j)) /\ (m <= len => On(z, s, i, m))
    BY <2>2 DEF NextOn
  <2>5. m > p
    <3>1. \A j \in q + 1 .. p : ~On(z, s, i, j)
      BY <2>1 DEF LastOn
    <3>2. QED
      BY <1>3, <2>3, <2>4, <3>1
  <2>6. z.forward[i][Pos(s, q)] = IF m = len + 1 THEN NULL ELSE s[m]
    BY <2>2 DEF LeadsTo
  <2>7. leads(i) <=> m = p + 1
    <3>1. ASSUME m = p + 1
          PROVE  leads(i)
      <4>1. On(z, s, i, p + 1) /\ m # len + 1
        BY <1>3, <2>4, <3>1
      <4>2. i < z.level
        BY <1>3, <1>4, <4>1, HighLevel
      <4>3. QED
        BY <2>3, <2>6, <3>1, <4>1, <4>2
    <3>2. ASSUME leads(i)
          PROVE  m = p + 1
      <4>1. z.forward[i][Pos(s, q)] = x
        BY <2>3, <3>2
      <4>2. m # len + 1 /\ s[m] = x
        BY <1>4, <2>6, <4>1
      <4>3. m \in 1 .. len
        BY <1>3, <2>3, <2>4, <4>2
      <4>4. QED
        BY <1>3, <1>4, <4>2, <4>3
    <3>3. QED
      BY <3>1, <3>2
  <2>8. PICK n \in Nat : m = p + 1 => NextOn(z, s, i, p + 1, n) /\ LeadsTo(z, s, i, p + 1, n)
    <3>1. CASE m = p + 1
      <4>1. On(z, s, i, p + 1)
        BY <1>3, <2>4, <3>1
      <4>2. \E n \in Nat : NextOn(z, s, i, p + 1, n) /\ LeadsTo(z, s, i, p + 1, n)
        BY <1>3, <4>1 DEF Laid, LevelLaid
      <4>3. QED
        BY <4>2
    <3>2. CASE m # p + 1
      BY <3>2
    <3>3. QED
      BY <3>1, <3>2
  <2>9. m = p + 1 => /\ n \in p + 2 .. len + 1
                     /\ z.forward[i][x] = (IF n = len + 1 THEN NULL ELSE s[n])
                     /\ i < z.level => z.span[i][x] = Gap(len, p + 1, n)
    <3>1. m = p + 1 => n \in p + 2 .. len + 1
      BY <1>3, <2>8 DEF NextOn
    <3>2. QED
      BY <1>4, <2>8, <3>1 DEF LeadsTo, Gap
  <2>10. i < z.level => z.span[i][Pos(s, q)] = Gap(len, q, m)
    BY <2>2 DEF LeadsTo, Gap
  <2>11. /\ forward(i) \in [Nodes -> Objs \cup {NULL}]
         /\ \A y \in Nodes :
              forward(i)[y] =
                IF m = p + 1 /\ y = Pos(s, q) THEN IF n = len + 1 THEN NULL ELSE s[n]
                ELSE IF m = p + 1 /\ y = x THEN NULL ELSE z.forward[i][y]
    <3> HIDE DEF update, leads
    <3>1. CASE m = p + 1
      <4>1. forward(i) = [z.forward[i] EXCEPT ![Pos(s, q)] = z.forward[i][x], ![x] = NULL]
        BY <2>3, <2>7, <3>1
      <4>2. z.forward[i][x] \in Objs \cup {NULL} /\ x \in Nodes
        BY <1>4, <2>3
      <4> HIDE DEF forward, x
      <4>3. QED
        BY <2>3, <2>9, <3>1, <4>1, <4>2
    <3>2. CASE m # p + 1
      <4>1. forward(i) = z.forward[i]
        BY <2>7, <3>2
      <4> HIDE DEF forward
      <4>2. QED
        BY <2>3, <3>2, <4>1
    <3>3. QED
      BY <3>1, <3>2
  <2>12. /\ span(i) \in [Nodes -> Nat]
         /\ \A y \in Nodes : y # x /\ i < z.level =>
              span(i)[y] = IF y = Pos(s, q)
                           THEN IF m = p + 1 THEN Gap(len, p + 1, n) + p - q ELSE z.span[i][y] - 1
                           ELSE z.span[i][y]
    <3>0. i \in Int
      BY <1>4
    <3>1. CASE i >= z.level
      BY <1>3, <2>3, <3>0, <3>1
    <3>2. CASE i < z.level /\ m = p + 1
      <4>1. span(i) = [z.span[i] EXCEPT ![Pos(s, q)] = z.span[i][Pos(s, q)] + z.span[i][x] - 1, ![x] = 0]
        BY <1>3, <2>3, <2>7, <3>0, <3>2
      <4>2. z.span[i][Pos(s, q)] + z.span[i][x] - 1 = Gap(len, p + 1, n) + p - q
        BY <1>3, <2>3, <2>9, <2>10, <3>2 DEF Gap
      <4>3. Gap(len, p + 1, n) + p - q \in Nat
        BY <1>3, <2>1, <2>3, <2>9, <3>2 DEF Gap
      <4>4. x \in Nodes
        BY <1>4
      <4> DEFINE v == Gap(len, p + 1, n) + p - q
      <4> HIDE DEF span, x, v
      <4>5. span(i) = [z.span[i] EXCEPT ![Pos(s, q)] = v, ![x] = 0] /\ v \in Nat
        BY <4>1, <4>2, <4>3 DEF v
      <4>6. span(i) \in [Nodes -> Nat] /\ \A y \in Nodes : y # x =>
              span(i)[y] = IF y = Pos(s, q) THEN v ELSE z.span[i][y]
        BY <2>3, <4>4, <4>5
      <4>7. QED
        BY <3>2, <4>6 DEF v
    <3>3. CASE i < z.level /\ m # p + 1
      <4>1. span(i) = [z.span[i] EXCEPT ![Pos(s, q)] = z.span[i][Pos(s, q)] - 1]
        BY <1>3, <2>3, <2>7, <3>0, <3>3
      <4>2. z.span[i][Pos(s, q)] - 1 \in Nat
        BY <1>3, <2>1, <2>3, <2>4, <2>5, <2>10, <3>3 DEF Gap
      <4> HIDE DEF span, x
      <4>3. span(i) \in [Nodes -> Nat] /\ \A y \in Nodes :
              span(i)[y] = IF y = Pos(s, q) THEN z.span[i][y] - 1 ELSE z.span[i][y]
        BY <2>3, <4>1, <4>2
      <4>4. QED
        BY <3>3, <4>3
    <3>4. QED
      <4>1. i >= z.level \/ i < z.level
        BY <1>3, <3>0
      <4> HIDE DEF span, x, len
      <4>2. QED
        BY <3>1, <3>2, <3>3, <4>1
  <2>13. UnlinkedLevel(z, s, e, p, i, q, m, n)
    <3>1. e.forward[i] = forward(i) /\ e.span[i] = span(i)
      <4> HIDE DEF e, t, x, after, forward, span, back, update, leads
      <4>1. QED
        BY <1>1
    <3> HIDE DEF e, forward, span
    <3>2. QED
      BY <2>11, <2>12, <3>1 DEF UnlinkedLevel
  <2>14. LevelLaid(e, t, i)
    <3>1. \A y \in Objs : e.height[y] = IF y = s[p + 1] THEN 0 ELSE z.height[y]
      BY <1>1, <1>5
    <3>2. e.length = z.length - 1 /\ e.level \in Int /\ e.level <= z.level
      <4> HIDE DEF e, t, links, x, after, forward, span, back, update, leads
      <4>1. QED
        BY <1>1, <1>3, <1>6
    <3>3. m = p + 1 => NextOn(z, s, i, p + 1, n)
      BY <2>8
    <3> HIDE DEF e
    <3>4. QED
      BY <2>1, <2>2, <2>13, <3>1, <3>2, <3>3, UnlinkLevel
  <2>15. QED
    BY <2>11, <2>12, <2>14
<1>8. Members(e, t)
  <2>1. e.length = len - 1 /\ e.length \in Nat
    <3> HIDE DEF e, t, links, x, after, forward, span, back, update, leads
    <3>1. QED
      BY <1>1, <1>3
  <2>2. e.level \in Int /\ e.level = Lowered(z, links) /\ e.forward = links
    <3> HIDE DEF e, t, links, x, after, forward, span, back, update, leads
    <3>1. QED
      BY <1>1, <1>6
  <2>3. t \in [1 .. len - 1 -> Objs]
    <3>1. \A j \in 1 .. len - 1 : j \in 1 .. len /\ j + 1 \in 1 .. len
      BY <1>3
    <3>2. QED
      BY <1>4, <3>1 DEF Dropped
  <2>4. t = Dropped(s, z.length, p + 1)
    BY DEF t
  <2>0. /\ e.length = z.length - 1
        /\ \A y \in Objs : e.height[y] = IF y = s[p + 1] THEN 0 ELSE z.height[y]
        /\ \A y \in Objs : e.score[y] = IF y = s[p + 1] THEN NULL ELSE z.score[y]
    BY <1>1, <1>5
  <2>9. \A i \in Levels : LevelLaid(e, t, i)
    BY <1>7
  <2> HIDE DEF e, t, links, len, x
  <2>5. \A j \in 1 .. e.length : e.height[t[j]] \in Int /\ e.height[t[j]] >= 1 /\ e.height[t[j]] <= z.level
    BY <2>0, <2>4, UnlinkMembers
  <2>6. \A j \in 1 .. e.length : t[j] # NULL
    BY <2>1, <2>3, SkipListAssumption
  <2>7. /\ \A j \in 1 .. e.length : e.height[t[j]] <= e.level
        /\ e.level = 1 \/ \E j \in 1 .. e.length : e.height[t[j]] = e.level
    BY <1>3, <2>1, <2>2, <2>5, <2>6, <2>9, LoweredIs
  <2>8. QED
    BY <2>0, <2>2, <2>4, <2>7, UnlinkMembers
<1>9. after = IF p + 1 = len THEN NULL ELSE s[p + 2]
  <2>1. z.forward[0][Pos(s, p + 1)] = IF p + 1 = len THEN NULL ELSE s[(p + 1) + 1]
    BY <1>3, PathBottom
  <2>2. (p + 1) + 1 = p + 2
    BY <1>3
  <2>3. QED
    BY <1>4, <2>1, <2>2
<1>10. e \in SkipLists
  <2>1. e.forward \in [Levels -> [Nodes -> Objs \cup {NULL}]] /\ e.span \in [Levels -> [Nodes -> Nat]]
    <3> HIDE DEF e, forward, span
    <3>1. QED
      BY <1>1, <1>7
  <2>2. e.length \in Nat /\ e.level \in 1 .. MaxLevel
    <3> HIDE DEF e, t, links, x, after, forward, span, back, update, leads
    <3>1. QED
      BY <1>1, <1>3, <1>6
  <2>3. e.score \in [Objs -> Scores \cup {NULL}] /\ e.height \in [Objs -> 0 .. MaxLevel]
    <3>1. 0 \in 0 .. MaxLevel
      BY <1>3
    <3>2. e.height = [z.height EXCEPT ![x] = 0] /\ e.score = [z.score EXCEPT ![x] = NULL]
      BY <1>1
    <3> HIDE DEF e, x
    <3>3. QED
      BY <1>5, <3>1, <3>2
  <2>4. e.tail \in Objs \cup {NULL}
    <3> HIDE DEF e, t, links, x, after, forward, span, back, update, leads
    <3>1. QED
      BY <1>1, <1>4, <1>5 DEF TailWithout
  <2>5. e.backward \in [Objs -> Objs \cup {NULL}]
    <3> HIDE DEF e, t, links, x, after, forward, span, update, leads
    <3>1. QED
      BY <1>1, <1>4, <1>5
  <2> HIDE DEF e
  <2>6. QED
    BY <1>2, <2>1, <2>2, <2>3, <2>4, <2>5 DEF SkipLists
<1>11. Backwards(e, t)
  <2>1. \A j \in 1 .. len - 1 : t[j] = IF j < p + 1 THEN s[j] ELSE s[j + 1]
    BY DEF Dropped
  <2>2. /\ z.tail = (IF len = 0 THEN NULL ELSE s[len])
        /\ \A j \in 1 .. len : z.backward[s[j]] = IF j = 1 THEN NULL ELSE s[j - 1]
    BY DEF Laid, Backwards
  <2>3. \A y \in Objs : e.backward[y] = back(y)
    BY <1>1
  <2>4. e.tail = IF after = NULL THEN z.backward[x] ELSE z.tail
    BY <1>1 DEF TailWithout
  <2>5. z.backward[x] = IF p = 0 THEN NULL ELSE s[p]
    BY <1>3, <2>2
  <2>6. \A j \in 1 .. len : j # p + 1 => s[j] # x /\ s[j] \in Objs
    BY <1>3, <1>4
  <2>7. \A j \in 1 .. len : j # p + 2 => s[j] # after
    <3>1. CASE p + 1 = len
      BY <1>4, <1>9, <3>1
    <3>2. CASE p + 1 # len
      <4>1. p + 2 \in 1 .. len
        BY <1>3, <3>2
      <4>2. QED
        BY <1>4, <1>9, <3>2, <4>1
    <3>3. QED
      BY <3>1, <3>2
  <2> HIDE DEF t, x, after, e
  <2>8. e.tail = IF len - 1 = 0 THEN NULL ELSE t[len - 1]
    <3>1. CASE p + 1 = len
      <4>1. (p = 0 <=> len - 1 = 0) /\ (p # 0 => len - 1 = p /\ p \in 1 .. len - 1 /\ p < p + 1)
        BY <1>3, <3>1
      <4>2. QED
        BY <1>9, <2>1, <2>4, <2>5, <3>1, <4>1
    <3>2. CASE p + 1 # len
      <4>1. /\ len - 1 # 0 /\ len # 0 /\ len - 1 \in 1 .. len - 1 /\ ~(len - 1 < p + 1) /\ (len - 1) + 1 = len
            /\ p + 2 \in 1 .. len
        BY <1>3, <3>2
      <4>2. after # NULL
        BY <1>4, <1>9, <3>2, <4>1
      <4>3. t[len - 1] = s[len]
        BY <2>1, <4>1
      <4>4. QED
        BY <2>2, <2>4, <4>1, <4>2, <4>3
    <3>3. QED
      BY <3>1, <3>2
  <2>9. ASSUME NEW j \in 1 .. len - 1
        PROVE  e.backward[t[j]] = IF j = 1 THEN NULL ELSE t[j - 1]
    <3>1. CASE j <= p
      <4>1. /\ j \in 1 .. len /\ j # p + 1 /\ j # p + 2 /\ j < p + 1
            /\ (j # 1 => j - 1 \in 1 .. len - 1 /\ j - 1 < p + 1)
        BY <1>3, <3>1
      <4>2. t[j] = s[j] /\ (j # 1 => t[j - 1] = s[j - 1])
        BY <2>1, <4>1
      <4>3. QED
        BY <2>2, <2>3, <2>6, <2>7, <4>1, <4>2
    <3>2. CASE j = p + 1
      <4>1. /\ ~(j < p + 1) /\ j + 1 = p + 2 /\ p + 2 \in 1 .. len /\ p + 2 # p + 1 /\ p + 1 # len
            /\ (p = 0 <=> j = 1) /\ (p # 0 => j - 1 \in 1 .. len - 1 /\ j - 1 < p + 1 /\ j - 1 = p)
        BY <1>3, <3>2
      <4>2. t[j] = s[p + 2] /\ after = s[p + 2] /\ (j # 1 => t[j - 1] = s[p])
        BY <1>9, <2>1, <4>1
      <4>3. QED
        BY <2>3, <2>5, <2>6, <4>1, <4>2
    <3>3. CASE j > p + 1
      <4>1. /\ ~(j < p + 1) /\ j + 1 \in 1 .. len /\ j + 1 # p + 1 /\ j + 1 # p + 2 /\ j # 1 /\ j + 1 # 1
            /\ j - 1 \in 1 .. len - 1 /\ ~(j - 1 < p + 1) /\ (j - 1) + 1 = j /\ (j + 1) - 1 = j
        BY <1>3, <3>3
      <4>2. t[j] = s[j + 1] /\ t[j - 1] = s[j]
        BY <2>1, <4>1
      <4>3. QED
        BY <2>2, <2>3, <2>6, <2>7, <4>1, <4>2
    <3>4. QED
      BY <1>3, <3>1, <3>2, <3>3
  <2>10. e.length = len - 1
    BY <1>1
  <2>11. QED
    BY <2>8, <2>9, <2>10 DEF Backwards
<1>12. PathTo(e, t, path, p)
  <2>1. \A k \in 1 .. p : t[k] = s[k] /\ s[k] # x /\ s[k] \in Objs
    <3>1. ASSUME NEW k \in 1 .. p
          PROVE  k \in 1 .. len - 1 /\ k < p + 1 /\ k \in 1 .. len /\ k # p + 1
      BY <1>3
    <3>2. QED
      BY <1>3, <1>4, <3>1 DEF Dropped
  <2>2. \A y \in Objs : y # x => e.height[y] = z.height[y]
    BY <1>1, <1>5
  <2>3. \A k \in 0 .. p : k = 0 \/ k \in 1 .. p
    BY <1>3
  <2> HIDE DEF t, e, x
  <2>4. \A i \in Levels, k \in 0 .. p : Pos(t, k) = Pos(s, k) /\ (On(e, t, i, k) <=> On(z, s, i, k))
    BY <2>1, <2>2, <2>3 DEF Pos, On
  <2>5. \A i \in Levels, q \in 0 .. p : LastOn(z, s, i, p, q) => LastOn(e, t, i, p, q)
    <3>1. \A q \in 0 .. p : \A j \in q + 1 .. p : j \in 0 .. p
      BY <1>3
    <3>2. QED
      BY <2>4, <3>1 DEF LastOn
  <2>6. QED
    BY <2>4, <2>5 DEF PathTo
<1> HIDE DEF e, t, x
<1>13. Laid(e, t)
  BY <1>7, <1>8, <1>10, <1>11 DEF Laid
<1>14. QED
  BY <1>12, <1>13 DEF e, t, x

----------------------------------------------------------------------------
\* The calls.

\* A condition that holds up to some place and not from there on splits the list.
LEMMA Border ==
  ASSUME NEW z, NEW s, Laid(z, s), NEW ahead,
         \A j, k \in 1 .. z.length : j < k /\ ahead[s[k]][k] => ahead[s[j]][j]
  PROVE  \E p \in 0 .. z.length : Splits(z, s, ahead, p)
<1> DEFINE S == {0} \cup {j \in 1 .. z.length : ahead[s[j]][j]}
<1>1. z.length \in Nat /\ S \in SUBSET (0 .. z.length) /\ S # {}
  BY DEF Laid, SkipLists
<1>2. PICK p \in S : \A j \in S : j <= p
  <2> HIDE DEF S
  <2>1. QED
    BY <1>1, Greatest
<1>3. \A j \in 1 .. z.length : ahead[s[j]][j] => j <= p
  BY <1>2
<1>4. \A j \in 1 .. z.length : j <= p => ahead[s[j]][j]
  <2>1. ASSUME NEW j \in 1 .. z.length, j <= p
        PROVE  ahead[s[j]][j]
    <3>1. p \in 1 .. z.length /\ ahead[s[p]][p]
      BY <1>1, <2>1
    <3>2. j < p \/ j = p
      BY <1>1, <2>1
    <3>3. QED
      BY <3>1, <3>2
  <2>2. QED
    BY <2>1
<1>5. p \in 0 .. z.length
  BY <1>1
<1>6. QED
  BY <1>3, <1>4, <1>5 DEF Splits

\* The members of the list, and their number.
LEMMA LaidMembers ==
  ASSUME NEW z, NEW s, Laid(z, s)
  PROVE  /\ InList(z) = {s[j] : j \in 1 .. z.length}
         /\ \A o \in Objs : o \notin InList(z) => \A j \in 1 .. z.length : s[j] # o
         /\ IsFiniteSet(InList(z)) /\ Cardinality(InList(z)) = z.length
         /\ z.length \in 0 .. Cardinality(Objs)
<1>1. /\ z.length \in Nat /\ s \in [1 .. z.length -> Objs]
      /\ \A j, k \in 1 .. z.length : s[j] = s[k] => j = k
  BY MembersOnce DEF Laid
<1>2. /\ \A j \in 1 .. z.length : z.height[s[j]] > 0 /\ s[j] \in Objs
      /\ \A o \in Objs : (\A j \in 1 .. z.length : s[j] # o) => z.height[o] = 0
  <2>1. /\ \A j \in 1 .. z.length : z.height[s[j]] \in 1 .. z.level
        /\ \A o \in Objs : (\A j \in 1 .. z.length : s[j] # o) => z.height[o] = 0
    BY DEF Laid, Members
  <2>2. QED
    BY <1>1, <2>1
<1>3. InList(z) = {s[j] : j \in 1 .. z.length}
  BY <1>2 DEF InList
<1>4. s \in Bijection(1 .. z.length, InList(z))
  <2>1. s \in [1 .. z.length -> InList(z)] /\ \A x \in InList(z) : \E j \in 1 .. z.length : s[j] = x
    BY <1>1, <1>3
  <2> DEFINE D == 1 .. z.length
             T == InList(z)
  <2>2. s \in [D -> T] /\ (\A a, b \in D : s[a] = s[b] => a = b) /\ \A x \in T : \E j \in D : s[j] = x
    BY <1>1, <2>1
  <2> HIDE DEF D, T
  <2>3. s \in Bijection(D, T)
    BY <2>2 DEF Bijection, Injection, Surjection, IsInjective
  <2>4. QED
    BY <2>3 DEF D, T
<1>5. IsFiniteSet(1 .. z.length) /\ Cardinality(1 .. z.length) = z.length
  BY <1>1, FS_Interval
<1>6. IsFiniteSet(InList(z)) /\ Cardinality(InList(z)) = z.length
  BY <1>4, <1>5, FS_Bijection DEF ExistsBijection
<1>7. z.length \in 0 .. Cardinality(Objs)
  <2>1. InList(z) \in SUBSET Objs
    BY DEF InList
  <2>2. Cardinality(InList(z)) <= Cardinality(Objs) /\ Cardinality(Objs) \in Nat
    BY <2>1, SkipListAssumption, FS_Subset, FS_CardinalityType
  <2>3. QED
    BY <1>1, <1>6, <2>2
<1>8. QED
  BY <1>3, <1>6, <1>7

\* The members in front of a score and a member are the first ones.
LEMMA PrecedesFirst ==
  ASSUME NEW z, NEW s, Laid(z, s), NEW c \in Scores, NEW o \in Objs
  PROVE  /\ \A j, k \in 1 .. z.length : j < k /\ Precedes(z, s[k], c, o) => Precedes(z, s[j], c, o)
         /\ \A j \in 1 .. z.length : s[j] \in Int /\ z.score[s[j]] \in Int /\ s[j] \in Objs
         /\ c \in Int /\ o \in Int
<1>1. /\ \A j \in 1 .. z.length : z.score[s[j]] \in Int /\ s[j] \in Int /\ s[j] \in Objs
      /\ \A j, k \in 1 .. z.length : j < k => Before(z, s[j], s[k])
  <2>1. \A j \in 1 .. z.length : s[j] \in Int
    BY MembersOnce DEF Laid
  <2>2. QED
    BY <2>1, SkipListAssumption DEF Laid, Members
<1>2. c \in Int /\ o \in Int
  BY SkipListAssumption, FS_CardinalityType
<1>3. ASSUME NEW j \in 1 .. z.length, NEW k \in 1 .. z.length, j < k, Precedes(z, s[k], c, o)
      PROVE  Precedes(z, s[j], c, o)
  <2>1. Before(z, s[j], s[k])
    BY <1>1, <1>3
  <2>2. QED
    BY <1>1, <1>2, <1>3, <2>1 DEF Before, Precedes
<1>4. QED
  BY <1>1, <1>2, <1>3

\* The path to the place of a score and a member.
LEMMA PathBefore ==
  ASSUME NEW z, NEW s, Laid(z, s), NEW c \in Scores, NEW o \in Objs
  PROVE  \E p \in 0 .. z.length :
           /\ \A j \in 1 .. z.length : Precedes(z, s[j], c, o) <=> j <= p
           /\ PathTo(z, s, Path(z, [f \in Objs |-> [t \in Int |-> Precedes(z, f, c, o)]]), p)
<1> DEFINE ahead == [f \in Objs |-> [t \in Int |-> Precedes(z, f, c, o)]]
<1>1. \A j \in 1 .. z.length : s[j] \in Objs /\ j \in Int
  BY PrecedesFirst
<1>2. \A j \in 1 .. z.length : ahead[s[j]][j] <=> Precedes(z, s[j], c, o)
  BY <1>1
<1> HIDE DEF ahead
<1>3. \A j, k \in 1 .. z.length : j < k /\ ahead[s[k]][k] => ahead[s[j]][j]
  BY <1>2, PrecedesFirst
<1>4. PICK p \in 0 .. z.length : Splits(z, s, ahead, p)
  BY <1>3, Border
<1>5. PathTo(z, s, Path(z, ahead), p)
  BY <1>4, PathLeads
<1>6. \A j \in 1 .. z.length : Precedes(z, s[j], c, o) <=> j <= p
  BY <1>2, <1>4 DEF Splits
<1>7. QED
  BY <1>5, <1>6 DEF ahead

LEMMA InsertLaid ==
  ASSUME NEW z, NEW s, Laid(z, s), NEW o \in Objs, o \notin InList(z),
         NEW c \in Scores, NEW h \in 1 .. MaxLevel
  PROVE  \E p \in 0 .. z.length : Laid(Insert(z, c, o, h), Placed(s, z.length, o, p + 1))
<1> DEFINE path == Path(z, [f \in Objs |-> [t \in Int |-> Precedes(z, f, c, o)]])
<1>1. PICK p \in 0 .. z.length : /\ \A j \in 1 .. z.length : Precedes(z, s[j], c, o) <=> j <= p
                                 /\ PathTo(z, s, path, p)
  BY PathBefore
<1>2. Insert(z, c, o, h) = Link(z, path, c, o, h)
  BY DEF Insert
<1> HIDE DEF path
<1>3. Laid(Link(z, path, c, o, h), Placed(s, z.length, o, p + 1))
  BY <1>1, LaidMembers, LinkLaid
<1>4. QED
  BY <1>2, <1>3

\* What zslDelete finds.
LEMMA DeleteLaid ==
  ASSUME NEW z, NEW s, Laid(z, s), NEW o \in Objs, NEW c \in Scores,
         NEW path, path = Path(z, [f \in Objs |-> [t \in Int |-> Precedes(z, f, c, o)]]),
         z.forward[0][path[0][1]] = o
  PROVE  \E p \in 0 .. z.length - 1 :
           s[p + 1] = o /\ Laid(Unlink(z, path, o), Dropped(s, z.length, p + 1))
<1>1. PICK p \in 0 .. z.length : PathTo(z, s, path, p)
  BY PathBefore
<1>2. z.forward[0][Pos(s, p)] = (IF p = z.length THEN NULL ELSE s[p + 1]) /\ path[0] = <<Pos(s, p), p>>
  BY <1>1, PathBottom
<1>3. p # z.length /\ s[p + 1] = o
  BY <1>2, SkipListAssumption
<1>4. p \in 0 .. z.length - 1
  <2>1. z.length \in Nat
    BY MembersOnce DEF Laid
  <2>2. QED
    BY <1>3, <2>1
<1>5. Laid(Unlink(z, path, s[p + 1]), Dropped(s, z.length, p + 1))
  BY <1>1, <1>4, UnlinkLaid
<1>6. QED
  BY <1>3, <1>4, <1>5

\* The sequence without the n places behind p.
Cut(s, len, p, n) == [j \in 1 .. len - n |-> IF j <= p THEN s[j] ELSE s[j + n]]

\* The lists that the loop of the range removals goes through, up to m removals.
IsRemoval(f, z, path, m) ==
  f = [n \in 0 .. m |->
        IF n = 0 THEN z ELSE Unlink(f[n - 1], path, f[n - 1].forward[0][path[0][1]])]

LEMMA RemovalExists ==
  ASSUME NEW z, NEW path, NEW len \in Nat
  PROVE  \E f : IsRemoval(f, z, path, len)
<1> DEFINE Without == {k \in Nat : \A f : ~IsRemoval(f, z, path, k)}
<1>1. SUFFICES ASSUME Without # {}
               PROVE  FALSE
  OBVIOUS
<1>2. PICK m \in Without : \A k \in Without : m <= k
  <2>1. Without \in SUBSET Nat
    OBVIOUS
  <2>2. QED
    BY <1>1, <2>1, LeastNatural
<1>3. m # 0
  <2>1. IsRemoval([n \in 0 .. 0 |-> z], z, path, 0)
    BY DEF IsRemoval
  <2>2. QED
    BY <1>2, <2>1
<1>4. m \in Nat /\ m - 1 \in Nat /\ m - 1 \notin Without
  BY <1>2, <1>3
<1>5. PICK f : IsRemoval(f, z, path, m - 1)
  BY <1>4
<1> DEFINE step(x) == Unlink(x, path, x.forward[0][path[0][1]])
           g == [n \in 0 .. m |-> IF n = m THEN step(f[m - 1]) ELSE f[n]]
<1>6. \A n \in 0 .. m - 1 : f[n] = IF n = 0 THEN z ELSE step(f[n - 1])
  BY <1>5 DEF IsRemoval
<1> HIDE DEF step
<1>7. \A n \in 0 .. m : g[n] = IF n = 0 THEN z ELSE step(g[n - 1])
  BY <1>3, <1>4, <1>6
<1>8. g = [n \in 0 .. m |-> g[n]]
  OBVIOUS
<1> HIDE DEF g
<1>9. IsRemoval(g, z, path, m)
  BY <1>7, <1>8 DEF IsRemoval, step
<1>10. QED
  BY <1>2, <1>9

\* One removal more.
LEMMA CutFurther ==
  ASSUME NEW s, NEW len \in Nat, NEW p \in 0 .. len, NEW n \in 0 .. len - p - 1
  PROVE  /\ Dropped(Cut(s, len, p, n), len - n, p + 1) = Cut(s, len, p, n + 1)
         /\ Cut(s, len, p, n)[p + 1] = s[p + 1 + n]
<1>1. \A j \in 1 .. len - n : Cut(s, len, p, n)[j] = IF j <= p THEN s[j] ELSE s[j + n]
  BY DEF Cut
<1>2. ASSUME NEW j \in 1 .. len - n - 1
      PROVE  (IF j < p + 1 THEN Cut(s, len, p, n)[j] ELSE Cut(s, len, p, n)[j + 1])
               = IF j <= p THEN s[j] ELSE s[j + (n + 1)]
  <2>1. CASE j <= p
    <3>1. j < p + 1 /\ j \in 1 .. len - n
      BY <2>1
    <3>2. QED
      BY <1>1, <2>1, <3>1
  <2>2. CASE j > p
    <3>1. ~(j < p + 1) /\ ~(j <= p) /\ j + 1 \in 1 .. len - n /\ ~(j + 1 <= p) /\ (j + 1) + n = j + (n + 1)
      BY <2>2
    <3>2. QED
      BY <1>1, <3>1
  <2>3. QED
    BY <2>1, <2>2
<1>3. len - n - 1 = len - (n + 1)
  OBVIOUS
<1>4. p + 1 \in 1 .. len - n /\ ~(p + 1 <= p)
  OBVIOUS
<1>5. QED
  BY <1>1, <1>2, <1>3, <1>4 DEF Dropped, Cut

\* A range removal cuts the nodes behind the end of the path, while "within" holds.
LEMMA RemoveFromLaid ==
  ASSUME NEW z, NEW s, Laid(z, s), NEW p \in 0 .. z.length, NEW path, PathTo(z, s, path, p), NEW within
  PROVE  \E n \in 0 .. z.length - p :
           /\ Laid(RemoveFrom(z, path, within), Cut(s, z.length, p, n))
           /\ RemoveFrom(z, path, within).length = z.length - n
           /\ \A o \in Objs : RemoveFrom(z, path, within).score[o] =
                IF \E j \in p + 1 .. p + n : s[j] = o THEN NULL ELSE z.score[o]
           /\ \A j \in 0 .. n - 1 : within[s[p + 1 + j]][j]
           /\ n < z.length - p => ~within[s[p + 1 + n]][n]
<1> DEFINE len == z.length
           N == Cardinality(Objs)
           after == CHOOSE f : IsRemoval(f, z, path, N)
           goes(n) == LET x == after[n].forward[0][path[0][1]] IN x # NULL /\ within[x][n]
           removed == CHOOSE n \in 0 .. N : ~goes(n) /\ \A j \in 0 .. n - 1 : goes(j)
           cut(n) == /\ Laid(after[n], Cut(s, len, p, n)) /\ after[n].length = len - n
                     /\ PathTo(after[n], Cut(s, len, p, n), path, p)
                     /\ \A o \in Objs : after[n].score[o] =
                          IF \E j \in p + 1 .. p + n : s[j] = o THEN NULL ELSE z.score[o]
           Wrong == {n \in 0 .. len - p : ~cut(n)}
<1>1. len \in Nat /\ p \in 0 .. len /\ N \in Nat /\ len <= N /\ s \in [1 .. len -> Objs]
  <2>1. len \in 0 .. N
    BY LaidMembers
  <2>2. len \in Nat /\ s \in [1 .. len -> Objs]
    BY MembersOnce DEF Laid
  <2>3. QED
    BY <2>1, <2>2, SkipListAssumption, FS_CardinalityType
<1>2. RemoveFrom(z, path, within) = after[removed]
  BY DEF RemoveFrom, IsRemoval
<1>3. IsRemoval(after, z, path, N)
  BY <1>1, RemovalExists
<1> HIDE DEF after
<1>4. \A n \in 0 .. N :
        after[n] = IF n = 0 THEN z ELSE Unlink(after[n - 1], path, after[n - 1].forward[0][path[0][1]])
  BY <1>3 DEF IsRemoval
\* What is behind the path after n removals.
<1>5. ASSUME NEW n \in 0 .. len - p, cut(n)
      PROVE  after[n].forward[0][path[0][1]] = IF n = len - p THEN NULL ELSE s[p + 1 + n]
  <2> DEFINE e == after[n]
             t == Cut(s, len, p, n)
  <2>1. Laid(e, t) /\ e.length = len - n /\ PathTo(e, t, path, p) /\ p \in 0 .. len - n
    BY <1>1, <1>5
  <2>2. n # len - p => t[p + 1] = s[p + 1 + n]
    <3>1. n # len - p => n \in 0 .. len - p - 1
      BY <1>1
    <3>2. QED
      BY <1>1, <3>1, CutFurther
  <2> HIDE DEF e, t
  <2>3. e.forward[0][Pos(t, p)] = (IF p = e.length THEN NULL ELSE t[p + 1]) /\ path[0] = <<Pos(t, p), p>>
    BY <2>1, PathBottom
  <2>4. p = e.length <=> n = len - p
    BY <1>1, <2>1
  <2>5. QED
    BY <2>2, <2>3, <2>4 DEF e
<1>6. Wrong = {}
  <2>1. SUFFICES ASSUME Wrong # {}
                 PROVE  FALSE
    OBVIOUS
  <2>2. PICK m \in Wrong : \A k \in Wrong : m <= k
    <3>1. Wrong \in SUBSET Nat
      BY <1>1
    <3>2. QED
      BY <2>1, <3>1, LeastNatural
  <2>3. m \in 0 .. len - p /\ ~cut(m)
    OBVIOUS
  <2>4. CASE m = 0
    <3>1. after[0] = z
      BY <1>1, <1>4
    <3>2. Cut(s, len, p, 0) = s
      <4>1. \A j \in 1 .. len : j + 0 = j
        OBVIOUS
      <4>2. len - 0 = len /\ s = [j \in 1 .. len |-> s[j]]
        BY <1>1
      <4>3. QED
        BY <4>1, <4>2 DEF Cut
    <3>3. len - 0 = len /\ ~\E j \in p + 1 .. p + 0 : TRUE
      BY <1>1
    <3>4. cut(0)
      BY <3>1, <3>2, <3>3
    <3>5. QED
      BY <2>3, <2>4, <3>4
  <2>5. CASE m # 0
    <3> DEFINE n == m - 1
               e == after[n]
               t == Cut(s, len, p, n)
               x == t[p + 1]
               r == Unlink(e, path, x)
    <3>1. n \in 0 .. len - p /\ n \in 0 .. len - p - 1 /\ n \notin Wrong /\ m \in 0 .. N /\ n # len - p /\ n + 1 = m
      <4>1. n \in Int /\ m \in Int /\ len - p \in Int /\ n + 1 = m
        BY <1>1, <2>2, <2>3
      <4>2. N \in Int /\ len \in Int /\ p \in Int /\ p >= 0 /\ len <= N
        BY <1>1
      <4>3. n \in 0 .. len - p /\ n \in 0 .. len - p - 1 /\ m \in 0 .. N /\ n # len - p /\ ~(m <= n)
        <5> HIDE DEF n, N
        <5>1. QED
          BY <2>3, <2>5, <4>1, <4>2
      <4>4. QED
        BY <2>2, <4>1, <4>3
    <3>2. cut(n)
      BY <3>1
    <3>3. Dropped(t, len - n, p + 1) = Cut(s, len, p, m) /\ x = s[p + 1 + n]
      <4> HIDE DEF n, Wrong, len, N
      <4>1. QED
        <5>1. Dropped(Cut(s, len, p, n), len - n, p + 1) = Cut(s, len, p, n + 1) /\ t[p + 1] = s[p + 1 + n]
          BY <1>1, <3>1, CutFurther
        <5>2. QED
          BY <3>1, <5>1
    <3>4. after[m] = r
      BY <1>4, <1>5, <2>5, <3>1, <3>2, <3>3
    <3>5. Laid(e, t) /\ e.length = len - n /\ PathTo(e, t, path, p) /\ p \in 0 .. e.length - 1
      BY <1>1, <3>1, <3>2
    <3>6. Laid(r, Dropped(t, e.length, p + 1)) /\ PathTo(r, Dropped(t, e.length, p + 1), path, p)
      <4> HIDE DEF e, t, n
      <4>1. QED
        BY <3>5, UnlinkLaid
    <3>7. r.length = len - m /\ r.score = [e.score EXCEPT ![x] = NULL] /\ e.score \in [Objs -> Scores \cup {NULL}]
      <4>1. r.length = e.length - 1 /\ r.score = [e.score EXCEPT ![x] = NULL]
        BY DEF Unlink
      <4>2. e.score \in [Objs -> Scores \cup {NULL}]
        BY <3>5 DEF Laid, SkipLists
      <4>3. e.length - 1 = len - m
        BY <1>1, <2>3, <3>1, <3>5
      <4>4. QED
        BY <4>1, <4>2, <4>3
    <3>8. ASSUME NEW o \in Objs
          PROVE  r.score[o] = IF \E j \in p + 1 .. p + m : s[j] = o THEN NULL ELSE z.score[o]
      <4>1. e.score[o] = IF \E j \in p + 1 .. p + n : s[j] = o THEN NULL ELSE z.score[o]
        BY <3>2
      <4>2. \A j \in p + 1 .. p + m : j \in p + 1 .. p + n \/ j = p + 1 + n
        BY <1>1, <3>1
      <4>3. p + 1 + n \in p + 1 .. p + m /\ \A j \in p + 1 .. p + n : j \in p + 1 .. p + m
        BY <1>1, <3>1
      <4>4. r.score[o] = IF o = x THEN NULL ELSE e.score[o]
        <5> HIDE DEF r, e, x
        <5>1. QED
          BY <3>7
      <4> HIDE DEF r, e, x, n
      <4>5. QED
        BY <3>3, <4>1, <4>2, <4>3, <4>4
    <3>9. cut(m)
      BY <3>3, <3>4, <3>5, <3>6, <3>7, <3>8
    <3>10. QED
      BY <2>3, <3>9
  <2>6. QED
    BY <2>4, <2>5
<1>7. \A n \in 0 .. len - p : cut(n)
  BY <1>6
<1>8. \A n \in 0 .. len - p : goes(n) <=> n # len - p /\ within[s[p + 1 + n]][n]
  <2>1. \A n \in 0 .. len - p : n # len - p => p + 1 + n \in 1 .. len
    BY <1>1
  <2>2. \A n \in 0 .. len - p : n # len - p => s[p + 1 + n] # NULL
    BY <1>1, <2>1, SkipListAssumption
  <2> HIDE DEF cut
  <2>3. QED
    BY <1>5, <1>7, <2>2
<1> HIDE DEF goes, cut
<1>9. removed \in 0 .. len - p /\ ~goes(removed) /\ \A j \in 0 .. removed - 1 : goes(j)
  <2> DEFINE Stops == {n \in 0 .. len - p : ~goes(n)}
  <2>1. len - p \in 0 .. len - p /\ ~goes(len - p)
    BY <1>1, <1>8
  <2>2. PICK n \in Stops : \A k \in Stops : n <= k
    <3>1. Stops \in SUBSET Nat /\ Stops # {}
      BY <1>1, <2>1
    <3>2. QED
      BY <3>1, LeastNatural
  <2>3. n \in 0 .. len - p /\ n \in 0 .. N /\ ~goes(n) /\ \A j \in 0 .. n - 1 : goes(j)
    <3>1. n \in 0 .. len - p /\ ~goes(n)
      OBVIOUS
    <3>2. \A j \in 0 .. n - 1 : j \in 0 .. len - p /\ ~(n <= j)
      BY <1>1, <3>1
    <3>3. QED
      BY <1>1, <2>2, <3>1, <3>2
  <2>4. ~goes(removed) /\ removed \in 0 .. N /\ \A j \in 0 .. removed - 1 : goes(j)
    BY <2>3
  <2> HIDE DEF removed
  <2>5. removed <= n
    BY <1>1, <2>3, <2>4
  <2>6. QED
    BY <1>1, <2>3, <2>4, <2>5
<1> HIDE DEF removed
<1>10. cut(removed)
  BY <1>7, <1>9
<1>11. /\ \A j \in 0 .. removed - 1 : within[s[p + 1 + j]][j]
       /\ removed < len - p => ~within[s[p + 1 + removed]][removed]
  <2>1. \A j \in 0 .. removed - 1 : j \in 0 .. len - p
    BY <1>1, <1>9
  <2>2. QED
    BY <1>1, <1>8, <1>9, <2>1
<1>12. QED
  BY <1>2, <1>9, <1>10, <1>11 DEF cut
=============================================================================
