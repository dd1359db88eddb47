---------------------------- MODULE SkipListProofs ----------------------------
(***************************************************************************)
(* Theorems about SkipList for every set of members, every set of scores   *)
(* and every number of levels: in every reachable state the list lays out  *)
(* a sequence of its members, so that all its links agree, ranks and       *)
(* ranges are those of the ordered set, and every call implements it.      *)
(***************************************************************************)
EXTENDS SkipLinkProofs

\* The list lays out some sequence, whose members are in the dict.
IInv == (\E s : Laid(zsl, s)) /\ dict = InList(zsl)

LEMMA EmptyLaid ==
  Laid(EmptyList, <<>>)
<1> DEFINE z == EmptyList
<1>1. /\ z.level = 1 /\ z.length = 0 /\ z.tail = NULL
      /\ z.score = [o \in Objs |-> NULL] /\ z.height = [o \in Objs |-> 0]
      /\ z.forward = [i \in Levels |-> [x \in Nodes |-> NULL]]
      /\ z.span = [i \in Levels |-> [x \in Nodes |-> 0]]
      /\ z.backward = [o \in Objs |-> NULL]
      /\ MaxLevel \in Nat \ {0}
  BY SkipListAssumption DEF EmptyList
<1>2. z \in SkipLists
  BY SkipListAssumption DEF EmptyList, SkipLists
<1> HIDE DEF z
<1>3. Members(z, <<>>) /\ Backwards(z, <<>>)
  BY <1>1 DEF Members, Backwards
<1>4. ASSUME NEW i \in Levels
      PROVE  LevelLaid(z, <<>>, i)
  <2>1. NextOn(z, <<>>, i, 0, 1)
    BY <1>1 DEF NextOn, On
  <2>2. LeadsTo(z, <<>>, i, 0, 1)
    BY <1>1 DEF LeadsTo, Pos, Nodes
  <2>3. \A o \in Objs : z.forward[i][o] = NULL
    BY <1>1 DEF Nodes
  <2>4. QED
    BY <1>1, <2>1, <2>2, <2>3 DEF LevelLaid
<1>5. QED
  BY <1>2, <1>3, <1>4 DEF Laid, z

----------------------------------------------------------------------------
\* The order of the list is that of the ordered set.

LEMMA OrderIs ==
  ASSUME NEW s, Laid(zsl, s)
  PROVE  /\ Set!Members = InList(zsl)
         /\ \A x \in Set!Members : \E j \in 1 .. zsl.length : s[j] = x
         /\ \A j \in 1 .. zsl.length : s[j] \in Set!Members
         /\ \A j, k \in 1 .. zsl.length : Set!Below(s[j], s[k]) <=> j < k
<1>1. /\ zsl.length \in Nat /\ s \in [1 .. zsl.length -> Objs]
      /\ \A j, k \in 1 .. zsl.length : s[j] = s[k] => j = k
      /\ \A j \in 1 .. zsl.length : s[j] \in Int
  BY MembersOnce DEF Laid
<1>2. /\ \A j \in 1 .. zsl.length : zsl.score[s[j]] \in Scores
      /\ \A o \in Objs : (\A j \in 1 .. zsl.length : s[j] # o) => zsl.score[o] = NULL
      /\ \A j, k \in 1 .. zsl.length : j < k => Before(zsl, s[j], s[k])
  BY DEF Laid, Members
<1>3. InList(zsl) = {s[j] : j \in 1 .. zsl.length}
  BY LaidMembers
<1>4. \A j \in 1 .. zsl.length : zsl.score[s[j]] # NULL /\ s[j] \in Objs /\ zsl.score[s[j]] \in Int
  BY <1>1, <1>2, SkipListAssumption
<1>5. \A o \in Objs : zsl.score[o] # NULL <=> \E j \in 1 .. zsl.length : s[j] = o
  BY <1>2, <1>4
<1>6. Set!Members = InList(zsl)
  BY <1>3, <1>4, <1>5 DEF Set!Members
<1>7. ASSUME NEW j \in 1 .. zsl.length, NEW k \in 1 .. zsl.length
      PROVE  Set!Below(s[j], s[k]) <=> j < k
  <2>1. CASE j < k
    <3>1. Before(zsl, s[j], s[k])
      BY <1>2, <2>1
    <3>2. QED
      BY <2>1, <3>1 DEF Before, Set!Below
  <2>2. CASE j = k
    <3>1. ~Before(zsl, s[j], s[j])
      BY <1>1, <1>4 DEF Before
    <3>2. QED
      BY <1>1, <2>2, <3>1 DEF Before, Set!Below
  <2>3. CASE k < j
    <3>1. Before(zsl, s[k], s[j])
      BY <1>2, <2>3
    <3>2. QED
      BY <1>1, <1>4, <2>3, <3>1 DEF Before, Set!Below
  <2>4. QED
    BY <1>1, <2>1, <2>2, <2>3
<1>8. QED
  BY <1>3, <1>6, <1>7

LEMMA SetCardinality ==
  \A S : Set!Cardinality(S) = Cardinality(S)
  BY DEF Set!Cardinality, Cardinality

\* As many members as places.
LEMMA PlacesCount ==
  ASSUME NEW s, Laid(zsl, s), NEW a \in 1 .. zsl.length + 1, NEW b \in 0 .. zsl.length, a <= b + 1
  PROVE  Cardinality({s[j] : j \in a .. b}) = b - a + 1 /\ IsFiniteSet({s[j] : j \in a .. b})
<1> DEFINE D == a .. b
           T == {s[j] : j \in a .. b}
<1>1. /\ zsl.length \in Nat /\ s \in [1 .. zsl.length -> Objs]
      /\ \A j, k \in 1 .. zsl.length : s[j] = s[k] => j = k
  BY MembersOnce DEF Laid
<1>2. a \in Int /\ b \in Int /\ \A j \in D : j \in 1 .. zsl.length
  BY <1>1
<1>3. IsFiniteSet(D) /\ Cardinality(D) = b - a + 1
  <2>1. IsFiniteSet(D) /\ Cardinality(D) = IF a > b THEN 0 ELSE b - a + 1
    BY <1>2, FS_Interval
  <2>2. a > b => b - a + 1 = 0
    BY <1>2
  <2> HIDE DEF D
  <2>3. QED
    BY <2>1, <2>2
<1> DEFINE f == [j \in D |-> s[j]]
<1>4. \A x \in T : \E j \in D : s[j] = x
  OBVIOUS
<1>5. \A j \in D : s[j] \in T
  OBVIOUS
<1> HIDE DEF D, T
<1>6. f \in [D -> T] /\ (\A j, k \in D : f[j] = f[k] => j = k) /\ \A x \in T : \E j \in D : f[j] = x
  BY <1>1, <1>2, <1>4, <1>5
<1> HIDE DEF f
<1>7. f \in Bijection(D, T)
  BY <1>6 DEF Bijection, Injection, Surjection, IsInjective
<1>8. IsFiniteSet(T) /\ Cardinality(T) = Cardinality(D)
  BY <1>3, <1>7, FS_Bijection DEF ExistsBijection
<1>9. QED
  BY <1>3, <1>8 DEF T

\* The rank of a member is its place.
LEMMA RankIs ==
  ASSUME NEW s, Laid(zsl, s), NEW k \in 1 .. zsl.length
  PROVE  Set!RankOf(s[k]) = k
<1>1. zsl.length \in Nat
  BY MembersOnce DEF Laid
<1>2. {x \in Set!Members : Set!Below(x, s[k])} = {s[j] : j \in 1 .. k - 1}
  <2>1. \A j \in 1 .. k - 1 : j \in 1 .. zsl.length /\ j < k
    BY <1>1
  <2>2. \A j \in 1 .. zsl.length : j < k => j \in 1 .. k - 1
    BY <1>1
  <2>3. QED
    BY <2>1, <2>2, OrderIs
<1>3. 1 \in 1 .. zsl.length + 1 /\ k - 1 \in 0 .. zsl.length /\ 1 <= (k - 1) + 1
  BY <1>1
<1>4. Cardinality({s[j] : j \in 1 .. k - 1}) = (k - 1) - 1 + 1
  BY <1>3, PlacesCount
<1>5. QED
  <2>1. Set!RankOf(s[k]) = 1 + Cardinality({s[j] : j \in 1 .. k - 1})
    BY <1>2, SetCardinality DEF Set!RankOf
  <2>2. 1 + ((k - 1) - 1 + 1) = k
    BY <1>1
  <2>3. QED
    BY <1>4, <2>1, <2>2

LEMMA AtIs ==
  ASSUME NEW s, Laid(zsl, s)
  PROVE  \A k \in 0 .. zsl.length : At(Pos(s, k)) = k
<1>1. zsl.length \in Nat /\ \A j \in 1 .. zsl.length : s[j] # Header
  BY MembersOnce DEF Laid
<1>2. QED
  BY <1>1, RankIs DEF At, Pos

\* The first and the last of some members.
LEMMA FirstIs ==
  ASSUME NEW s, Laid(zsl, s), NEW S \in SUBSET InList(zsl)
  PROVE  /\ (\A j \in 1 .. zsl.length : s[j] \notin S) => Set!FirstOf(S) = NULL /\ Set!LastOf(S) = NULL
         /\ \A k \in 1 .. zsl.length :
              s[k] \in S =>
                /\ (\A j \in 1 .. zsl.length : s[j] \in S => k <= j) => Set!FirstOf(S) = s[k]
                /\ (\A j \in 1 .. zsl.length : s[j] \in S => j <= k) => Set!LastOf(S) = s[k]
<1>1. /\ zsl.length \in Nat
      /\ \A j, k \in 1 .. zsl.length : s[j] = s[k] => j = k
  BY MembersOnce DEF Laid
<1>2. /\ \A x \in S : \E j \in 1 .. zsl.length : s[j] = x
      /\ \A j, k \in 1 .. zsl.length : Set!Below(s[j], s[k]) <=> j < k
  BY OrderIs
<1>3. ASSUME \A j \in 1 .. zsl.length : s[j] \notin S
      PROVE  Set!FirstOf(S) = NULL /\ Set!LastOf(S) = NULL
  <2>1. S = {}
    BY <1>2, <1>3
  <2>2. QED
    BY <2>1 DEF Set!FirstOf, Set!LastOf
<1>4. ASSUME NEW k \in 1 .. zsl.length, s[k] \in S, \A j \in 1 .. zsl.length : s[j] \in S => k <= j
      PROVE  Set!FirstOf(S) = s[k]
  <2>1. \A y \in S \ {s[k]} : Set!Below(s[k], y)
    <3>1. ASSUME NEW y \in S \ {s[k]}
          PROVE  Set!Below(s[k], y)
      <4>1. PICK j \in 1 .. zsl.length : s[j] = y
        BY <1>2
      <4>2. k < j
        BY <1>1, <1>4, <4>1
      <4>3. QED
        BY <1>2, <4>1, <4>2
    <3>2. QED
      BY <3>1
  <2>2. ASSUME NEW x \in S, \A y \in S \ {x} : Set!Below(x, y)
        PROVE  x = s[k]
    <3>1. PICK j \in 1 .. zsl.length : s[j] = x
      BY <1>2
    <3>2. j # k => j < k
      BY <1>2, <1>4, <2>2, <3>1
    <3>3. k <= j
      BY <1>4, <3>1
    <3>4. QED
      BY <1>1, <3>1, <3>2, <3>3
  <2>3. QED
    BY <1>4, <2>1, <2>2 DEF Set!FirstOf
<1>5. ASSUME NEW k \in 1 .. zsl.length, s[k] \in S, \A j \in 1 .. zsl.length : s[j] \in S => j <= k
      PROVE  Set!LastOf(S) = s[k]
  <2>1. \A y \in S \ {s[k]} : Set!Below(y, s[k])
    <3>1. ASSUME NEW y \in S \ {s[k]}
          PROVE  Set!Below(y, s[k])
      <4>1. PICK j \in 1 .. zsl.length : s[j] = y
        BY <1>2
      <4>2. j < k
        BY <1>1, <1>5, <4>1
      <4>3. QED
        BY <1>2, <4>1, <4>2
    <3>2. QED
      BY <3>1
  <2>2. ASSUME NEW x \in S, \A y \in S \ {x} : Set!Below(y, x)
        PROVE  x = s[k]
    <3>1. PICK j \in 1 .. zsl.length : s[j] = x
      BY <1>2
    <3>2. j # k => k < j
      BY <1>2, <1>5, <2>2, <3>1
    <3>3. j <= k
      BY <1>5, <3>1
    <3>4. QED
      BY <1>1, <3>1, <3>2, <3>3
  <2>3. QED
    BY <1>5, <2>1, <2>2 DEF Set!LastOf
<1>6. QED
  BY <1>3, <1>4, <1>5

----------------------------------------------------------------------------
\* A list that lays out a sequence is well linked.

LEMMA LaidTyped ==
  ASSUME NEW s, Laid(zsl, s), dict = InList(zsl)
  PROVE  TypeOK
<1>1. zsl \in SkipLists
  BY DEF Laid
<1>2. zsl.length \in 0 .. Cardinality(Objs) /\ zsl.length = Cardinality(dict)
  BY LaidMembers
<1>3. QED
  BY <1>1, <1>2 DEF TypeOK, SkipLists

LEMMA LevelsSorted ==
  ASSUME NEW s, Laid(zsl, s)
  PROVE  LevelsAreSorted /\ SpansAreDistances
<1> DEFINE len == zsl.length
<1>1. /\ len \in Nat /\ s \in [1 .. len -> Objs] /\ zsl.level \in 1 .. MaxLevel /\ MaxLevel \in Nat
      /\ zsl.height \in [Objs -> 0 .. MaxLevel]
      /\ \A j, k \in 1 .. len : s[j] = s[k] => j = k
  <2>1. zsl.height \in [Objs -> 0 .. MaxLevel]
    BY DEF Laid, SkipLists
  <2>2. QED
    BY <2>1, MembersOnce DEF Laid
<1>2. ASSUME NEW i \in Levels, NEW x \in OnLevel(i) \cup {Header}
      PROVE  \E k \in 0 .. len : x = Pos(s, k) /\ On(zsl, s, i, k)
  <2>1. CASE x = Header
    BY <1>1, <2>1 DEF Pos, On
  <2>2. CASE x \in OnLevel(i)
    <3>1. x \in Objs /\ zsl.height[x] > i /\ i >= 0 /\ i \in Int /\ zsl.height[x] \in Int
      BY <1>1, <2>2 DEF OnLevel, Levels
    <3>2. x \in InList(zsl)
      BY <3>1 DEF InList
    <3>3. PICK k \in 1 .. len : s[k] = x
      BY <3>2, LaidMembers
    <3>4. QED
      BY <1>1, <3>1, <3>3 DEF Pos, On
  <2>3. QED
    BY <2>1, <2>2
<1>3. ASSUME NEW i \in Levels, NEW j \in 1 .. len
      PROVE  s[j] \in OnLevel(i) <=> On(zsl, s, i, j)
  BY <1>1 DEF OnLevel, On
<1>4. \A j \in 1 .. len : At(s[j]) = j
  BY <1>1, AtIs DEF Pos
<1>5. ASSUME NEW i \in Levels, NEW x \in OnLevel(i) \cup {Header}
      PROVE  zsl.forward[i][x] = Set!FirstOf({y \in OnLevel(i) : At(y) > At(x)})
  <2>1. PICK k \in 0 .. len : x = Pos(s, k) /\ On(zsl, s, i, k)
    BY <1>2
  <2>2. PICK m \in Nat : NextOn(zsl, s, i, k, m) /\ LeadsTo(zsl, s, i, k, m)
    BY <2>1 DEF Laid, LevelLaid
  <2>3. /\ m \in k + 1 .. len + 1 /\ (m <= len => On(zsl, s, i, m))
        /\ \A j \in k + 1 .. m - 1 : ~On(zsl, s, i, j)
    BY <2>2 DEF NextOn
  <2>4. zsl.forward[i][x] = IF m = len + 1 THEN NULL ELSE s[m]
    BY <2>1, <2>2 DEF LeadsTo
  <2>5. At(x) = k
    BY <2>1, AtIs
  <2> DEFINE S == {y \in OnLevel(i) : At(y) > At(x)}
  <2>6. S \in SUBSET InList(zsl)
    <3>1. i >= 0 /\ i \in Int
      BY SkipListAssumption DEF Levels
    <3>2. \A y \in Objs : zsl.height[y] > i => zsl.height[y] > 0
      BY <1>1, <3>1
    <3>3. QED
      BY <3>2 DEF OnLevel, InList
  <2>7. \A j \in 1 .. len : s[j] \in S <=> On(zsl, s, i, j) /\ j > k
    BY <1>3, <1>4, <2>5
  <2> HIDE DEF S
  <2>8. CASE m = len + 1
    <3>1. \A j \in 1 .. len : j > k => j \in k + 1 .. m - 1
      BY <1>1, <2>1, <2>8
    <3>2. \A j \in 1 .. len : s[j] \notin S
      BY <2>3, <2>7, <3>1
    <3>3. Set!FirstOf(S) = NULL
      BY <2>6, <3>2, FirstIs
    <3>4. QED
      BY <2>4, <2>8, <3>3 DEF S
  <2>9. CASE m # len + 1
    <3>1. m \in 1 .. len /\ m > k /\ On(zsl, s, i, m)
      <4>1. len \in Nat /\ k \in 0 .. len /\ m \in k + 1 .. len + 1
        BY <1>1, <2>1, <2>3
      <4>2. m \in 1 .. len /\ m > k /\ m <= len
        BY <2>9, <4>1
      <4>3. QED
        BY <2>3, <4>2
    <3>2. \A j \in 1 .. len : On(zsl, s, i, j) /\ j > k => m <= j
      BY <1>1, <2>1, <2>3, <3>1
    <3>3. Set!FirstOf(S) = s[m]
      BY <2>6, <2>7, <3>1, <3>2, FirstIs
    <3>4. QED
      BY <2>4, <2>9, <3>3 DEF S
  <2>10. QED
    BY <2>8, <2>9
<1>6. ASSUME NEW i \in 0 .. zsl.level - 1, NEW x \in OnLevel(i) \cup {Header}
      PROVE  zsl.span[i][x] = (IF zsl.forward[i][x] = NULL THEN len ELSE At(zsl.forward[i][x])) - At(x)
  <2>0. i \in Levels /\ i < zsl.level
    BY <1>1 DEF Levels
  <2>1. PICK k \in 0 .. len : x = Pos(s, k) /\ On(zsl, s, i, k)
    BY <1>2, <2>0
  <2>2. PICK m \in Nat : NextOn(zsl, s, i, k, m) /\ LeadsTo(zsl, s, i, k, m)
    BY <2>0, <2>1 DEF Laid, LevelLaid
  <2>3. m \in k + 1 .. len + 1
    BY <2>2 DEF NextOn
  <2>4. /\ zsl.forward[i][x] = (IF m = len + 1 THEN NULL ELSE s[m])
        /\ zsl.span[i][x] = (IF m = len + 1 THEN len ELSE m) - k
    BY <2>0, <2>1, <2>2 DEF LeadsTo
  <2>5. At(x) = k
    BY <2>1, AtIs
  <2>6. CASE m = len + 1
    BY <2>4, <2>5, <2>6
  <2>7. CASE m # len + 1
    <3>1. m \in 1 .. len
      <4>1. len \in Nat /\ k \in 0 .. len
        BY <1>1, <2>1
      <4>2. QED
        BY <2>3, <2>7, <4>1
    <3>2. s[m] # NULL /\ At(s[m]) = m
      BY <1>1, <1>4, <3>1, SkipListAssumption
    <3>3. QED
      BY <2>4, <2>5, <2>7, <3>2
  <2>8. QED
    BY <2>6, <2>7
<1>7. QED
  BY <1>5, <1>6 DEF LevelsAreSorted, SpansAreDistances

LEMMA WayBack ==
  ASSUME NEW s, Laid(zsl, s)
  PROVE  BackwardMirrorsForward /\ LevelIsHighest
<1> DEFINE len == zsl.length
<1>1. /\ len \in Nat /\ s \in [1 .. len -> Objs] /\ zsl.level \in 1 .. MaxLevel /\ MaxLevel \in Nat
      /\ \A j, k \in 1 .. len : s[j] = s[k] => j = k
  BY MembersOnce DEF Laid
<1>2. /\ zsl.tail = (IF len = 0 THEN NULL ELSE s[len])
      /\ \A j \in 1 .. len : zsl.backward[s[j]] = IF j = 1 THEN NULL ELSE s[j - 1]
  BY DEF Laid, Backwards
<1>3. /\ \A x \in InList(zsl) : \E j \in 1 .. len : s[j] = x
      /\ \A j \in 1 .. len : s[j] \in InList(zsl) /\ At(s[j]) = j
  BY <1>1, LaidMembers, AtIs DEF Pos
<1>4. zsl.tail = Set!LastOf(InList(zsl))
  <2>1. CASE len = 0
    BY <1>1, <1>2, <2>1, FirstIs
  <2>2. CASE len # 0
    <3>1. len \in 1 .. len /\ \A j \in 1 .. len : j <= len
      BY <1>1, <2>2
    <3>2. Set!LastOf(InList(zsl)) = s[len]
      BY <1>3, <3>1, FirstIs
    <3>3. QED
      BY <1>2, <2>2, <3>2
  <2>3. QED
    BY <2>1, <2>2
<1>5. ASSUME NEW o \in InList(zsl)
      PROVE  zsl.backward[o] = Set!LastOf({y \in InList(zsl) : At(y) < At(o)})
  <2>1. PICK k \in 1 .. len : s[k] = o
    BY <1>3
  <2> DEFINE S == {y \in InList(zsl) : At(y) < At(o)}
  <2>2. S \in SUBSET InList(zsl) /\ \A j \in 1 .. len : s[j] \in S <=> j < k
    BY <1>3, <2>1
  <2> HIDE DEF S
  <2>3. CASE k = 1
    <3>1. \A j \in 1 .. len : s[j] \notin S
      BY <1>1, <2>2, <2>3
    <3>2. Set!LastOf(S) = NULL
      BY <2>2, <3>1, FirstIs
    <3>3. QED
      BY <1>2, <2>1, <2>3, <3>2 DEF S
  <2>4. CASE k # 1
    <3>1. k - 1 \in 1 .. len /\ k - 1 < k /\ \A j \in 1 .. len : j < k => j <= k - 1
      BY <1>1, <2>4
    <3>2. Set!LastOf(S) = s[k - 1]
      BY <2>2, <3>1, FirstIs
    <3>3. QED
      BY <1>2, <2>1, <2>4, <3>2 DEF S
  <2>5. QED
    BY <2>3, <2>4
<1>6. LevelIsHighest
  <2> DEFINE S == {1} \cup {zsl.height[o] : o \in InList(zsl)}
  <2>1. /\ \A j \in 1 .. len : zsl.height[s[j]] \in 1 .. zsl.level
        /\ zsl.level = 1 \/ \E j \in 1 .. len : zsl.height[s[j]] = zsl.level
    BY DEF Laid, Members
  <2>2. S \in SUBSET (0 .. zsl.level) /\ zsl.level \in S /\ S # {}
    <3>1. \A o \in InList(zsl) : zsl.height[o] \in 1 .. zsl.level
      BY <1>3, <2>1
    <3>2. 1 \in 1 .. zsl.level /\ \A h \in 1 .. zsl.level : h \in 0 .. zsl.level
      BY <1>1
    <3>3. zsl.level \in S
      BY <1>3, <2>1
    <3>4. QED
      BY <3>1, <3>2, <3>3
  <2> HIDE DEF S
  <2>3. Max(S) \in S /\ \A y \in S : y <= Max(S)
    <3>1. zsl.level \in Nat
      BY <1>1
    <3>2. QED
      BY <2>2, <3>1, MaxIs
  <2>4. Max(S) \in 0 .. zsl.level /\ zsl.level <= Max(S)
    BY <2>2, <2>3
  <2>5. zsl.level = Max(S)
    BY <1>1, <2>4
  <2>6. QED
    BY <2>5 DEF LevelIsHighest, S
<1>7. QED
  BY <1>4, <1>5, <1>6 DEF BackwardMirrorsForward

LEMMA LaidWellLinked ==
  ASSUME NEW s, Laid(zsl, s)
  PROVE  WellLinked
BY LevelsSorted, WayBack DEF WellLinked

----------------------------------------------------------------------------
\* Ranks.

\* What the levels of a path to place p hold: a place up to p.
LEMMA PathPlaces ==
  ASSUME NEW s, Laid(zsl, s), NEW path, NEW p \in 0 .. zsl.length, PathTo(zsl, s, path, p)
  PROVE  /\ \A i \in 0 .. zsl.level - 1 : \E q \in 0 .. p : path[i][1] = Pos(s, q) /\ path[i][2] = q
         /\ 0 \in 0 .. zsl.level - 1 /\ path[0][1] = Pos(s, p) /\ path[0][2] = p
         /\ \A S \in SUBSET (0 .. zsl.level - 1) : S # {} => Max(S) \in S
<1>1. zsl.level \in 1 .. MaxLevel /\ MaxLevel \in Nat
  BY MembersOnce DEF Laid
<1>2. \A i \in 0 .. zsl.level - 1 : i \in Levels
  BY <1>1 DEF Levels
<1>3. \A i \in 0 .. zsl.level - 1 : \E q \in 0 .. p : path[i] = <<Pos(s, q), q>>
  BY <1>2 DEF PathTo
<1>4. path[0] = <<Pos(s, p), p>>
  BY PathBottom
<1>5. \A S \in SUBSET (0 .. zsl.level - 1) : S # {} => Max(S) \in S
  <2>1. zsl.level - 1 \in Nat
    BY <1>1
  <2>2. QED
    BY <2>1, MaxIs
<1>6. 0 \in 0 .. zsl.level - 1
  BY <1>1
<1>7. QED
  BY <1>3, <1>4, <1>5, <1>6

\* The rank of a member, and 0 for what is not in the list, whatever the score.
LEMMA GetRankIs ==
  ASSUME NEW s, Laid(zsl, s), NEW o \in Objs, NEW c \in Scores
  PROVE  /\ \A k \in 1 .. zsl.length : o = s[k] /\ c = zsl.score[o] => GetRank(zsl, c, o) = k
         /\ o \notin InList(zsl) => GetRank(zsl, c, o) = 0
<1> DEFINE len == zsl.length
           upTo(f) == Precedes(zsl, f, c, o) \/ (zsl.score[f] = c /\ f = o)
           ahead == [f \in Objs |-> [t \in Int |-> upTo(f)]]
           path == Path(zsl, ahead)
           stops == {i \in 0 .. zsl.level - 1 : path[i][1] = o}
<1>1. /\ len \in Nat /\ \A j, k \in 0 .. len : Pos(s, j) = Pos(s, k) => j = k
      /\ \A j \in 1 .. len : s[j] # Header
  BY MembersOnce DEF Laid
<1>2. /\ \A j \in 1 .. len : s[j] \in Int /\ zsl.score[s[j]] \in Int /\ s[j] \in Objs /\ j \in Int
      /\ \A j, k \in 1 .. len : j < k => Before(zsl, s[j], s[k])
      /\ c \in Int /\ o \in Int
  <2>1. /\ \A j \in 1 .. len : s[j] \in Int /\ zsl.score[s[j]] \in Int /\ s[j] \in Objs
        /\ c \in Int /\ o \in Int
    BY PrecedesFirst
  <2>2. \A j, k \in 1 .. len : j < k => Before(zsl, s[j], s[k])
    BY DEF Laid, Members
  <2>3. QED
    BY <2>1, <2>2
<1>3. \A j, k \in 1 .. len : j < k /\ upTo(s[k]) => upTo(s[j])
  <2>1. ASSUME NEW j \in 1 .. len, NEW k \in 1 .. len, j < k, upTo(s[k])
        PROVE  upTo(s[j])
    <3>1. Before(zsl, s[j], s[k])
      BY <1>2, <2>1
    <3>2. QED
      BY <1>2, <2>1, <3>1 DEF Before, Precedes
  <2> HIDE DEF upTo
  <2>2. QED
    BY <2>1
<1>4. \A k \in 1 .. len : o = s[k] /\ c = zsl.score[o] => \A j \in 1 .. len : upTo(s[j]) <=> j <= k
  <2>1. ASSUME NEW k \in 1 .. len, o = s[k], c = zsl.score[o], NEW j \in 1 .. len
        PROVE  upTo(s[j]) <=> j <= k
    <3>1. CASE j < k
      <4>1. Before(zsl, s[j], s[k])
        BY <1>2, <3>1
      <4>2. QED
        BY <1>2, <2>1, <3>1, <4>1 DEF Before, Precedes
    <3>2. CASE j = k
      BY <1>2, <2>1, <3>2
    <3>3. CASE k < j
      <4>1. Before(zsl, s[k], s[j])
        BY <1>2, <3>3
      <4>2. QED
        BY <1>2, <2>1, <3>3, <4>1 DEF Before, Precedes
    <3>4. QED
      BY <1>2, <3>1, <3>2, <3>3
  <2> HIDE DEF upTo
  <2>2. QED
    BY <2>1
<1>5. GetRank(zsl, c, o) = IF stops = {} THEN 0 ELSE path[Max(stops)][2]
  BY DEF GetRank
<1>6. \A j \in 1 .. len : ahead[s[j]][j] <=> upTo(s[j])
  BY <1>2
<1> HIDE DEF upTo, ahead
<1>7. PICK p \in 0 .. len : Splits(zsl, s, ahead, p)
  <2>1. \A j, k \in 1 .. len : j < k /\ ahead[s[k]][k] => ahead[s[j]][j]
    BY <1>3, <1>6
  <2>2. QED
    BY <2>1, Border
<1>8. PathTo(zsl, s, path, p)
  BY <1>7, PathLeads
<1>9. \A j \in 1 .. len : upTo(s[j]) <=> j <= p
  BY <1>6, <1>7 DEF Splits
<1> HIDE DEF path
<1>10. ASSUME NEW k \in 1 .. len, o = s[k], c = zsl.score[o]
       PROVE  GetRank(zsl, c, o) = k
  <2>1. p = k
    <3>1. \A j \in 1 .. len : j <= k <=> j <= p
      BY <1>4, <1>9, <1>10
    <3>2. p = 0 \/ p \in 1 .. len
      BY <1>1
    <3>3. QED
      BY <1>1, <3>1, <3>2
  <2>2. o = Pos(s, k) /\ k \in 0 .. len
    BY <1>1, <1>10 DEF Pos
  <2>3. stops # {}
    BY <1>8, <2>1, <2>2, PathPlaces
  <2>4. Max(stops) \in 0 .. zsl.level - 1 /\ path[Max(stops)][1] = o
    <3> HIDE DEF stops
    <3>1. stops \in SUBSET (0 .. zsl.level - 1) /\ \A i \in stops : path[i][1] = o
      BY DEF stops
    <3>2. Max(stops) \in stops
      BY <1>8, <2>3, <3>1, PathPlaces
    <3>3. QED
      BY <3>1, <3>2
  <2>5. PICK q \in 0 .. p : path[Max(stops)][1] = Pos(s, q) /\ path[Max(stops)][2] = q
    <3> HIDE DEF stops
    <3>1. QED
      BY <1>8, <2>4, PathPlaces
  <2>6. q = k
    <3>1. q \in 0 .. len
      BY <1>1
    <3>2. QED
      BY <1>1, <2>2, <2>4, <2>5, <3>1
  <2>7. QED
    BY <1>5, <2>3, <2>5, <2>6
<1>11. ASSUME o \notin InList(zsl)
       PROVE  GetRank(zsl, c, o) = 0
  <2>1. \A q \in 0 .. p : Pos(s, q) # o
    <3>1. o # Header /\ \A j \in 1 .. len : s[j] # o
      BY <1>11, LaidMembers, SkipListAssumption
    <3>2. \A q \in 0 .. p : q = 0 \/ q \in 1 .. len
      BY <1>1
    <3>3. QED
      BY <3>1, <3>2 DEF Pos
  <2>2. stops = {}
    BY <1>8, <2>1, PathPlaces
  <2>3. QED
    BY <1>5, <2>2
<1>12. QED
  BY <1>10, <1>11

LEMMA GetElementIs ==
  ASSUME NEW s, Laid(zsl, s), NEW n \in Nat \ {0}
  PROVE  GetElementByRank(zsl, n) = IF n \in 1 .. zsl.length THEN s[n] ELSE NULL
<1> DEFINE len == zsl.length
           ahead == [f \in Objs |-> [t \in Int |-> t <= n]]
           path == Path(zsl, ahead)
           stops == {i \in 0 .. zsl.level - 1 : path[i][2] = n}
           p == IF n <= len THEN n ELSE len
<1>1. len \in Nat /\ s \in [1 .. len -> Objs] /\ p \in 0 .. len
  <2>1. len \in Nat /\ s \in [1 .. len -> Objs]
    BY MembersOnce DEF Laid
  <2>2. QED
    BY <2>1
<1>2. GetElementByRank(zsl, n) = IF stops = {} THEN NULL ELSE path[Max(stops)][1]
  BY DEF GetElementByRank
<1>3. \A j \in 1 .. len : ahead[s[j]][j] <=> j <= n
  <2>1. \A j \in 1 .. len : s[j] \in Objs /\ j \in Int
    BY <1>1
  <2> DEFINE small(t) == t <= n
  <2>2. \A j \in 1 .. len : [f \in Objs |-> [t \in Int |-> small(t)]][s[j]][j] <=> small(j)
    <3> HIDE DEF small
    <3>1. QED
      BY <2>1
  <2>3. QED
    BY <2>2
<1> HIDE DEF ahead
<1>4. Splits(zsl, s, ahead, p)
  <2>1. \A j \in 1 .. len : j <= n <=> j <= p
    BY <1>1
  <2>2. QED
    BY <1>3, <2>1 DEF Splits
<1>5. n \in 1 .. len => p = n
  OBVIOUS
<1>6. n \notin 1 .. len => \A q \in 0 .. p : q # n
  <2>1. n \notin 1 .. len => n > len
    BY <1>1
  <2>2. QED
    BY <1>1, <2>1
<1> HIDE DEF p
<1>7. PathTo(zsl, s, path, p)
  BY <1>1, <1>4, PathLeads
<1> HIDE DEF path
<1>8. CASE n \in 1 .. len
  <2>1. stops # {}
    BY <1>1, <1>5, <1>7, <1>8, PathPlaces
  <2>2. Max(stops) \in 0 .. zsl.level - 1 /\ path[Max(stops)][2] = n
    <3> HIDE DEF stops
    <3>1. stops \in SUBSET (0 .. zsl.level - 1) /\ \A i \in stops : path[i][2] = n
      BY DEF stops
    <3>2. Max(stops) \in stops
      BY <1>1, <1>7, <2>1, <3>1, PathPlaces
    <3>3. QED
      BY <3>1, <3>2
  <2>3. path[Max(stops)][1] = Pos(s, n)
    BY <1>1, <1>7, <2>2, PathPlaces
  <2>4. Pos(s, n) = s[n]
    BY DEF Pos
  <2>5. QED
    BY <1>2, <1>8, <2>1, <2>3, <2>4
<1>9. CASE n \notin 1 .. len
  <2>1. stops = {}
    BY <1>1, <1>6, <1>7, <1>9, PathPlaces
  <2>2. QED
    BY <1>2, <1>9, <2>1
<1>10. QED
  BY <1>8, <1>9

LEMMA RanksRight ==
  ASSUME NEW s, Laid(zsl, s)
  PROVE  RanksAreRight
<1>1. zsl.length \in Nat /\ \A j, k \in 1 .. zsl.length : s[j] = s[k] => j = k
  BY MembersOnce DEF Laid
<1>2. InList(zsl) = {s[j] : j \in 1 .. zsl.length} /\ \A j \in 1 .. zsl.length : zsl.score[s[j]] \in Scores
  BY LaidMembers DEF Laid, Members
<1>3. ASSUME NEW o \in Objs, o \in InList(zsl)
      PROVE  GetRank(zsl, zsl.score[o], o) = Set!RankOf(o)
  <2>1. PICK k \in 1 .. zsl.length : o = s[k]
    BY <1>2, <1>3
  <2>2. zsl.score[o] \in Scores
    BY <1>2, <2>1
  <2>3. GetRank(zsl, zsl.score[o], o) = k
    BY <2>1, <2>2, GetRankIs
  <2>4. Set!RankOf(o) = k
    BY <2>1, RankIs
  <2>5. QED
    BY <2>3, <2>4
<1>4. \A o \in Objs, c \in Scores : o \notin InList(zsl) => GetRank(zsl, c, o) = 0
  BY GetRankIs
<1>5. ASSUME NEW n \in 1 .. Cardinality(Objs) + 1
      PROVE  GetElementByRank(zsl, n) = Set!FirstOf({o \in InList(zsl) : Set!RankOf(o) = n})
  <2> DEFINE S == {o \in InList(zsl) : Set!RankOf(o) = n}
  <2>1. n \in Nat \ {0}
    OBVIOUS
  <2>2. \A j \in 1 .. zsl.length : s[j] \in S <=> j = n
    BY <1>2, RankIs
  <2>3. S \in SUBSET InList(zsl)
    OBVIOUS
  <2> HIDE DEF S
  <2>4. Set!FirstOf(S) = IF n \in 1 .. zsl.length THEN s[n] ELSE NULL
    <3>1. CASE n \in 1 .. zsl.length
      <4>1. s[n] \in S /\ \A j \in 1 .. zsl.length : s[j] \in S => n <= j
        BY <1>1, <2>2, <3>1
      <4>2. Set!FirstOf(S) = s[n]
        BY <2>3, <3>1, <4>1, FirstIs
      <4>3. QED
        BY <3>1, <4>2
    <3>2. CASE n \notin 1 .. zsl.length
      <4>1. \A j \in 1 .. zsl.length : s[j] \notin S
        BY <2>2, <3>2
      <4>2. Set!FirstOf(S) = NULL
        BY <2>3, <4>1, FirstIs
      <4>3. QED
        BY <3>2, <4>2
    <3>3. QED
      BY <3>1, <3>2
  <2>5. QED
    BY <2>1, <2>4, GetElementIs DEF S
<1>6. QED
  BY <1>3, <1>4, <1>5 DEF RanksAreRight

----------------------------------------------------------------------------
\* Ranges.

\* The first and the last node.
LEMMA EndsAre ==
  ASSUME NEW s, Laid(zsl, s)
  PROVE  /\ zsl.length \in Nat
         /\ zsl.tail = (IF zsl.length = 0 THEN NULL ELSE s[zsl.length])
         /\ zsl.forward[0][Header] = (IF zsl.length = 0 THEN NULL ELSE s[1])
         /\ \A x \in {zsl.tail, zsl.forward[0][Header]} : x # NULL <=> x \in InList(zsl)
<1>1. zsl.length \in Nat
  BY MembersOnce DEF Laid
<1>2. zsl.tail = IF zsl.length = 0 THEN NULL ELSE s[zsl.length]
  BY DEF Laid, Backwards
<1>3. zsl.forward[0][Header] = IF zsl.length = 0 THEN NULL ELSE s[1]
  <2>1. 0 \in 0 .. zsl.length /\ Pos(s, 0) = Header /\ 0 + 1 = 1
    BY <1>1 DEF Pos
  <2>2. zsl.forward[0][Pos(s, 0)] = IF 0 = zsl.length THEN NULL ELSE s[0 + 1]
    BY <2>1, PathBottom
  <2>3. QED
    BY <2>1, <2>2
<1>4. NULL \notin InList(zsl)
  BY SkipListAssumption DEF InList
<1>5. zsl.length # 0 => s[zsl.length] \in InList(zsl) /\ s[1] \in InList(zsl)
  BY <1>1, LaidMembers
<1>6. QED
  BY <1>1, <1>2, <1>3, <1>4, <1>5

\* G holds the members from the lower bound of a range on, L those up to the upper
\* bound; "in" is the answer of zslIsInRange.
Between(s, G, L, in) ==
  /\ G \in SUBSET InList(zsl) /\ L \in SUBSET InList(zsl)
  /\ \A j, k \in 1 .. zsl.length : j < k => (s[j] \in G => s[k] \in G) /\ (s[k] \in L => s[j] \in L)
  /\ in => zsl.tail \in G /\ zsl.forward[0][Header] \in L
  /\ zsl.tail \in G /\ zsl.forward[0][Header] \in L /\ G \cap L # {} => in

LEMMA NotIn ==
  ASSUME NEW s, Laid(zsl, s), NEW G, NEW L, NEW in, Between(s, G, L, in), ~in
  PROVE  G \cap L = {}
<1>1. SUFFICES ASSUME NEW o \in G \cap L
               PROVE  FALSE
  OBVIOUS
<1>2. PICK j \in 1 .. zsl.length : s[j] = o
  BY LaidMembers DEF Between
<1>3. zsl.length \in Nat /\ zsl.length # 0
  BY <1>2, EndsAre
<1>4. zsl.tail = s[zsl.length] /\ zsl.forward[0][Header] = s[1]
  BY <1>3, EndsAre
<1>5. s[zsl.length] \in G /\ s[1] \in L
  <2>1. (j < zsl.length \/ j = zsl.length) /\ (1 < j \/ 1 = j) /\ 1 \in 1 .. zsl.length /\ zsl.length \in 1 .. zsl.length
    BY <1>3
  <2>2. QED
    BY <1>2, <2>1 DEF Between
<1>6. QED
  BY <1>4, <1>5 DEF Between

LEMMA FirstBetween ==
  ASSUME NEW s, Laid(zsl, s), NEW G, NEW L, NEW in, Between(s, G, L, in),
         NEW ahead, \A j \in 1 .. zsl.length : ahead[s[j]][j] <=> s[j] \notin G,
         NEW x, x = zsl.forward[0][Path(zsl, ahead)[0][1]]
  PROVE  /\ in => x \in InList(zsl)
         /\ Set!FirstOf(G \cap L) = IF in /\ x \in L THEN x ELSE NULL
<1> DEFINE len == zsl.length
<1>1. len \in Nat /\ \A j \in 1 .. len : s[j] \in InList(zsl)
  BY EndsAre, LaidMembers
<1>2. PICK p \in 0 .. len : Splits(zsl, s, ahead, p)
  <2>1. \A j, k \in 1 .. len : j < k /\ ahead[s[k]][k] => ahead[s[j]][j]
    BY DEF Between
  <2>2. QED
    BY <2>1, Border
<1>3. \A j \in 1 .. len : s[j] \notin G <=> j <= p
  BY <1>2 DEF Splits
<1>4. x = IF p = len THEN NULL ELSE s[p + 1]
  <2>1. PathTo(zsl, s, Path(zsl, ahead), p)
    BY <1>2, PathLeads
  <2>2. zsl.forward[0][Pos(s, p)] = (IF p = len THEN NULL ELSE s[p + 1]) /\ Path(zsl, ahead)[0] = <<Pos(s, p), p>>
    BY <2>1, PathBottom
  <2>3. QED
    BY <2>2
<1>5. CASE in
  <2>1. p # len
    <3>1. zsl.tail \in G /\ zsl.tail # NULL
      <4>1. zsl.tail \in G /\ zsl.tail \in InList(zsl)
        BY <1>5 DEF Between
      <4>2. QED
        BY <4>1, EndsAre
    <3>2. len \in 1 .. len /\ zsl.tail = s[len]
      BY <1>1, <3>1, EndsAre
    <3>3. QED
      BY <1>1, <1>3, <3>1, <3>2
  <2>2. p + 1 \in 1 .. len /\ x = s[p + 1]
    BY <1>1, <1>4, <2>1
  <2>3. CASE x \in L
    <3>1. s[p + 1] \in G \cap L
      BY <1>1, <1>3, <2>2, <2>3
    <3>2. \A j \in 1 .. len : s[j] \in G \cap L => p + 1 <= j
      BY <1>1, <1>3
    <3>3. G \cap L \in SUBSET InList(zsl)
      BY DEF Between
    <3>4. Set!FirstOf(G \cap L) = s[p + 1]
      BY <2>2, <3>1, <3>2, <3>3, FirstIs
    <3>5. QED
      BY <1>1, <1>5, <2>2, <2>3, <3>4
  <2>4. CASE x \notin L
    <3>1. ASSUME NEW j \in 1 .. len, s[j] \in G \cap L
          PROVE  FALSE
      <4>1. p + 1 = j \/ p + 1 < j
        BY <1>1, <1>3, <3>1
      <4>2. s[p + 1] \in L
        BY <2>2, <3>1, <4>1 DEF Between
      <4>3. QED
        BY <2>2, <2>4, <4>2
    <3>2. G \cap L \in SUBSET InList(zsl)
      BY DEF Between
    <3>3. Set!FirstOf(G \cap L) = NULL
      BY <3>1, <3>2, FirstIs
    <3>4. QED
      BY <1>1, <2>2, <2>4, <3>3
  <2>5. QED
    BY <2>3, <2>4
<1>6. CASE ~in
  <2>1. G \cap L = {}
    BY <1>6, NotIn
  <2>2. QED
    BY <1>6, <2>1 DEF Set!FirstOf
<1>7. QED
  BY <1>5, <1>6

LEMMA LastBetween ==
  ASSUME NEW s, Laid(zsl, s), NEW G, NEW L, NEW in, Between(s, G, L, in),
         NEW ahead, \A j \in 1 .. zsl.length : ahead[s[j]][j] <=> s[j] \in L,
         NEW x, x = Path(zsl, ahead)[0][1]
  PROVE  /\ in => x \in InList(zsl)
         /\ Set!LastOf(G \cap L) = IF in /\ x \in G THEN x ELSE NULL
<1> DEFINE len == zsl.length
<1>1. len \in Nat /\ \A j \in 1 .. len : s[j] \in InList(zsl)
  BY EndsAre, LaidMembers
<1>2. PICK p \in 0 .. len : Splits(zsl, s, ahead, p)
  <2>1. \A j, k \in 1 .. len : j < k /\ ahead[s[k]][k] => ahead[s[j]][j]
    BY DEF Between
  <2>2. QED
    BY <2>1, Border
<1>3. \A j \in 1 .. len : s[j] \in L <=> j <= p
  BY <1>2 DEF Splits
<1>4. x = Pos(s, p)
  <2>1. PathTo(zsl, s, Path(zsl, ahead), p)
    BY <1>2, PathLeads
  <2>2. Path(zsl, ahead)[0] = <<Pos(s, p), p>>
    BY <2>1, PathBottom
  <2>3. QED
    BY <2>2
<1>5. CASE in
  <2>1. p # 0
    <3>1. zsl.forward[0][Header] \in L /\ zsl.forward[0][Header] # NULL
      <4>1. zsl.forward[0][Header] \in L /\ zsl.forward[0][Header] \in InList(zsl)
        BY <1>5 DEF Between
      <4>2. QED
        BY <4>1, EndsAre
    <3>2. 1 \in 1 .. len /\ zsl.forward[0][Header] = s[1]
      BY <1>1, <3>1, EndsAre
    <3>3. QED
      BY <1>1, <1>3, <3>1, <3>2
  <2>2. p \in 1 .. len /\ x = s[p]
    BY <1>1, <1>4, <2>1 DEF Pos
  <2>3. CASE x \in G
    <3>1. s[p] \in G \cap L
      BY <1>1, <1>3, <2>2, <2>3
    <3>2. \A j \in 1 .. len : s[j] \in G \cap L => j <= p
      BY <1>1, <1>3
    <3>3. G \cap L \in SUBSET InList(zsl)
      BY DEF Between
    <3>4. Set!LastOf(G \cap L) = s[p]
      BY <2>2, <3>1, <3>2, <3>3, FirstIs
    <3>5. QED
      BY <1>1, <1>5, <2>2, <2>3, <3>4
  <2>4. CASE x \notin G
    <3>1. ASSUME NEW j \in 1 .. len, s[j] \in G \cap L
          PROVE  FALSE
      <4>1. j = p \/ j < p
        BY <1>1, <1>3, <3>1
      <4>2. s[p] \in G
        BY <2>2, <3>1, <4>1 DEF Between
      <4>3. QED
        BY <2>2, <2>4, <4>2
    <3>2. G \cap L \in SUBSET InList(zsl)
      BY DEF Between
    <3>3. Set!LastOf(G \cap L) = NULL
      BY <3>1, <3>2, FirstIs
    <3>4. QED
      BY <1>1, <2>2, <2>4, <3>3
  <2>5. QED
    BY <2>3, <2>4
<1>6. CASE ~in
  <2>1. G \cap L = {}
    BY <1>6, NotIn
  <2>2. QED
    BY <1>6, <2>1 DEF Set!LastOf
<1>7. QED
  BY <1>5, <1>6

LEMMA AreMembers ==
  ASSUME NEW s, Laid(zsl, s)
  PROVE  \A j \in 1 .. zsl.length : /\ s[j] \in InList(zsl) /\ s[j] \in Objs /\ j \in Int
                                    /\ zsl.score[s[j]] \in Scores /\ zsl.score[s[j]] \in Int
<1>1. InList(zsl) = {s[j] : j \in 1 .. zsl.length} /\ InList(zsl) \subseteq Objs
  <2>1. InList(zsl) = {s[j] : j \in 1 .. zsl.length}
    BY LaidMembers
  <2>2. InList(zsl) \subseteq Objs
    BY DEF InList
  <2>3. QED
    BY <2>1, <2>2
<1>2. \A j \in 1 .. zsl.length : zsl.score[s[j]] \in Scores
  BY DEF Laid, Members
<1>3. Scores \subseteq Int
  BY SkipListAssumption
<1>4. \A j \in 1 .. zsl.length : s[j] \in InList(zsl) /\ s[j] \in Objs
  BY <1>1
<1>5. \A j \in 1 .. zsl.length : j \in Int
  BY EndsAre
<1>6. QED
  BY <1>2, <1>3, <1>4, <1>5

\* The members from the lower bound of a range of scores on, and up to the upper one.
FromMin(r) == {o \in InList(zsl) : GteMin(zsl.score[o], r)}
ToMax(r) == {o \in InList(zsl) : LteMax(zsl.score[o], r)}

LEMMA ScoreBounds ==
  ASSUME NEW s, Laid(zsl, s), NEW r \in RangeSpec(Scores)
  PROVE  /\ Between(s, FromMin(r), ToMax(r), IsInRange(zsl, r))
         /\ Set!ByScore(r) = FromMin(r) \cap ToMax(r)
         /\ \A o \in InList(zsl) :
              /\ zsl.score[o] \in Int
              /\ o \in FromMin(r) <=> GteMin(zsl.score[o], r)
              /\ o \in ToMax(r) <=> LteMax(zsl.score[o], r)
<1> DEFINE G == FromMin(r)
           L == ToMax(r)
<1>1. r.min \in Int /\ r.max \in Int /\ r.minex \in BOOLEAN /\ r.maxex \in BOOLEAN
  BY SkipListAssumption DEF RangeSpec
<1>2. /\ \A o \in InList(zsl) : zsl.score[o] \in Int
      /\ \A j, k \in 1 .. zsl.length : j < k => zsl.score[s[j]] <= zsl.score[s[k]]
      /\ \A j \in 1 .. zsl.length : s[j] \in InList(zsl)
  <2>1. \A j \in 1 .. zsl.length : zsl.score[s[j]] \in Int /\ s[j] \in InList(zsl)
    BY AreMembers
  <2>2. \A j, k \in 1 .. zsl.length : j < k => Before(zsl, s[j], s[k])
    BY DEF Laid, Members
  <2>3. \A j, k \in 1 .. zsl.length : j < k => zsl.score[s[j]] <= zsl.score[s[k]]
    BY <2>1, <2>2 DEF Before
  <2>4. \A o \in InList(zsl) : \E j \in 1 .. zsl.length : s[j] = o
    BY LaidMembers
  <2>5. QED
    BY <2>1, <2>3, <2>4
<1>3. \A o \in InList(zsl) : (o \in G <=> GteMin(zsl.score[o], r)) /\ (o \in L <=> LteMax(zsl.score[o], r))
  BY DEF FromMin, ToMax
<1>4. G \in SUBSET InList(zsl) /\ L \in SUBSET InList(zsl)
  BY DEF FromMin, ToMax
<1> HIDE DEF G, L
<1>5. ASSUME NEW j \in 1 .. zsl.length, NEW k \in 1 .. zsl.length, j < k
      PROVE  (s[j] \in G => s[k] \in G) /\ (s[k] \in L => s[j] \in L)
  <2>1. zsl.score[s[j]] <= zsl.score[s[k]] /\ zsl.score[s[j]] \in Int /\ zsl.score[s[k]] \in Int
    BY <1>2, <1>5
  <2>2. (GteMin(zsl.score[s[j]], r) => GteMin(zsl.score[s[k]], r)) /\ (LteMax(zsl.score[s[k]], r) => LteMax(zsl.score[s[j]], r))
    BY <1>1, <2>1 DEF GteMin, LteMax
  <2>3. QED
    BY <1>2, <1>3, <2>2
<1>6. G \cap L # {} => ~(r.min > r.max \/ (r.min = r.max /\ (r.minex \/ r.maxex)))
  <2>1. ASSUME NEW v \in Int, GteMin(v, r), LteMax(v, r)
        PROVE  ~(r.min > r.max \/ (r.min = r.max /\ (r.minex \/ r.maxex)))
    BY <1>1, <2>1 DEF GteMin, LteMax
  <2>2. G \cap L # {} => \E o \in InList(zsl) : GteMin(zsl.score[o], r) /\ LteMax(zsl.score[o], r)
    BY <1>3, <1>4
  <2>3. QED
    BY <1>2, <2>1, <2>2
<1>7. /\ zsl.tail \in G <=> zsl.tail # NULL /\ GteMin(zsl.score[zsl.tail], r)
      /\ zsl.forward[0][Header] \in L <=> zsl.forward[0][Header] # NULL /\ LteMax(zsl.score[zsl.forward[0][Header]], r)
  <2>1. /\ zsl.tail # NULL <=> zsl.tail \in InList(zsl)
        /\ zsl.forward[0][Header] # NULL <=> zsl.forward[0][Header] \in InList(zsl)
    BY EndsAre
  <2>2. QED
    BY <1>3, <1>4, <2>1
<1>8. Between(s, G, L, IsInRange(zsl, r))
  BY <1>4, <1>5, <1>6, <1>7 DEF Between, IsInRange
<1>9. Set!ByScore(r) = G \cap L
  <2>1. \A o \in InList(zsl) : Set!InRange(zsl.score[o], r) <=> GteMin(zsl.score[o], r) /\ LteMax(zsl.score[o], r)
    BY DEF Set!InRange, GteMin, LteMax
  <2>2. Set!Members = InList(zsl)
    BY OrderIs
  <2>3. \A o : o \in Set!ByScore(r) <=> o \in InList(zsl) /\ Set!InRange(zsl.score[o], r)
    BY <2>2 DEF Set!ByScore
  <2>4. \A o : o \in Set!ByScore(r) <=> o \in G \cap L
    BY <1>3, <1>4, <2>1, <2>3
  <2>5. QED
    BY <2>4
<1>10. QED
  BY <1>2, <1>3, <1>8, <1>9 DEF G, L

LEMMA ScoreRangesRight ==
  ASSUME NEW s, Laid(zsl, s)
  PROVE  ScoreRanges
<1>1. SUFFICES ASSUME NEW r \in RangeSpec(Scores)
               PROVE  /\ FirstInRange(zsl, r) = Set!FirstOf(Set!ByScore(r))
                      /\ LastInRange(zsl, r) = Set!LastOf(Set!ByScore(r))
  BY DEF ScoreRanges
<1> DEFINE below == [f \in Objs |-> [t \in Int |-> ~GteMin(zsl.score[f], r)]]
           upTo == [f \in Objs |-> [t \in Int |-> LteMax(zsl.score[f], r)]]
           in == IsInRange(zsl, r)
           G == FromMin(r)
           L == ToMax(r)
<1>2. /\ Between(s, G, L, in) /\ Set!ByScore(r) = G \cap L
      /\ \A o \in InList(zsl) : (o \in G <=> GteMin(zsl.score[o], r)) /\ (o \in L <=> LteMax(zsl.score[o], r))
  BY ScoreBounds
<1>3. \A j \in 1 .. zsl.length : s[j] \in InList(zsl) /\ s[j] \in Objs /\ j \in Int
  BY AreMembers
<1>4. \A j \in 1 .. zsl.length : below[s[j]][j] <=> s[j] \notin G
  <2>1. \A j \in 1 .. zsl.length : below[s[j]][j] <=> ~GteMin(zsl.score[s[j]], r)
    BY <1>3
  <2> HIDE DEF below, G
  <2>2. QED
    BY <1>2, <1>3, <2>1
<1>5. \A j \in 1 .. zsl.length : upTo[s[j]][j] <=> s[j] \in L
  <2>1. \A j \in 1 .. zsl.length : upTo[s[j]][j] <=> LteMax(zsl.score[s[j]], r)
    BY <1>3
  <2> HIDE DEF upTo, L
  <2>2. QED
    BY <1>2, <1>3, <2>1
<1>6. FirstInRange(zsl, r) = LET x == zsl.forward[0][Path(zsl, below)[0][1]]
                             IN IF in /\ LteMax(zsl.score[x], r) THEN x ELSE NULL
  BY DEF FirstInRange
<1>7. LastInRange(zsl, r) = LET x == Path(zsl, upTo)[0][1]
                            IN IF in /\ GteMin(zsl.score[x], r) THEN x ELSE NULL
  BY DEF LastInRange
<1> HIDE DEF below, upTo, in, G, L
<1>8. FirstInRange(zsl, r) = Set!FirstOf(G \cap L)
  <2> DEFINE x == zsl.forward[0][Path(zsl, below)[0][1]]
  <2>1. (in => x \in InList(zsl)) /\ Set!FirstOf(G \cap L) = IF in /\ x \in L THEN x ELSE NULL
    BY <1>2, <1>4, FirstBetween
  <2>2. FirstInRange(zsl, r) = IF in /\ LteMax(zsl.score[x], r) THEN x ELSE NULL
    BY <1>6
  <2> HIDE DEF x
  <2>3. QED
    BY <1>2, <2>1, <2>2
<1>9. LastInRange(zsl, r) = Set!LastOf(G \cap L)
  <2> DEFINE x == Path(zsl, upTo)[0][1]
  <2>1. (in => x \in InList(zsl)) /\ Set!LastOf(G \cap L) = IF in /\ x \in G THEN x ELSE NULL
    BY <1>2, <1>5, LastBetween
  <2>2. LastInRange(zsl, r) = IF in /\ GteMin(zsl.score[x], r) THEN x ELSE NULL
    BY <1>7
  <2> HIDE DEF x
  <2>3. QED
    BY <1>2, <2>1, <2>2
<1>10. QED
  BY <1>2, <1>8, <1>9

\* Likewise for a range of members of one score.
FromLexMin(r) == {o \in InList(zsl) : LexGteMin(o, r)}
ToLexMax(r) == {o \in InList(zsl) : LexLteMax(o, r)}

OneScore == \A x, y \in InList(zsl) : zsl.score[x] = zsl.score[y]

LEMMA LexBounds ==
  ASSUME NEW s, Laid(zsl, s), OneScore, NEW r \in RangeSpec(Bounds)
  PROVE  /\ Between(s, FromLexMin(r), ToLexMax(r), IsInLexRange(zsl, r))
         /\ Set!ByLex(r) = FromLexMin(r) \cap ToLexMax(r)
         /\ \A o \in InList(zsl) :
              (o \in FromLexMin(r) <=> LexGteMin(o, r)) /\ (o \in ToLexMax(r) <=> LexLteMax(o, r))
<1> DEFINE G == FromLexMin(r)
           L == ToLexMax(r)
           N == Cardinality(Objs)
<1>1. /\ N \in Nat /\ r.min \in 0 .. N + 1 /\ r.max \in 0 .. N + 1
      /\ r.minex \in BOOLEAN /\ r.maxex \in BOOLEAN
  <2>1. N \in Nat /\ Objs = 1 .. N
    BY SkipListAssumption, FS_CardinalityType
  <2>2. Bounds \subseteq 0 .. N + 1
    BY <2>1 DEF Bounds, MinString, MaxString
  <2>3. QED
    BY <2>1, <2>2 DEF RangeSpec
<1>2. /\ \A o \in InList(zsl) : o \in 1 .. N
      /\ \A j, k \in 1 .. zsl.length : j < k => s[j] < s[k]
      /\ \A j \in 1 .. zsl.length : s[j] \in InList(zsl)
  <2>1. \A j \in 1 .. zsl.length : zsl.score[s[j]] \in Int /\ s[j] \in InList(zsl)
    BY AreMembers
  <2>2. \A j, k \in 1 .. zsl.length : j < k => Before(zsl, s[j], s[k])
    BY DEF Laid, Members
  <2>3. \A j, k \in 1 .. zsl.length : j < k => s[j] < s[k]
    BY <2>1, <2>2 DEF Before, OneScore
  <2>4. \A o \in InList(zsl) : o \in 1 .. N
    BY SkipListAssumption DEF InList
  <2>5. QED
    BY <2>1, <2>3, <2>4
\* The order of the bounds and the members is that of the numbers.
<1>3. ASSUME NEW v \in 1 .. N
      PROVE  /\ LexGteMin(v, r) <=> IF r.minex THEN v > r.min ELSE v >= r.min
             /\ LexLteMax(v, r) <=> IF r.maxex THEN v < r.max ELSE v <= r.max
  <2>1. \A b \in 0 .. N + 1 : /\ LexCompare(v, b) > 0 <=> v > b
                              /\ LexCompare(v, b) >= 0 <=> v >= b
                              /\ LexCompare(v, b) < 0 <=> v < b
                              /\ LexCompare(v, b) <= 0 <=> v <= b
    BY <1>1 DEF LexCompare, MinString, MaxString
  <2>2. QED
    BY <1>1, <2>1 DEF LexGteMin, LexLteMax
<1>4. \A o \in InList(zsl) : (o \in G <=> LexGteMin(o, r)) /\ (o \in L <=> LexLteMax(o, r))
  BY DEF FromLexMin, ToLexMax
<1>5. G \in SUBSET InList(zsl) /\ L \in SUBSET InList(zsl)
  BY DEF FromLexMin, ToLexMax
<1> HIDE DEF G, L, N
<1>6. ASSUME NEW j \in 1 .. zsl.length, NEW k \in 1 .. zsl.length, j < k
      PROVE  (s[j] \in G => s[k] \in G) /\ (s[k] \in L => s[j] \in L)
  <2>1. s[j] < s[k] /\ s[j] \in 1 .. N /\ s[k] \in 1 .. N
    BY <1>2, <1>6
  <2>2. (LexGteMin(s[j], r) => LexGteMin(s[k], r)) /\ (LexLteMax(s[k], r) => LexLteMax(s[j], r))
    BY <1>1, <1>3, <2>1
  <2>3. QED
    BY <1>2, <1>4, <2>2
<1>7. G \cap L # {} => ~(LexCompare(r.min, r.max) > 1 \/ (r.min = r.max /\ (r.minex \/ r.maxex)))
  <2>1. ASSUME NEW v \in 1 .. N, LexGteMin(v, r), LexLteMax(v, r)
        PROVE  ~(LexCompare(r.min, r.max) > 1 \/ (r.min = r.max /\ (r.minex \/ r.maxex)))
    <3>1. v >= r.min /\ v <= r.max /\ (r.minex => v > r.min) /\ (r.maxex => v < r.max)
      BY <1>1, <1>3, <2>1
    <3>2. r.min <= r.max /\ ~(r.min = r.max /\ (r.minex \/ r.maxex))
      BY <1>1, <3>1
    <3>3. ~(LexCompare(r.min, r.max) > 1)
      BY <1>1, <3>1, <3>2 DEF LexCompare, MinString, MaxString, N
    <3>4. QED
      BY <3>2, <3>3
  <2>2. G \cap L # {} => \E o \in InList(zsl) : LexGteMin(o, r) /\ LexLteMax(o, r)
    BY <1>4, <1>5
  <2>3. QED
    BY <1>2, <2>1, <2>2
<1>8. /\ zsl.tail \in G <=> zsl.tail # NULL /\ LexGteMin(zsl.tail, r)
      /\ zsl.forward[0][Header] \in L <=> zsl.forward[0][Header] # NULL /\ LexLteMax(zsl.forward[0][Header], r)
  <2>1. /\ zsl.tail # NULL <=> zsl.tail \in InList(zsl)
        /\ zsl.forward[0][Header] # NULL <=> zsl.forward[0][Header] \in InList(zsl)
    BY EndsAre
  <2>2. QED
    BY <1>4, <1>5, <2>1
<1>9. Between(s, G, L, IsInLexRange(zsl, r))
  BY <1>5, <1>6, <1>7, <1>8 DEF Between, IsInLexRange
<1>10. Set!ByLex(r) = G \cap L
  <2>1. \A o \in InList(zsl) : Set!InRange(o, r) <=> LexGteMin(o, r) /\ LexLteMax(o, r)
    BY <1>2, <1>3 DEF Set!InRange
  <2>2. Set!Members = InList(zsl)
    BY OrderIs
  <2>3. \A o : o \in Set!ByLex(r) <=> o \in InList(zsl) /\ Set!InRange(o, r)
    BY <2>2 DEF Set!ByLex
  <2>4. \A o : o \in Set!ByLex(r) <=> o \in G \cap L
    BY <1>4, <1>5, <2>1, <2>3
  <2>5. QED
    BY <2>4
<1>11. QED
  BY <1>4, <1>9, <1>10 DEF G, L

LEMMA LexRangesRight ==
  ASSUME NEW s, Laid(zsl, s)
  PROVE  LexRanges
<1>1. SUFFICES ASSUME OneScore, NEW r \in RangeSpec(Bounds)
               PROVE  /\ FirstInLexRange(zsl, r) = Set!FirstOf(Set!ByLex(r))
                      /\ LastInLexRange(zsl, r) = Set!LastOf(Set!ByLex(r))
  BY DEF LexRanges, OneScore
<1> DEFINE below == [f \in Objs |-> [t \in Int |-> ~LexGteMin(f, r)]]
           upTo == [f \in Objs |-> [t \in Int |-> LexLteMax(f, r)]]
           in == IsInLexRange(zsl, r)
           G == FromLexMin(r)
           L == ToLexMax(r)
<1>2. /\ Between(s, G, L, in) /\ Set!ByLex(r) = G \cap L
      /\ \A o \in InList(zsl) : (o \in G <=> LexGteMin(o, r)) /\ (o \in L <=> LexLteMax(o, r))
  BY <1>1, LexBounds
<1>3. \A j \in 1 .. zsl.length : s[j] \in InList(zsl) /\ s[j] \in Objs /\ j \in Int
  BY AreMembers
<1>4. \A j \in 1 .. zsl.length : below[s[j]][j] <=> s[j] \notin G
  <2>1. \A j \in 1 .. zsl.length : below[s[j]][j] <=> ~LexGteMin(s[j], r)
    BY <1>3
  <2> HIDE DEF below, G
  <2>2. QED
    BY <1>2, <1>3, <2>1
<1>5. \A j \in 1 .. zsl.length : upTo[s[j]][j] <=> s[j] \in L
  <2>1. \A j \in 1 .. zsl.length : upTo[s[j]][j] <=> LexLteMax(s[j], r)
    BY <1>3
  <2> HIDE DEF upTo, L
  <2>2. QED
    BY <1>2, <1>3, <2>1
<1>6. FirstInLexRange(zsl, r) = LET x == zsl.forward[0][Path(zsl, below)[0][1]]
                                IN IF in /\ LexLteMax(x, r) THEN x ELSE NULL
  BY DEF FirstInLexRange
<1>7. LastInLexRange(zsl, r) = LET x == Path(zsl, upTo)[0][1]
                               IN IF in /\ LexGteMin(x, r) THEN x ELSE NULL
  BY DEF LastInLexRange
<1> HIDE DEF below, upTo, in, G, L
<1>8. FirstInLexRange(zsl, r) = Set!FirstOf(G \cap L)
  <2> DEFINE x == zsl.forward[0][Path(zsl, below)[0][1]]
  <2>1. (in => x \in InList(zsl)) /\ Set!FirstOf(G \cap L) = IF in /\ x \in L THEN x ELSE NULL
    BY <1>2, <1>4, FirstBetween
  <2>2. FirstInLexRange(zsl, r) = IF in /\ LexLteMax(x, r) THEN x ELSE NULL
    BY <1>6
  <2> HIDE DEF x
  <2>3. QED
    BY <1>2, <2>1, <2>2
<1>9. LastInLexRange(zsl, r) = Set!LastOf(G \cap L)
  <2> DEFINE x == Path(zsl, upTo)[0][1]
  <2>1. (in => x \in InList(zsl)) /\ Set!LastOf(G \cap L) = IF in /\ x \in G THEN x ELSE NULL
    BY <1>2, <1>5, LastBetween
  <2>2. LastInLexRange(zsl, r) = IF in /\ LexGteMin(x, r) THEN x ELSE NULL
    BY <1>7
  <2> HIDE DEF x
  <2>3. QED
    BY <1>2, <2>1, <2>2
<1>10. QED
  BY <1>2, <1>8, <1>9

----------------------------------------------------------------------------
\* The calls implement those of the ordered set.

\* The list without the members of S.
Without(e, S) ==
  /\ \E t : Laid(e, t)
  /\ InList(e) = InList(zsl) \ S
  /\ e.score = [o \in Objs |-> IF o \in S THEN NULL ELSE zsl.score[o]]
  /\ zsl.length - e.length = Cardinality(S)
  /\ Cardinality(S) \in 0 .. Cardinality(Objs)

LEMMA ScoreSaysIn ==
  ASSUME NEW z, NEW s, Laid(z, s)
  PROVE  InList(z) = {o \in Objs : z.score[o] # NULL} /\ z.score \in [Objs -> Scores \cup {NULL}]
<1>1. InList(z) = {s[j] : j \in 1 .. z.length}
  BY LaidMembers
<1>2. \A j \in 1 .. z.length : z.score[s[j]] # NULL
  BY SkipListAssumption DEF Laid, Members
<1>3. \A o \in Objs : (\A j \in 1 .. z.length : s[j] # o) => z.score[o] = NULL
  BY DEF Laid, Members
<1>4. s \in [1 .. z.length -> Objs]
  BY DEF Laid, Members
<1>5. InList(z) = {o \in Objs : z.score[o] # NULL}
  BY <1>1, <1>2, <1>3, <1>4
<1>6. z.score \in [Objs -> Scores \cup {NULL}]
  BY DEF Laid, SkipLists
<1>7. QED
  BY <1>5, <1>6

LEMMA RemovalIs ==
  ASSUME NEW s, Laid(zsl, s), NEW p \in 0 .. zsl.length, NEW path, PathTo(zsl, s, path, p), NEW within,
         NEW S \in SUBSET InList(zsl),
         \A j \in 1 .. zsl.length : s[j] \in S <=> j > p /\ within[s[j]][j - p - 1],
         \A j, k \in 1 .. zsl.length : p < j /\ j < k /\ s[k] \in S => s[j] \in S
  PROVE  Without(RemoveFrom(zsl, path, within), S)
<1> DEFINE len == zsl.length
           e == RemoveFrom(zsl, path, within)
<1>1. len \in Nat /\ len \in 0 .. Cardinality(Objs) /\ \A j \in 1 .. len : s[j] \in InList(zsl)
  BY EndsAre, LaidMembers
<1>2. PICK n \in 0 .. len - p :
        /\ Laid(e, Cut(s, len, p, n)) /\ e.length = len - n
        /\ \A o \in Objs : e.score[o] = IF \E j \in p + 1 .. p + n : s[j] = o THEN NULL ELSE zsl.score[o]
        /\ \A j \in 0 .. n - 1 : within[s[p + 1 + j]][j]
        /\ n < len - p => ~within[s[p + 1 + n]][n]
  BY RemoveFromLaid
<1> HIDE DEF e
\* The places that are cut are those of S.
<1>3. \A j \in 1 .. len : s[j] \in S <=> j \in p + 1 .. p + n
  <2>1. ASSUME NEW j \in p + 1 .. p + n
        PROVE  s[j] \in S
    <3>1. j - p - 1 \in 0 .. n - 1 /\ p + 1 + (j - p - 1) = j /\ j \in 1 .. len /\ j > p
      BY <1>1
    <3>2. within[s[j]][j - p - 1]
      BY <1>2, <3>1
    <3>3. QED
      BY <3>1, <3>2
  <2>2. ASSUME NEW j \in 1 .. len, s[j] \in S, j \notin p + 1 .. p + n
        PROVE  FALSE
    <3>1. j > p
      BY <2>2
    <3>2. n < len - p /\ p + 1 + n \in 1 .. len /\ p < p + 1 + n /\ (p + 1 + n) - p - 1 = n /\ p + 1 + n <= j
      BY <1>1, <2>2, <3>1
    <3>3. s[p + 1 + n] \notin S
      BY <1>2, <3>2
    <3>4. p + 1 + n = j \/ p + 1 + n < j
      BY <1>1, <3>2
    <3>5. QED
      BY <2>2, <3>2, <3>3, <3>4
  <2>3. QED
    BY <2>1, <2>2
<1>4. S = {s[j] : j \in p + 1 .. p + n}
  <2>1. \A j \in p + 1 .. p + n : j \in 1 .. len
    BY <1>1
  <2>2. \A o \in InList(zsl) : \E j \in 1 .. len : s[j] = o
    BY LaidMembers
  <2>3. \A o \in S : \E j \in p + 1 .. p + n : s[j] = o
    BY <1>3, <2>2
  <2>4. \A j \in p + 1 .. p + n : s[j] \in S
    BY <1>3, <2>1
  <2>5. QED
    BY <2>3, <2>4
<1>5. Cardinality(S) = n
  <2>1. p + 1 \in 1 .. len + 1 /\ p + n \in 0 .. len /\ p + 1 <= p + n + 1 /\ (p + n) - (p + 1) + 1 = n
    BY <1>1
  <2>2. Cardinality({s[j] : j \in p + 1 .. p + n}) = (p + n) - (p + 1) + 1
    BY <2>1, PlacesCount
  <2>3. QED
    BY <1>4, <2>1, <2>2
<1>6. e.score = [o \in Objs |-> IF o \in S THEN NULL ELSE zsl.score[o]]
  <2>1. e.score \in [Objs -> Scores \cup {NULL}]
    BY <1>2, ScoreSaysIn
  <2>2. \A o \in Objs : (\E j \in p + 1 .. p + n : s[j] = o) <=> o \in S
    BY <1>4
  <2>3. \A o \in Objs : e.score[o] = IF o \in S THEN NULL ELSE zsl.score[o]
    BY <1>2, <2>2
  <2>4. QED
    BY <2>1, <2>3
<1>7. InList(e) = InList(zsl) \ S
  <2>1. InList(e) = {o \in Objs : e.score[o] # NULL} /\ InList(zsl) = {o \in Objs : zsl.score[o] # NULL}
    BY <1>2, ScoreSaysIn
  <2>2. QED
    BY <1>6, <2>1
<1>8. len - e.length = Cardinality(S) /\ Cardinality(S) \in 0 .. Cardinality(Objs)
  <2>1. Cardinality(Objs) \in Nat
    BY SkipListAssumption, FS_CardinalityType
  <2>2. QED
    BY <1>1, <1>2, <1>5, <2>1
<1>9. QED
  BY <1>2, <1>6, <1>7, <1>8 DEF Without, e

\* What follows for the call, and for the set.
LEMMA RemovalSteps ==
  ASSUME IInv, NEW e, NEW S, Without(e, S), NEW call, NEW range, Removal(call, range, e),
         NEW inRange, range \in DOMAIN inRange, inRange[range] = S
  PROVE  IInv' /\ Set!Remove(call, inRange)
<1>1. zsl' = e /\ dict' = dict \ (InList(zsl) \ InList(e)) /\ ret' = <<call, range, zsl.length - e.length>>
  BY DEF Removal
<1>2. dict' = InList(e)
  BY <1>1 DEF IInv, Without
<1>3. IInv'
  <2>1. \E t : Laid(zsl', t)
    BY <1>1 DEF Without
  <2>2. dict' = InList(zsl')
    BY <1>1, <1>2
  <2>3. QED
    BY <2>1, <2>2 DEF IInv
<1>4. ret' = <<call, range, Cardinality(S)>>
  BY <1>1 DEF Without
<1>5. ret' \in {call} \X (DOMAIN inRange) \X (0 .. Set!Cardinality(Objs))
  BY <1>4, SetCardinality DEF Without
<1>6. ret'[2] = range /\ ret'[3] = Set!Cardinality(S)
  BY <1>4, SetCardinality
<1>7. zsl'.score = [o \in Objs |-> IF o \in S THEN NULL ELSE zsl.score[o]]
  BY <1>1 DEF Without
<1>8. QED
  BY <1>3, <1>5, <1>6, <1>7 DEF Set!Remove

LEMMA SetParts ==
  Set!RangeSpec(Scores) = RangeSpec(Scores) /\ Set!RangeSpec(Set!Bounds) = RangeSpec(Bounds)
<1>1. Set!Bounds = Bounds
  BY SetCardinality DEF Set!Bounds, Bounds, MinString, MaxString
<1>2. QED
  BY <1>1 DEF Set!RangeSpec, RangeSpec

LEMMA ByScoreSteps ==
  ASSUME IInv, NEW r \in RangeSpec(Scores), DeleteRangeByScore(r)
  PROVE  IInv' /\ Set!Next
<1> DEFINE ahead == [f \in Objs |-> [t \in Int |-> IF r.minex THEN zsl.score[f] <= r.min ELSE zsl.score[f] < r.min]]
           path == Path(zsl, ahead)
           within == [x \in Objs |-> [n \in Nat |-> LteMax(zsl.score[x], r)]]
           e == RemoveFrom(zsl, path, within)
           S == Set!ByScore(r)
           inRange == [q \in Set!RangeSpec(Scores) |-> Set!ByScore(q)]
<1>1. PICK s : Laid(zsl, s)
  BY DEF IInv
<1>2. /\ Between(s, FromMin(r), ToMax(r), IsInRange(zsl, r)) /\ S = FromMin(r) \cap ToMax(r)
      /\ \A o \in InList(zsl) : /\ zsl.score[o] \in Int
                                /\ o \in FromMin(r) <=> GteMin(zsl.score[o], r)
                                /\ o \in ToMax(r) <=> LteMax(zsl.score[o], r)
  BY <1>1, ScoreBounds
<1>3. /\ zsl.length \in Nat
      /\ \A j \in 1 .. zsl.length : s[j] \in InList(zsl) /\ s[j] \in Objs /\ j \in Int
  BY <1>1, AreMembers, EndsAre
<1>4. Removal("by score", r, e)
  BY DEF DeleteRangeByScore
<1> HIDE DEF S
<1>5. \A j \in 1 .. zsl.length : ahead[s[j]][j] <=> s[j] \notin FromMin(r)
  <2>1. \A j \in 1 .. zsl.length :
          ahead[s[j]][j] <=> IF r.minex THEN zsl.score[s[j]] <= r.min ELSE zsl.score[s[j]] < r.min
    BY <1>3
  <2>2. \A v \in Int : (IF r.minex THEN v <= r.min ELSE v < r.min) <=> ~GteMin(v, r)
    <3>1. r.min \in Int /\ r.minex \in BOOLEAN
      BY SkipListAssumption DEF RangeSpec
    <3>2. QED
      BY <3>1 DEF GteMin
  <2> HIDE DEF ahead
  <2>3. QED
    BY <1>2, <1>3, <2>1, <2>2
<1>6. \A j \in 1 .. zsl.length, n \in Nat : within[s[j]][n] <=> s[j] \in ToMax(r)
  <2>1. \A j \in 1 .. zsl.length, n \in Nat : within[s[j]][n] <=> LteMax(zsl.score[s[j]], r)
    BY <1>3
  <2> HIDE DEF within
  <2>2. QED
    BY <1>2, <1>3, <2>1
<1> HIDE DEF ahead, within
<1>7. PICK p \in 0 .. zsl.length : Splits(zsl, s, ahead, p)
  <2>1. \A j, k \in 1 .. zsl.length : j < k /\ ahead[s[k]][k] => ahead[s[j]][j]
    BY <1>2, <1>5 DEF Between
  <2>2. QED
    BY <1>1, <2>1, Border
<1>8. PathTo(zsl, s, path, p)
  BY <1>1, <1>7, PathLeads
<1> HIDE DEF path
<1>9. \A j \in 1 .. zsl.length : s[j] \in S <=> j > p /\ s[j] \in ToMax(r)
  <2>1. \A j \in 1 .. zsl.length : s[j] \notin FromMin(r) <=> j <= p
    BY <1>5, <1>7 DEF Splits
  <2>2. QED
    BY <1>2, <1>3, <2>1
<1>10. \A j \in 1 .. zsl.length : s[j] \in S <=> j > p /\ within[s[j]][j - p - 1]
  <2>1. \A j \in 1 .. zsl.length : j > p => j - p - 1 \in Nat
    BY <1>3
  <2>2. QED
    BY <1>6, <1>9, <2>1
<1>11. \A j, k \in 1 .. zsl.length : p < j /\ j < k /\ s[k] \in S => s[j] \in S
  BY <1>2, <1>9 DEF Between
<1>12. S \in SUBSET InList(zsl)
  BY <1>2 DEF Between
<1>13. Without(e, S)
  BY <1>1, <1>8, <1>10, <1>11, <1>12, RemovalIs
<1> HIDE DEF e
<1>14. r \in DOMAIN inRange /\ inRange[r] = S
  BY SetParts DEF S
<1> HIDE DEF inRange
<1>15. IInv' /\ Set!Remove("by score", inRange)
  BY <1>4, <1>13, <1>14, RemovalSteps
<1>16. QED
  BY <1>15 DEF Set!Next, inRange

LEMMA ByLexSteps ==
  ASSUME IInv, NEW r \in RangeSpec(Bounds), DeleteRangeByLex(r)
  PROVE  IInv' /\ Set!Next
<1> DEFINE ahead == [f \in Objs |-> [t \in Int |-> ~LexGteMin(f, r)]]
           path == Path(zsl, ahead)
           within == [x \in Objs |-> [n \in Nat |-> LexLteMax(x, r)]]
           e == RemoveFrom(zsl, path, within)
           S == Set!ByLex(r)
           inRange == [q \in Set!RangeSpec(Set!Bounds) |-> Set!ByLex(q)]
<1>1. PICK s : Laid(zsl, s)
  BY DEF IInv
<1>0. OneScore
  BY DEF DeleteRangeByLex, OneScore
<1>2. /\ Between(s, FromLexMin(r), ToLexMax(r), IsInLexRange(zsl, r)) /\ S = FromLexMin(r) \cap ToLexMax(r)
      /\ \A o \in InList(zsl) :
           (o \in FromLexMin(r) <=> LexGteMin(o, r)) /\ (o \in ToLexMax(r) <=> LexLteMax(o, r))
  BY <1>0, <1>1, LexBounds
<1>3. /\ zsl.length \in Nat
      /\ \A j \in 1 .. zsl.length : s[j] \in InList(zsl) /\ s[j] \in Objs /\ j \in Int
  BY <1>1, AreMembers, EndsAre
<1>4. Removal("by lex", r, e)
  BY DEF DeleteRangeByLex
<1> HIDE DEF S
<1>5. \A j \in 1 .. zsl.length : ahead[s[j]][j] <=> s[j] \notin FromLexMin(r)
  <2>1. \A j \in 1 .. zsl.length : ahead[s[j]][j] <=> ~LexGteMin(s[j], r)
    BY <1>3
  <2> HIDE DEF ahead
  <2>2. QED
    BY <1>2, <1>3, <2>1
<1>6. \A j \in 1 .. zsl.length, n \in Nat : within[s[j]][n] <=> s[j] \in ToLexMax(r)
  <2>1. \A j \in 1 .. zsl.length, n \in Nat : within[s[j]][n] <=> LexLteMax(s[j], r)
    BY <1>3
  <2> HIDE DEF within
  <2>2. QED
    BY <1>2, <1>3, <2>1
<1> HIDE DEF ahead, within
<1>7. PICK p \in 0 .. zsl.length : Splits(zsl, s, ahead, p)
  <2>1. \A j, k \in 1 .. zsl.length : j < k /\ ahead[s[k]][k] => ahead[s[j]][j]
    BY <1>2, <1>5 DEF Between
  <2>2. QED
    BY <1>1, <2>1, Border
<1>8. PathTo(zsl, s, path, p)
  BY <1>1, <1>7, PathLeads
<1> HIDE DEF path
<1>9. \A j \in 1 .. zsl.length : s[j] \in S <=> j > p /\ s[j] \in ToLexMax(r)
  <2>1. \A j \in 1 .. zsl.length : s[j] \notin FromLexMin(r) <=> j <= p
    BY <1>5, <1>7 DEF Splits
  <2>2. QED
    BY <1>2, <1>3, <2>1
<1>10. \A j \in 1 .. zsl.length : s[j] \in S <=> j > p /\ within[s[j]][j - p - 1]
  <2>1. \A j \in 1 .. zsl.length : j > p => j - p - 1 \in Nat
    BY <1>3
  <2>2. QED
    BY <1>6, <1>9, <2>1
<1>11. \A j, k \in 1 .. zsl.length : p < j /\ j < k /\ s[k] \in S => s[j] \in S
  BY <1>2, <1>9 DEF Between
<1>12. S \in SUBSET InList(zsl)
  BY <1>2 DEF Between
<1>13. Without(e, S)
  BY <1>1, <1>8, <1>10, <1>11, <1>12, RemovalIs
<1> HIDE DEF e
<1>14. r \in DOMAIN inRange /\ inRange[r] = S
  BY SetParts DEF S
<1> HIDE DEF inRange
<1>15. IInv' /\ Set!Remove("by lex", inRange)
  BY <1>4, <1>13, <1>14, RemovalSteps
<1>16. QED
  BY <1>15 DEF Set!Next, inRange

LEMMA ByRankSteps ==
  ASSUME IInv, NEW start \in 1 .. Cardinality(Objs) + 1, NEW end \in 1 .. Cardinality(Objs) + 1,
         DeleteRangeByRank(start, end)
  PROVE  IInv' /\ Set!Next
<1> DEFINE ahead == [f \in Objs |-> [t \in Int |-> t < start]]
           path == Path(zsl, ahead)
           within == [x \in Objs |-> [n \in Nat |-> path[0][2] + 1 + n <= end]]
           e == RemoveFrom(zsl, path, within)
           S == Set!ByRank(start, end)
           ranks == 1 .. Set!Cardinality(Objs) + 1
           inRange == [q \in ranks \X ranks |-> Set!ByRank(q[1], q[2])]
<1>1. PICK s : Laid(zsl, s)
  BY DEF IInv
<1>2. start \in Int /\ end \in Int
  BY SkipListAssumption, FS_CardinalityType
<1>3. /\ zsl.length \in Nat
      /\ \A j \in 1 .. zsl.length : s[j] \in InList(zsl) /\ s[j] \in Objs /\ j \in Int
  BY <1>1, AreMembers, EndsAre
<1>4. Removal("by rank", <<start, end>>, e)
  BY DEF DeleteRangeByRank
<1>5. S \in SUBSET InList(zsl) /\ \A j \in 1 .. zsl.length : s[j] \in S <=> start <= j /\ j <= end
  <2>1. Set!Members = InList(zsl)
    BY <1>1, OrderIs
  <2>2. \A j \in 1 .. zsl.length : Set!RankOf(s[j]) = j
    BY <1>1, RankIs
  <2>3. \A o : o \in S <=> o \in Set!Members /\ Set!RankOf(o) \in start .. end
    BY DEF Set!ByRank
  <2> HIDE DEF S
  <2>4. \A j \in 1 .. zsl.length : s[j] \in S <=> j \in start .. end
    BY <1>3, <2>1, <2>2, <2>3
  <2>5. QED
    BY <1>2, <1>3, <2>1, <2>3, <2>4
<1> HIDE DEF S
<1>6. \A j \in 1 .. zsl.length : ahead[s[j]][j] <=> j < start
  BY <1>3
<1> HIDE DEF ahead
<1>7. PICK p \in 0 .. zsl.length : Splits(zsl, s, ahead, p)
  <2>1. \A j, k \in 1 .. zsl.length : j < k /\ ahead[s[k]][k] => ahead[s[j]][j]
    BY <1>2, <1>3, <1>6
  <2>2. QED
    BY <1>1, <2>1, Border
<1>8. PathTo(zsl, s, path, p)
  BY <1>1, <1>7, PathLeads
<1>9. path[0][2] = p
  BY <1>1, <1>8, PathPlaces
<1> HIDE DEF path
<1>10. \A j \in 1 .. zsl.length : s[j] \in S <=> j > p /\ within[s[j]][j - p - 1]
  <2>1. \A j \in 1 .. zsl.length : j > p => within[s[j]][j - p - 1] <=> j <= end
    <3>1. \A j \in 1 .. zsl.length : j > p => j - p - 1 \in Nat /\ p + 1 + (j - p - 1) = j
      BY <1>3
    <3>2. \A j \in 1 .. zsl.length, n \in Nat : within[s[j]][n] <=> p + 1 + n <= end
      BY <1>3, <1>9
    <3> HIDE DEF within
    <3>3. QED
      BY <3>1, <3>2
  <2>2. \A j \in 1 .. zsl.length : start <= j <=> j > p
    BY <1>2, <1>3, <1>6, <1>7 DEF Splits
  <2> HIDE DEF within
  <2>3. QED
    BY <1>5, <2>1, <2>2
<1> HIDE DEF within
<1>11. \A j, k \in 1 .. zsl.length : p < j /\ j < k /\ s[k] \in S => s[j] \in S
  <2>1. \A j \in 1 .. zsl.length : p < j => start <= j
    BY <1>2, <1>3, <1>6, <1>7 DEF Splits
  <2>2. QED
    BY <1>2, <1>3, <1>5, <2>1
<1>12. Without(e, S)
  BY <1>1, <1>5, <1>8, <1>10, <1>11, RemovalIs
<1> HIDE DEF e
<1>13. <<start, end>> \in DOMAIN inRange /\ inRange[<<start, end>>] = S
  BY SetCardinality DEF S
<1> HIDE DEF inRange
<1>14. IInv' /\ Set!Remove("by rank", inRange)
  BY <1>4, <1>12, <1>13, RemovalSteps
<1>15. QED
  BY <1>14 DEF Set!Next, inRange

LEMMA InsertSteps ==
  ASSUME IInv, NEW o \in Objs, NEW c \in Scores, NEW h \in 1 .. MaxLevel, ZslInsert(c, o, h)
  PROVE  IInv' /\ Set!Next
<1> DEFINE e == Insert(zsl, c, o, h)
<1>1. PICK s : Laid(zsl, s)
  BY DEF IInv
<1>2. o \notin InList(zsl) /\ zsl' = e /\ dict' = InList(zsl) \cup {o} /\ ret' = <<"insert", o>>
  BY DEF IInv, ZslInsert
<1>3. PICK p \in 0 .. zsl.length : Laid(e, Placed(s, zsl.length, o, p + 1))
  BY <1>1, <1>2, InsertLaid
<1>4. e.score = [zsl.score EXCEPT ![o] = c]
  BY DEF Insert, Link
<1> HIDE DEF e
<1>5. /\ InList(e) = {x \in Objs : e.score[x] # NULL}
      /\ InList(zsl) = {x \in Objs : zsl.score[x] # NULL} /\ zsl.score \in [Objs -> Scores \cup {NULL}]
  BY <1>1, <1>3, ScoreSaysIn
<1>6. InList(e) = InList(zsl) \cup {o}
  BY <1>4, <1>5, SkipListAssumption
<1>7. IInv'
  <2>1. \E t : Laid(zsl', t)
    BY <1>2, <1>3
  <2>2. dict' = InList(zsl')
    BY <1>2, <1>6
  <2>3. QED
    BY <2>1, <2>2 DEF IInv
<1>8. Set!Insert(o, c)
  <2>1. o \notin Set!Members
    BY <1>1, <1>2, OrderIs
  <2>2. zsl'.score = [zsl.score EXCEPT ![o] = c]
    BY <1>2, <1>4
  <2>3. QED
    BY <1>2, <2>1, <2>2 DEF Set!Insert
<1>9. QED
  BY <1>7, <1>8 DEF Set!Next

LEMMA DeleteSteps ==
  ASSUME IInv, NEW o \in Objs, NEW c \in Scores, ZslDelete(c, o)
  PROVE  IInv' /\ Set!Next
<1> DEFINE path == Path(zsl, [f \in Objs |-> [t \in Int |-> Precedes(zsl, f, c, o)]])
           x == zsl.forward[0][path[0][1]]
           found == x = o /\ zsl.score[x] = c
           e == Unlink(zsl, path, o)
<1>1. PICK s : Laid(zsl, s)
  BY DEF IInv
<1>2. /\ zsl' = IF found THEN e ELSE zsl
      /\ dict' = IF found THEN dict \ {o} ELSE dict
      /\ ret' = <<"delete", o, c, IF found THEN 1 ELSE 0>>
  BY DEF ZslDelete
<1>3. InList(zsl) = {y \in Objs : zsl.score[y] # NULL} /\ zsl.score \in [Objs -> Scores \cup {NULL}]
  BY <1>1, ScoreSaysIn
<1>4. CASE found
  <2>1. x = o /\ zsl.score[o] = c
    BY <1>4
  <2>2. PICK p \in 0 .. zsl.length - 1 : Laid(e, Dropped(s, zsl.length, p + 1))
    BY <1>1, <2>1, DeleteLaid
  <2>3. e.score = [zsl.score EXCEPT ![o] = NULL]
    BY DEF Unlink
  <2>4. zsl' = e /\ dict' = InList(zsl) \ {o} /\ ret' = <<"delete", o, c, 1>>
    BY <1>2, <1>4 DEF IInv
  <2> HIDE DEF found, e
  <2>5. InList(e) = {y \in Objs : e.score[y] # NULL}
    BY <2>2, ScoreSaysIn
  <2>6. InList(e) = InList(zsl) \ {o}
    BY <1>3, <2>3, <2>5
  <2>7. IInv'
    <3>1. \E t : Laid(zsl', t)
      BY <2>2, <2>4
    <3>2. dict' = InList(zsl')
      BY <2>4, <2>6
    <3>3. QED
      BY <3>1, <3>2 DEF IInv
  <2>8. Set!Delete(o, c)
    BY <2>1, <2>3, <2>4 DEF Set!Delete
  <2>9. QED
    BY <2>7, <2>8 DEF Set!Next
\* Not found: no member has that score and that name.
<1>5. CASE ~found
  <2>1. zsl.score[o] # c
    <3>1. SUFFICES ASSUME zsl.score[o] = c
                   PROVE  FALSE
      OBVIOUS
    <3>2. o \in InList(zsl)
      BY <1>3, <3>1, SkipListAssumption
    <3>3. PICK k \in 1 .. zsl.length : s[k] = o
      BY <1>1, <3>2, LaidMembers
    <3>4. PICK p \in 0 .. zsl.length :
            /\ \A j \in 1 .. zsl.length : Precedes(zsl, s[j], c, o) <=> j <= p
            /\ PathTo(zsl, s, path, p)
      BY <1>1, PathBefore
    <3>5. zsl.length \in Nat /\ c \in Int /\ o \in Int
      BY <1>1, EndsAre, PrecedesFirst
    <3>6. \A j \in 1 .. zsl.length : j < k => Precedes(zsl, s[j], c, o)
      <4>1. \A j \in 1 .. zsl.length : j < k => Before(zsl, s[j], s[k])
        BY <1>1 DEF Laid, Members
      <4>2. QED
        BY <3>1, <3>3, <4>1 DEF Before, Precedes
    <3>7. ~Precedes(zsl, o, c, o)
      BY <3>1, <3>5 DEF Precedes
    <3>8. k > p /\ (p + 1 < k => FALSE)
      BY <3>3, <3>4, <3>5, <3>6, <3>7
    <3>9. k = p + 1
      BY <3>5, <3>8
    <3>10. x = IF p = zsl.length THEN NULL ELSE s[p + 1]
      BY <1>1, <3>4, PathBottom
    <3>11. x = o
      BY <3>3, <3>5, <3>9, <3>10
    <3>12. QED
      BY <1>5, <3>1, <3>11
  <2>2. zsl' = zsl /\ dict' = dict /\ ret' = <<"delete", o, c, 0>>
    BY <1>2, <1>5
  <2>3. IInv'
    BY <2>2 DEF IInv
  <2>4. Set!Delete(o, c)
    BY <2>1, <2>2 DEF Set!Delete
  <2>5. QED
    BY <2>3, <2>4 DEF Set!Next
<1>6. QED
  BY <1>4, <1>5

----------------------------------------------------------------------------

LEMMA InitInvariant ==
  Init => IInv /\ Set!Init
<1>1. InList(EmptyList) = {} /\ EmptyList.score = [o \in Objs |-> NULL]
  BY DEF InList, EmptyList
<1>2. SUFFICES ASSUME Init
               PROVE  IInv /\ Set!Init
  OBVIOUS
<1>3. zsl = EmptyList /\ dict = {} /\ ret = <<>>
  BY <1>2 DEF Init
<1>4. QED
  BY <1>1, <1>3, EmptyLaid DEF IInv, Set!Init

LEMMA NextInvariant ==
  IInv /\ [Next]_vars => IInv' /\ [Set!Next]_Set!setVars
<1>1. SUFFICES ASSUME IInv, [Next]_vars
               PROVE  IInv' /\ [Set!Next]_Set!setVars
  OBVIOUS
<1>2. CASE \E o \in Objs, s \in Scores : \E h \in 1 .. MaxLevel : ZslInsert(s, o, h)
  BY <1>1, <1>2, InsertSteps
<1>3. CASE \E o \in Objs, s \in Scores : ZslDelete(s, o)
  BY <1>1, <1>3, DeleteSteps
<1>4. CASE \E r \in RangeSpec(Scores) : DeleteRangeByScore(r)
  BY <1>1, <1>4, ByScoreSteps
<1>5. CASE \E r \in RangeSpec(Bounds) : DeleteRangeByLex(r)
  BY <1>1, <1>5, ByLexSteps
<1>6. CASE \E start, end \in 1 .. Cardinality(Objs) + 1 : DeleteRangeByRank(start, end)
  BY <1>1, <1>6, ByRankSteps
<1>7. CASE UNCHANGED vars
  BY <1>1, <1>7 DEF vars, IInv, Set!setVars
<1>8. QED
  BY <1>1, <1>2, <1>3, <1>4, <1>5, <1>6, <1>7 DEF Next

LEMMA Invariant == Spec => []IInv
<1>1. Init => IInv
  BY InitInvariant
<1>2. IInv /\ [Next]_vars => IInv'
  BY NextInvariant
<1>3. QED
  BY <1>1, <1>2, PTL DEF Spec

\* The fields keep their types, length is the number of nodes, and the list and
\* the dict of the sorted set have the same members: no removal of a range leaves
\* one of them behind.
THEOREM SkipListTyped == Spec => []TypeOK
<1>1. IInv => TypeOK
  BY LaidTyped DEF IInv
<1>2. QED
  BY <1>1, Invariant, PTL

\* Whatever levels zslRandomLevel draws, every level links in order the nodes that
\* are high enough, spans are distances, backward pointers mirror the lowest
\* level, and level is that of the highest node.
THEOREM LinksAlwaysAgree == Spec => []WellLinked
<1>1. IInv => WellLinked
  BY LaidWellLinked DEF IInv
<1>2. QED
  BY <1>1, Invariant, PTL

\* zslGetRank and zslGetElementByRank, which sum spans on the way down, agree with
\* the order of the list and with each other; a member that is not in the list has
\* rank 0, a rank beyond the end no member.
THEOREM RanksAlwaysRight == Spec => []RanksAreRight
<1>1. IInv => RanksAreRight
  BY RanksRight DEF IInv
<1>2. QED
  BY <1>1, Invariant, PTL

\* The first and the last node that zslFirstInRange, zslLastInRange and their
\* lexicographic twins return are those of the set, and NULL exactly for ranges
\* without a member.
THEOREM RangesAlwaysRight == Spec => []RangesAreRight
<1>1. IInv => RangesAreRight
  BY ScoreRangesRight, LexRangesRight DEF IInv, RangesAreRight
<1>2. QED
  BY <1>1, Invariant, PTL

\* Every call of the skip list is a call of the ordered set with the same result:
\* insertions and deletions by score and member, removals of ranges and the
\* number of nodes that they return.
THEOREM SkipListImplementsOrderedSet == Spec => ImplementsOrderedSet
<1>1. Init => Set!Init
  BY InitInvariant
<1>2. IInv /\ [Next]_vars => [Set!Next]_Set!setVars
  BY NextInvariant
<1>3. QED
  BY <1>1, <1>2, Invariant, PTL DEF Spec, ImplementsOrderedSet, Set!Spec
=============================================================================
