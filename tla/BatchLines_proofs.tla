------------------------- MODULE BatchLines_proofs -------------------------
(***************************************************************************)
(* Theorems about BatchLines for every set of data files, of any length    *)
(* and with any line numbers, every order in which lines finish and every  *)
(* choice of failing ones.                                                 *)
(***************************************************************************)
EXTENDS BatchLines, FiniteSetTheorems, WellFoundedInduction, TLAPS

(* Numbers in order *)

EarlierThan == {ss \in Nat \X Nat : ss[1] < ss[2]}

\* Every set of numbers has a first one.
LEMMA FirstExists ==
  ASSUME NEW T, T \subseteq Nat, T # {}
  PROVE  \E x \in T : \A y \in T : x <= y
<1>1. IsWellFoundedOn(EarlierThan, Nat)
  BY NatLessThanWellFounded DEF OpToRel, EarlierThan
<1>2. PICK x \in T : \A y \in T : ~ (<<y, x>> \in EarlierThan)
  BY <1>1, WFMin
<1>3. \A y \in T : ~ (y < x)
  BY <1>2 DEF EarlierThan
<1> QED BY <1>3

\* The first numbers are as many as there are.
LEMMA Numbered == \A n \in Nat : IsFiniteSet(1 .. n) /\ Cardinality(1 .. n) = n
<1> TAKE n \in Nat
<1>1. CASE n = 0
  BY <1>1, FS_Interval
<1>2. CASE n > 0
  BY <1>2, FS_Interval
<1> QED BY <1>1, <1>2

Climbs(s, n) == \A i, j \in 1 .. n : i < j => s[i] < s[j]

\* s lists the numbers in S from the least to the greatest.
Lists(s, S) ==
  LET n == Cardinality(S) IN
  /\ s \in [1 .. n -> S]
  /\ Climbs(s, n)
  /\ \A x \in S : \E i \in 1 .. n : s[i] = x

\* How many numbers in S are up to x.
Rank(S, x) == Cardinality({y \in S : y <= x})

\* The ranks of S are 1, 2, ..., each of one number.
LEMMA Ranks ==
  ASSUME NEW S, S \subseteq Nat, IsFiniteSet(S)
  PROVE  /\ Cardinality(S) \in Nat
         /\ \A x \in S : Rank(S, x) \in 1 .. Cardinality(S)
         /\ \A x, y \in S : x < y => Rank(S, x) < Rank(S, y)
         /\ \A i \in 1 .. Cardinality(S) : \E x \in S : Rank(S, x) = i
<1> DEFINE UpTo(x) == {y \in S : y <= x}
           n == Cardinality(S)
<1>1. n \in Nat
  BY FS_CardinalityType
<1>2. \A x \in S : IsFiniteSet(UpTo(x)) /\ Cardinality(UpTo(x)) \in Nat
                   /\ Cardinality(UpTo(x)) <= n
  BY FS_Subset, FS_CardinalityType
<1>3. ASSUME NEW x \in S PROVE Cardinality(UpTo(x)) \in 1 .. n
  <2>1. x \in UpTo(x)
    BY <1>3
  <2>2. Cardinality(UpTo(x)) # 0
    BY <1>2, <2>1, FS_EmptySet
  <2> QED BY <1>1, <1>2, <2>2
<1>4. ASSUME NEW x \in S, NEW y \in S, x < y
      PROVE  Cardinality(UpTo(x)) < Cardinality(UpTo(y))
  <2>0. x \in Nat /\ y \in Nat /\ \A z \in S : z \in Nat
    OBVIOUS
  <2>1. UpTo(x) \subseteq UpTo(y) /\ y \in UpTo(y) /\ y \notin UpTo(x)
    <3>1. \A z \in S : z <= x => z <= y
      BY <1>4, <2>0
    <3>2. y <= y /\ ~ (y <= x)
      BY <1>4, <2>0
    <3> QED BY <3>1, <3>2
  <2>2. UpTo(x) # UpTo(y) /\ UpTo(x) \in SUBSET UpTo(y)
    BY <2>1
  <2>3. Cardinality(UpTo(x)) <= Cardinality(UpTo(y))
        /\ Cardinality(UpTo(x)) # Cardinality(UpTo(y))
    BY <1>2, <2>2, FS_Subset
  <2> QED BY <1>2, <2>3
<1> DEFINE rank == [x \in S |-> Rank(S, x)]
<1>5. rank \in [S -> 1 .. n]
  BY <1>3 DEF Rank
<1>6. \A x, y \in S : x # y => rank[x] # rank[y]
  <2> SUFFICES ASSUME NEW x \in S, NEW y \in S, x # y PROVE rank[x] # rank[y]
    OBVIOUS
  <2>1. x < y \/ y < x
    OBVIOUS
  <2>2. rank[x] < rank[y] \/ rank[y] < rank[x]
    BY <1>4, <2>1 DEF Rank
  <2>3. rank[x] \in Nat /\ rank[y] \in Nat
    BY <1>2 DEF Rank
  <2> QED BY <2>2, <2>3
<1>7. rank \in Injection(S, 1 .. n)
  BY <1>5, <1>6 DEF Injection, IsInjective
<1>8. IsFiniteSet(1 .. n) /\ Cardinality(1 .. n) = n
  BY <1>1, Numbered
<1>9. rank \in Surjection(S, 1 .. n)
  <2> HIDE DEF rank
  <2> QED BY <1>7, <1>8, FS_Injection
<1>10. \A i \in 1 .. n : \E x \in S : rank[x] = i
  BY <1>9 DEF Surjection
<1>11. \A i \in 1 .. n : \E x \in S : Rank(S, x) = i
  BY <1>10
<1> QED BY <1>1, <1>3, <1>4, <1>11 DEF Rank

\* What InOrder returns.
LEMMA InOrderLists ==
  ASSUME NEW S, S \subseteq Nat, IsFiniteSet(S)
  PROVE  Cardinality(S) \in Nat /\ Lists(InOrder(S), S)
<1> DEFINE n == Cardinality(S)
           Ordered(s) == \A i, j \in DOMAIN s : i < j => s[i] < s[j]
           at == [i \in 1 .. n |-> CHOOSE x \in S : Rank(S, x) = i]
<1>1. \A i \in 1 .. n : at[i] \in S /\ Rank(S, at[i]) = i
  BY Ranks
<1>2. \A i, j \in 1 .. n : i < j => at[i] < at[j]
  <2> SUFFICES ASSUME NEW i \in 1 .. n, NEW j \in 1 .. n, i < j PROVE at[i] < at[j]
    OBVIOUS
  <2>1. at[i] \in Nat /\ at[j] \in Nat
    BY <1>1
  <2>2. at[i] # at[j]
    BY <1>1
  <2>3. ~ (at[j] < at[i])
    <3>1. at[j] < at[i] => Rank(S, at[j]) < Rank(S, at[i])
      BY <1>1, Ranks
    <3>2. Rank(S, at[j]) = j /\ Rank(S, at[i]) = i /\ ~ (j < i)
      BY <1>1, Ranks
    <3> HIDE DEF at
    <3> QED BY <3>1, <3>2
  <2> QED BY <2>1, <2>2, <2>3
<1>3. at \in [1 .. n -> S] /\ Ordered(at)
  BY <1>1, <1>2
<1>4. \E s \in [1 .. n -> S] : Ordered(s)
  <2> HIDE DEF at
  <2> QED BY <1>3
<1>5. InOrder(S) \in [1 .. n -> S] /\ Ordered(InOrder(S))
  BY <1>4 DEF InOrder
<1>6. n \in Nat /\ IsFiniteSet(1 .. n) /\ Cardinality(1 .. n) = n
  BY Numbered, FS_CardinalityType
<1> DEFINE s == InOrder(S)
<1> HIDE DEF s
<1>7. s \in [1 .. n -> S] /\ \A i, j \in 1 .. n : i < j => s[i] < s[j]
  BY <1>5 DEF s
<1>8. \A i, j \in 1 .. n : i # j => s[i] # s[j]
  <2> SUFFICES ASSUME NEW i \in 1 .. n, NEW j \in 1 .. n, i < j PROVE s[i] # s[j]
    BY <1>6
  <2>1. s[i] \in Nat /\ s[j] \in Nat /\ s[i] < s[j]
    BY <1>7
  <2> QED BY <2>1
<1>9. s \in Injection(1 .. n, S)
  BY <1>7, <1>8 DEF Injection, IsInjective
<1>10. s \in Surjection(1 .. n, S)
  BY <1>6, <1>9, FS_Injection
<1>11. \A x \in S : \E i \in 1 .. n : s[i] = x
  BY <1>10 DEF Surjection
<1> QED BY <1>6, <1>7, <1>11 DEF Lists, Climbs, s

\* There is one list of a set of numbers.
LEMMA OneList ==
  ASSUME NEW S, S \subseteq Nat, Cardinality(S) \in Nat,
         NEW a, Lists(a, S), NEW b, Lists(b, S)
  PROVE  a = b
<1> DEFINE n == Cardinality(S)
<1>a. /\ a \in [1 .. n -> S] /\ b \in [1 .. n -> S]
      /\ Climbs(a, n) /\ Climbs(b, n)
      /\ \A i \in 1 .. n : a[i] \in Nat /\ b[i] \in Nat
      /\ \A i \in 1 .. n : \E j \in 1 .. n : a[i] = b[j]
      /\ \A i \in 1 .. n : \E j \in 1 .. n : b[i] = a[j]
  BY DEF Lists
<1> DEFINE T == {i \in 1 .. n : a[i] # b[i]}
<1>b. ASSUME \A i \in 1 .. n : a[i] = b[i] PROVE a = b
  <2>1. a = [i \in 1 .. n |-> a[i]] /\ b = [i \in 1 .. n |-> b[i]]
    BY <1>a
  <2> HIDE DEF n
  <2>2. [i \in 1 .. n |-> a[i]] = [i \in 1 .. n |-> b[i]]
    BY <1>b
  <2> QED BY <2>1, <2>2
<1>c. T = {} => \A i \in 1 .. n : a[i] = b[i]
  OBVIOUS
<1> SUFFICES ASSUME T # {} PROVE FALSE
  BY <1>b, <1>c
<1>0. T \subseteq Nat
  OBVIOUS
<1>1. PICK i \in T : \A k \in T : i <= k
  BY <1>0, FirstExists
<1>2. \A k \in 1 .. n : k < i => a[k] = b[k]
  BY <1>a, <1>1
<1>3. a[i] \in Nat /\ b[i] \in Nat /\ a[i] # b[i]
  BY <1>a, <1>1
<1>4. ASSUME a[i] < b[i] PROVE FALSE
  <2>1. PICK j \in 1 .. n : a[i] = b[j]
    BY <1>a, <1>1
  <2>2. CASE j < i
    <3>1. a[j] = b[j] /\ a[j] < a[i] /\ a[j] \in Nat
      BY <1>a, <1>1, <1>2, <2>2 DEF Climbs
    <3> QED BY <2>1, <3>1, <1>3
  <2>3. CASE i < j
    <3>1. b[i] < b[j]
      BY <1>a, <1>1, <2>3 DEF Climbs
    <3> QED BY <1>3, <1>4, <2>1, <3>1
  <2>4. CASE i = j
    BY <1>3, <2>1, <2>4
  <2> QED BY <1>a, <1>1, <2>2, <2>3, <2>4
<1>5. ASSUME b[i] < a[i] PROVE FALSE
  <2>1. PICK j \in 1 .. n : b[i] = a[j]
    BY <1>a, <1>1
  <2>2. CASE j < i
    <3>1. a[j] = b[j] /\ b[j] < b[i] /\ b[j] \in Nat
      BY <1>a, <1>1, <1>2, <2>2 DEF Climbs
    <3> QED BY <2>1, <3>1, <1>3
  <2>3. CASE i < j
    <3>1. a[i] < a[j]
      BY <1>a, <1>1, <2>3 DEF Climbs
    <3> QED BY <1>3, <1>5, <2>1, <3>1
  <2>4. CASE i = j
    BY <1>3, <2>1, <2>4
  <2> QED BY <1>a, <1>1, <2>2, <2>3, <2>4
<1>6. a[i] < b[i] \/ b[i] < a[i]
  <2>1. \A x, y \in Nat : x # y => x < y \/ y < x
    OBVIOUS
  <2> QED BY <1>3, <2>1
<1> QED BY <1>4, <1>5, <1>6

\* Positions in a sequence.
LEMMA PositionsListed ==
  ASSUME NEW n \in Nat, NEW S, S \subseteq 1 .. n
  PROVE  IsFiniteSet(S) /\ S \subseteq Nat /\ Cardinality(S) \in Nat /\ Lists(InOrder(S), S)
<1>1. IsFiniteSet(S) /\ S \subseteq Nat
  <2>1. S \in SUBSET (1 .. n) /\ IsFiniteSet(1 .. n)
    BY Numbered
  <2>2. IsFiniteSet(S)
    BY <2>1, FS_Subset
  <2> QED BY <2>2
<1> QED BY <1>1, InOrderLists

\* What Picked returns.
LEMMA PickedFacts ==
  ASSUME NEW n \in Nat, NEW S, S \subseteq 1 .. n, NEW s
  PROVE  /\ DOMAIN Picked(s, S) = 1 .. Cardinality(S)
         /\ \A p \in 1 .. Cardinality(S) : Picked(s, S)[p] = s[InOrder(S)[p]]
  BY PositionsListed DEF Picked, Lists

\* All of a sequence.
LEMMA AllPicked ==
  ASSUME NEW n \in Nat, NEW s
  PROVE  /\ DOMAIN Picked(s, 1 .. n) = 1 .. n
         /\ \A p \in 1 .. n : Picked(s, 1 .. n)[p] = s[p]
<1> DEFINE S == 1 .. n
           a == InOrder(S)
           b == [i \in 1 .. n |-> i]
<1>1. Cardinality(S) = n /\ S \subseteq Nat /\ Lists(a, S)
  BY Numbered, PositionsListed
<1>2. Lists(b, S)
  BY <1>1 DEF Lists, Climbs
<1> HIDE DEF a, b
<1>3. a = b
  BY <1>1, <1>2, OneList
<1>4. Picked(s, S) = [p \in 1 .. n |-> s[a[p]]]
  BY <1>1 DEF Picked, Lists, a
<1> QED BY <1>3, <1>4 DEF b

-----------------------------------------------------------------------------
(* Rows sorted by line *)

Result == [line : Nat, ok : BOOLEAN]
LinesIn(rows) == {rows[i].line : i \in DOMAIN rows}
Distinct(rows) == \A i, j \in DOMAIN rows : rows[i].line = rows[j].line => i = j
ClimbingLines(rows, n) == \A i, j \in 1 .. n : i < j => rows[i].line < rows[j].line

\* As many lines as rows.
LEMMA LinesCounted ==
  ASSUME NEW n \in Nat, NEW rows, DOMAIN rows = 1 .. n, Distinct(rows)
  PROVE  IsFiniteSet(LinesIn(rows)) /\ Cardinality(LinesIn(rows)) = n
<1> DEFINE f == [i \in 1 .. n |-> rows[i].line]
<1>1. f \in [1 .. n -> LinesIn(rows)] /\ \A i, j \in 1 .. n : f[i] = f[j] => i = j
  BY DEF LinesIn, Distinct
<1>2. \A x \in LinesIn(rows) : \E i \in 1 .. n : f[i] = x
  BY DEF LinesIn
<1> HIDE DEF f
<1>3. f \in Injection(1 .. n, LinesIn(rows)) /\ f \in Surjection(1 .. n, LinesIn(rows))
  BY <1>1, <1>2 DEF Injection, IsInjective, Surjection
<1>4. IsFiniteSet(1 .. n) /\ Cardinality(1 .. n) = n
  BY Numbered
<1> QED BY <1>3, <1>4, FS_Surjection

\* What ByLine returns.
LEMMA ByLineFacts ==
  ASSUME NEW n \in Nat, NEW rows \in [1 .. n -> Result], Distinct(rows)
  PROVE  LET sorted == ByLine(rows) IN
         /\ sorted \in [1 .. n -> Result]
         /\ ClimbingLines(sorted, n)
         /\ \A p \in 1 .. n : \E i \in 1 .. n : sorted[p] = rows[i]
         /\ \A i \in 1 .. n : \E p \in 1 .. n : sorted[p] = rows[i]
<1> DEFINE S == LinesIn(rows)
           a == InOrder(S)
           Place(p) == CHOOSE i \in 1 .. n : rows[i].line = a[p]
           sorted == ByLine(rows)
<1>1. S \subseteq Nat
  BY DEF LinesIn, Result
<1>2. IsFiniteSet(S) /\ Cardinality(S) = n
  BY LinesCounted
<1>3. Lists(a, S)
  BY <1>1, <1>2, InOrderLists
<1> HIDE DEF a
<1>4. /\ a \in [1 .. n -> S]
      /\ Climbs(a, n)
      /\ \A x \in S : \E i \in 1 .. n : a[i] = x
  BY <1>2, <1>3 DEF Lists
<1>5. \A p \in 1 .. n : Place(p) \in 1 .. n /\ rows[Place(p)].line = a[p]
  <2> TAKE p \in 1 .. n
  <2>1. a[p] \in LinesIn(rows)
    BY <1>4
  <2>2. \E i \in 1 .. n : rows[i].line = a[p]
    BY <2>1 DEF LinesIn
  <2> QED BY <2>2
<1>6. sorted = [p \in 1 .. n |-> rows[Place(p)]]
  BY <1>4 DEF ByLine, LinesIn, a
<1> HIDE DEF sorted, Place
<1>7. \A p \in 1 .. n : sorted[p] = rows[Place(p)] /\ sorted[p].line = a[p]
  BY <1>5, <1>6
<1>8. sorted \in [1 .. n -> Result]
  BY <1>5, <1>6
<1>9. ClimbingLines(sorted, n)
  BY <1>4, <1>7 DEF ClimbingLines, Climbs
<1>10. \A p \in 1 .. n : \E i \in 1 .. n : sorted[p] = rows[i]
  BY <1>5, <1>7
<1>11. ASSUME NEW i \in 1 .. n PROVE \E p \in 1 .. n : sorted[p] = rows[i]
  <2>1. rows[i].line \in S
    BY DEF LinesIn
  <2>2. PICK p \in 1 .. n : a[p] = rows[i].line
    BY <1>4, <2>1
  <2>3. Place(p) = i
    BY <1>5, <2>2 DEF Distinct
  <2> QED BY <1>7, <2>3
<1> QED BY <1>8, <1>9, <1>10, <1>11 DEF sorted

\* Rows in ascending order of their lines list those lines.
LEMMA ClimbingList ==
  ASSUME NEW n \in Nat, NEW rows, DOMAIN rows = 1 .. n,
         \A i \in 1 .. n : rows[i].line \in Nat, ClimbingLines(rows, n)
  PROVE  /\ LinesIn(rows) \subseteq Nat /\ Cardinality(LinesIn(rows)) = n
         /\ Lists([i \in 1 .. n |-> rows[i].line], LinesIn(rows))
<1>1. Distinct(rows)
  <2> SUFFICES ASSUME NEW i \in 1 .. n, NEW j \in 1 .. n, rows[i].line = rows[j].line
               PROVE  i = j
    BY DEF Distinct
  <2>1. ~ (rows[i].line < rows[j].line) /\ ~ (rows[j].line < rows[i].line)
    OBVIOUS
  <2>2. ~ (i < j) /\ ~ (j < i)
    BY <2>1 DEF ClimbingLines
  <2> QED BY <2>2
<1>2. Cardinality(LinesIn(rows)) = n
  BY <1>1, LinesCounted
<1>3. LinesIn(rows) \subseteq Nat
  BY DEF LinesIn
<1>4. \A x \in LinesIn(rows) : \E i \in 1 .. n : rows[i].line = x
  BY DEF LinesIn
<1>5. \A i \in 1 .. n : rows[i].line \in LinesIn(rows)
  BY DEF LinesIn
<1> QED BY <1>2, <1>3, <1>4, <1>5 DEF Lists, Climbs, ClimbingLines

\* n rows in ascending order of their lines.
Rising(rows, n) ==
  /\ n \in Nat /\ DOMAIN rows = 1 .. n
  /\ \A i \in 1 .. n : rows[i].line \in Nat
  /\ ClimbingLines(rows, n)

\* Rows of the same lines, both in ascending order, go together.
LEMMA SameOrder ==
  ASSUME NEW n, NEW a, Rising(a, n), NEW m, NEW b, Rising(b, m), LinesIn(a) = LinesIn(b)
  PROVE  m = n /\ \A i \in 1 .. n : a[i].line = b[i].line
<1> DEFINE as == [i \in 1 .. n |-> a[i].line]
           bs == [i \in 1 .. m |-> b[i].line]
           S == LinesIn(a)
<1>1. S \subseteq Nat /\ Cardinality(S) = n /\ Lists(as, S)
  BY ClimbingList DEF Rising
<1>2. Cardinality(S) = m /\ Lists(bs, S)
  BY ClimbingList DEF Rising
<1>3. as = bs
  <2>1. Cardinality(S) \in Nat
    BY <1>1 DEF Rising
  <2> HIDE DEF as, bs, S
  <2> QED BY <1>1, <1>2, <2>1, OneList
<1>4. \A i \in 1 .. n : as[i] = bs[i]
  BY <1>3
<1> QED BY <1>1, <1>2, <1>4

\* Rows of the lines 0, 1, ... in ascending order.
LEMMA DenseOrder ==
  ASSUME NEW n, NEW a, Rising(a, n), LinesIn(a) = 0 .. n - 1
  PROVE  \A i \in 1 .. n : a[i].line = i - 1
<1>n. n \in Nat
  BY DEF Rising
<1> DEFINE b == [i \in 1 .. n |-> [line |-> i - 1]]
<1>1. /\ DOMAIN b = 1 .. n
      /\ \A i \in 1 .. n : b[i].line = i - 1 /\ b[i].line \in Nat
  BY <1>n
<1>2. LinesIn(b) = 0 .. n - 1
  <2>1. \A x \in 0 .. n - 1 : x + 1 \in 1 .. n /\ x = b[x + 1].line
    <3>1. \A x \in 0 .. n - 1 : x + 1 \in 1 .. n /\ x + 1 - 1 = x
      BY <1>n
    <3> HIDE DEF b
    <3> QED BY <1>1, <3>1
  <2>2. \A i \in 1 .. n : b[i].line \in 0 .. n - 1
    <3>1. \A i \in 1 .. n : i - 1 \in 0 .. n - 1
      BY <1>n
    <3> HIDE DEF b
    <3> QED BY <1>1, <3>1
  <2> HIDE DEF b
  <2>3. ASSUME NEW x \in LinesIn(b) PROVE x \in 0 .. n - 1
    <3>1. PICK i \in 1 .. n : x = b[i].line
      BY <1>1 DEF LinesIn
    <3> QED BY <2>2, <3>1
  <2>4. ASSUME NEW x \in 0 .. n - 1 PROVE x \in LinesIn(b)
    <3>1. x + 1 \in DOMAIN b /\ x = b[x + 1].line
      BY <1>1, <2>1
    <3> QED BY <3>1 DEF LinesIn
  <2> QED BY <2>3, <2>4
<1> HIDE DEF b
<1>3. ClimbingLines(b, n)
  <2> SUFFICES ASSUME NEW i \in 1 .. n, NEW j \in 1 .. n, i < j PROVE b[i].line < b[j].line
    BY DEF ClimbingLines
  <2>1. b[i].line = i - 1 /\ b[j].line = j - 1
    BY <1>1
  <2>2. i - 1 < j - 1
    BY <1>n
  <2> QED BY <2>1, <2>2
<1>4. \A i \in 1 .. n : a[i].line = b[i].line
  <2>1. Rising(a, n) /\ Rising(b, n)
    BY <1>n, <1>1, <1>3 DEF Rising
  <2>2. LinesIn(a) = LinesIn(b)
    BY <1>2
  <2> QED BY <2>1, <2>2, SameOrder
<1> QED BY <1>1, <1>4

-----------------------------------------------------------------------------
(* Merging *)

\* Two sequences put together.
LEMMA Joined ==
  ASSUME NEW S, NEW a \in Seq(S), NEW b \in Seq(S)
  PROVE  /\ a \o b \in Seq(S)
         /\ Len(a \o b) = Len(a) + Len(b)
         /\ \A p \in DOMAIN (a \o b) :
              (\E i \in DOMAIN a : i = p /\ (a \o b)[p] = a[i])
              \/ \E i \in DOMAIN b : p = Len(a) + i /\ (a \o b)[p] = b[i]
         /\ \A i \in DOMAIN a : i \in DOMAIN (a \o b) /\ (a \o b)[i] = a[i]
         /\ \A i \in DOMAIN b :
              Len(a) + i \in DOMAIN (a \o b) /\ (a \o b)[Len(a) + i] = b[i]
<1>1. /\ Len(a) \in Nat /\ Len(b) \in Nat
      /\ DOMAIN a = 1 .. Len(a) /\ DOMAIN b = 1 .. Len(b)
  OBVIOUS
<1>2. /\ a \o b \in Seq(S) /\ Len(a \o b) = Len(a) + Len(b)
      /\ DOMAIN (a \o b) = 1 .. Len(a) + Len(b)
  OBVIOUS
<1>3. \A p \in 1 .. Len(a) + Len(b) :
        (a \o b)[p] = IF p <= Len(a) THEN a[p] ELSE b[p - Len(a)]
  OBVIOUS
<1>4. \A p \in 1 .. Len(a) + Len(b) :
        p > Len(a) => p - Len(a) \in 1 .. Len(b) /\ p = Len(a) + (p - Len(a))
  BY <1>1
<1>5. \A i \in 1 .. Len(b) :
        /\ Len(a) + i \in 1 .. Len(a) + Len(b)
        /\ ~ (Len(a) + i <= Len(a)) /\ Len(a) + i - Len(a) = i
  BY <1>1
<1>6. \A p \in 1 .. Len(a) + Len(b) : p <= Len(a) => p \in 1 .. Len(a)
  BY <1>1
<1>7. \A i \in 1 .. Len(a) : i \in 1 .. Len(a) + Len(b) /\ i <= Len(a)
  BY <1>1
<1>8. \A p \in 1 .. Len(a) + Len(b) : p <= Len(a) \/ p > Len(a)
  BY <1>1
<1>9. \A p \in DOMAIN (a \o b) :
        (\E i \in DOMAIN a : i = p /\ (a \o b)[p] = a[i])
        \/ \E i \in DOMAIN b : p = Len(a) + i /\ (a \o b)[p] = b[i]
  BY <1>1, <1>2, <1>3, <1>4, <1>6, <1>8
<1> QED BY <1>1, <1>2, <1>3, <1>5, <1>7, <1>9

\* What is in u is in t, and what is in t is in u or in v.
Has(t, u) == \A i \in DOMAIN u : \E p \in DOMAIN t : t[p] = u[i]
OnlyFrom(t, u, v) == \A p \in DOMAIN t : (\E i \in DOMAIN u : t[p] = u[i])
                                         \/ \E i \in DOMAIN v : t[p] = v[i]

\* What two sequences put together have in them.
LEMMA JoinElements ==
  ASSUME NEW S, NEW a \in Seq(S), NEW b \in Seq(S)
  PROVE  /\ a \o b \in Seq(S)
         /\ OnlyFrom(a \o b, a, b) /\ Has(a \o b, a) /\ Has(a \o b, b)
<1> DEFINE c == a \o b
<1>1. /\ \A p \in DOMAIN c : (\E i \in DOMAIN a : i = p /\ c[p] = a[i])
                            \/ \E i \in DOMAIN b : p = Len(a) + i /\ c[p] = b[i]
      /\ \A i \in DOMAIN a : i \in DOMAIN c /\ c[i] = a[i]
      /\ \A i \in DOMAIN b : Len(a) + i \in DOMAIN c /\ c[Len(a) + i] = b[i]
  BY Joined
<1> HIDE DEF c
<1>2. \A i \in DOMAIN b : \E p \in DOMAIN c : c[p] = b[i]
  BY <1>1
<1>3. \A i \in DOMAIN a : \E p \in DOMAIN c : c[p] = a[i]
  BY <1>1
<1>4. \A p \in DOMAIN c : (\E i \in DOMAIN a : c[p] = a[i]) \/ \E i \in DOMAIN b : c[p] = b[i]
  BY <1>1
<1>5. OnlyFrom(c, a, b) /\ Has(c, a) /\ Has(c, b)
  BY <1>2, <1>3, <1>4 DEF OnlyFrom, Has
<1> QED BY <1>5, Joined DEF c

\* FlattenSeq of up to three sequences.
LEMMA FlattenIsJoin ==
  ASSUME NEW S, NEW s \in Seq(Seq(S))
  PROVE  /\ Len(s) = 1 => FlattenSeq(s) = s[1]
         /\ Len(s) = 2 => FlattenSeq(s) = s[1] \o s[2]
         /\ Len(s) = 3 => FlattenSeq(s) = s[1] \o s[2] \o s[3]
<1> DEFINE Body(g) == [i \in 1 .. Len(s) |-> IF i = 1 THEN s[i] ELSE g[i - 1] \o s[i]]
           flatten == CHOOSE g : g = Body(g)
<1>1. CASE Len(s) = 1
  <2> DEFINE w == [i \in 1 .. 1 |-> s[1]]
  <2>1. w = Body(w)
    BY <1>1
  <2>2. flatten = Body(flatten)
    BY <2>1
  <2> HIDE DEF flatten
  <2>3. flatten[1] = s[1]
    BY <1>1, <2>2
  <2> QED BY <1>1, <2>3 DEF FlattenSeq, flatten
<1>2. CASE Len(s) = 2
  <2> DEFINE w == [i \in 1 .. 2 |-> IF i = 1 THEN s[1] ELSE s[1] \o s[2]]
  <2>1. w = Body(w)
    BY <1>2
  <2>2. flatten = Body(flatten)
    BY <2>1
  <2> HIDE DEF flatten
  <2>3. flatten[1] = s[1]
    BY <1>2, <2>2
  <2>4. flatten[2] = flatten[1] \o s[2]
    BY <1>2, <2>2
  <2>5. flatten[2] = s[1] \o s[2]
    BY <2>3, <2>4
  <2>6. FlattenSeq(s) = flatten[Len(s)]
    BY <1>2 DEF FlattenSeq, flatten
  <2> QED BY <1>2, <2>5, <2>6
<1>3. CASE Len(s) = 3
  <2> DEFINE w == [i \in 1 .. 3 |-> IF i = 1 THEN s[1]
                                    ELSE IF i = 2 THEN s[1] \o s[2]
                                    ELSE s[1] \o s[2] \o s[3]]
  <2>1. w = Body(w)
    BY <1>3
  <2>2. flatten = Body(flatten)
    BY <2>1
  <2> HIDE DEF flatten
  <2>3. flatten[1] = s[1]
    BY <1>3, <2>2
  <2>4. flatten[2] = flatten[1] \o s[2]
    <3>1. 2 \in 1 .. Len(s) /\ 2 # 1 /\ 2 - 1 = 1
      BY <1>3
    <3> QED BY <2>2, <3>1
  <2>5. flatten[3] = flatten[2] \o s[3]
    <3>1. 3 \in 1 .. Len(s) /\ 3 # 1 /\ 3 - 1 = 2
      BY <1>3
    <3> QED BY <2>2, <3>1
  <2>6. flatten[3] = s[1] \o s[2] \o s[3]
    BY <2>3, <2>4, <2>5
  <2>7. FlattenSeq(s) = flatten[Len(s)]
    BY <1>3 DEF FlattenSeq, flatten
  <2> QED BY <1>3, <2>6, <2>7
<1> QED BY <1>1, <1>2, <1>3

\* FlattenSeq has what is in the sequences, and nothing else.
LEMMA Flattened ==
  ASSUME NEW S, NEW s \in Seq(Seq(S)), Len(s) \in 1 .. 3
  PROVE  LET f == FlattenSeq(s) IN
         /\ f \in Seq(S)
         /\ \A p \in DOMAIN f : \E k \in DOMAIN s : \E i \in DOMAIN s[k] : f[p] = s[k][i]
         /\ \A k \in DOMAIN s : \A i \in DOMAIN s[k] : \E p \in DOMAIN f : f[p] = s[k][i]
<1> DEFINE f == FlattenSeq(s)
<1>1. \A k \in 1 .. Len(s) : s[k] \in Seq(S)
  OBVIOUS
<1>2. CASE Len(s) = 1
  <2>1. f = s[1]
    BY <1>2, FlattenIsJoin
  <2>2. DOMAIN s = {1} /\ s[1] \in Seq(S)
    BY <1>1, <1>2
  <2> HIDE DEF f
  <2> QED BY <2>1, <2>2 DEF f
<1>3. CASE Len(s) = 2
  <2>1. f = s[1] \o s[2]
    BY <1>3, FlattenIsJoin
  <2>2. DOMAIN s = {1, 2} /\ s[1] \in Seq(S) /\ s[2] \in Seq(S)
    BY <1>1, <1>3
  <2> HIDE DEF f
  <2>3. f \in Seq(S) /\ OnlyFrom(f, s[1], s[2]) /\ Has(f, s[1]) /\ Has(f, s[2])
    BY JoinElements, <2>1, <2>2
  <2>4. \A p \in DOMAIN f : \E k \in DOMAIN s : \E i \in DOMAIN s[k] : f[p] = s[k][i]
    BY <2>2, <2>3 DEF OnlyFrom
  <2>5. \A k \in DOMAIN s : Has(f, s[k])
    BY <2>2, <2>3
  <2> QED BY <2>3, <2>4, <2>5 DEF f, Has
<1>4. CASE Len(s) = 3
  <2> DEFINE g == s[1] \o s[2]
  <2>1. f = g \o s[3]
    BY <1>4, FlattenIsJoin
  <2>2. DOMAIN s = {1, 2, 3} /\ s[1] \in Seq(S) /\ s[2] \in Seq(S) /\ s[3] \in Seq(S)
    BY <1>1, <1>4
  <2> HIDE DEF f
  <2>3. g \in Seq(S) /\ OnlyFrom(g, s[1], s[2]) /\ Has(g, s[1]) /\ Has(g, s[2])
    BY JoinElements, <2>2
  <2> HIDE DEF g
  <2>4. f \in Seq(S) /\ OnlyFrom(f, g, s[3]) /\ Has(f, g) /\ Has(f, s[3])
    BY JoinElements, <2>1, <2>2, <2>3
  <2>5. ASSUME NEW p \in DOMAIN f
        PROVE  \E k \in DOMAIN s : \E i \in DOMAIN s[k] : f[p] = s[k][i]
    <3>1. CASE \E i \in DOMAIN s[3] : f[p] = s[3][i]
      BY <2>2, <3>1
    <3>2. CASE \E i \in DOMAIN g : f[p] = g[i]
      <4>1. (\E i \in DOMAIN s[1] : f[p] = s[1][i]) \/ \E i \in DOMAIN s[2] : f[p] = s[2][i]
        BY <2>3, <3>2 DEF OnlyFrom
      <4> QED BY <2>2, <4>1
    <3> QED BY <2>4, <3>1, <3>2 DEF OnlyFrom
  <2>6. Has(f, s[1]) /\ Has(f, s[2])
    BY <2>3, <2>4 DEF Has
  <2>7. \A k \in DOMAIN s : Has(f, s[k])
    BY <2>2, <2>4, <2>6
  <2> QED BY <2>4, <2>5, <2>7 DEF f, Has
<1> QED BY <1>2, <1>3, <1>4

\* Up to three sources, each with lines that are numbers.
Sources(sources) ==
  /\ Len(sources) \in 1 .. 3
  /\ DOMAIN sources = 1 .. Len(sources)
  /\ \A k \in DOMAIN sources :
       /\ Len(sources[k].rows) \in Nat
       /\ DOMAIN sources[k].rows = 1 .. Len(sources[k].rows)
       /\ \A i \in DOMAIN sources[k].rows : LineAt(sources[k].rows, i) \in Nat

InAll(sources, line) == \A k \in DOMAIN sources : At(sources[k].rows, line) # {}

\* A function on the numbers up to n is a sequence.
LEMMA Sequence ==
  ASSUME NEW n \in Nat, NEW S, NEW f \in [1 .. n -> S]
  PROVE  f \in Seq(S) /\ Len(f) = n
  OBVIOUS

\* The lines of all sources.
LEMMA LinesOfSources ==
  ASSUME NEW sources, Sources(sources)
  PROVE  LET lines == AllLines(sources) IN
         /\ Len(lines) \in Nat /\ DOMAIN lines = 1 .. Len(lines)
         /\ \A p \in DOMAIN lines : lines[p] \in Nat
         /\ \A k \in DOMAIN sources : \A i \in DOMAIN sources[k].rows :
              \E p \in DOMAIN lines : lines[p] = LineAt(sources[k].rows, i)
<1> DEFINE K == Len(sources)
           s == [k \in DOMAIN sources |->
                   [i \in DOMAIN sources[k].rows |-> LineAt(sources[k].rows, i)]]
           lines == AllLines(sources)
<1>1. K \in 1 .. 3 /\ K \in Nat /\ DOMAIN s = 1 .. K
  BY DEF Sources
<1>2. ASSUME NEW k \in 1 .. K PROVE s[k] \in Seq(Nat)
  <2> DEFINE rows == sources[k].rows
             ls == [i \in DOMAIN rows |-> LineAt(rows, i)]
  <2>1. Len(rows) \in Nat /\ DOMAIN rows = 1 .. Len(rows)
        /\ \A i \in DOMAIN rows : LineAt(rows, i) \in Nat
    BY DEF Sources
  <2>2. ls \in [1 .. Len(rows) -> Nat]
    BY <2>1
  <2>3. s[k] = ls
    BY <1>1
  <2> HIDE DEF ls, s
  <2>4. ls \in Seq(Nat)
    BY <2>1, <2>2, Sequence
  <2> QED BY <2>3, <2>4
<1>3. s \in [1 .. K -> Seq(Nat)]
  BY <1>1, <1>2
<1>4. \A k \in DOMAIN sources : \A i \in DOMAIN sources[k].rows :
        k \in DOMAIN s /\ i \in DOMAIN s[k] /\ s[k][i] = LineAt(sources[k].rows, i)
  OBVIOUS
<1>5. lines = FlattenSeq(s)
  BY DEF AllLines
<1> HIDE DEF s, lines, K
<1>6. s \in Seq(Seq(Nat)) /\ Len(s) = K
  BY <1>1, <1>3, Sequence
<1>7. /\ lines \in Seq(Nat)
      /\ \A k \in DOMAIN s : \A i \in DOMAIN s[k] : \E p \in DOMAIN lines : lines[p] = s[k][i]
  <2>1. Len(s) \in 1 .. 3
    BY <1>1, <1>6
  <2>2. FlattenSeq(s) \in Seq(Nat)
    BY <1>6, <2>1, Flattened
  <2>3. \A k \in DOMAIN s : \A i \in DOMAIN s[k] :
          \E p \in DOMAIN FlattenSeq(s) : FlattenSeq(s)[p] = s[k][i]
    BY <1>6, <2>1, Flattened
  <2> QED BY <1>5, <2>2, <2>3
<1>8. /\ Len(lines) \in Nat /\ DOMAIN lines = 1 .. Len(lines)
      /\ \A p \in DOMAIN lines : lines[p] \in Nat
  BY <1>7
<1>9. \A k \in DOMAIN sources : \A i \in DOMAIN sources[k].rows :
        \E p \in DOMAIN lines : lines[p] = LineAt(sources[k].rows, i)
  BY <1>4, <1>7
<1> QED BY <1>8, <1>9 DEF lines

\* What Merge returns: each line that is in all sources, once.
LEMMA Merging ==
  ASSUME NEW sources, Sources(sources)
  PROVE  LET merged == Merge(sources) IN
         /\ Len(merged) \in Nat /\ DOMAIN merged = 1 .. Len(merged)
         /\ \A i \in DOMAIN merged :
              /\ merged[i].line \in Nat /\ InAll(sources, merged[i].line)
              /\ merged[i] = MergedLine(sources, merged[i].line)
         /\ Distinct(merged)
         /\ \A x \in Nat : InAll(sources, x) => \E i \in DOMAIN merged : merged[i].line = x
<1> DEFINE lines == AllLines(sources)
           n == Len(lines)
           New(p) == \A q \in 1 .. p - 1 : lines[q] # lines[p]
           S == {p \in DOMAIN lines : lines[p] # None /\ New(p) /\ InAll(sources, lines[p])}
           at == InOrder(S)
           m == Cardinality(S)
           keys == Picked(lines, S)
           merged == Merge(sources)
<1>1. /\ n \in Nat /\ DOMAIN lines = 1 .. n
      /\ \A p \in 1 .. n : lines[p] \in Nat
  BY LinesOfSources
<1>2. \A k \in DOMAIN sources : \A i \in DOMAIN sources[k].rows :
        \E p \in 1 .. n : lines[p] = LineAt(sources[k].rows, i)
  BY <1>1, LinesOfSources
<1>3. merged = [i \in DOMAIN keys |-> MergedLine(sources, keys[i])]
  BY DEF Merge, InAll
<1> HIDE DEF lines, merged
<1>4. S \subseteq 1 .. n
  BY <1>1
<1>5. /\ m \in Nat
      /\ DOMAIN keys = 1 .. m
      /\ \A p \in 1 .. m : keys[p] = lines[at[p]]
      /\ Lists(at, S)
  <2> HIDE DEF S, n
  <2>1. n \in Nat /\ S \subseteq 1 .. n
    BY <1>1, <1>4
  <2>2. Cardinality(S) \in Nat /\ Lists(InOrder(S), S)
    BY <2>1, PositionsListed
  <2>3. /\ DOMAIN Picked(lines, S) = 1 .. Cardinality(S)
        /\ \A p \in 1 .. Cardinality(S) : Picked(lines, S)[p] = lines[InOrder(S)[p]]
    BY <2>1, PickedFacts
  <2> QED BY <2>2, <2>3
<1>6. /\ at \in [1 .. m -> S]
      /\ \A i, j \in 1 .. m : i < j => at[i] < at[j]
      /\ \A x \in S : \E i \in 1 .. m : at[i] = x
  BY <1>5 DEF Lists, Climbs
<1> HIDE DEF at, keys, m
<1>7. merged = [i \in 1 .. m |-> MergedLine(sources, lines[at[i]])]
  BY <1>3, <1>5
<1>8. DOMAIN merged = 1 .. m /\ Len(merged) = m
  <2>1. merged \in [1 .. m -> {merged[i] : i \in 1 .. m}]
    BY <1>7
  <2> QED BY <1>5, <2>1, Sequence
<1>9. \A i \in 1 .. m : merged[i] = MergedLine(sources, lines[at[i]])
                        /\ merged[i].line = lines[at[i]]
  BY <1>7 DEF MergedLine
<1>10. \A i \in 1 .. m : /\ at[i] \in 1 .. n /\ lines[at[i]] \in Nat
                         /\ New(at[i]) /\ InAll(sources, lines[at[i]])
  BY <1>1, <1>6
<1>11. ASSUME NEW i \in 1 .. m, NEW j \in 1 .. m, i < j PROVE lines[at[i]] # lines[at[j]]
  <2>1. at[i] \in Nat /\ at[j] \in Nat /\ at[i] >= 1 /\ at[i] < at[j]
    BY <1>6, <1>10, <1>11
  <2>2. at[i] \in 1 .. at[j] - 1
    BY <2>1
  <2> QED BY <1>10, <2>2
<1>12. Distinct(merged)
  <2> SUFFICES ASSUME NEW i \in 1 .. m, NEW j \in 1 .. m, merged[i].line = merged[j].line
               PROVE  i = j
    BY <1>8 DEF Distinct
  <2>1. lines[at[i]] = lines[at[j]]
    BY <1>9
  <2>2. ~ (i < j) /\ ~ (j < i)
    BY <1>11, <2>1
  <2> QED BY <1>5, <2>2
<1>13. ASSUME NEW x \in Nat, InAll(sources, x)
       PROVE  \E i \in 1 .. m : merged[i].line = x
  <2> DEFINE T == {p \in 1 .. n : lines[p] = x}
  <2>1. PICK i \in DOMAIN sources[1].rows : LineAt(sources[1].rows, i) = x
    BY <1>13 DEF InAll, At, Sources
  <2>2. T # {} /\ T \subseteq Nat
    BY <1>2, <2>1 DEF Sources
  <2>3. PICK p \in T : \A q \in T : p <= q
    BY <2>2, FirstExists
  <2>4. p \in 1 .. n /\ lines[p] = x
    BY <2>3
  <2>5. New(p)
    <3>1. \A q \in 1 .. p - 1 : q \in 1 .. n /\ ~ (p <= q)
      BY <1>1, <2>4
    <3> QED BY <2>3, <2>4, <3>1
  <2>6. x # None
    BY DataAssumption
  <2>7. p \in S
    BY <1>1, <1>13, <2>4, <2>5, <2>6
  <2>8. PICK j \in 1 .. m : at[j] = p
    BY <1>6, <2>7
  <2> QED BY <1>9, <2>4, <2>8
<1>14. \A i \in DOMAIN merged :
         /\ merged[i].line \in Nat /\ InAll(sources, merged[i].line)
         /\ merged[i] = MergedLine(sources, merged[i].line)
  BY <1>8, <1>9, <1>10
<1>15. \A x \in Nat : InAll(sources, x) => \E i \in DOMAIN merged : merged[i].line = x
  BY <1>8, <1>13
<1> QED BY <1>5, <1>8, <1>12, <1>14, <1>15 DEF merged

-----------------------------------------------------------------------------
(* The inductive invariant *)

\* A batch has each of its lines once.
BatchInv ==
  /\ Len(batch) \in Nat /\ DOMAIN batch = 1 .. Len(batch)
  /\ \A i \in DOMAIN batch : batch[i].line \in Nat
  /\ Distinct(batch)

\* Each line that finished has one result.
FinishedInv ==
  /\ finished \in Seq(Result)
  /\ Distinct(finished)
  /\ FinishedLines \subseteq BatchLinesOf

\* What exec_bulk left is about these results.
EndInv ==
  /\ pc = "start" => finished = <<>>
  /\ pc # "ended" => results = <<>> /\ aggregated = <<>> /\ view = NoView
  /\ pc = "ended" => /\ FinishedLines = BatchLinesOf
                     /\ results = Sorted
                     /\ aggregated = Aggregated(results)

NewData == {<<>>} \cup {<<Source("data", DataRows(file))>> : file \in DataFiles}

\* What was read back is still what would be read.
ViewInv ==
  \/ view = NoView
  \/ view = Details
  \/ \E data \in NewData : view = Evaluation(data)

IInv == BatchInv /\ FinishedInv /\ EndInv /\ ViewInv

\* The rows of a data file have lines, and so has its batch.
LEMMA DataSource ==
  ASSUME NEW file \in DataFiles
  PROVE  /\ Len(DataRows(file)) \in Nat /\ DOMAIN DataRows(file) = 1 .. Len(DataRows(file))
         /\ \A i \in DOMAIN DataRows(file) : LineAt(DataRows(file), i) \in Nat
<1> DEFINE rows == DataRows(file)
           n == Len(file)
           Tag(i) == [line |-> file[i], of |-> i, real |-> TRUE]
<1>1. file \in Seq(Nat) \/ file \in Seq({None})
  BY DataAssumption
<1>2. n \in Nat /\ DOMAIN file = 1 .. n
  BY <1>1
<1>3. rows = [i \in 1 .. n |-> Tag(i)]
  BY <1>2 DEF DataRows, Row
<1>4. rows \in [1 .. n -> {Tag(i) : i \in 1 .. n}]
  BY <1>3
<1>5. Len(rows) = n /\ DOMAIN rows = 1 .. n
  BY <1>2, <1>4, Sequence
<1>6. \A i \in 1 .. n : rows[i].line = file[i]
  BY <1>3
<1> HIDE DEF rows, n
<1>7. ASSUME NEW i \in 1 .. n PROVE LineAt(rows, i) \in Nat
  <2>1. CASE file \in Seq(Nat)
    <3>1. file[i] \in Nat /\ file[i] # None
      BY <1>2, <2>1, DataAssumption
    <3>2. HasNumbers(rows)
      BY <1>5, <1>6, <3>1 DEF HasNumbers
    <3> QED BY <1>6, <3>1, <3>2 DEF LineAt
  <2>2. CASE file \in Seq({None})
    <3>1. \A j \in 1 .. n : file[j] = None
      BY <1>2, <2>2
    <3>2. ~ HasNumbers(rows)
      BY <1>5, <1>6, <3>1 DEF HasNumbers
    <3>3. i - 1 \in Nat
      BY <1>2
    <3> QED BY <3>2, <3>3 DEF LineAt
  <2> QED BY <1>1, <2>1, <2>2
<1> QED BY <1>2, <1>5, <1>7 DEF rows

\* The invariant holds initially.
LEMMA Initially == Init => IInv
<1> SUFFICES ASSUME Init PROVE IInv
  OBVIOUS
<1>1. Len(<<>>) = 0 /\ DOMAIN <<>> = 1 .. 0 /\ <<>> \in Seq(Result)
  OBVIOUS
<1>2. BatchInv
  BY <1>1 DEF Init, BatchInv, Distinct
<1>3. FinishedInv
  BY <1>1 DEF Init, FinishedInv, Distinct, FinishedLines
<1>4. EndInv /\ ViewInv
  BY DEF Init, EndInv, ViewInv
<1> QED BY <1>2, <1>3, <1>4 DEF IInv

\* What is left as it was.
LEMMA ViewKept == UNCHANGED <<batch, results, view>> /\ ViewInv => ViewInv'
<1> SUFFICES ASSUME UNCHANGED <<batch, results, view>>, ViewInv PROVE ViewInv'
  OBVIOUS
<1>1. Details' = Details
  BY DEF Details, LoadOutputs, LoadInputs, StoredOutputs, Padded, Padding, OutputLines
<1>2. ASSUME NEW data \in NewData PROVE Evaluation(data)' = Evaluation(data)
  BY DEF Evaluation, EvaluationSources, LoadOutputs, LoadInputs, StoredOutputs, Padded,
         Padding, OutputLines
<1> QED BY <1>1, <1>2 DEF ViewInv

\* The batch and the results stay what they are.
LEMMA BatchKept ==
  ASSUME UNCHANGED <<batch, finished>>, BatchInv, FinishedInv
  PROVE  BatchInv' /\ FinishedInv'
<1>1. BatchInv'
  BY DEF BatchInv, Distinct
<1>2. FinishedLines' = FinishedLines /\ BatchLinesOf' = BatchLinesOf
  BY DEF FinishedLines, BatchLinesOf
<1>3. Distinct(finished)'
  BY DEF FinishedInv, Distinct
<1> QED BY <1>1, <1>2, <1>3 DEF FinishedInv

\* The batch is merged from the data.
LEMMA MapInputsStep ==
  ASSUME IInv, NEW file \in DataFiles, MapInputs(file)
  PROVE  IInv'
<1> DEFINE sources == <<Source("data", DataRows(file))>>
<1>1. CASE Rejected(sources)
  <2>1. UNCHANGED <<batch, finished, results, aggregated, view>> /\ pc' = "rejected"
    BY <1>1 DEF MapInputs
  <2>2. BatchInv' /\ FinishedInv' /\ ViewInv'
    BY <2>1, BatchKept, ViewKept DEF IInv
  <2>3. EndInv'
    BY <2>1 DEF IInv, EndInv, MapInputs
  <2> QED BY <2>2, <2>3 DEF IInv
<1>2. CASE ~ Rejected(sources)
  <2>1. batch' = Merge(sources) /\ pc' = "executing"
    BY <1>2 DEF MapInputs
  <2>2. Sources(sources)
    <3>1. sources[1].rows = DataRows(file) /\ DOMAIN sources = {1} /\ Len(sources) = 1
      BY DEF Source
    <3> HIDE DEF sources
    <3> QED BY <3>1, DataSource DEF Sources
  <2> HIDE DEF sources
  <2>3. BatchInv'
    BY <2>1, <2>2, Merging DEF BatchInv
  <2>4. UNCHANGED <<finished, results, aggregated, view>>
    BY DEF MapInputs
  <2>5. FinishedInv'
    <3>1. finished' = <<>>
      BY <2>4 DEF MapInputs, IInv, EndInv
    <3> QED BY <3>1 DEF FinishedInv, Distinct, FinishedLines
  <2>6. EndInv' /\ ViewInv'
    BY <2>1, <2>4 DEF MapInputs, IInv, EndInv, ViewInv
  <2> QED BY <2>3, <2>5, <2>6 DEF IInv
<1> QED BY <1>1, <1>2

\* A line gets its result.
LEMMA FinishLineStep ==
  ASSUME IInv, NEW line \in BatchLinesOf, NEW ok \in BOOLEAN, FinishLine(line, ok)
  PROVE  IInv'
<1> DEFINE r == [line |-> line, ok |-> ok]
           n == Len(finished)
<1>1. /\ pc = "executing" /\ line \notin FinishedLines
      /\ finished' = Append(finished, r)
      /\ UNCHANGED <<pc, batch, results, aggregated, view>>
  BY DEF FinishLine
<1>2. line \in Nat
  BY DEF IInv, BatchInv, BatchLinesOf
<1>3. r \in Result /\ r.line = line
  BY <1>2 DEF Result
<1>4. finished \in Seq(Result) /\ n \in Nat /\ DOMAIN finished = 1 .. n
  BY DEF IInv, FinishedInv
<1> HIDE DEF r
<1>5. /\ finished' \in Seq(Result) /\ DOMAIN finished' = 1 .. n + 1
      /\ \A i \in 1 .. n + 1 : finished'[i] = IF i <= n THEN finished[i] ELSE r
  BY <1>1, <1>3, <1>4
<1>6. \A i \in 1 .. n + 1 : \/ i \in 1 .. n /\ finished'[i] = finished[i]
                            \/ i = n + 1 /\ finished'[i] = r
  <2>1. \A m \in Nat : \A i \in 1 .. m + 1 :
          (i <= m /\ i \in 1 .. m) \/ (~ (i <= m) /\ i = m + 1)
    OBVIOUS
  <2>2. n \in Nat
    BY <1>4
  <2> HIDE DEF n
  <2>3. \A i \in 1 .. n + 1 : (i <= n /\ i \in 1 .. n) \/ (~ (i <= n) /\ i = n + 1)
    BY <2>1, <2>2
  <2> SUFFICES ASSUME NEW i \in 1 .. n + 1
               PROVE  \/ i \in 1 .. n /\ finished'[i] = finished[i]
                      \/ i = n + 1 /\ finished'[i] = r
    OBVIOUS
  <2>4. finished'[i] = IF i <= n THEN finished[i] ELSE r
    BY <1>5
  <2> QED BY <2>3, <2>4
<1>7. \A i \in 1 .. n : finished[i].line # line
  BY <1>1, <1>4 DEF FinishedLines
<1>8. Distinct(finished')
  BY <1>3, <1>4, <1>5, <1>6, <1>7 DEF Distinct, IInv, FinishedInv
<1>9. FinishedLines' \subseteq BatchLinesOf'
  <2>1. BatchLinesOf' = BatchLinesOf
    BY <1>1 DEF BatchLinesOf
  <2>2. \A i \in 1 .. n : finished[i].line \in BatchLinesOf
    BY <1>4 DEF IInv, FinishedInv, FinishedLines
  <2> QED BY <1>3, <1>5, <1>6, <2>1, <2>2 DEF FinishedLines
<1>10. FinishedInv'
  BY <1>5, <1>8, <1>9 DEF FinishedInv
<1>11. BatchInv'
  BY <1>1 DEF IInv, BatchInv, Distinct
<1>12. EndInv'
  BY <1>1 DEF IInv, EndInv
<1>13. ViewInv'
  BY <1>1, ViewKept DEF IInv
<1> QED BY <1>10, <1>11, <1>12, <1>13 DEF IInv

\* All lines have finished.
LEMMA BulkEndsStep == ASSUME IInv, BulkEnds PROVE IInv'
<1>1. /\ FinishedLines = BatchLinesOf /\ results' = Sorted
      /\ aggregated' = Aggregated(Sorted) /\ pc' = "ended"
      /\ pc = "executing" /\ UNCHANGED <<batch, finished, view>>
  BY DEF BulkEnds
<1>2. BatchInv' /\ FinishedInv'
  BY <1>1, BatchKept DEF IInv
<1>3. Sorted' = Sorted /\ FinishedLines' = FinishedLines /\ BatchLinesOf' = BatchLinesOf
  BY <1>1 DEF Sorted, FinishedLines, BatchLinesOf
<1>4. Aggregated(results)' = Aggregated(Sorted)
  BY <1>1 DEF Aggregated
<1>5. EndInv'
  BY <1>1, <1>3, <1>4 DEF EndInv
<1>6. ViewInv'
  BY <1>1 DEF IInv, EndInv, ViewInv
<1> QED BY <1>2, <1>5, <1>6 DEF IInv

\* Nothing but what was made of the run may change.
LEMMA EndKept ==
  ASSUME IInv, UNCHANGED <<pc, batch, finished, results, aggregated>>,
         pc = "ended" \/ UNCHANGED view
  PROVE  BatchInv' /\ FinishedInv' /\ EndInv'
<1>1. BatchInv' /\ FinishedInv'
  BY BatchKept DEF IInv
<1>2. /\ Sorted' = Sorted /\ FinishedLines' = FinishedLines /\ BatchLinesOf' = BatchLinesOf
      /\ Aggregated(results)' = Aggregated(results)
  BY DEF Sorted, FinishedLines, BatchLinesOf, Aggregated
<1>3. EndInv'
  BY <1>2 DEF IInv, EndInv
<1> QED BY <1>1, <1>3

\* The run is read back.
LEMMA ReadStep ==
  ASSUME IInv, GetDetails \/ \E data \in NewData : Evaluate(data)
  PROVE  IInv'
<1>1. pc = "ended" /\ UNCHANGED <<pc, batch, finished, results, aggregated>>
  BY DEF GetDetails, Evaluate
<1>2. BatchInv' /\ FinishedInv' /\ EndInv'
  BY <1>1, EndKept
<1>3. ViewInv'
  <2>1. Details' = Details
    BY <1>1 DEF Details, LoadOutputs, LoadInputs, StoredOutputs, Padded, Padding, OutputLines
  <2>2. \A data \in NewData : Evaluation(data)' = Evaluation(data)
    BY <1>1 DEF Evaluation, EvaluationSources, LoadOutputs, LoadInputs, StoredOutputs, Padded,
                Padding, OutputLines
  <2>3. view' = Details \/ \E data \in NewData : view' = Evaluation(data)
    BY DEF GetDetails, Evaluate
  <2> QED BY <2>1, <2>2, <2>3 DEF ViewInv
<1> QED BY <1>2, <1>3 DEF IInv

\* Every step preserves the invariant.
LEMMA Preserved == IInv /\ [Next]_vars => IInv'
<1> SUFFICES ASSUME IInv, [Next]_vars PROVE IInv'
  OBVIOUS
<1>1. CASE UNCHANGED vars
  BY <1>1, EndKept, ViewKept DEF IInv, vars
<1>2. CASE \E file \in DataFiles : MapInputs(file)
  BY <1>2, MapInputsStep
<1>3. CASE \E line \in BatchLinesOf, ok \in BOOLEAN : FinishLine(line, ok)
  BY <1>3, FinishLineStep
<1>4. CASE BulkEnds
  BY <1>4, BulkEndsStep
<1>5. CASE GetDetails \/ Evaluate(<<>>)
           \/ \E file \in DataFiles : Evaluate(<<Source("data", DataRows(file))>>)
  <2>1. GetDetails \/ \E data \in NewData : Evaluate(data)
    BY <1>5 DEF NewData
  <2> QED BY <2>1, ReadStep
<1> QED BY <1>1, <1>2, <1>3, <1>4, <1>5 DEF Next

\* The invariant of a batch run.
THEOREM Invariance == Spec => []IInv
  BY Initially, Preserved, PTL DEF Spec

-----------------------------------------------------------------------------
(* The results *)

\* When a run has ended there is a result for each line of the batch, in ascending
\* order.
LEMMA ResultsFacts ==
  ASSUME IInv, pc = "ended"
  PROVE  LET n == Len(batch) IN
         /\ results \in [1 .. n -> Result]
         /\ ClimbingLines(results, n)
         /\ LinesIn(results) = LinesIn(batch)
<1> DEFINE n == Len(batch)
           m == Len(finished)
<1>1. finished \in Seq(Result) /\ Distinct(finished)
  BY DEF IInv, FinishedInv
<1>2. m \in Nat /\ DOMAIN finished = 1 .. m /\ finished \in [1 .. m -> Result]
  BY <1>1
<1>3. n \in Nat /\ DOMAIN batch = 1 .. n /\ Distinct(batch)
  BY DEF IInv, BatchInv
<1>4. LinesIn(finished) = LinesIn(batch)
  BY DEF IInv, EndInv, LinesIn, FinishedLines, BatchLinesOf
<1> HIDE DEF m, n
<1>5. m = n
  <2>1. Cardinality(LinesIn(finished)) = m
    BY <1>1, <1>2, LinesCounted
  <2>2. Cardinality(LinesIn(batch)) = n
    BY <1>3, LinesCounted
  <2> QED BY <1>4, <2>1, <2>2
<1>6. results = ByLine(finished)
  BY DEF IInv, EndInv, Sorted
<1>7. /\ results \in [1 .. n -> Result]
      /\ ClimbingLines(results, n)
      /\ \A p \in 1 .. n : \E i \in 1 .. n : results[p] = finished[i]
      /\ \A i \in 1 .. n : \E p \in 1 .. n : results[p] = finished[i]
  <2>1. finished \in [1 .. n -> Result]
    BY <1>2, <1>5
  <2>2. LET sorted == ByLine(finished) IN
        /\ sorted \in [1 .. n -> Result]
        /\ ClimbingLines(sorted, n)
        /\ \A p \in 1 .. n : \E i \in 1 .. n : sorted[p] = finished[i]
        /\ \A i \in 1 .. n : \E p \in 1 .. n : sorted[p] = finished[i]
    BY <1>1, <1>3, <2>1, ByLineFacts
  <2> QED BY <1>6, <2>2
<1>8. LinesIn(results) = LinesIn(finished)
  <2>1. DOMAIN finished = 1 .. n /\ DOMAIN results = 1 .. n
    BY <1>2, <1>5, <1>7
  <2>2. ASSUME NEW x \in LinesIn(results) PROVE x \in LinesIn(finished)
    <3>1. PICK p \in 1 .. n : x = results[p].line
      BY <2>1 DEF LinesIn
    <3>2. PICK i \in 1 .. n : results[p] = finished[i]
      BY <1>7
    <3> QED BY <2>1, <3>1, <3>2 DEF LinesIn
  <2>3. ASSUME NEW x \in LinesIn(finished) PROVE x \in LinesIn(results)
    <3>1. PICK i \in 1 .. n : x = finished[i].line
      BY <2>1 DEF LinesIn
    <3>2. PICK p \in 1 .. n : results[p] = finished[i]
      BY <1>7
    <3> QED BY <2>1, <3>1, <3>2 DEF LinesIn
  <2> QED BY <2>2, <2>3
<1> QED BY <1>4, <1>7, <1>8 DEF n

\* The lines of a result.
LEMMA ResultLine ==
  ASSUME IInv, pc = "ended"
  PROVE  \A i \in 1 .. Len(batch) : results[i].line \in Nat /\ results[i].ok \in BOOLEAN
  BY ResultsFacts DEF Result

\* Results are at the places of their lines, if the batch is in ascending order.
LEMMA ResultsInPlace ==
  ASSUME IInv, pc = "ended", Ascending
  PROVE  \A i \in 1 .. Len(batch) : results[i].line = batch[i].line
<1> DEFINE n == Len(batch)
<1>1. n \in Nat /\ DOMAIN batch = 1 .. n /\ \A i \in 1 .. n : batch[i].line \in Nat
  BY DEF IInv, BatchInv
<1>2. ClimbingLines(batch, n)
  BY <1>1 DEF Ascending, ClimbingLines
<1>3. /\ DOMAIN results = 1 .. n /\ \A i \in 1 .. n : results[i].line \in Nat
      /\ ClimbingLines(results, n) /\ LinesIn(results) = LinesIn(batch)
  BY ResultsFacts, ResultLine
<1>4. Rising(batch, n) /\ Rising(results, n)
  BY <1>1, <1>2, <1>3 DEF Rising
<1>5. \A i \in 1 .. n : results[i].line = batch[i].line
  <2>1. LinesIn(results) = LinesIn(batch)
    BY <1>3
  <2> HIDE DEF n
  <2> QED BY <1>4, <2>1, SameOrder
<1> QED BY <1>5

\* The reduce nodes get inputs and outputs of the same lines.
THEOREM AggregationPairs == Spec => []AggregationAligned
<1>1. IInv => AggregationAligned
  <2> SUFFICES ASSUME IInv, Ascending, NEW j \in DOMAIN aggregated
               PROVE  aggregated[j].input = aggregated[j].output
    BY DEF AggregationAligned
  <2>1. CASE pc # "ended"
    BY <2>1 DEF IInv, EndInv
  <2>2. CASE pc = "ended"
    <3> DEFINE n == Len(batch)
               S == Oks(results)
               at == InOrder(S)
    <3>1. n \in Nat /\ DOMAIN results = 1 .. n
      BY <2>2, ResultsFacts DEF IInv, BatchInv
    <3>2. S \subseteq 1 .. n
      BY <3>1 DEF Oks
    <3> HIDE DEF n, S
    <3>3. /\ DOMAIN Picked(batch, S) = 1 .. Cardinality(S)
          /\ \A p \in 1 .. Cardinality(S) : Picked(batch, S)[p] = batch[at[p]]
      BY <3>1, <3>2, PickedFacts
    <3>4. \A p \in 1 .. Cardinality(S) : Picked(results, S)[p] = results[at[p]]
      BY <3>1, <3>2, PickedFacts
    <3>5. Lists(at, S)
      BY <3>1, <3>2, PositionsListed
    <3>6. \A p \in 1 .. Cardinality(S) : at[p] \in 1 .. n
      BY <3>2, <3>5 DEF Lists
    <3>7. aggregated = [p \in 1 .. Cardinality(S) |->
                          [input |-> Picked(batch, S)[p].line,
                           output |-> Picked(results, S)[p].line]]
      BY <2>2, <3>3 DEF IInv, EndInv, Aggregated, S
    <3>8. /\ j \in 1 .. Cardinality(S)
          /\ aggregated[j].input = batch[at[j]].line
          /\ aggregated[j].output = results[at[j]].line
      BY <3>3, <3>4, <3>7
    <3> QED BY <2>2, <3>6, <3>8, ResultsInPlace DEF n
  <2> QED BY <2>1, <2>2
<1> QED BY <1>1, Invariance, PTL

-----------------------------------------------------------------------------
(* Reading the run back *)

\* Rows of other lines can be put behind rows.
LEMMA JoinedLines ==
  ASSUME NEW a \in Seq(Result), NEW b \in Seq(Result), Distinct(a), Distinct(b),
         \A i \in DOMAIN a, j \in DOMAIN b : a[i].line # b[j].line
  PROVE  Distinct(a \o b) /\ LinesIn(a \o b) = LinesIn(a) \cup LinesIn(b)
<1> DEFINE c == a \o b
<1>1. /\ \A p \in DOMAIN c : (\E i \in DOMAIN a : i = p /\ c[p] = a[i])
                            \/ \E i \in DOMAIN b : p = Len(a) + i /\ c[p] = b[i]
      /\ \A i \in DOMAIN a : i \in DOMAIN c /\ c[i] = a[i]
      /\ \A i \in DOMAIN b : Len(a) + i \in DOMAIN c /\ c[Len(a) + i] = b[i]
  BY Joined
<1> HIDE DEF c
<1>2. ASSUME NEW p \in DOMAIN c, NEW q \in DOMAIN c, c[p].line = c[q].line PROVE p = q
  <2>1. CASE \E i \in DOMAIN a : i = p /\ c[p] = a[i]
    <3>1. p \in DOMAIN a /\ c[p] = a[p]
      BY <2>1
    <3>2. CASE \E i \in DOMAIN a : i = q /\ c[q] = a[i]
      BY <1>2, <3>1, <3>2 DEF Distinct
    <3>3. CASE \E i \in DOMAIN b : q = Len(a) + i /\ c[q] = b[i]
      BY <1>2, <3>1, <3>3
    <3> QED BY <1>1, <3>2, <3>3
  <2>2. CASE \E i \in DOMAIN b : p = Len(a) + i /\ c[p] = b[i]
    <3>1. PICK i \in DOMAIN b : p = Len(a) + i /\ c[p] = b[i]
      BY <2>2
    <3>2. CASE \E j \in DOMAIN a : j = q /\ c[q] = a[j]
      BY <1>2, <3>1, <3>2
    <3>3. CASE \E j \in DOMAIN b : q = Len(a) + j /\ c[q] = b[j]
      BY <1>2, <3>1, <3>3 DEF Distinct
    <3> QED BY <1>1, <3>2, <3>3
  <2> QED BY <1>1, <2>1, <2>2
<1>3. Distinct(c)
  BY <1>2 DEF Distinct
<1>4. ASSUME NEW x \in LinesIn(c) PROVE x \in LinesIn(a) \cup LinesIn(b)
  <2>1. PICK p \in DOMAIN c : x = c[p].line
    BY <1>4 DEF LinesIn
  <2> QED BY <1>1, <2>1 DEF LinesIn
<1>5. ASSUME NEW x \in LinesIn(a) \cup LinesIn(b) PROVE x \in LinesIn(c)
  <2>1. CASE x \in LinesIn(a)
    <3>1. PICK i \in DOMAIN a : x = a[i].line
      BY <2>1 DEF LinesIn
    <3> QED BY <1>1, <3>1 DEF LinesIn
  <2>2. CASE x \in LinesIn(b)
    <3>1. PICK i \in DOMAIN b : x = b[i].line
      BY <2>2 DEF LinesIn
    <3> QED BY <1>1, <3>1 DEF LinesIn
  <2> QED BY <2>1, <2>2
<1>6. LinesIn(c) = LinesIn(a) \cup LinesIn(b)
  BY <1>4, <1>5
<1> QED BY <1>3, <1>6 DEF c

\* The last row of a line.
LEMMA LastRow ==
  ASSUME NEW n \in Nat, NEW rows, DOMAIN rows = 1 .. n, NEW line, At(rows, line) # {}
  PROVE  \E p \in 1 .. n : /\ RowOf(rows, line) = rows[p]
                           /\ LineAt(rows, p) = line
                           /\ \A q \in p + 1 .. n : LineAt(rows, q) # line
<1> DEFINE S == At(rows, line)
           s == InOrder(S)
           c == Cardinality(S)
<1>1. S \subseteq 1 .. n /\ \A p \in S : LineAt(rows, p) = line
  BY DEF At
<1>2. \A q \in 1 .. n : q \notin S => LineAt(rows, q) # line
  BY DEF At
<1> HIDE DEF S
<1>3. IsFiniteSet(S) /\ c \in Nat /\ Lists(s, S)
  BY <1>1, PositionsListed
<1>4. c # 0
  BY <1>3, FS_EmptySet DEF S
<1> HIDE DEF s, c
<1>5. /\ s \in [1 .. c -> S] /\ Climbs(s, c)
      /\ \A x \in S : \E i \in 1 .. c : s[i] = x
  BY <1>3 DEF Lists, c
<1>6. c \in 1 .. c /\ \A i \in 1 .. c : i < c \/ i = c
  BY <1>3, <1>4
<1>7. s[c] \in S
  BY <1>5, <1>6
<1>n. \A y \in S : y \in 1 .. n /\ y \in Nat
  BY <1>1
<1>8. ASSUME NEW y \in S PROVE s[c] >= y
  <2>1. PICK i \in 1 .. c : s[i] = y
    BY <1>5
  <2>2. y \in Nat /\ s[c] \in Nat
    BY <1>7, <1>n
  <2>3. s[i] < s[c] \/ s[i] = s[c]
    BY <1>5, <1>6 DEF Climbs
  <2> QED BY <2>1, <2>2, <2>3
<1>9. Max(S) \in S /\ \A y \in S : Max(S) >= y
  BY <1>7, <1>8 DEF Max
<1> DEFINE p == Max(S)
<1> HIDE DEF p
<1>10. p \in 1 .. n /\ p \in Nat /\ LineAt(rows, p) = line /\ \A y \in S : p >= y
  BY <1>1, <1>9, <1>n DEF p
<1>11. ASSUME NEW q \in p + 1 .. n PROVE LineAt(rows, q) # line
  <2>1. q \in 1 .. n /\ ~ (p >= q)
    BY <1>10
  <2> QED BY <1>2, <1>10, <2>1
<1>12. RowOf(rows, line) = rows[p]
  BY DEF RowOf, S, p
<1> QED BY <1>10, <1>11, <1>12

\* The outputs that are stored are the results that completed.
LEMMA StoredFacts ==
  ASSUME IInv, pc = "ended"
  PROVE  /\ StoredOutputs \in Seq(Result)
         /\ \A p \in DOMAIN StoredOutputs :
              \E i \in 1 .. Len(batch) : results[i].ok /\ StoredOutputs[p] = results[i]
         /\ \A i \in 1 .. Len(batch) :
              results[i].ok => \E p \in DOMAIN StoredOutputs : StoredOutputs[p] = results[i]
         /\ Distinct(StoredOutputs)
<1> DEFINE n == Len(batch)
           S == Oks(results)
           at == InOrder(S)
           c == Cardinality(S)
           stored == StoredOutputs
<1>1. n \in Nat
  BY DEF IInv, BatchInv
<1>2. results \in [1 .. n -> Result] /\ ClimbingLines(results, n)
  BY ResultsFacts
<1>3. /\ S \subseteq 1 .. n /\ \A i \in S : results[i].ok
      /\ \A i \in 1 .. n : results[i].ok => i \in S
  BY <1>2 DEF Oks
<1> HIDE DEF n, S
<1>4. c \in Nat /\ Lists(at, S)
  BY <1>1, <1>3, PositionsListed
<1>5. DOMAIN stored = 1 .. c /\ \A p \in 1 .. c : stored[p] = results[at[p]]
  BY <1>1, <1>3, PickedFacts DEF StoredOutputs, S
<1> HIDE DEF at, c
<1>6. /\ at \in [1 .. c -> S] /\ \A i, j \in 1 .. c : i < j => at[i] < at[j]
      /\ \A x \in S : \E p \in 1 .. c : at[p] = x
  BY <1>4 DEF Lists, Climbs, c
<1>7. \A p \in 1 .. c : at[p] \in 1 .. n /\ results[at[p]].ok /\ results[at[p]] \in Result
  BY <1>2, <1>3, <1>6
<1>8. stored \in Seq(Result)
  <2>1. stored = Picked(results, S)
    BY DEF StoredOutputs, S
  <2>2. Picked(results, S) = [p \in DOMAIN at |-> results[at[p]]]
    BY DEF Picked, at
  <2>3. stored = [p \in 1 .. c |-> results[at[p]]]
    BY <1>6, <2>1, <2>2
  <2> HIDE DEF stored
  <2>4. stored \in [1 .. c -> Result]
    BY <1>7, <2>3
  <2> QED BY <1>4, <2>4, Sequence DEF c
<1> HIDE DEF stored
<1>9. \A p \in DOMAIN stored : \E i \in 1 .. n : results[i].ok /\ stored[p] = results[i]
  BY <1>5, <1>7
<1>10. \A i \in 1 .. n : results[i].ok => \E p \in DOMAIN stored : stored[p] = results[i]
  BY <1>3, <1>5, <1>6
<1>11. ASSUME NEW i \in 1 .. c, NEW j \in 1 .. c, i < j PROVE stored[i].line # stored[j].line
  <2>1. at[i] \in 1 .. n /\ at[j] \in 1 .. n /\ at[i] < at[j]
    BY <1>6, <1>7, <1>11
  <2>2. results[at[i]].line < results[at[j]].line
    BY <1>2, <2>1 DEF ClimbingLines
  <2>3. results[at[i]].line \in Nat /\ results[at[j]].line \in Nat
    BY <1>7 DEF Result
  <2>4. results[at[i]].line # results[at[j]].line
    BY <2>2, <2>3
  <2> QED BY <1>5, <2>4
<1>12. Distinct(stored)
  <2> SUFFICES ASSUME NEW i \in 1 .. c, NEW j \in 1 .. c, stored[i].line = stored[j].line
               PROVE  i = j
    BY <1>5 DEF Distinct
  <2>1. ~ (i < j) /\ ~ (j < i)
    BY <1>11
  <2> QED BY <1>4, <2>1 DEF c
<1> QED BY <1>8, <1>9, <1>10, <1>12 DEF n, stored

\* The lines of 0, 1, ... without an output.
Missing == (0 .. Len(batch) - 1) \ OutputLines

\* The rows for the lines without an output.
LEMMA PaddingFacts ==
  ASSUME Len(batch) \in Nat
  PROVE  /\ Padding \in Seq(Result)
         /\ \A p \in DOMAIN Padding : Padding[p].line \in Missing /\ Padding[p].ok = FALSE
         /\ Distinct(Padding)
         /\ LinesIn(Padding) = Missing
<1> DEFINE missing == InOrder(Missing)
           c == Cardinality(Missing)
           R(x) == [line |-> x, ok |-> FALSE]
           padding == Padding
<1>1. Missing \subseteq Nat /\ IsFiniteSet(Missing)
  <2>1. IsFiniteSet(0 .. Len(batch) - 1)
    BY FS_Interval
  <2>2. Missing \in SUBSET (0 .. Len(batch) - 1)
    BY DEF Missing
  <2>3. Missing \subseteq Nat
    BY DEF Missing
  <2> QED BY <2>1, <2>2, <2>3, FS_Subset
<1>2. c \in Nat /\ Lists(missing, Missing)
  BY <1>1, InOrderLists
<1>3. padding = [i \in DOMAIN missing |-> R(missing[i])]
  BY DEF Padding, Missing
<1> HIDE DEF missing, padding, c
<1>4. /\ missing \in [1 .. c -> Missing]
      /\ \A i, j \in 1 .. c : i < j => missing[i] < missing[j]
      /\ \A x \in Missing : \E i \in 1 .. c : missing[i] = x
  BY <1>2 DEF Lists, Climbs, c
<1>5. padding = [i \in 1 .. c |-> R(missing[i])]
  BY <1>3, <1>4
<1>6. /\ DOMAIN padding = 1 .. c
      /\ \A i \in 1 .. c : /\ padding[i] = R(missing[i]) /\ padding[i] \in Result
                           /\ padding[i].line = missing[i] /\ padding[i].ok = FALSE
                           /\ missing[i] \in Missing /\ missing[i] \in Nat
  <2>1. \A i \in 1 .. c : missing[i] \in Missing /\ missing[i] \in Nat
    BY <1>1, <1>4
  <2> QED BY <1>5, <2>1 DEF Result
<1>7. padding \in Seq(Result)
  <2>1. padding \in [1 .. c -> Result]
    BY <1>5, <1>6
  <2> QED BY <1>2, <2>1, Sequence
<1>8. ASSUME NEW i \in 1 .. c, NEW j \in 1 .. c, i < j PROVE missing[i] # missing[j]
  <2>1. missing[i] < missing[j] /\ missing[i] \in Nat /\ missing[j] \in Nat
    BY <1>4, <1>6, <1>8
  <2> QED BY <2>1
<1>9. Distinct(padding)
  <2> SUFFICES ASSUME NEW i \in 1 .. c, NEW j \in 1 .. c, padding[i].line = padding[j].line
               PROVE  i = j
    BY <1>6 DEF Distinct
  <2>1. missing[i] = missing[j]
    BY <1>6
  <2>2. ~ (i < j) /\ ~ (j < i)
    BY <1>8, <2>1
  <2> QED BY <1>2, <2>2
<1>10. LinesIn(padding) = Missing
  <2>1. \A x \in LinesIn(padding) : x \in Missing
    BY <1>6 DEF LinesIn
  <2>2. \A x \in Missing : x \in LinesIn(padding)
    BY <1>4, <1>6 DEF LinesIn
  <2> QED BY <2>1, <2>2
<1> QED BY <1>6, <1>7, <1>9, <1>10 DEF padding

\* The frame of load_outputs.
Frame == IF StoredOutputs = <<>> THEN <<>> ELSE Padded

\* The frame has a row for each line in some order, or nothing.
LEMMA FrameFacts ==
  ASSUME IInv, pc = "ended"
  PROVE  /\ Len(Frame) \in Nat /\ DOMAIN Frame = 1 .. Len(Frame)
         /\ Len(LoadOutputs) = Len(Frame) /\ DOMAIN LoadOutputs = 1 .. Len(Frame)
         /\ \A p \in 1 .. Len(Frame) : LoadOutputs[p] = Row(None, Frame[p].line, Frame[p].ok)
<1> DEFINE stored == StoredOutputs
           joined == StoredOutputs \o Padding
<1>1. Len(batch) \in Nat
  BY DEF IInv, BatchInv
<1>2. stored \in Seq(Result)
  BY StoredFacts
<1>3. ASSUME Padding # <<>> PROVE ByLine(joined) \in Seq(Result)
  <2>1. Padding \in Seq(Result) /\ Distinct(Padding) /\ Distinct(stored)
    BY <1>1, PaddingFacts, StoredFacts
  <2>2. \A i \in DOMAIN stored, j \in DOMAIN Padding : stored[i].line # Padding[j].line
    <3>1. \A j \in DOMAIN Padding : Padding[j].line \notin OutputLines
      BY <1>1, PaddingFacts DEF Missing
    <3> QED BY <3>1 DEF OutputLines
  <2>3. Distinct(joined)
    BY <1>2, <2>1, <2>2, JoinedLines
  <2>4. joined \in Seq(Result)
    BY <1>2, <2>1
  <2> HIDE DEF joined
  <2> DEFINE m == Len(joined)
  <2>5. m \in Nat /\ joined \in [1 .. m -> Result]
    BY <2>4
  <2> HIDE DEF m
  <2>6. ByLine(joined) \in [1 .. m -> Result]
    BY <2>3, <2>5, ByLineFacts
  <2> QED BY <2>5, <2>6, Sequence
<1>4. Frame \in Seq(Result)
  BY <1>2, <1>3 DEF Frame, Padded
<1>5. LoadOutputs = [i \in DOMAIN Frame |-> Row(None, Frame[i].line, Frame[i].ok)]
  BY DEF LoadOutputs, Frame
<1>6. Len(Frame) \in Nat /\ DOMAIN Frame = 1 .. Len(Frame)
  BY <1>4
<1>7. /\ DOMAIN LoadOutputs = 1 .. Len(Frame)
      /\ \A p \in 1 .. Len(Frame) : LoadOutputs[p] = Row(None, Frame[p].line, Frame[p].ok)
  BY <1>5, <1>6
<1>8. Len(LoadOutputs) = Len(Frame)
  <2> DEFINE R == {LoadOutputs[p] : p \in 1 .. Len(Frame)}
  <2>1. LoadOutputs \in [1 .. Len(Frame) -> R]
    BY <1>5, <1>6
  <2> QED BY <1>6, <2>1, Sequence
<1> QED BY <1>6, <1>7, <1>8

\* The frame of a run of lines 0, 1, ... has them in their places.
LEMMA DenseFrame ==
  ASSUME IInv, pc = "ended", Dense, StoredOutputs # <<>>
  PROVE  /\ Len(Frame) = Len(batch)
         /\ \A p \in 1 .. Len(batch) : /\ results[p].line = p - 1
                                       /\ Frame[p].line = p - 1
                                       /\ Frame[p].ok = results[p].ok
<1> DEFINE n == Len(batch)
           stored == StoredOutputs
           padding == Padding
           joined == stored \o padding
<1>1. n \in Nat
  BY DEF IInv, BatchInv
<1>2. /\ results \in [1 .. n -> Result] /\ ClimbingLines(results, n)
      /\ LinesIn(results) = 0 .. n - 1
  BY ResultsFacts DEF Dense, LinesIn, BatchLinesOf
<1>3. \A p \in 1 .. n : results[p].line \in Nat /\ results[p].ok \in BOOLEAN
  BY <1>2 DEF Result
<1> HIDE DEF n
<1>4. \A p \in 1 .. n : results[p].line = p - 1
  <2>1. Rising(results, n)
    BY <1>1, <1>2, <1>3 DEF Rising
  <2> QED BY <1>2, <2>1, DenseOrder
<1>5. /\ stored \in Seq(Result)
      /\ \A p \in DOMAIN stored : \E i \in 1 .. n : results[i].ok /\ stored[p] = results[i]
      /\ \A i \in 1 .. n : results[i].ok => \E p \in DOMAIN stored : stored[p] = results[i]
      /\ Distinct(stored)
  BY StoredFacts DEF n
<1>6. /\ padding \in Seq(Result) /\ Distinct(padding) /\ LinesIn(padding) = Missing
      /\ \A p \in DOMAIN padding : padding[p].line \in Missing /\ padding[p].ok = FALSE
  BY <1>1, PaddingFacts DEF n
<1>7. OutputLines = LinesIn(stored)
  BY DEF OutputLines, LinesIn
<1>8. ASSUME NEW i \in 1 .. n PROVE results[i].ok <=> i - 1 \in OutputLines
  <2>1. ASSUME results[i].ok PROVE i - 1 \in OutputLines
    <3>1. PICK p \in DOMAIN stored : stored[p] = results[i]
      BY <1>5, <2>1
    <3>2. stored[p].line = i - 1
      BY <1>4, <3>1
    <3> QED BY <1>7, <3>2 DEF LinesIn
  <2>2. ASSUME i - 1 \in OutputLines PROVE results[i].ok
    <3>1. PICK p \in DOMAIN stored : stored[p].line = i - 1
      BY <1>7, <2>2 DEF LinesIn
    <3>2. PICK j \in 1 .. n : results[j].ok /\ stored[p] = results[j]
      BY <1>5
    <3>3. j - 1 = i - 1
      BY <1>4, <3>1, <3>2
    <3>4. j = i
      BY <1>1, <3>3
    <3> QED BY <3>2, <3>4
  <2> QED BY <2>1, <2>2
<1>9. Frame = Padded
  BY DEF Frame
<1>10. CASE padding = <<>>
  <2>1. Missing = {}
    <3>1. DOMAIN padding = {}
      BY <1>10
    <3> QED BY <1>6, <3>1 DEF LinesIn
  <2>2. \A i \in 1 .. n : i - 1 \in OutputLines
    <3>1. \A i \in 1 .. n : i - 1 \in 0 .. n - 1
      BY <1>1
    <3> QED BY <2>1, <3>1 DEF Missing, n
  <2>3. \A i \in 1 .. n : results[i].ok
    BY <1>8, <2>2
  <2>4. Oks(results) = 1 .. n
    BY <1>2, <2>3 DEF Oks
  <2>5. Frame = Picked(results, 1 .. n)
    BY <1>9, <1>10, <2>4 DEF Padded, StoredOutputs
  <2>6. DOMAIN Frame = 1 .. n /\ \A p \in 1 .. n : Frame[p] = results[p]
    BY <1>1, <2>5, AllPicked
  <2>7. Len(Frame) = n
    <3>1. Len(Frame) \in Nat /\ DOMAIN Frame = 1 .. Len(Frame)
      BY FrameFacts
    <3>2. 1 .. Len(Frame) = 1 .. n
      BY <2>6, <3>1
    <3>3. Cardinality(1 .. Len(Frame)) = Len(Frame) /\ Cardinality(1 .. n) = n
      BY <1>1, <3>1, Numbered
    <3> QED BY <3>2, <3>3
  <2> QED BY <1>4, <2>6, <2>7 DEF n
<1>11. CASE padding # <<>>
  <2>1. Frame = ByLine(joined)
    BY <1>9, <1>11 DEF Padded
  <2>2. \A i \in DOMAIN stored, j \in DOMAIN padding : stored[i].line # padding[j].line
    <3>1. \A j \in DOMAIN padding : padding[j].line \notin LinesIn(stored)
      BY <1>6, <1>7 DEF Missing
    <3> HIDE DEF stored, padding
    <3> QED BY <3>1 DEF LinesIn
  <2> HIDE DEF stored, padding
  <2>3. joined \in Seq(Result) /\ Distinct(joined)
        /\ LinesIn(joined) = LinesIn(stored) \cup LinesIn(padding)
    BY <1>5, <1>6, <2>2, JoinedLines
  <2>4. LinesIn(stored) \subseteq 0 .. n - 1
    <3>1. \A p \in DOMAIN stored : stored[p].line \in LinesIn(results)
      BY <1>2, <1>5 DEF LinesIn
    <3> QED BY <1>2, <3>1 DEF LinesIn
  <2>5. LinesIn(joined) = 0 .. n - 1
    BY <1>6, <1>7, <2>3, <2>4 DEF Missing, n
  <2>6. \A p \in DOMAIN joined : (\E i \in DOMAIN stored : joined[p] = stored[i])
                                 \/ \E i \in DOMAIN padding : joined[p] = padding[i]
    BY <1>5, <1>6, JoinElements DEF OnlyFrom
  <2> HIDE DEF joined
  <2> DEFINE m == Len(joined)
  <2>7. m \in Nat /\ DOMAIN joined = 1 .. m /\ joined \in [1 .. m -> Result]
    BY <2>3
  <2> HIDE DEF m
  <2>8. m = n
    <3>1. Cardinality(LinesIn(joined)) = m
      BY <2>3, <2>7, LinesCounted
    <3>2. Distinct(results)
      BY <1>1, <1>4, <1>2 DEF Distinct
    <3>3. Cardinality(LinesIn(results)) = n
      BY <1>1, <1>2, <3>2, LinesCounted
    <3> QED BY <1>2, <2>5, <3>1, <3>3
  <2>9. LET sorted == ByLine(joined) IN
        /\ sorted \in [1 .. m -> Result]
        /\ ClimbingLines(sorted, m)
        /\ \A p \in 1 .. m : \E i \in 1 .. m : sorted[p] = joined[i]
        /\ \A i \in 1 .. m : \E p \in 1 .. m : sorted[p] = joined[i]
    BY <2>3, <2>7, ByLineFacts
  <2>10. /\ Frame \in [1 .. n -> Result] /\ ClimbingLines(Frame, n)
         /\ \A p \in 1 .. n : \E i \in 1 .. n : Frame[p] = joined[i]
         /\ \A i \in 1 .. n : \E p \in 1 .. n : Frame[p] = joined[i]
    BY <2>1, <2>8, <2>9
  <2>11. LinesIn(Frame) = 0 .. n - 1
    <3>1. DOMAIN Frame = 1 .. n /\ DOMAIN joined = 1 .. n
      BY <2>7, <2>8, <2>10
    <3>2. ASSUME NEW x \in LinesIn(Frame) PROVE x \in LinesIn(joined)
      <4>1. PICK p \in 1 .. n : x = Frame[p].line
        BY <3>1 DEF LinesIn
      <4>2. PICK i \in 1 .. n : Frame[p] = joined[i]
        BY <2>10
      <4> QED BY <3>1, <4>1, <4>2 DEF LinesIn
    <3>3. ASSUME NEW x \in LinesIn(joined) PROVE x \in LinesIn(Frame)
      <4>1. PICK i \in 1 .. n : x = joined[i].line
        BY <3>1 DEF LinesIn
      <4>2. PICK p \in 1 .. n : Frame[p] = joined[i]
        BY <2>10
      <4> QED BY <3>1, <4>1, <4>2 DEF LinesIn
    <3> QED BY <2>5, <3>2, <3>3
  <2>12. \A p \in 1 .. n : Frame[p].line = p - 1
    <3>1. DOMAIN Frame = 1 .. n /\ \A p \in 1 .. n : Frame[p].line \in Nat
      BY <2>10 DEF Result
    <3>2. Rising(Frame, n)
      BY <1>1, <2>10, <3>1 DEF Rising
    <3> QED BY <2>11, <3>2, DenseOrder
  <2>13. ASSUME NEW p \in 1 .. n PROVE Frame[p].ok = results[p].ok
    <3>1. PICK i \in DOMAIN joined : Frame[p] = joined[i]
      BY <2>7, <2>8, <2>10
    <3>2. CASE \E j \in DOMAIN stored : joined[i] = stored[j]
      <4>1. PICK j \in DOMAIN stored : Frame[p] = stored[j]
        BY <3>1, <3>2
      <4>2. PICK k \in 1 .. n : results[k].ok /\ stored[j] = results[k]
        BY <1>5
      <4>3. k - 1 = p - 1
        BY <1>4, <2>12, <4>1, <4>2
      <4>4. k = p
        BY <1>1, <4>3
      <4> QED BY <4>1, <4>2, <4>4
    <3>3. CASE \E j \in DOMAIN padding : joined[i] = padding[j]
      <4>1. PICK j \in DOMAIN padding : Frame[p] = padding[j]
        BY <3>1, <3>3
      <4>2. p - 1 \notin OutputLines /\ Frame[p].ok = FALSE
        BY <1>6, <2>12, <4>1 DEF Missing
      <4> QED BY <1>3, <1>8, <4>2
    <3> QED BY <2>6, <3>1, <3>2, <3>3
  <2>14. Len(Frame) = n
    <3>1. Frame \in Seq(Result) /\ Len(Frame) = n
      BY <1>1, <2>10, Sequence
    <3> QED BY <3>1
  <2> QED BY <1>4, <2>12, <2>13, <2>14 DEF n
<1> QED BY <1>10, <1>11

\* A line of a run of lines 0, 1, ... failed if its result is not in order.
LEMMA FailedLine ==
  ASSUME IInv, pc = "ended", Dense, StoredOutputs # <<>>, NEW p \in 1 .. Len(batch)
  PROVE  Failed(p - 1) <=> ~ results[p].ok
<1> DEFINE n == Len(batch)
<1>1. n \in Nat
  BY DEF IInv, BatchInv
<1>2. DOMAIN results = 1 .. n /\ \A i \in 1 .. n : results[i].line = i - 1
  BY ResultsFacts, DenseFrame
<1>3. \A i \in 1 .. n : i - 1 = p - 1 => i = p
  BY <1>1
<1> QED BY <1>2, <1>3 DEF Failed

\* The inputs of the batch, read back.
LEMMA InputsFacts ==
  ASSUME IInv
  PROVE  LET n == Len(batch) IN
         /\ Len(LoadInputs) = n /\ DOMAIN LoadInputs = 1 .. n
         /\ \A i \in 1 .. n : LoadInputs[i] = Row(batch[i].line, batch[i].line, TRUE)
<1> DEFINE n == Len(batch)
           R == {LoadInputs[i] : i \in 1 .. n}
<1>1. n \in Nat /\ DOMAIN batch = 1 .. n
  BY DEF IInv, BatchInv
<1>2. /\ DOMAIN LoadInputs = 1 .. n
      /\ \A i \in 1 .. n : LoadInputs[i] = Row(batch[i].line, batch[i].line, TRUE)
      /\ LoadInputs = [i \in 1 .. n |-> LoadInputs[i]]
  BY <1>1 DEF LoadInputs
<1>3. LoadInputs \in [1 .. n -> R]
  BY <1>2
<1> QED BY <1>1, <1>2, <1>3, Sequence

\* What can have been made of a run.
LEMMA Views ==
  ASSUME IInv
  PROVE  \/ view.what = "none"
         \/ pc = "ended" /\ view = Details /\ view.what \in {"details", "no details"}
         \/ view.what = "no evaluation"
         \/ pc = "ended" /\ \E data \in NewData :
              /\ ~ Rejected(EvaluationSources(data))
              /\ view = [what |-> "evaluation", sources |-> EvaluationSources(data),
                         rows |-> Merge(EvaluationSources(data))]
<1>1. CASE view = NoView
  BY <1>1 DEF NoView
<1>2. CASE view # NoView
  <2>1. pc = "ended"
    BY <1>2 DEF IInv, EndInv
  <2>2. CASE view = Details
    <3>1. view.what \in {"details", "no details"}
      BY <2>2 DEF Details, NoView
    <3> QED BY <2>1, <2>2, <3>1
  <2>3. CASE \E data \in NewData : view = Evaluation(data)
    <3>1. PICK data \in NewData : view = Evaluation(data)
      BY <2>3
    <3>2. CASE Rejected(EvaluationSources(data))
      BY <3>1, <3>2 DEF Evaluation, NoView
    <3>3. CASE ~ Rejected(EvaluationSources(data))
      BY <2>1, <3>1, <3>3 DEF Evaluation
    <3> QED BY <3>2, <3>3
  <2> QED BY <1>2, <2>2, <2>3 DEF IInv, ViewInv
<1> QED BY <1>1, <1>2

\* Details show each line's inputs beside its own outputs.
THEOREM DetailsPairs == Spec => []DetailsAligned
<1>1. IInv => DetailsAligned
  <2> SUFFICES ASSUME IInv, Ascending, Dense
               PROVE  /\ view.what # "no details"
                      /\ view.what = "details" =>
                           /\ Len(view.rows) = (IF StoredOutputs = <<>> THEN 0 ELSE Len(batch))
                           /\ \A i \in DOMAIN view.rows :
                                /\ view.rows[i].input.of = view.rows[i].output.of
                                /\ view.rows[i].output.real = ~ Failed(view.rows[i].input.of)
    BY DEF DetailsAligned
  <2> DEFINE n == Len(batch)
             outputs == LoadOutputs
             inputs == LoadInputs
  <2>1. CASE ~ (pc = "ended" /\ view = Details)
    <3>1. \/ view.what \in {"none", "no evaluation"}
          \/ \E data \in NewData :
               view = [what |-> "evaluation", sources |-> EvaluationSources(data),
                       rows |-> Merge(EvaluationSources(data))]
      BY <2>1, Views
    <3>2. CASE view.what \in {"none", "no evaluation"}
      BY <3>2
    <3>3. CASE \E data \in NewData :
                 view = [what |-> "evaluation", sources |-> EvaluationSources(data),
                         rows |-> Merge(EvaluationSources(data))]
      <4>1. view.what = "evaluation"
        BY <3>3
      <4> QED BY <4>1
    <3> QED BY <3>1, <3>2, <3>3
  <2>2. CASE pc = "ended" /\ view = Details
    <3>1. n \in Nat
      BY DEF IInv, BatchInv
    <3>2. /\ Len(inputs) = n
          /\ \A i \in 1 .. n : inputs[i] = Row(batch[i].line, batch[i].line, TRUE)
      BY InputsFacts
    <3>3. CASE StoredOutputs = <<>>
      <4>1. outputs = <<>>
        BY <3>3 DEF LoadOutputs
      <4>2. view.what = "details" /\ view.rows = <<>>
        BY <2>2, <4>1 DEF Details, NoView
      <4> QED BY <3>3, <4>2
    <3>4. CASE StoredOutputs # <<>>
      <4>1. /\ Len(outputs) = n /\ DOMAIN outputs = 1 .. n
            /\ \A p \in 1 .. n : /\ outputs[p] = Row(None, p - 1, results[p].ok)
                                 /\ results[p].line = p - 1
        BY <2>2, <3>4, FrameFacts, DenseFrame
      <4> DEFINE Beside(i) == [input |-> inputs[i], output |-> outputs[i]]
      <4> HIDE DEF outputs, inputs, n
      <4>2. view.what = "details" /\ view.rows = [i \in 1 .. n |-> Beside(i)]
        BY <2>2, <3>2, <4>1 DEF Details, NoView, outputs, inputs
      <4>3. Len(view.rows) = n
        <5>1. view.rows \in [1 .. n -> {Beside(i) : i \in 1 .. n}]
          BY <4>2
        <5> QED BY <3>1, <5>1, Sequence
      <4>4. ASSUME NEW i \in 1 .. n
            PROVE  /\ view.rows[i].input.of = view.rows[i].output.of
                   /\ view.rows[i].output.real = ~ Failed(view.rows[i].input.of)
        <5>1. view.rows[i].input.of = batch[i].line
          BY <3>2, <4>2 DEF Row
        <5>2. view.rows[i].output.of = i - 1 /\ view.rows[i].output.real = results[i].ok
          BY <4>1, <4>2 DEF Row
        <5>3. batch[i].line = i - 1
          BY <2>2, <4>1, ResultsInPlace DEF n
        <5>4. Failed(i - 1) <=> ~ results[i].ok
          BY <2>2, <3>4, FailedLine DEF n
        <5>5. results[i].ok \in BOOLEAN
          BY <2>2, ResultLine DEF n
        <5>6. results[i].ok = ~ Failed(i - 1)
          BY <5>4, <5>5
        <5> QED BY <5>1, <5>2, <5>3, <5>6
      <4> QED BY <3>4, <4>2, <4>3, <4>4 DEF n
    <3> QED BY <3>3, <3>4
  <2> QED BY <2>1, <2>2
<1> QED BY <1>1, Invariance, PTL

-----------------------------------------------------------------------------
(* Evaluating the run *)

KeysDiffer(sources) ==
  \A j, k \in DOMAIN sources : sources[j].key = sources[k].key => j = k

\* The row a merged line has from a source is the last one of that line.
LEMMA MergedRows ==
  ASSUME NEW sources, Sources(sources), KeysDiffer(sources),
         NEW i \in DOMAIN Merge(sources), NEW k \in DOMAIN sources
  PROVE  LET merged == Merge(sources)
             from == sources[k].rows
         IN \E p \in DOMAIN from :
              /\ merged[i].row[sources[k].key] = from[p]
              /\ LineAt(from, p) = merged[i].line
              /\ \A q \in p + 1 .. Len(from) : LineAt(from, q) # merged[i].line
<1> DEFINE merged == Merge(sources)
           from == sources[k].rows
           line == merged[i].line
<1>1. InAll(sources, line) /\ merged[i] = MergedLine(sources, line)
  BY Merging
<1> HIDE DEF merged
<1>2. Len(from) \in Nat /\ DOMAIN from = 1 .. Len(from)
  BY DEF Sources
<1>3. At(from, line) # {}
  BY <1>1 DEF InAll
<1>4. PICK p \in 1 .. Len(from) :
        /\ RowOf(from, line) = from[p]
        /\ LineAt(from, p) = line
        /\ \A q \in p + 1 .. Len(from) : LineAt(from, q) # line
  <2> HIDE DEF from, line
  <2> QED BY <1>2, <1>3, LastRow
<1>5. merged[i].row = RowsOf(sources, line)
  BY <1>1 DEF MergedLine
<1>6. (CHOOSE j \in DOMAIN sources : sources[j].key = sources[k].key) = k
  BY DEF KeysDiffer
<1>7. RowsOf(sources, line)[sources[k].key] = RowOf(from, line)
  BY <1>6 DEF RowsOf
<1> QED BY <1>2, <1>4, <1>5, <1>7 DEF merged

\* A sequence of one element with one of two behind it.
LEMMA ThreeJoined == ASSUME NEW a, NEW b, NEW c PROVE <<a>> \o <<b, c>> = <<a, b, c>>
<1> DEFINE S == {a, b, c}
           s == <<a>> \o <<b, c>>
           t == <<a, b, c>>
<1>1. <<a>> \in Seq(S) /\ <<b, c>> \in Seq(S) /\ Len(<<a>>) = 1 /\ Len(<<b, c>>) = 2
  OBVIOUS
<1>2. s \in Seq(S) /\ Len(s) = 3 /\ s[1] = a /\ s[2] = b /\ s[3] = c
  BY <1>1
<1>3. t \in Seq(S) /\ Len(t) = 3 /\ t[1] = a /\ t[2] = b /\ t[3] = c
  OBVIOUS
<1> HIDE DEF s, t, S
<1>4. DOMAIN s = {1, 2, 3} /\ DOMAIN t = {1, 2, 3}
  BY <1>2, <1>3
<1>5. s = [i \in {1, 2, 3} |-> s[i]] /\ t = [i \in {1, 2, 3} |-> t[i]]
  BY <1>2, <1>3, <1>4
<1>6. s = t
  BY <1>2, <1>3, <1>5
<1> QED BY <1>6 DEF s, t

\* The sources of an evaluation.
LEMMA EvaluationFacts ==
  ASSUME IInv, pc = "ended", NEW data \in NewData, ~ Rejected(EvaluationSources(data))
  PROVE  LET sources == EvaluationSources(data) IN
         /\ Sources(sources) /\ KeysDiffer(sources)
         /\ \E k \in DOMAIN sources : sources[k] = Source("run.outputs", LoadOutputs)
         /\ \E k \in DOMAIN sources : sources[k] = Source("run.inputs", LoadInputs)
         /\ LoadOutputs # <<>>
         /\ \A i \in DOMAIN LoadOutputs : LineAt(LoadOutputs, i) = i - 1
         /\ \A i \in DOMAIN LoadInputs : LineAt(LoadInputs, i) = batch[i].line
<1> DEFINE sources == EvaluationSources(data)
           outputs == Source("run.outputs", LoadOutputs)
           inputs == Source("run.inputs", LoadInputs)
           Good(rows) == /\ Len(rows) \in Nat /\ DOMAIN rows = 1 .. Len(rows)
                         /\ \A i \in DOMAIN rows : LineAt(rows, i) \in Nat
<1>1. \A i \in DOMAIN LoadOutputs : LineAt(LoadOutputs, i) = i - 1
  <2>1. \A i \in DOMAIN LoadOutputs : LoadOutputs[i].line = None
    BY FrameFacts DEF Row
  <2> QED BY <2>1 DEF LineAt, HasNumbers
<1>2. Good(LoadOutputs)
  <2> DEFINE m == Len(Frame)
  <2>1. m \in Nat /\ Len(LoadOutputs) = m /\ DOMAIN LoadOutputs = 1 .. m
    BY FrameFacts
  <2> HIDE DEF m
  <2>2. \A i \in 1 .. m : i - 1 \in Nat
    BY <2>1
  <2> QED BY <1>1, <2>1, <2>2
<1>3. Good(LoadInputs) /\ \A i \in DOMAIN LoadInputs : LineAt(LoadInputs, i) = batch[i].line
  <2> DEFINE n == Len(batch)
  <2>1. n \in Nat /\ \A i \in 1 .. n : batch[i].line \in Nat /\ batch[i].line # None
    BY DataAssumption DEF IInv, BatchInv
  <2>2. Len(LoadInputs) = n /\ DOMAIN LoadInputs = 1 .. n
        /\ \A i \in 1 .. n : LoadInputs[i].line = batch[i].line
    BY InputsFacts DEF Row
  <2> HIDE DEF n
  <2>3. \A i \in 1 .. n : LineAt(LoadInputs, i) = batch[i].line
    BY <2>1, <2>2 DEF LineAt, HasNumbers
  <2> QED BY <2>1, <2>2, <2>3
<1>4. \/ sources = <<outputs, inputs>>
      \/ \E file \in DataFiles : sources = <<Source("data", DataRows(file)), outputs, inputs>>
  <2>1. CASE data = <<>>
    <3>1. sources = <<>> \o <<outputs, inputs>>
      BY <2>1 DEF EvaluationSources
    <3> HIDE DEF sources, outputs, inputs
    <3>2. <<>> \o <<outputs, inputs>> = <<outputs, inputs>>
      OBVIOUS
    <3> QED BY <3>1, <3>2
  <2>2. CASE \E file \in DataFiles : data = <<Source("data", DataRows(file))>>
    <3>1. PICK file \in DataFiles : data = <<Source("data", DataRows(file))>>
      BY <2>2
    <3> DEFINE d == Source("data", DataRows(file))
    <3>2. sources = <<d>> \o <<outputs, inputs>>
      BY <3>1 DEF EvaluationSources
    <3> HIDE DEF sources, outputs, inputs, d
    <3>3. sources = <<d, outputs, inputs>>
      BY <3>2, ThreeJoined
    <3> QED BY <3>3 DEF d
  <2> QED BY <2>1, <2>2 DEF NewData
<1>5. outputs.key = "run.outputs" /\ inputs.key = "run.inputs"
      /\ outputs.rows = LoadOutputs /\ inputs.rows = LoadInputs
  BY DEF Source
<1>6. \A k \in DOMAIN sources : sources[k].rows # <<>>
  BY DEF Rejected
<1> HIDE DEF sources, outputs, inputs
<1>7. CASE sources = <<outputs, inputs>>
  <2>1. /\ Len(sources) = 2 /\ DOMAIN sources = 1 .. 2 /\ DOMAIN sources = {1, 2}
        /\ sources[1] = outputs /\ sources[2] = inputs
    BY <1>7
  <2>2. KeysDiffer(sources)
    BY <1>5, <2>1 DEF KeysDiffer
  <2>3. \A k \in DOMAIN sources : Good(sources[k].rows)
    BY <1>2, <1>3, <1>5, <2>1
  <2>4. Sources(sources)
    BY <2>1, <2>3 DEF Sources
  <2>5. LoadOutputs # <<>>
    BY <1>5, <1>6, <2>1
  <2> QED BY <1>1, <1>3, <2>1, <2>2, <2>4, <2>5 DEF sources, outputs, inputs
<1>8. CASE \E file \in DataFiles : sources = <<Source("data", DataRows(file)), outputs, inputs>>
  <2>0. PICK file \in DataFiles : sources = <<Source("data", DataRows(file)), outputs, inputs>>
    BY <1>8
  <2> DEFINE d == Source("data", DataRows(file))
  <2>a. d.key = "data" /\ d.rows = DataRows(file)
    BY DEF Source
  <2>b. sources = <<d, outputs, inputs>>
    BY <2>0
  <2>c. Good(d.rows)
    BY <2>a, DataSource
  <2> HIDE DEF d
  <2>1. /\ Len(sources) = 3 /\ DOMAIN sources = 1 .. 3 /\ DOMAIN sources = {1, 2, 3}
        /\ sources[1] = d /\ sources[2] = outputs /\ sources[3] = inputs
    BY <2>b
  <2>2. KeysDiffer(sources)
    BY <1>5, <2>a, <2>1 DEF KeysDiffer
  <2>3. \A k \in DOMAIN sources : Good(sources[k].rows)
    BY <1>2, <1>3, <1>5, <2>1, <2>c
  <2>4. Sources(sources)
    BY <2>1, <2>3 DEF Sources
  <2>5. LoadOutputs # <<>>
    BY <1>5, <1>6, <2>1
  <2> QED BY <1>1, <1>3, <2>1, <2>2, <2>4, <2>5 DEF sources, outputs, inputs
<1> QED BY <1>4, <1>7, <1>8

LinesAt(rows) == {LineAt(rows, i) : i \in DOMAIN rows}
Common(sources) == {n \in LinesAt(sources[1].rows) :
                      \A k \in DOMAIN sources : n \in LinesAt(sources[k].rows)}

\* The inputs of an evaluation are the join of its sources by line.
THEOREM EvaluationJoins == Spec => []EvaluationIsJoin
<1>1. IInv => EvaluationIsJoin
  <2> SUFFICES ASSUME IInv, view.what = "evaluation"
               PROVE  LET lines(k) == {LineAt(view.sources[k].rows, i) :
                                         i \in DOMAIN view.sources[k].rows}
                          rows == view.rows IN
                      /\ {rows[i].line : i \in DOMAIN rows} =
                           {n \in lines(1) : \A k \in DOMAIN view.sources : n \in lines(k)}
                      /\ \A i, j \in DOMAIN rows : rows[i].line = rows[j].line => i = j
                      /\ \A i \in DOMAIN rows, k \in DOMAIN view.sources :
                           LET from == view.sources[k].rows IN
                           \E p \in DOMAIN from :
                             /\ rows[i].row[view.sources[k].key] = from[p]
                             /\ LineAt(from, p) = rows[i].line
                             /\ \A q \in p + 1 .. Len(from) : LineAt(from, q) # rows[i].line
    BY DEF EvaluationIsJoin
  <2>1. PICK data \in NewData :
          /\ pc = "ended" /\ ~ Rejected(EvaluationSources(data))
          /\ view = [what |-> "evaluation", sources |-> EvaluationSources(data),
                     rows |-> Merge(EvaluationSources(data))]
    BY Views
  <2> DEFINE sources == EvaluationSources(data)
             rows == Merge(sources)
             lines(k) == {LineAt(sources[k].rows, i) : i \in DOMAIN sources[k].rows}
  <2>2. view.sources = sources /\ view.rows = rows
    BY <2>1
  <2>3. Sources(sources) /\ KeysDiffer(sources)
    BY <2>1, EvaluationFacts
  <2> HIDE DEF sources
  <2>4. /\ \A i \in DOMAIN rows : rows[i].line \in Nat /\ InAll(sources, rows[i].line)
        /\ Distinct(rows)
        /\ \A x \in Nat : InAll(sources, x) => \E i \in DOMAIN rows : rows[i].line = x
    BY <2>3, Merging
  <2>5. \A i \in DOMAIN rows, k \in DOMAIN sources :
          \E p \in DOMAIN sources[k].rows :
            /\ rows[i].row[sources[k].key] = sources[k].rows[p]
            /\ LineAt(sources[k].rows, p) = rows[i].line
            /\ \A q \in p + 1 .. Len(sources[k].rows) :
                 LineAt(sources[k].rows, q) # rows[i].line
    BY <2>3, MergedRows
  <2> HIDE DEF rows
  <2>6. \A x, k : x \in lines(k) <=> At(sources[k].rows, x) # {}
    BY DEF At
  <2>7. 1 \in DOMAIN sources /\ \A x \in lines(1) : x \in Nat
    BY <2>3 DEF Sources
  <2>8. {rows[i].line : i \in DOMAIN rows} =
          {n \in lines(1) : \A k \in DOMAIN sources : n \in lines(k)}
    <3> HIDE DEF lines
    <3>1. \A i \in DOMAIN rows : \A k \in DOMAIN sources : rows[i].line \in lines(k)
      BY <2>4, <2>6 DEF InAll
    <3>2. ASSUME NEW x \in lines(1), \A k \in DOMAIN sources : x \in lines(k)
          PROVE  \E i \in DOMAIN rows : rows[i].line = x
      BY <2>4, <2>6, <2>7, <3>2 DEF InAll
    <3> QED BY <2>7, <3>1, <3>2
  <2>9. \A i, j \in DOMAIN rows : rows[i].line = rows[j].line => i = j
    BY <2>4 DEF Distinct
  <2>10. LinesIn(rows) = Common(sources)
    BY <2>8 DEF LinesIn, Common, LinesAt
  <2> HIDE DEF lines
  <2>11. LinesIn(view.rows) = Common(view.sources)
    BY <2>2, <2>10
  <2>12. \A i, j \in DOMAIN view.rows : view.rows[i].line = view.rows[j].line => i = j
    BY <2>2, <2>9
  <2>13. \A i \in DOMAIN view.rows, k \in DOMAIN view.sources :
           \E p \in DOMAIN view.sources[k].rows :
             /\ view.rows[i].row[view.sources[k].key] = view.sources[k].rows[p]
             /\ LineAt(view.sources[k].rows, p) = view.rows[i].line
             /\ \A q \in p + 1 .. Len(view.sources[k].rows) :
                  LineAt(view.sources[k].rows, q) # view.rows[i].line
    BY <2>2, <2>5
  <2> QED BY <2>11, <2>12, <2>13 DEF LinesIn, Common, LinesAt
<1> QED BY <1>1, Invariance, PTL

\* An evaluation sees each line's inputs with its own outputs.
THEOREM EvaluationPairs == Spec => []EvaluationAligned
<1>1. IInv => EvaluationAligned
  <2> SUFFICES ASSUME IInv, view.what = "evaluation", Dense, NEW i \in DOMAIN view.rows
               PROVE  LET line == view.rows[i].line
                          row == view.rows[i].row IN
                      /\ row["run.outputs"].of = line /\ row["run.inputs"].of = line
                      /\ row["run.outputs"].real = ~ Failed(line)
    BY DEF EvaluationAligned
  <2>1. PICK data \in NewData :
          /\ pc = "ended" /\ ~ Rejected(EvaluationSources(data))
          /\ view = [what |-> "evaluation", sources |-> EvaluationSources(data),
                     rows |-> Merge(EvaluationSources(data))]
    BY Views
  <2> DEFINE sources == EvaluationSources(data)
             rows == Merge(sources)
             line == rows[i].line
             row == rows[i].row
             n == Len(batch)
  <2>2. view.rows = rows /\ i \in DOMAIN rows
    BY <2>1
  <2>3. /\ Sources(sources) /\ KeysDiffer(sources)
        /\ \E k \in DOMAIN sources : sources[k] = Source("run.outputs", LoadOutputs)
        /\ \E k \in DOMAIN sources : sources[k] = Source("run.inputs", LoadInputs)
        /\ LoadOutputs # <<>>
        /\ \A j \in DOMAIN LoadOutputs : LineAt(LoadOutputs, j) = j - 1
        /\ \A j \in DOMAIN LoadInputs : LineAt(LoadInputs, j) = batch[j].line
    BY <2>1, EvaluationFacts
  <2> HIDE DEF sources
  <2>4. \A k \in DOMAIN sources : \E p \in DOMAIN sources[k].rows :
          /\ row[sources[k].key] = sources[k].rows[p]
          /\ LineAt(sources[k].rows, p) = line
    BY <2>2, <2>3, MergedRows
  <2> HIDE DEF line, row
  <2>5. PICK p \in DOMAIN LoadOutputs :
          row["run.outputs"] = LoadOutputs[p] /\ LineAt(LoadOutputs, p) = line
    <3>1. PICK k \in DOMAIN sources : sources[k] = Source("run.outputs", LoadOutputs)
      BY <2>3
    <3>2. sources[k].key = "run.outputs" /\ sources[k].rows = LoadOutputs
      BY <3>1 DEF Source
    <3> QED BY <2>4, <3>2
  <2>6. PICK q \in DOMAIN LoadInputs :
          row["run.inputs"] = LoadInputs[q] /\ LineAt(LoadInputs, q) = line
    <3>1. PICK k \in DOMAIN sources : sources[k] = Source("run.inputs", LoadInputs)
      BY <2>3
    <3>2. sources[k].key = "run.inputs" /\ sources[k].rows = LoadInputs
      BY <3>1 DEF Source
    <3> QED BY <2>4, <3>2
  <2>7. row["run.inputs"].of = line
    <3>1. LoadInputs[q].of = batch[q].line
      BY InputsFacts DEF Row
    <3> QED BY <2>3, <2>6, <3>1
  <2>8. StoredOutputs # <<>>
    BY <2>3 DEF LoadOutputs
  <2>9. /\ p \in 1 .. n /\ LoadOutputs[p].of = p - 1 /\ LoadOutputs[p].real = results[p].ok
    BY <2>1, <2>8, FrameFacts, DenseFrame DEF Row
  <2>10. line = p - 1
    BY <2>3, <2>5
  <2>11. results[p].ok \in BOOLEAN /\ (Failed(p - 1) <=> ~ results[p].ok)
    BY <2>1, <2>8, <2>9, FailedLine, ResultLine
  <2>12. row["run.outputs"].real = ~ Failed(line)
    BY <2>5, <2>9, <2>10, <2>11
  <2> QED BY <2>2, <2>5, <2>7, <2>9, <2>10, <2>12 DEF line, row
<1> QED BY <1>1, Invariance, PTL
=============================================================================
