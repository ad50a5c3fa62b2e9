----------------------------- MODULE DataLemmas -----------------------------
(***************************************************************************)
(* What the specifications compute their data with, for every finite set   *)
(* and every sequence: the order of a sort, sums, and concatenations.      *)
(*                                                                         *)
(* The library's folds are recursive functions.  Each of them is described *)
(* here by something that is not recursive (a sum by a cardinality) or by  *)
(* one step of its recursion, and a proof about it then needs nothing else.*)
(***************************************************************************)
EXTENDS Ranking, Integers, Sequences, Functions, SequencesExt, FiniteSetTheorems,
        FunctionTheorems, SequenceTheorems, WellFoundedInduction, TLAPS

\* A set of numbers that is not empty has a least one.
LEMMA LeastNumber ==
    ASSUME NEW S \in SUBSET Nat, S # {}
    PROVE  \E n \in S : \A m \in S : n <= m
<1> DEFINE Less == OpToRel(<, Nat)
<1>1. PICK n \in S : \A m \in S : <<m, n>> \notin Less
  <2>1. IsWellFoundedOn(Less, Nat)
    BY NatLessThanWellFounded
  <2> HIDE DEF Less
  <2> QED BY <2>1, WFMin
<1>2. ASSUME NEW m \in S PROVE n <= m
  <2>1. n \in Nat /\ m \in Nat /\ <<m, n>> \in Nat \X Nat
    BY <1>1, <1>2
  <2>2. <<m, n>> \notin {pair \in Nat \X Nat : pair[1] < pair[2]}
    BY <1>1, <1>2 DEF OpToRel
  <2> QED BY <2>1, <2>2
<1> QED BY <1>1, <1>2

-----------------------------------------------------------------------------
(* Places in an order *)

\* What comes earlier has a lower place.
LEMMA RanksGrow ==
    ASSUME NEW R, NEW K, IsFiniteSet(K), Orders(R, K)
    PROVE  /\ \A k \in K : Rank(R, K, k) \in Nat
           /\ \A a, b \in K : Rank(R, K, a) < Rank(R, K, b) <=> <<a, b>> \in R
<1> DEFINE Before(k) == {l \in K : <<l, k>> \in R}
<1>1. \A k \in K : IsFiniteSet(Before(k)) /\ Cardinality(Before(k)) \in Nat
  BY FS_Subset, FS_CardinalityType
<1>2. ASSUME NEW x \in K, NEW y \in K, <<x, y>> \in R
      PROVE  Cardinality(Before(x)) < Cardinality(Before(y))
  <2>1. Before(x) \subseteq Before(y) /\ Before(x) # Before(y)
    BY <1>2 DEF Orders
  <2> HIDE DEF Before
  <2>2. Before(x) \in SUBSET Before(y) /\ IsFiniteSet(Before(y))
    BY <2>1, <1>1
  <2>3. Cardinality(Before(x)) <= Cardinality(Before(y))
        /\ Cardinality(Before(x)) # Cardinality(Before(y))
    BY <2>1, <2>2, FS_Subset
  <2> QED BY <2>3, <1>1
<1>3. \A k \in K : Rank(R, K, k) = Cardinality(Before(k)) BY DEF Rank
<1>4. \A a, b \in K : a = b \/ <<a, b>> \in R \/ <<b, a>> \in R BY DEF Orders
<1> HIDE DEF Before
<1>5. ASSUME NEW a \in K, NEW b \in K
      PROVE  Rank(R, K, a) < Rank(R, K, b) <=> <<a, b>> \in R
  <2>1. Rank(R, K, a) \in Nat /\ Rank(R, K, b) \in Nat BY <1>1, <1>3
  <2>2. <<a, b>> \in R => Rank(R, K, a) < Rank(R, K, b) BY <1>2, <1>3
  <2>3. <<b, a>> \in R => Rank(R, K, b) < Rank(R, K, a) BY <1>2, <1>3
  <2>4. a = b => Rank(R, K, a) = Rank(R, K, b) OBVIOUS
  <2> QED BY <1>4, <2>1, <2>2, <2>3, <2>4
<1> QED BY <1>1, <1>3, <1>5

\* So no two have the same one.
LEMMA RanksDiffer ==
    ASSUME NEW R, NEW K, IsFiniteSet(K), Orders(R, K), NEW a \in K, NEW b \in K, a # b
    PROVE  Rank(R, K, a) \in Nat /\ Rank(R, K, b) \in Nat /\ Rank(R, K, a) # Rank(R, K, b)
<1>1. <<a, b>> \in R \/ <<b, a>> \in R BY DEF Orders
<1> QED BY <1>1, RanksGrow

\* There are no more members with a place under a bound than the bound says.
LEMMA RankedFew ==
    ASSUME NEW R, NEW K, IsFiniteSet(K), Orders(R, K), NEW c \in Nat,
           NEW S \in SUBSET K, \A k \in S : Rank(R, K, k) < c
    PROVE  IsFiniteSet(S) /\ Cardinality(S) <= c
<1>1. CASE c = 0
  <2>1. \A k \in K : Rank(R, K, k) \in Nat
    BY FS_Subset, FS_CardinalityType DEF Rank
  <2>2. S = {} BY <1>1, <2>1
  <2> QED BY <2>2, FS_EmptySet
<1>2. CASE c # 0
  <2> DEFINE f == [k \in S |-> Rank(R, K, k)]
  <2>1. \A k \in K : Rank(R, K, k) \in Nat
    BY FS_Subset, FS_CardinalityType DEF Rank
  <2>2. f \in [S -> 0 .. c - 1] BY <2>1
  <2>3. \A a, b \in S : f[a] = f[b] => a = b BY RanksDiffer
  <2> HIDE DEF f
  <2>4. f \in Injection(S, 0 .. c - 1) BY <2>2, <2>3 DEF Injection, IsInjective
  <2>5. IsFiniteSet(0 .. c - 1) /\ Cardinality(0 .. c - 1) = c
    BY <1>2, FS_Interval
  <2> QED BY <2>4, <2>5, FS_Injection
<1> QED BY <1>1, <1>2

\* Every place is somebody's.
LEMMA RanksTaken ==
    ASSUME NEW R, NEW K, IsFiniteSet(K), Orders(R, K)
    PROVE  /\ Cardinality(K) \in Nat
           /\ \A k \in K : Rank(R, K, k) \in 0 .. Cardinality(K) - 1
           /\ \A i \in 0 .. Cardinality(K) - 1 : \E k \in K : Rank(R, K, k) = i
<1> DEFINE n == Cardinality(K)
           f == [k \in K |-> Rank(R, K, k)]
<1>1. n \in Nat BY FS_CardinalityType
<1>2. ASSUME NEW k \in K PROVE Rank(R, K, k) \in 0 .. n - 1
  <2> DEFINE T == {l \in K : <<l, k>> \in R}
  <2>1. T \in SUBSET K /\ k \notin T BY DEF Orders
  <2> HIDE DEF T
  <2>2. Cardinality(T) \in Nat /\ Cardinality(T) <= n /\ Cardinality(T) # n
    BY <2>1, FS_Subset, FS_CardinalityType
  <2>3. Rank(R, K, k) = Cardinality(T) BY DEF Rank, T
  <2> QED BY <1>1, <2>2, <2>3
<1>3. ASSUME NEW i \in 0 .. n - 1 PROVE \E k \in K : Rank(R, K, k) = i
  <2>1. f \in [K -> 0 .. n - 1] BY <1>2
  <2>2. \A a, b \in K : f[a] = f[b] => a = b BY RanksDiffer
  <2>3. \A a \in K : f[a] = Rank(R, K, a) OBVIOUS
  <2> HIDE DEF f
  <2>4. f \in Injection(K, 0 .. n - 1) BY <2>1, <2>2 DEF Injection, IsInjective
  <2>5. n >= 1 BY <1>1
  <2>6. IsFiniteSet(0 .. n - 1) /\ Cardinality(0 .. n - 1) = n
    BY <1>1, <2>5, FS_Interval
  <2>7. f \in Surjection(K, 0 .. n - 1) BY <2>4, <2>6, FS_Injection
  <2> QED BY <2>3, <2>7 DEF Surjection
<1> QED BY <1>1, <1>2, <1>3

\* A set listed in an order has each member at the place of its rank.
LEMMA InOrderPlaces ==
    ASSUME NEW R, NEW K, IsFiniteSet(K), Orders(R, K)
    PROVE  LET s == InOrder(R, K)
           IN  /\ Cardinality(K) \in Nat /\ DOMAIN s = 1 .. Cardinality(K)
               /\ \A i \in DOMAIN s : s[i] \in K /\ Rank(R, K, s[i]) = i - 1
<1> DEFINE n == Cardinality(K)
           s == InOrder(R, K)
<1>1. n \in Nat /\ \A i \in 0 .. n - 1 : \E k \in K : Rank(R, K, k) = i BY RanksTaken
<1>2. s = [i \in 1 .. n |-> CHOOSE k \in K : Rank(R, K, k) = i - 1] BY DEF InOrder
<1> HIDE DEF n, s
<1>3. DOMAIN s = 1 .. n BY <1>2
<1>4. ASSUME NEW i \in 1 .. n PROVE s[i] \in K /\ Rank(R, K, s[i]) = i - 1
  <2>1. i - 1 \in 0 .. n - 1 BY <1>1
  <2>2. \E k \in K : Rank(R, K, k) = i - 1 BY <1>1, <2>1
  <2> QED BY <1>2, <2>2
<1> QED BY <1>1, <1>3, <1>4 DEF n, s

\* A set listed in an order has every member once, and each before the later ones.
LEMMA InOrderLists ==
    ASSUME NEW R, NEW K, IsFiniteSet(K), Orders(R, K)
    PROVE  LET s == InOrder(R, K)
           IN  /\ s \in Seq(K) /\ Len(s) = Cardinality(K) /\ Cardinality(K) \in Nat
               /\ DOMAIN s = 1 .. Cardinality(K)
               /\ \A i \in DOMAIN s : s[i] \in K
               /\ \A k \in K : \E i \in DOMAIN s : s[i] = k
               /\ \A i, j \in DOMAIN s : i < j <=> <<s[i], s[j]>> \in R
               /\ \A i, j \in DOMAIN s : s[i] = s[j] => i = j
<1> DEFINE n == Cardinality(K)
           s == InOrder(R, K)
<1>1. /\ n \in Nat
      /\ \A k \in K : Rank(R, K, k) \in 0 .. n - 1
      /\ \A i \in 0 .. n - 1 : \E k \in K : Rank(R, K, k) = i
  BY RanksTaken
<1>2. \A a, b \in K : Rank(R, K, a) < Rank(R, K, b) <=> <<a, b>> \in R
  BY RanksGrow
<1>3. DOMAIN s = 1 .. n /\ \A i \in DOMAIN s : s[i] \in K /\ Rank(R, K, s[i]) = i - 1
  BY InOrderPlaces
<1>4. s = [i \in 1 .. n |-> s[i]] BY DEF InOrder
<1> HIDE DEF n, s
<1>5. ASSUME NEW i \in 1 .. n PROVE s[i] \in K /\ Rank(R, K, s[i]) = i - 1
  BY <1>3
<1>6. \A a, b \in K : Rank(R, K, a) = Rank(R, K, b) => a = b
  BY RanksDiffer
<1>7. ASSUME NEW k \in K PROVE \E i \in 1 .. n : s[i] = k
  <2>1. PICK i \in 1 .. n : i = Rank(R, K, k) + 1 BY <1>1
  <2>2. Rank(R, K, s[i]) = Rank(R, K, k) /\ s[i] \in K BY <1>1, <1>5, <2>1
  <2> QED BY <1>6, <2>2
<1>8. DOMAIN s = 1 .. n BY <1>4
<1>9. s \in Seq(K) /\ Len(s) = n
  BY <1>1, <1>4, <1>5
<1>10. \A i, j \in 1 .. n : i < j <=> <<s[i], s[j]>> \in R
  <2> SUFFICES ASSUME NEW i \in 1 .. n, NEW j \in 1 .. n
               PROVE  i < j <=> Rank(R, K, s[i]) < Rank(R, K, s[j])
    BY <1>2, <1>5
  <2> QED BY <1>1, <1>5
<1>11. \A i, j \in 1 .. n : s[i] = s[j] => i = j
  BY <1>1, <1>5
<1> QED BY <1>1, <1>5, <1>7, <1>8, <1>9, <1>10, <1>11 DEF s, n

\* An index says where each element of p stands in s: at all of I, in order.
Takes(p, s, I, index) ==
    /\ index \in [DOMAIN p -> I]
    /\ \A k \in DOMAIN p : p[k] = s[index[k]]
    /\ \A i \in I : \E k \in DOMAIN p : index[k] = i
    /\ \A k, l \in DOMAIN p : k < l <=> index[k] < index[l]

\* What is picked from a sequence keeps its order, and is all of what was chosen.
LEMMA PickedKeeps ==
    ASSUME NEW T, NEW s \in Seq(T), NEW I \in SUBSET DOMAIN s
    PROVE  /\ Picked(s, I) \in Seq(T) /\ Len(Picked(s, I)) = Cardinality(I)
           /\ IsFiniteSet(I) /\ \E index : Takes(Picked(s, I), s, I, index)
<1> DEFINE R == {pair \in I \X I : pair[1] < pair[2]}
           index == InOrder(R, I)
           p == Picked(s, I)
<1>1. IsFiniteSet(I) /\ \A i \in I : i \in Nat /\ s[i] \in T
  <2>1. IsFiniteSet(1 .. Len(s)) BY FS_Interval
  <2> QED BY <2>1, FS_Subset
<1>2. \A a, b \in I : <<a, b>> \in R <=> a < b OBVIOUS
<1>3. p = [k \in DOMAIN index |-> s[index[k]]] BY DEF Picked
<1> HIDE DEF R, p
<1>4. Orders(R, I) BY <1>1, <1>2 DEF Orders
<1>5. /\ index \in Seq(I) /\ Len(index) = Cardinality(I) /\ Cardinality(I) \in Nat
      /\ DOMAIN index = 1 .. Cardinality(I)
      /\ \A i \in DOMAIN index : index[i] \in I
      /\ \A k \in I : \E i \in DOMAIN index : index[i] = k
      /\ \A i, j \in DOMAIN index : i < j <=> <<index[i], index[j]>> \in R
  BY <1>1, <1>4, InOrderLists
<1> HIDE DEF index
<1>6. DOMAIN p = 1 .. Cardinality(I) BY <1>3, <1>5
<1>7. \A k \in DOMAIN p : p[k] = s[index[k]] BY <1>3
<1>8. p \in Seq(T) /\ Len(p) = Cardinality(I)
  <2>1. p = [k \in 1 .. Cardinality(I) |-> s[index[k]]] BY <1>3, <1>5
  <2>2. \A k \in 1 .. Cardinality(I) : s[index[k]] \in T BY <1>1, <1>5
  <2>3. PICK n \in Nat : n = Cardinality(I) BY <1>5
  <2>4. p \in [1 .. n -> T] BY <2>1, <2>2, <2>3
  <2>5. p \in Seq(T) /\ Len(p) = n BY <2>3, <2>4
  <2> QED BY <2>3, <2>5
<1>9. index \in [DOMAIN p -> I] BY <1>5, <1>6
<1>10. \A k, l \in DOMAIN p : k < l <=> index[k] < index[l] BY <1>2, <1>5, <1>6
<1>11. \A i \in I : \E k \in DOMAIN p : index[k] = i BY <1>5, <1>6
<1>12. Takes(p, s, I, index) BY <1>7, <1>9, <1>10, <1>11 DEF Takes
<1> QED BY <1>1, <1>8, <1>12 DEF p

\* The places of what was picked are as distinct as what was chosen.
LEMMA TakesOnce ==
    ASSUME NEW p, NEW s, NEW I \in SUBSET Nat, NEW index, Takes(p, s, I, index),
           DOMAIN p \subseteq Nat, NEW k \in DOMAIN p, NEW l \in DOMAIN p, index[k] = index[l]
    PROVE  k = l
<1>1. k \in Nat /\ l \in Nat OBVIOUS
<1>2. index[k] \in Nat /\ index[l] \in Nat BY DEF Takes
<1>3. ~(k < l) /\ ~(l < k) BY <1>2 DEF Takes
<1> QED BY <1>1, <1>3

-----------------------------------------------------------------------------
(* Sizes                                                                   *)

\* A set and a copy of it, element by element, are equally large.
LEMMA SameSize ==
    ASSUME NEW S, NEW T, IsFiniteSet(S), NEW f \in [S -> T],
           \A a, b \in S : f[a] = f[b] => a = b, \A t \in T : \E a \in S : f[a] = t
    PROVE  IsFiniteSet(T) /\ Cardinality(T) = Cardinality(S)
<1>1. f \in Bijection(S, T) BY DEF Bijection, Injection, IsInjective, Surjection
<1> QED BY <1>1, FS_Bijection DEF ExistsBijection

\* The members whose place is under a bound are as many as the bound, if there are enough.
LEMMA RankedAll ==
    ASSUME NEW R, NEW K, IsFiniteSet(K), Orders(R, K), NEW c \in Nat, c <= Cardinality(K)
    PROVE  Cardinality({k \in K : Rank(R, K, k) < c}) = c
<1> DEFINE S == {k \in K : Rank(R, K, k) < c}
           f == [k \in S |-> Rank(R, K, k)]
<1>1. /\ Cardinality(K) \in Nat /\ \A k \in K : Rank(R, K, k) \in Nat
      /\ \A i \in 0 .. Cardinality(K) - 1 : \E k \in K : Rank(R, K, k) = i
      /\ \A a, b \in K : Rank(R, K, a) = Rank(R, K, b) => a = b
  BY RanksTaken, RanksGrow, RanksDiffer
<1>2. IsFiniteSet(S) /\ Cardinality(S) \in Nat BY FS_Subset, FS_CardinalityType
<1>3. c = 0 => S = {} BY <1>1
<1>4. CASE c = 0
  <2>1. S = {} BY <1>3, <1>4
  <2> HIDE DEF S
  <2>2. Cardinality(S) = 0 BY <2>1, FS_EmptySet
  <2> QED BY <1>4, <2>2 DEF S
<1>5. CASE c # 0
  <2>1. f \in [S -> 0 .. c - 1] BY <1>1
  <2>2. \A a, b \in S : f[a] = f[b] => a = b BY <1>1
  <2>3. \A i \in 0 .. c - 1 : \E a \in S : f[a] = i
    <3> TAKE i \in 0 .. c - 1
    <3>1. i \in 0 .. Cardinality(K) - 1 /\ i < c BY <1>1
    <3>2. PICK a \in K : Rank(R, K, a) = i BY <1>1, <3>1
    <3> QED BY <3>1, <3>2
  <2>4. IsFiniteSet(0 .. c - 1) /\ Cardinality(0 .. c - 1) = c BY <1>5, FS_Interval
  <2> HIDE DEF f, S
  <2>5. Cardinality(0 .. c - 1) = Cardinality(S)
    BY <1>2, <2>1, <2>2, <2>3, SameSize, ZenonT(60)
  <2> QED BY <2>4, <2>5 DEF S
<1> QED BY <1>4, <1>5

\* Finitely many values of a function.
LEMMA ValuesAreFinite ==
    ASSUME NEW S, IsFiniteSet(S), NEW f, DOMAIN f = S
    PROVE  IsFiniteSet({f[a] : a \in S})
<1> DEFINE T == {f[a] : a \in S}
           g == [a \in S |-> f[a]]
<1>1. g \in Surjection(S, T) BY DEF Surjection
<1> HIDE DEF g
<1> QED BY <1>1, FS_Surjection

\* A set that falls into parts is as large as they are together.
Parts(S, A, B, C) ==
    /\ A \in SUBSET S /\ B \in SUBSET S /\ C \in SUBSET S
    /\ A \cap B = {} /\ A \cap C = {} /\ B \cap C = {}
    /\ A \cup B \cup C = S

LEMMA ThreeParts ==
    ASSUME NEW S, IsFiniteSet(S), NEW A, NEW B, NEW C, Parts(S, A, B, C)
    PROVE  /\ Cardinality(A) + Cardinality(B) + Cardinality(C) = Cardinality(S)
           /\ Cardinality(A) \in Nat /\ Cardinality(B) \in Nat /\ Cardinality(C) \in Nat
<1>0. /\ A \in SUBSET S /\ B \in SUBSET S /\ C \in SUBSET S
      /\ A \cap B = {} /\ A \cap C = {} /\ B \cap C = {}
      /\ A \cup B \cup C = S
  BY DEF Parts
<1>1. IsFiniteSet(A) /\ IsFiniteSet(B) /\ IsFiniteSet(C) BY <1>0, FS_Subset
<1>2. /\ IsFiniteSet(A \cup B)
      /\ Cardinality(A \cup B) = Cardinality(A) + Cardinality(B) - Cardinality(A \cap B)
  BY <1>1, FS_Union
<1>3. Cardinality(A \cup B \cup C)
      = Cardinality(A \cup B) + Cardinality(C) - Cardinality((A \cup B) \cap C)
  BY <1>1, <1>2, FS_Union
<1>4. (A \cup B) \cap C = {} BY <1>0
<1>5. Cardinality({}) = 0 BY FS_EmptySet
<1>6. /\ Cardinality(A) \in Nat /\ Cardinality(B) \in Nat /\ Cardinality(C) \in Nat
      /\ Cardinality(A \cup B) \in Nat /\ Cardinality(A \cup B \cup C) \in Nat
  BY <1>1, <1>2, FS_CardinalityType, FS_Union
<1>7. PICK a \in Nat, b \in Nat, c \in Nat, d \in Nat :
        /\ a = Cardinality(A) /\ b = Cardinality(B) /\ c = Cardinality(C)
        /\ d = Cardinality(A \cup B)
  BY <1>6
<1>8. d = a + b - 0 BY <1>0, <1>2, <1>5, <1>7
<1>9. Cardinality(A \cup B \cup C) = d + c - 0 BY <1>3, <1>4, <1>5, <1>7
<1>10. Cardinality(S) = a + b + c
  <2>1. A \cup B \cup C = S BY <1>0
  <2>2. Cardinality(S) = d + c - 0 BY <1>9, <2>1
  <2> QED BY <1>8, <2>2
<1> QED BY <1>6, <1>7, <1>10

LEMMA FourParts ==
    ASSUME NEW S, IsFiniteSet(S), NEW A, NEW B, NEW C, NEW D, Parts(S, A, B, C \cup D), C \cap D = {}
    PROVE  Cardinality(A) + Cardinality(B) + Cardinality(C) + Cardinality(D) = Cardinality(S)
<1>1. /\ Cardinality(A) + Cardinality(B) + Cardinality(C \cup D) = Cardinality(S)
      /\ Cardinality(A) \in Nat /\ Cardinality(B) \in Nat /\ Cardinality(C \cup D) \in Nat
  BY ThreeParts
<1>2. C \cup D \in SUBSET S BY DEF Parts
<1>3. Parts(C \cup D, C, D, {}) BY DEF Parts
<1>4. IsFiniteSet(C \cup D) BY <1>2, FS_Subset
<1>5. /\ Cardinality(C) + Cardinality(D) + Cardinality({}) = Cardinality(C \cup D)
      /\ Cardinality(C) \in Nat /\ Cardinality(D) \in Nat
  BY <1>3, <1>4, ThreeParts
<1>6. Cardinality({}) = 0 BY FS_EmptySet
<1> QED BY <1>1, <1>5, <1>6

\* Two parts that exclude each other are no more than the whole.
LEMMA TwoParts ==
    ASSUME NEW S, IsFiniteSet(S), NEW A \in SUBSET S, NEW B \in SUBSET S, A \cap B = {}
    PROVE  Cardinality(A) + Cardinality(B) <= Cardinality(S)
<1> DEFINE C == S \ (A \cup B)
<1>1. Parts(S, A, B, C) BY DEF Parts
<1> HIDE DEF C
<1>2. /\ Cardinality(A) + Cardinality(B) + Cardinality(C) = Cardinality(S)
      /\ Cardinality(A) \in Nat /\ Cardinality(B) \in Nat /\ Cardinality(C) \in Nat
  BY <1>1, ThreeParts
<1> QED BY <1>2

-----------------------------------------------------------------------------
(* Recursion                                                               *)

\* The states of a loop of n steps, as a recursive function.
Loops(f, n, base, next) ==
    f = [i \in 0 .. n |-> IF i = 0 THEN base ELSE next[i][f[i - 1]]]

\* A loop has its states, whatever a step does, and what every step carries on holds
\* after all of them.
LEMMA Iterates ==
    ASSUME NEW n \in Nat, NEW P, NEW base \in P[0], NEW next,
           \A i \in 1 .. n : \A x \in P[i - 1] : next[i][x] \in P[i]
    PROVE  \E f : Loops(f, n, base, next) /\ \A i \in 0 .. n : f[i] \in P[i]
<1> DEFINE Loop(f, m) ==
             /\ f = [i \in 0 .. m |-> IF i = 0 THEN base ELSE next[i][f[i - 1]]]
             /\ \A i \in 0 .. m : f[i] \in P[i]
           Bad == {m \in 0 .. n : ~ \E f : Loop(f, m)}
<1>1. SUFFICES ASSUME Bad # {} PROVE FALSE
  <2>1. n \in 0 .. n OBVIOUS
  <2>2. n \in Bad \/ \E f : Loop(f, n) BY <2>1
  <2> QED BY <2>2 DEF Loops
<1>2. PICK m \in Bad : \A l \in Bad : m <= l
  <2>1. Bad \in SUBSET Nat OBVIOUS
  <2> HIDE DEF Bad
  <2> QED BY <1>1, <2>1, LeastNumber
<1>3. m \in 0 .. n /\ ~ \E f : Loop(f, m) OBVIOUS
<1>4. m # 0
  <2> DEFINE f == [i \in 0 .. 0 |-> base]
  <2>1. f = [i \in 0 .. 0 |-> IF i = 0 THEN base ELSE next[i][f[i - 1]]]
    <3>1. \A i \in 0 .. 0 : i = 0 OBVIOUS
    <3> QED BY <3>1
  <2>2. \A i \in 0 .. 0 : f[i] \in P[i] OBVIOUS
  <2>3. Loop(f, 0) BY <2>1, <2>2
  <2> HIDE DEF Loop, f
  <2> QED BY <1>3, <2>3
<1>5. PICK g : Loop(g, m - 1)
  <2>1. m - 1 \in 0 .. n /\ ~(m <= m - 1) BY <1>3, <1>4
  <2>2. m - 1 \notin Bad
    <3> HIDE DEF Bad
    <3> QED BY <1>2, <2>1
  <2> HIDE DEF Loop
  <2> QED BY <2>1, <2>2
<1> DEFINE f == [i \in 0 .. m |-> IF i = m THEN next[m][g[m - 1]] ELSE g[i]]
<1>6. /\ \A i \in 0 .. m - 1 : g[i] \in P[i]
      /\ \A i \in 0 .. m - 1 : g[i] = IF i = 0 THEN base ELSE next[i][g[i - 1]]
  <2>1. g = [i \in 0 .. m - 1 |-> IF i = 0 THEN base ELSE next[i][g[i - 1]]] BY <1>5
  <2>2. \A i \in 0 .. m - 1 : g[i] = IF i = 0 THEN base ELSE next[i][g[i - 1]]
    <3> DEFINE rest(i) == IF i = 0 THEN base ELSE next[i][g[i - 1]]
    <3>1. g = [i \in 0 .. m - 1 |-> rest(i)] BY <2>1
    <3> HIDE DEF rest
    <3>2. \A i \in 0 .. m - 1 : g[i] = rest(i) BY <3>1
    <3> QED BY <3>2 DEF rest
  <2> QED BY <1>5, <2>2
<1>7. m - 1 \in 0 .. m - 1 /\ m \in 1 .. n /\ m \in 0 .. m BY <1>3, <1>4
<1>8. \A i \in 0 .. m : f[i] \in P[i]
  <2>1. f[m] \in P[m] BY <1>6, <1>7
  <2>2. \A i \in 0 .. m : i = m \/ i \in 0 .. m - 1 BY <1>3
  <2> QED BY <1>6, <1>7, <2>1, <2>2
<1>9. \A i \in 0 .. m : f[i] = IF i = 0 THEN base ELSE next[i][f[i - 1]]
  <2> SUFFICES ASSUME NEW i \in 0 .. m
               PROVE  f[i] = IF i = 0 THEN base ELSE next[i][f[i - 1]]
    OBVIOUS
  <2>1. CASE i = m
    <3>1. f[m - 1] = g[m - 1] BY <1>3, <1>4, <1>7
    <3> QED BY <1>4, <1>7, <2>1, <3>1
  <2>2. CASE i # m
    <3>1. i \in 0 .. m - 1 BY <1>3, <2>2
    <3>2. i # 0 => i - 1 \in 0 .. m /\ i - 1 # m BY <1>3, <3>1
    <3>3. i # 0 => f[i - 1] = g[i - 1] BY <3>2
    <3> QED BY <1>6, <2>2, <3>1, <3>3
  <2> QED BY <2>1, <2>2
<1>10. f = [i \in 0 .. m |-> f[i]] OBVIOUS
<1> HIDE DEF f
<1>11. f = [i \in 0 .. m |-> IF i = 0 THEN base ELSE next[i][f[i - 1]]] BY <1>9, <1>10
<1>12. Loop(f, m) BY <1>8, <1>11
<1> HIDE DEF Loop
<1> QED BY <1>3, <1>12

\* What holds at first, and after every step if it held before it, holds throughout.
LEMMA Carried ==
    ASSUME NEW n \in Nat, NEW P, NEW f, f[0] \in P[0],
           \A i \in 1 .. n : f[i - 1] \in P[i - 1] => f[i] \in P[i]
    PROVE  \A i \in 0 .. n : f[i] \in P[i]
<1> DEFINE Bad == {m \in 0 .. n : f[m] \notin P[m]}
<1>1. SUFFICES ASSUME Bad # {} PROVE FALSE OBVIOUS
<1>2. PICK m \in Bad : \A l \in Bad : m <= l
  <2>1. Bad \in SUBSET Nat OBVIOUS
  <2> HIDE DEF Bad
  <2> QED BY <1>1, <2>1, LeastNumber
<1>3. m \in 1 .. n /\ f[m] \notin P[m] OBVIOUS
<1>4. m - 1 \in 0 .. n /\ ~(m <= m - 1) BY <1>3
<1>5. m - 1 \notin Bad
  <2> HIDE DEF Bad
  <2> QED BY <1>2, <1>4
<1> QED BY <1>3, <1>4, <1>5

-----------------------------------------------------------------------------
(* Flattening *)

\* The concatenations of the first sequences of s, one more at a time.
Flattened(s, n) == CHOOSE f : f = [i \in 1 .. n |-> IF i = 1 THEN s[i] ELSE f[i - 1] \o s[i]]

\* They exist, whatever s is: of the lengths without them, there would be a least one.
LEMMA FlatteningExists ==
    ASSUME NEW s, NEW n \in Nat
    PROVE  \E f : f = [i \in 1 .. n |-> IF i = 1 THEN s[i] ELSE f[i - 1] \o s[i]]
<1> DEFINE Body(f, m) == [i \in 1 .. m |-> IF i = 1 THEN s[i] ELSE f[i - 1] \o s[i]]
           Bad == {m \in Nat : ~ \E f : f = Body(f, m)}
<1>1. SUFFICES ASSUME n \in Bad PROVE FALSE OBVIOUS
<1>2. PICK m \in Bad : \A k \in Bad : m <= k
  <2> HIDE DEF Bad
  <2>1. Bad \in SUBSET Nat BY DEF Bad
  <2> QED BY <1>1, <2>1, LeastNumber
<1>3. CASE m = 0
  <2> DEFINE f == [i \in {} |-> 0]
  <2>1. f = Body(f, m) BY <1>3
  <2> QED BY <1>2, <2>1
<1>4. CASE m # 0
  <2>1. m \in Nat /\ m - 1 \in Nat BY <1>2, <1>4
  <2>5. m - 1 \notin Bad
    <3> HIDE DEF Bad
    <3> QED BY <1>2, <2>1
  <2>2. PICK f : f = Body(f, m - 1) BY <2>1, <2>5
  <2> DEFINE g == [i \in 1 .. m |-> IF i \in 1 .. m - 1 THEN f[i]
                                    ELSE IF i = 1 THEN s[i] ELSE f[i - 1] \o s[i]]
  <2>3. ASSUME NEW i \in 1 .. m
        PROVE  g[i] = IF i = 1 THEN s[i] ELSE g[i - 1] \o s[i]
    <3>1. CASE i \in 1 .. m - 1
      <4>1. f[i] = IF i = 1 THEN s[i] ELSE f[i - 1] \o s[i] BY <2>2, <3>1
      <4>2. i # 1 => i - 1 \in 1 .. m - 1 /\ i - 1 \in 1 .. m BY <2>1, <3>1
      <4> QED BY <3>1, <4>1, <4>2
    <3>2. CASE i \notin 1 .. m - 1
      <4>1. i # 1 => i - 1 \in 1 .. m - 1 /\ i - 1 \in 1 .. m BY <2>1, <2>3, <3>2
      <4> QED BY <3>2, <4>1
    <3> QED BY <3>1, <3>2
  <2>4. g = Body(g, m)
    <3> HIDE DEF g
    <3>1. g = [i \in 1 .. m |-> g[i]] BY DEF g
    <3> QED BY <2>3, <3>1
  <2> QED BY <1>2, <2>4
<1> QED BY <1>3, <1>4

\* Flattening a longer sequence appends its last element.
LEMMA FlattenedStep ==
    ASSUME NEW s, NEW n \in Nat
    PROVE  /\ DOMAIN Flattened(s, n) = 1 .. n
           /\ \A i \in 1 .. n : Flattened(s, n)[i] =
                IF i = 1 THEN s[i] ELSE Flattened(s, n)[i - 1] \o s[i]
<1> DEFINE f == Flattened(s, n)
<1>1. f = [i \in 1 .. n |-> IF i = 1 THEN s[i] ELSE f[i - 1] \o s[i]]
  BY FlatteningExists DEF Flattened
<1> HIDE DEF f
<1>2. /\ DOMAIN f = 1 .. n
      /\ \A i \in 1 .. n : f[i] = IF i = 1 THEN s[i] ELSE f[i - 1] \o s[i]
  BY <1>1
<1> QED BY <1>2 DEF f

\* They depend on nothing but the sequences concatenated.
LEMMA FlattenedSame ==
    ASSUME NEW s, NEW t, NEW n \in Nat, NEW m \in Nat, n <= m, \A i \in 1 .. n : s[i] = t[i]
    PROVE  \A i \in 1 .. n : Flattened(s, n)[i] = Flattened(t, m)[i]
<1> DEFINE f == Flattened(s, n)
           g == Flattened(t, m)
           Bad == {i \in 1 .. n : f[i] # g[i]}
<1>1. SUFFICES ASSUME Bad # {} PROVE FALSE OBVIOUS
<1>2. PICK i \in Bad : \A k \in Bad : i <= k
  <2> HIDE DEF Bad
  <2>1. Bad \in SUBSET Nat BY DEF Bad
  <2> QED BY <1>1, <2>1, LeastNumber
<1> HIDE DEF f, g
<1>3. i \in 1 .. n /\ i \in 1 .. m /\ f[i] # g[i] BY <1>2
<1>4. f[i] = (IF i = 1 THEN s[i] ELSE f[i - 1] \o s[i]) /\ g[i] = (IF i = 1 THEN t[i] ELSE g[i - 1] \o t[i])
  BY <1>3, FlattenedStep DEF f, g
<1>5. i # 1 => f[i - 1] = g[i - 1]
  <2>1. SUFFICES ASSUME i # 1 PROVE i - 1 \in 1 .. n /\ i - 1 \notin Bad OBVIOUS
  <2>2. i - 1 \notin Bad
    <3> HIDE DEF Bad
    <3> QED BY <1>2, <1>3
  <2> QED BY <1>3, <2>1, <2>2
<1> QED BY <1>3, <1>4, <1>5

\* Flattening is its own recursion, unfolded once.
LEMMA FlattenUnfolds ==
    ASSUME NEW s
    PROVE  FlattenSeq(s) = IF Len(s) = 0 THEN s ELSE Flattened(s, Len(s))[Len(s)]
BY DEF FlattenSeq, Flattened

\* Flattening one more sequence appends it.
LEMMA FlattenOneMore ==
    ASSUME NEW T, NEW s \in Seq(T), NEW x \in T
    PROVE  FlattenSeq(Append(s, x)) = IF s = <<>> THEN x ELSE FlattenSeq(s) \o x
<1> DEFINE t == Append(s, x)
           n == Len(s)
<1>1. /\ n \in Nat /\ Len(t) = n + 1 /\ t[n + 1] = x /\ \A i \in 1 .. n : s[i] = t[i]
      /\ (n = 0 <=> s = <<>>)
  OBVIOUS
<1> HIDE DEF t, n
<1>2. FlattenSeq(t) = Flattened(t, n + 1)[n + 1] BY <1>1, FlattenUnfolds
<1>3. Flattened(t, n + 1)[n + 1] = IF n = 0 THEN x ELSE Flattened(t, n + 1)[n] \o x
  <2>1. n + 1 \in Nat /\ n + 1 \in 1 .. n + 1 /\ (n + 1) - 1 = n /\ (n + 1 = 1 <=> n = 0) BY <1>1
  <2>2. Flattened(t, n + 1)[n + 1] =
          IF n + 1 = 1 THEN t[n + 1] ELSE Flattened(t, n + 1)[(n + 1) - 1] \o t[n + 1]
    BY <2>1, FlattenedStep
  <2> QED BY <1>1, <2>1, <2>2
<1>4. n # 0 => Flattened(t, n + 1)[n] = Flattened(s, n)[n]
  <2>1. n + 1 \in Nat /\ n <= n + 1 /\ (n # 0 => n \in 1 .. n) BY <1>1
  <2>2. \A i \in 1 .. n : Flattened(s, n)[i] = Flattened(t, n + 1)[i]
    BY <1>1, <2>1, FlattenedSame
  <2> QED BY <2>1, <2>2
<1>5. n # 0 => FlattenSeq(s) = Flattened(s, n)[n] BY FlattenUnfolds DEF n
<1> QED BY <1>1, <1>2, <1>3, <1>4, <1>5 DEF t

\* Sequences of sequences flatten to a sequence.
LEMMA FlattenTyped ==
    ASSUME NEW T, NEW s \in Seq(Seq(T))
    PROVE  FlattenSeq(s) \in Seq(T)
<1> DEFINE n == Len(s)
           f == Flattened(s, n)
           Bad == {i \in 1 .. n : f[i] \notin Seq(T)}
<1>1. n \in Nat /\ \A i \in 1 .. n : s[i] \in Seq(T) OBVIOUS
<1>2. CASE n = 0
  <2>1. s = <<>> BY <1>2
  <2>2. FlattenSeq(s) = s BY <1>2, FlattenUnfolds
  <2>3. <<>> \in Seq(T) OBVIOUS
  <2> QED BY <2>1, <2>2, <2>3
<1>3. CASE n # 0
  <2> HIDE DEF n, f
  <2>1. ASSUME Bad # {} PROVE FALSE
    <3>1. PICK i \in Bad : \A k \in Bad : i <= k
      <4> HIDE DEF Bad
      <4>1. Bad \in SUBSET Nat BY DEF Bad
      <4> QED BY <2>1, <4>1, LeastNumber
    <3>2. i \in 1 .. n /\ f[i] \notin Seq(T) BY <3>1
    <3>3. f[i] = IF i = 1 THEN s[i] ELSE f[i - 1] \o s[i] BY <1>1, <3>2, FlattenedStep DEF f
    <3>4. i # 1 => f[i - 1] \in Seq(T)
      <4>1. SUFFICES ASSUME i # 1 PROVE i - 1 \in 1 .. n /\ i - 1 \notin Bad OBVIOUS
      <4>2. i - 1 \notin Bad
        <5> HIDE DEF Bad
        <5> QED BY <1>1, <3>1, <3>2
      <4> QED BY <1>1, <3>2, <4>1, <4>2
    <3>5. s[i] \in Seq(T) BY <1>1, <3>2
    <3> QED BY <3>2, <3>3, <3>4, <3>5
  <2>2. n \in 1 .. n BY <1>1, <1>3
  <2>3. f[n] \in Seq(T) BY <2>1, <2>2
  <2>4. FlattenSeq(s) = f[n] BY <1>3, FlattenUnfolds DEF n, f
  <2> QED BY <2>3, <2>4
<1> QED BY <1>2, <1>3

\* What is in a concatenation was in one of its two sequences.
LEMMA BothJoined ==
    ASSUME NEW T, NEW s \in Seq(T), NEW t \in Seq(T)
    PROVE  ToSet(s \o t) = ToSet(s) \cup ToSet(t)
<1> DEFINE m == Len(s)
           n == Len(t)
<1>1. m \in Nat /\ n \in Nat /\ DOMAIN s = 1 .. m /\ DOMAIN t = 1 .. n /\ DOMAIN (s \o t) = 1 .. m + n
  OBVIOUS
<1>2. \A i \in 1 .. m : i \in 1 .. m + n /\ (s \o t)[i] = s[i] OBVIOUS
<1>3. \A i \in 1 .. n : i + m \in 1 .. m + n /\ (s \o t)[i + m] = t[i] OBVIOUS
<1>4. \A i \in 1 .. m + n : i \in 1 .. m \/ (i - m \in 1 .. n /\ (i - m) + m = i) BY <1>1
<1> HIDE DEF m, n
<1>5. ToSet(s \o t) \subseteq ToSet(s) \cup ToSet(t)
  <2> SUFFICES ASSUME NEW i \in 1 .. m + n PROVE (s \o t)[i] \in ToSet(s) \cup ToSet(t)
    BY <1>1 DEF ToSet
  <2>1. CASE i \in 1 .. m BY <1>1, <1>2, <2>1 DEF ToSet
  <2>2. CASE i \notin 1 .. m
    <3>1. i - m \in 1 .. n /\ (i - m) + m = i BY <1>4, <2>2
    <3>2. (s \o t)[i] = t[i - m] BY <1>3, <3>1
    <3> QED BY <1>1, <3>1, <3>2 DEF ToSet
  <2> QED BY <2>1, <2>2
<1>6. ToSet(s) \subseteq ToSet(s \o t) BY <1>1, <1>2 DEF ToSet
<1>7. ToSet(t) \subseteq ToSet(s \o t)
  <2> SUFFICES ASSUME NEW i \in 1 .. n PROVE t[i] \in ToSet(s \o t) BY <1>1 DEF ToSet
  <2>1. i + m \in 1 .. m + n /\ t[i] = (s \o t)[i + m] BY <1>3
  <2> QED BY <1>1, <2>1 DEF ToSet
<1> QED BY <1>5, <1>6, <1>7

\* What is in a flattened sequence was in one of its sequences.
LEMMA FlattenHas ==
    ASSUME NEW T, NEW s \in Seq(Seq(T))
    PROVE  ToSet(FlattenSeq(s)) = UNION {ToSet(s[i]) : i \in DOMAIN s}
<1> DEFINE n == Len(s)
           f == Flattened(s, n)
           Had(k) == UNION {ToSet(s[i]) : i \in 1 .. k}
           Bad == {i \in 1 .. n : ~(f[i] \in Seq(T) /\ ToSet(f[i]) = Had(i))}
<1>1. n \in Nat /\ DOMAIN s = 1 .. n /\ \A i \in 1 .. n : s[i] \in Seq(T) OBVIOUS
<1>2. CASE n = 0
  <2>1. s = <<>> BY <1>2
  <2>2. FlattenSeq(s) = s BY <1>2, FlattenUnfolds
  <2>3. ToSet(s) = {} BY <2>1 DEF ToSet
  <2> QED BY <2>1, <2>2, <2>3
<1>3. CASE n # 0
  <2> HIDE DEF n, f
  <2>1. ASSUME Bad # {} PROVE FALSE
    <3>1. PICK i \in Bad : \A k \in Bad : i <= k
      <4> HIDE DEF Bad
      <4>1. Bad \in SUBSET Nat BY DEF Bad
      <4> QED BY <2>1, <4>1, LeastNumber
    <3>2. i \in 1 .. n /\ ~(f[i] \in Seq(T) /\ ToSet(f[i]) = Had(i)) BY <3>1
    <3>3. f[i] = IF i = 1 THEN s[i] ELSE f[i - 1] \o s[i] BY <1>1, <3>2, FlattenedStep DEF f
    <3>4. s[i] \in Seq(T) BY <1>1, <3>2
    <3>5. CASE i = 1
      <4>1. Had(i) = ToSet(s[i])
        <5>1. \A k \in 1 .. 1 : k = 1 OBVIOUS
        <5>2. 1 \in 1 .. 1 OBVIOUS
        <5> QED BY <3>5, <5>1, <5>2
      <4> HIDE DEF Had
      <4> QED BY <3>2, <3>3, <3>4, <3>5, <4>1
    <3>6. CASE i # 1
      <4>1. i - 1 \in 1 .. n BY <1>1, <3>2, <3>6
      <4>2. i - 1 \notin Bad
        <5> HIDE DEF Bad
        <5> QED BY <1>1, <3>1, <3>2
      <4>3. f[i - 1] \in Seq(T) /\ ToSet(f[i - 1]) = Had(i - 1) BY <4>1, <4>2
      <4>4. Had(i) = Had(i - 1) \cup ToSet(s[i])
        <5>1. i \in 1 .. i /\ \A k : k \in 1 .. i <=> k \in 1 .. i - 1 \/ k = i BY <1>1, <3>2
        <5> QED BY <5>1
      <4> HIDE DEF Had
      <4>5. f[i] \in Seq(T) BY <3>3, <3>4, <3>6, <4>3
      <4>6. ToSet(f[i]) = ToSet(f[i - 1]) \cup ToSet(s[i]) BY <3>3, <3>4, <3>6, <4>3, BothJoined
      <4> QED BY <3>2, <4>3, <4>4, <4>5, <4>6
    <3> QED BY <3>5, <3>6
  <2>2. n \in 1 .. n BY <1>1, <1>3
  <2>3. ToSet(f[n]) = Had(n) BY <2>1, <2>2
  <2>4. FlattenSeq(s) = f[n] BY <1>3, FlattenUnfolds DEF n, f
  <2> QED BY <1>1, <2>3, <2>4
<1> QED BY <1>2, <1>3

-----------------------------------------------------------------------------
(* Sums *)

\* A sum drawn as the points under its numbers, one column for each of them.
Points(f, S) == UNION {{x} \X (1 .. f[x]) : x \in S}

\* The fold the library takes a sum with, as a function of what is left to add.
Added(f, S) ==
    CHOOSE g : g = [s \in SUBSET S |->
                      IF s = {} THEN 0
                      ELSE LET x == CHOOSE x \in s : TRUE IN f[x] + g[s \ {x}]]

LEMMA SumUnfolds ==
    ASSUME NEW f, NEW S
    PROVE  SumFunctionOnSet(f, S) = Added(f, S)[S]
BY DEF SumFunctionOnSet, FoldFunctionOnSet, MapThenFoldSet, Added

\* Without one of its columns a drawing has so many points less.
LEMMA PointsLess ==
    ASSUME NEW f, NEW s, IsFiniteSet(s), \A y \in s : f[y] \in Nat, NEW x \in s
    PROVE  /\ IsFiniteSet(Points(f, s)) /\ Cardinality(Points(f, s)) \in Nat
           /\ IsFiniteSet(Points(f, s \ {x})) /\ Cardinality(Points(f, s \ {x})) \in Nat
           /\ Cardinality(Points(f, s)) = f[x] + Cardinality(Points(f, s \ {x}))
<1> DEFINE column(y) == {y} \X (1 .. f[y])
<1>1. ASSUME NEW y \in s
      PROVE  IsFiniteSet(column(y)) /\ Cardinality(column(y)) = f[y]
  <2>1. IsFiniteSet({y}) /\ Cardinality({y}) = 1 BY FS_Singleton
  <2>2. IsFiniteSet(1 .. f[y]) /\ Cardinality(1 .. f[y]) = f[y]
    <3>1. PICK n \in Nat : n = f[y] OBVIOUS
    <3>2. 1 \in Int /\ n \in Int OBVIOUS
    <3>3. IsFiniteSet(1 .. n) /\ Cardinality(1 .. n) = IF 1 > n THEN 0 ELSE n - 1 + 1
      BY <3>2, FS_Interval
    <3> QED BY <3>1, <3>3
  <2>3. IsFiniteSet(column(y)) /\ Cardinality(column(y)) = Cardinality({y}) * Cardinality(1 .. f[y])
    BY <2>1, <2>2, FS_Product
  <2> QED BY <2>1, <2>2, <2>3
<1>2. ASSUME NEW t \in SUBSET s PROVE IsFiniteSet(Points(f, t)) /\ Cardinality(Points(f, t)) \in Nat
  <2> DEFINE columns == {column(y) : y \in t}
  <2>1. IsFiniteSet(t) BY FS_Subset
  <2>2. IsFiniteSet(columns)
    <3> DEFINE h == [y \in t |-> column(y)]
    <3> HIDE DEF column
    <3>1. h \in Surjection(t, columns) BY DEF Surjection
    <3> HIDE DEF h, columns
    <3> QED BY <2>1, <3>1, FS_Surjection
  <2>3. \A c \in columns : IsFiniteSet(c) BY <1>1
  <2>4. Points(f, t) = UNION columns BY DEF Points
  <2> HIDE DEF columns
  <2> QED BY <2>2, <2>3, <2>4, FS_UNION, FS_CardinalityType
<1>3. Points(f, s) = column(x) \cup Points(f, s \ {x}) BY DEF Points
<1>4. column(x) \cap Points(f, s \ {x}) = {} BY DEF Points
<1>5. s \in SUBSET s /\ s \ {x} \in SUBSET s OBVIOUS
<1>6. IsFiniteSet(Points(f, s \ {x})) /\ Cardinality(Points(f, s \ {x})) \in Nat BY <1>2, <1>5
<1> HIDE DEF column
<1>7. Cardinality(Points(f, s)) = Cardinality(column(x)) + Cardinality(Points(f, s \ {x})) - Cardinality({})
  <2> DEFINE A == column(x)
             B == Points(f, s \ {x})
  <2>1. IsFiniteSet(A) /\ IsFiniteSet(B) /\ A \cap B = {} /\ Points(f, s) = A \cup B
    BY <1>1, <1>3, <1>4, <1>6
  <2> HIDE DEF A, B
  <2>2. Cardinality(A \cup B) = Cardinality(A) + Cardinality(B) - Cardinality(A \cap B)
    BY <2>1, FS_Union
  <2>3. Cardinality(Points(f, s)) = Cardinality(A) + Cardinality(B) - Cardinality({})
    BY <2>1, <2>2
  <2> QED BY <2>3 DEF A, B
<1>8. Cardinality({}) = 0 BY FS_EmptySet
<1> QED BY <1>1, <1>2, <1>5, <1>6, <1>7, <1>8

\* A sum is the number of points in its drawing.
LEMMA SumCounts ==
    ASSUME NEW f, NEW S, IsFiniteSet(S), \A x \in S : f[x] \in Nat
    PROVE  /\ SumFunctionOnSet(f, S) = Cardinality(Points(f, S))
           /\ SumFunctionOnSet(f, S) \in Nat
<1> DEFINE Body(g) == [s \in SUBSET S |->
                         IF s = {} THEN 0
                         ELSE LET x == CHOOSE x \in s : TRUE IN f[x] + g[s \ {x}]]
           Count(s) == Cardinality(Points(f, s))
           c == [s \in SUBSET S |-> Count(s)]
           g == Added(f, S)
<1>1. ASSUME NEW s \in SUBSET S
      PROVE  /\ IsFiniteSet(s) /\ Count(s) \in Nat
             /\ s = {} => Count(s) = 0
             /\ \A x \in s : Count(s) = f[x] + Count(s \ {x})
  <2>1. IsFiniteSet(s) BY FS_Subset
  <2>2. \A x \in s : f[x] \in Nat OBVIOUS
  <2>3. ASSUME NEW x \in s PROVE Count(s) \in Nat /\ Count(s) = f[x] + Count(s \ {x})
    <3> HIDE DEF Body, Count, c, g
    <3>1. /\ Cardinality(Points(f, s)) \in Nat
          /\ Cardinality(Points(f, s)) = f[x] + Cardinality(Points(f, s \ {x}))
      BY <2>1, <2>2, PointsLess, ZenonT(30)
    <3> QED BY <3>1 DEF Count
  <2>4. s = {} => Count(s) = 0 BY FS_EmptySet DEF Points
  <2>5. CASE s = {} BY <2>1, <2>4, <2>5
  <2>6. CASE s # {}
    <3>1. PICK x \in s : TRUE BY <2>6
    <3> QED BY <2>1, <2>3, <2>6, <3>1
  <2> QED BY <2>5, <2>6
<1> HIDE DEF Count
<1>2. c = Body(c)
  <2>1. ASSUME NEW s \in SUBSET S
        PROVE  c[s] = IF s = {} THEN 0
                      ELSE LET x == CHOOSE x \in s : TRUE IN f[x] + c[s \ {x}]
    <3>1. CASE s = {} BY <1>1, <3>1
    <3>2. CASE s # {}
      <4> DEFINE x == CHOOSE x \in s : TRUE
      <4>1. x \in s BY <3>2
      <4> HIDE DEF x
      <4>2. Count(s) = f[x] + Count(s \ {x}) /\ s \ {x} \in SUBSET S BY <1>1, <4>1
      <4>3. c[s] = f[x] + c[s \ {x}] BY <4>2
      <4> QED BY <3>2, <4>3 DEF x
    <3> QED BY <3>1, <3>2
  <2>2. c = [s \in SUBSET S |-> c[s]] OBVIOUS
  <2> HIDE DEF c
  <2> QED BY <2>1, <2>2
<1>3. g = Body(g) BY <1>2 DEF Added
<1> HIDE DEF c, g
<1>4. ASSUME NEW s \in SUBSET S, s # {}
      PROVE  \E x \in s : g[s] = f[x] + g[s \ {x}]
  <2> DEFINE x == CHOOSE x \in s : TRUE
  <2>1. x \in s BY <1>4
  <2>2. g[s] = f[x] + g[s \ {x}] BY <1>3, <1>4
  <2> HIDE DEF x
  <2> QED BY <2>1, <2>2
<1>5. g[{}] = 0 BY <1>3
<1> DEFINE Bad == {Cardinality(s) : s \in {s \in SUBSET S : g[s] # Count(s)}}
<1>6. ASSUME Bad # {} PROVE FALSE
  <2>1. PICK n \in Bad : \A m \in Bad : n <= m
    <3>1. Bad \in SUBSET Nat BY <1>1, FS_CardinalityType
    <3> HIDE DEF Bad
    <3> QED BY <1>6, <3>1, LeastNumber
  <2>2. PICK s \in SUBSET S : g[s] # Count(s) /\ n = Cardinality(s) BY <2>1
  <2>3. s # {} BY <1>1, <1>5, <2>2
  <2>4. PICK x \in s : g[s] = f[x] + g[s \ {x}] BY <1>4, <2>3
  <2>5. s \ {x} \in SUBSET S /\ Count(s) = f[x] + Count(s \ {x}) BY <1>1
  <2>6. Cardinality(s \ {x}) = n - 1 /\ n \in Nat
    BY <1>1, <2>2, FS_RemoveElement, FS_CardinalityType
  <2>7. n - 1 \notin Bad
    <3> HIDE DEF Bad
    <3> QED BY <2>1, <2>6
  <2>8. g[s \ {x}] = Count(s \ {x}) BY <2>5, <2>6, <2>7
  <2> QED BY <2>2, <2>4, <2>5, <2>8
<1>7. S \in SUBSET S OBVIOUS
<1>8. g[S] = Count(S) BY <1>6, <1>7
<1> QED BY <1>1, <1>7, <1>8, SumUnfolds DEF g, Count

Counted(f, S) == \A x \in S : f[x] \in Nat
ColumnLess(f, s, x) ==
    /\ Cardinality(Points(f, s)) \in Nat /\ Cardinality(Points(f, s \ {x})) \in Nat
    /\ Cardinality(Points(f, s)) = f[x] + Cardinality(Points(f, s \ {x}))

LEMMA PointsOfPart ==
    ASSUME NEW f, NEW S, IsFiniteSet(S), Counted(f, S), NEW s \in SUBSET S, NEW x \in s
    PROVE  ColumnLess(f, s, x)
<1>1. IsFiniteSet(s) BY FS_Subset
<1>2. \A y \in s : f[y] \in Nat BY DEF Counted
<1>3. /\ Cardinality(Points(f, s)) \in Nat
      /\ Cardinality(Points(f, s)) = f[x] + Cardinality(Points(f, s \ {x}))
  BY <1>1, <1>2, PointsLess, ZenonT(30)
<1>4. Cardinality(Points(f, s \ {x})) \in Nat BY <1>1, <1>2, PointsLess, ZenonT(30)
<1> QED BY <1>3, <1>4 DEF ColumnLess

\* What two sums add up to is the sum of what they add up at every place.
LEMMA SumAdds ==
    ASSUME NEW f, NEW g, NEW h, NEW S, IsFiniteSet(S),
           \A x \in S : f[x] \in Nat /\ g[x] \in Nat /\ h[x] = f[x] + g[x]
    PROVE  /\ SumFunctionOnSet(f, S) + SumFunctionOnSet(g, S) = SumFunctionOnSet(h, S)
           /\ SumFunctionOnSet(f, S) \in Nat /\ SumFunctionOnSet(g, S) \in Nat
<1> DEFINE F(s) == Cardinality(Points(f, s))
           G(s) == Cardinality(Points(g, s))
           H(s) == Cardinality(Points(h, s))
           Bad == {Cardinality(s) : s \in {s \in SUBSET S : H(s) # F(s) + G(s)}}
<1>1. \A x \in S : h[x] \in Nat OBVIOUS
<1>2. ASSUME NEW s \in SUBSET S
      PROVE  IsFiniteSet(s) /\ Cardinality(s) \in Nat /\ (s = {} => H(s) = F(s) + G(s))
  <2>1. IsFiniteSet(s) /\ Cardinality(s) \in Nat BY FS_Subset, FS_CardinalityType
  <2>2. s = {} => Points(f, s) = {} /\ Points(g, s) = {} /\ Points(h, s) = {} BY DEF Points
  <2>3. s = {} => F(s) = 0 /\ G(s) = 0 /\ H(s) = 0 BY <2>2, FS_EmptySet
  <2> HIDE DEF F, G, H
  <2> QED BY <2>1, <2>3
<1> HIDE DEF F, G, H, Bad
<1>3. Counted(f, S) /\ Counted(g, S) /\ Counted(h, S) BY <1>1 DEF Counted
<1>4. ASSUME NEW s \in SUBSET S, NEW x \in s
      PROVE  /\ F(s) = f[x] + F(s \ {x}) /\ G(s) = g[x] + G(s \ {x}) /\ H(s) = h[x] + H(s \ {x})
             /\ F(s \ {x}) \in Nat /\ G(s \ {x}) \in Nat /\ H(s \ {x}) \in Nat
  <2>1. ColumnLess(f, s, x) /\ ColumnLess(g, s, x) /\ ColumnLess(h, s, x)
    BY <1>3, PointsOfPart
  <2> QED BY <2>1 DEF ColumnLess, F, G, H
<1>5. ASSUME Bad # {} PROVE FALSE
  <2>1. PICK n \in Bad : \A m \in Bad : n <= m
    <3>1. Bad \in SUBSET Nat BY <1>2 DEF Bad
    <3> QED BY <1>5, <3>1, LeastNumber
  <2>2. PICK s \in SUBSET S : H(s) # F(s) + G(s) /\ n = Cardinality(s) BY <2>1 DEF Bad
  <2>3. PICK x \in s : TRUE BY <1>2, <2>2
  <2>4. s \ {x} \in SUBSET S /\ x \in S OBVIOUS
  <2>5. Cardinality(s \ {x}) = n - 1 /\ n \in Nat BY <1>2, <2>2, <2>3, FS_RemoveElement
  <2>6. n - 1 \notin Bad BY <2>1, <2>5
  <2>7. H(s \ {x}) = F(s \ {x}) + G(s \ {x}) BY <2>4, <2>5, <2>6 DEF Bad
  <2>8. f[x] \in Nat /\ g[x] \in Nat /\ h[x] = f[x] + g[x] BY <2>4
  <2> QED BY <1>4, <2>2, <2>3, <2>7, <2>8
<1>6. S \in SUBSET S OBVIOUS
<1>7. H(S) = F(S) + G(S) BY <1>5, <1>6 DEF Bad
<1>8. SumFunctionOnSet(f, S) = F(S) /\ SumFunctionOnSet(f, S) \in Nat BY SumCounts DEF F
<1>9. SumFunctionOnSet(g, S) = G(S) /\ SumFunctionOnSet(g, S) \in Nat BY SumCounts DEF G
<1>10. SumFunctionOnSet(h, S) = H(S) BY <1>1, SumCounts DEF H
<1> QED BY <1>7, <1>8, <1>9, <1>10

\* A sum over the values of a function that counts, for each, where the function has it,
\* counts the whole domain.
LEMMA SumOfFibres ==
    ASSUME NEW f, NEW S, IsFiniteSet(S), NEW D, IsFiniteSet(D), NEW v \in [D -> S],
           \A x \in S : f[x] = Cardinality({d \in D : v[d] = x})
    PROVE  SumFunctionOnSet(f, S) = Cardinality(D)
<1> DEFINE Fibre(x) == {d \in D : v[d] = x}
<1>1. ASSUME NEW x \in S
      PROVE  /\ IsFiniteSet(Fibre(x)) /\ f[x] \in Nat
             /\ \E b : b \in Bijection(Fibre(x), 1 .. f[x])
  <2>1. IsFiniteSet(Fibre(x)) BY FS_Subset
  <2>2. f[x] = Cardinality(Fibre(x)) OBVIOUS
  <2> HIDE DEF Fibre
  <2>3. f[x] \in Nat /\ ExistsBijection(1 .. f[x], Fibre(x)) BY <2>1, <2>2, FS_CardinalityType
  <2>4. PICK b : b \in Bijection(1 .. f[x], Fibre(x)) BY <2>3 DEF ExistsBijection
  <2>5. Inverse(b, 1 .. f[x], Fibre(x)) \in Bijection(Fibre(x), 1 .. f[x])
    BY <2>4, Fun_BijInverse
  <2> QED BY <2>1, <2>3, <2>5
<1> DEFINE place == [x \in S |-> CHOOSE b : b \in Bijection(Fibre(x), 1 .. f[x])]
           at == [d \in D |-> <<v[d], place[v[d]][d]>>]
<1>2. \A x \in S : place[x] \in Bijection(Fibre(x), 1 .. f[x]) BY <1>1
<1> HIDE DEF place
<1>3. at \in Bijection(D, Points(f, S))
  <2>1. ASSUME NEW d \in D PROVE d \in Fibre(v[d]) /\ v[d] \in S OBVIOUS
  <2>2. ASSUME NEW x \in S
        PROVE  /\ \A d \in Fibre(x) : place[x][d] \in 1 .. f[x]
               /\ \A d, e \in Fibre(x) : place[x][d] = place[x][e] => d = e
               /\ \A i \in 1 .. f[x] : \E d \in Fibre(x) : place[x][d] = i
    <3> HIDE DEF Fibre
    <3> QED BY <1>2 DEF Bijection, Injection, IsInjective, Surjection
  <2>3. \A d \in D : at[d] \in Points(f, S) BY <2>1, <2>2 DEF Points
  <2>4. \A d, e \in D : at[d] = at[e] => d = e
    <3> SUFFICES ASSUME NEW d \in D, NEW e \in D, at[d] = at[e] PROVE d = e
      OBVIOUS
    <3>1. v[d] = v[e] /\ place[v[d]][d] = place[v[d]][e] OBVIOUS
    <3> QED BY <2>1, <2>2, <3>1
  <2>5. ASSUME NEW p \in Points(f, S) PROVE \E d \in D : at[d] = p
    <3>1. PICK x \in S : p \in {x} \X (1 .. f[x]) BY DEF Points
    <3>2. p = <<x, p[2]>> /\ p[2] \in 1 .. f[x] BY <3>1
    <3>3. PICK d \in Fibre(x) : place[x][d] = p[2] BY <2>2, <3>2
    <3> QED BY <3>2, <3>3
  <2>6. at \in [D -> Points(f, S)] BY <2>3
  <2> HIDE DEF at
  <2> QED BY <2>4, <2>5, <2>6 DEF Bijection, Injection, IsInjective, Surjection
<1>4. Cardinality(Points(f, S)) = Cardinality(D)
  <2> HIDE DEF at
  <2> QED BY <1>3, FS_Bijection DEF ExistsBijection
<1> QED BY <1>1, <1>4, SumCounts
=============================================================================
