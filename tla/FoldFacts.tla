------------------------------ MODULE FoldFacts ------------------------------
(***************************************************************************)
(* Facts about the data the models are built from: sets of naturals, the   *)
(* ranks behind Listings, and folds.  The induction theorems of the        *)
(* library take an operator as a parameter; here a set of naturals stands  *)
(* for the operator, and the operator of a fold is a constant, which       *)
(* INSTANCE ... WITH gives its value.                                      *)
(***************************************************************************)
EXTENDS Listings, SequencesExt, FiniteSetTheorems, TLAPS

CONSTANT Op(_, _)   \* what a fold does with a result and the next element

-----------------------------------------------------------------------------
(* Sets of naturals.                                                       *)

(* A set of naturals has a least element: a loop that meets a case first   *)
(* meets it at a definite place.                                           *)
LEMMA LeastNatural ==
  ASSUME NEW T, T \subseteq Nat, T # {}
  PROVE  \E n \in T : \A m \in T : n <= m
<1> DEFINE R == OpToRel(<, Nat)
<1>1. IsWellFoundedOn(R, Nat)
  BY NatLessThanWellFounded
<1>2. \A a, b \in Nat : <<a, b>> \in R <=> a < b
  BY DEF OpToRel
<1> HIDE DEF R
<1>3. PICK x \in T : \A y \in T : ~(<<y, x>> \in R)
  BY <1>1, WFMin
<1>4. \A y \in T : ~(y < x)
  BY <1>2, <1>3
<1>5. \A y \in T : x <= y
  BY <1>4
<1>6. QED
  BY <1>5

(* Induction: a set that holds the first number and with each the next one *)
(* holds them all.                                                         *)
LEMMA NatInductionOnSet ==
  ASSUME NEW T, 0 \in T, \A n \in Nat : n \in T => n + 1 \in T
  PROVE  Nat \subseteq T
<1>1. SUFFICES ASSUME Nat \ T # {} PROVE FALSE
  OBVIOUS
<1>2. PICK n \in Nat \ T : \A m \in Nat \ T : n <= m
  BY <1>1, LeastNatural
<1>3. n # 0
  BY <1>2
<1>4. n - 1 \in Nat /\ n - 1 \in T
  BY <1>2, <1>3
<1>5. QED
  BY <1>2, <1>4

(* The same up to a bound: what a loop keeps from one round to the next    *)
(* holds after its last round.                                             *)
LEMMA LoopInduction ==
  ASSUME NEW k \in Nat, NEW T, 0 \in T, \A i \in 1..k : i - 1 \in T => i \in T
  PROVE  \A i \in 0..k : i \in T
<1> DEFINE U == {n \in Nat : n <= k => n \in T}
<1>1. 0 \in U
  OBVIOUS
<1>2. ASSUME NEW n \in Nat, n \in U
      PROVE  n + 1 \in U
  <2>1. SUFFICES ASSUME n + 1 <= k PROVE n + 1 \in T
    OBVIOUS
  <2>2. n \in T
    BY <1>2, <2>1
  <2>3. n + 1 \in 1..k /\ (n + 1) - 1 = n
    BY <2>1
  <2>4. QED
    BY <2>2, <2>3
<1> HIDE DEF U
<1>3. Nat \subseteq U
  BY <1>1, <1>2, NatInductionOnSet
<1>4. QED
  BY <1>3 DEF U

(* A set of naturals up to a bound has a greatest element.                 *)
LEMMA GreatestNatural ==
  ASSUME NEW k \in Nat, NEW s, s \subseteq 1..k, s # {}
  PROVE  \E x \in s : \A y \in s : x >= y
<1> DEFINE T == {d \in Nat : \E x \in s : d = k - x}
<1>1. \A x \in s : k - x \in T
  OBVIOUS
<1>2. T # {} /\ T \subseteq Nat
  BY <1>1
<1> HIDE DEF T
<1>3. PICK d \in T : \A m \in T : d <= m
  BY <1>2, LeastNatural
<1>4. PICK x \in s : d = k - x
  BY <1>3 DEF T
<1>5. \A y \in s : x >= y
  <2>1. SUFFICES ASSUME NEW y \in s PROVE x >= y
    OBVIOUS
  <2>2. d <= k - y
    BY <1>1, <1>3
  <2>3. QED
    BY <2>2, <1>4
<1>6. QED
  BY <1>5

-----------------------------------------------------------------------------
(* Ranks.                                                                  *)

StrictOrderOn(S, R) ==
  /\ \A x \in S : <<x, x>> \notin R
  /\ \A x, y, z \in S : <<x, y>> \in R /\ <<y, z>> \in R => <<x, z>> \in R
  /\ \A x, y \in S : x # y => <<x, y>> \in R \/ <<y, x>> \in R

(* In a strict order of a finite set, an element that comes before another *)
(* has fewer elements before it.                                           *)
LEMMA RankIncreases ==
  ASSUME NEW S, IsFiniteSet(S), NEW R, StrictOrderOn(S, R),
         NEW x \in S, NEW z \in S, <<x, z>> \in R
  PROVE  Rank(S, R, x) < Rank(S, R, z)
<1> DEFINE A == {y \in S : <<y, x>> \in R}
           B == {y \in S : <<y, z>> \in R}
<1>1. A \subseteq B /\ x \in B /\ x \notin A
  BY DEF StrictOrderOn
<1>2. IsFiniteSet(B) /\ Cardinality(B) \in Nat
  BY FS_Subset, FS_CardinalityType
<1> HIDE DEF A, B
<1>3. Cardinality(A) <= Cardinality(B) /\ (Cardinality(A) = Cardinality(B) => B = A)
  BY <1>1, <1>2, FS_Subset
<1>4. Cardinality(A) \in Nat
  BY <1>1, <1>2, FS_Subset, FS_CardinalityType
<1>5. Cardinality(A) < Cardinality(B)
  BY <1>1, <1>2, <1>3, <1>4
<1>6. QED
  BY <1>5 DEF A, B, Rank

(* Ranks tell the elements of a strictly ordered finite set apart, and     *)
(* every rank is taken: "the n-th element" exists.                         *)
LEMMA RanksAreTaken ==
  ASSUME NEW S, IsFiniteSet(S), NEW R, StrictOrderOn(S, R)
  PROVE  /\ Cardinality(S) \in Nat
         /\ \A x, z \in S :
              Rank(S, R, x) = Rank(S, R, z) => x = z
         /\ \A n \in 1..Cardinality(S) :
              \E x \in S : Rank(S, R, x) = n - 1
<1> DEFINE Below(x) == Rank(S, R, x)
           N == Cardinality(S)
<1>1. N \in Nat
  BY FS_CardinalityType
<1>2. ASSUME NEW x \in S
      PROVE  Below(x) \in 0..(N - 1)
  <2> DEFINE A == {y \in S : <<y, x>> \in R}
  <2>1. A \subseteq S /\ A # S
    BY DEF StrictOrderOn
  <2> HIDE DEF A
  <2>2. IsFiniteSet(A) /\ Cardinality(A) <= N /\ Cardinality(A) # N
    BY <2>1, FS_Subset
  <2>3. Cardinality(A) \in Nat
    BY <2>2, FS_CardinalityType
  <2>4. Cardinality(A) \in 0..(N - 1)
    BY <1>1, <2>2, <2>3
  <2>5. QED
    BY <2>4 DEF A, Rank
<1>3. ASSUME NEW x \in S, NEW z \in S, <<x, z>> \in R
      PROVE  Below(x) < Below(z)
  BY <1>3, RankIncreases
<1> HIDE DEF Below, N
<1>4. ASSUME NEW x \in S, NEW z \in S, Below(x) = Below(z)
      PROVE  x = z
  <2>1. ~(Below(x) < Below(z)) /\ ~(Below(z) < Below(x))
    BY <1>2, <1>4
  <2>2. QED
    BY <1>3, <2>1 DEF StrictOrderOn
<1> DEFINE f == [x \in S |-> Below(x) + 1]
<1>5. f \in [S -> 1..N]
  <2>1. \A x \in S : Below(x) + 1 \in 1..N
    BY <1>1, <1>2
  <2>2. QED
    BY <2>1
<1>6. f \in Injection(S, 1..N)
  <2>1. \A a, b \in S : f[a] = f[b] => a = b
    <3>1. ASSUME NEW a \in S, NEW b \in S, f[a] = f[b]
          PROVE  a = b
      <4>1. Below(a) + 1 = Below(b) + 1
        BY <3>1
      <4>2. Below(a) = Below(b)
        BY <1>1, <1>2, <4>1
      <4>3. QED
        BY <1>4, <4>2
    <3>2. QED
      BY <3>1
  <2>2. DOMAIN f = S
    OBVIOUS
  <2> HIDE DEF f
  <2>3. QED
    BY <1>5, <2>1, <2>2 DEF Injection, IsInjective
<1>7. f \in Surjection(S, 1..N)
  <2>1. IsFiniteSet(1..N) /\ Cardinality(1..N) = N
    BY <1>1, FS_Interval
  <2>2. Cardinality(S) = Cardinality(1..N)
    BY <2>1 DEF N
  <2> HIDE DEF f
  <2>3. QED
    BY <1>6, <2>1, <2>2, FS_Injection
<1>8. ASSUME NEW n \in 1..N
      PROVE  \E x \in S : Below(x) = n - 1
  <2>1. PICK x \in S : f[x] = n
    <3> HIDE DEF f
    <3>1. QED
      BY <1>7 DEF Surjection
  <2>2. Below(x) + 1 = n
    BY <2>1
  <2>3. Below(x) = n - 1
    BY <1>1, <1>2, <2>2
  <2>4. QED
    BY <2>3
<1>9. QED
  BY <1>1, <1>4, <1>8 DEF Below, N

(* A list holds every element once, each where its rank puts it.           *)
LEMMA ListedFacts ==
  ASSUME NEW S, IsFiniteSet(S), NEW R, StrictOrderOn(S, R)
  PROVE  /\ Cardinality(S) \in Nat /\ DOMAIN Listed(S, R) = 1..Cardinality(S)
         /\ \A n \in DOMAIN Listed(S, R) :
              Listed(S, R)[n] \in S /\ Rank(S, R, Listed(S, R)[n]) = n - 1
         /\ \A n, m \in DOMAIN Listed(S, R) : Listed(S, R)[n] = Listed(S, R)[m] => n = m
         /\ \A x \in S : \E n \in DOMAIN Listed(S, R) : Listed(S, R)[n] = x
<1> DEFINE N == Cardinality(S)
<1>1. /\ N \in Nat
      /\ \A x, z \in S : Rank(S, R, x) = Rank(S, R, z) => x = z
      /\ \A n \in 1..N : \E x \in S : Rank(S, R, x) = n - 1
  BY RanksAreTaken
<1>2. DOMAIN Listed(S, R) = 1..N
  BY DEF Listed
<1> HIDE DEF N
<1>3. ASSUME NEW n \in 1..N
      PROVE  Listed(S, R)[n] \in S /\ Rank(S, R, Listed(S, R)[n]) = n - 1
  <2>1. Listed(S, R)[n] = CHOOSE x \in S : Rank(S, R, x) = n - 1
    BY <1>1 DEF Listed, N
  <2>2. \E x \in S : Rank(S, R, x) = n - 1
    BY <1>1
  <2>3. QED
    BY <2>1, <2>2
<1>4. ASSUME NEW n \in 1..N, NEW m \in 1..N, Listed(S, R)[n] = Listed(S, R)[m]
      PROVE  n = m
  <2>1. n - 1 = m - 1
    BY <1>3, <1>4
  <2>2. QED
    BY <1>1, <2>1
<1>5. ASSUME NEW x \in S
      PROVE  \E n \in 1..N : Listed(S, R)[n] = x
  <2> DEFINE s == [n \in 1..N |-> Listed(S, R)[n]]
  <2>1. s \in Injection(1..N, S)
    <3>1. s \in [1..N -> S]
      BY <1>3
    <3>2. DOMAIN s = 1..N /\ \A a, b \in 1..N : s[a] = s[b] => a = b
      BY <1>4
    <3> HIDE DEF s
    <3>3. QED
      BY <3>1, <3>2 DEF Injection, IsInjective
  <2>2. Cardinality(1..N) = Cardinality(S)
    BY <1>1, FS_Interval DEF N
  <2> HIDE DEF s
  <2>3. s \in Surjection(1..N, S)
    BY <2>1, <2>2, FS_Injection
  <2>4. PICK n \in 1..N : s[n] = x
    BY <2>3 DEF Surjection
  <2>5. QED
    BY <2>4 DEF s
<1>6. QED
  BY <1>1, <1>2, <1>3, <1>4, <1>5 DEF N

(* A list depends on the order of its own elements only.                   *)
LEMMA ListedDepends ==
  ASSUME NEW S, NEW R, NEW Q, \A x, y \in S : <<x, y>> \in R <=> <<x, y>> \in Q
  PROVE  Listed(S, R) = Listed(S, Q)
<1>1. \A x \in S : {y \in S : <<y, x>> \in R} = {y \in S : <<y, x>> \in Q}
  OBVIOUS
<1>2. \A x \in S : Rank(S, R, x) = Rank(S, Q, x)
  BY <1>1 DEF Rank
<1>3. \A n : (CHOOSE x \in S : Rank(S, R, x) = n - 1) = (CHOOSE x \in S : Rank(S, Q, x) = n - 1)
  BY <1>2
<1>4. QED
  BY <1>3 DEF Listed

(* The places of a list follow its order.                                  *)
LEMMA ListedInOrder ==
  ASSUME NEW S, IsFiniteSet(S), NEW R, StrictOrderOn(S, R),
         NEW i \in DOMAIN Listed(S, R), NEW j \in DOMAIN Listed(S, R)
  PROVE  <<Listed(S, R)[i], Listed(S, R)[j]>> \in R <=> i < j
<1> DEFINE L == Listed(S, R)
<1>1. /\ Cardinality(S) \in Nat /\ DOMAIN L = 1..Cardinality(S)
      /\ L[i] \in S /\ Rank(S, R, L[i]) = i - 1 /\ L[j] \in S /\ Rank(S, R, L[j]) = j - 1
      /\ L[i] = L[j] => i = j
      /\ i \in DOMAIN L /\ j \in DOMAIN L
  BY ListedFacts
<1> HIDE DEF L
<1>2. i \in Nat /\ j \in Nat
  BY <1>1
<1>3. <<L[i], L[j]>> \in R => i - 1 < j - 1
  BY <1>1, RankIncreases
<1>4. <<L[j], L[i]>> \in R => j - 1 < i - 1
  BY <1>1, RankIncreases
<1>5. i < j => <<L[i], L[j]>> \in R \/ <<L[j], L[i]>> \in R
  <2>1. i < j => L[i] # L[j]
    BY <1>1, <1>2
  <2>. QED
    BY <1>1, <2>1 DEF StrictOrderOn
<1>. QED
  BY <1>2, <1>3, <1>4, <1>5 DEF L

(* What a filter keeps of a sorted list is the sorted list of what it      *)
(* keeps.                                                                  *)
LEMMA KeptListed ==
  ASSUME NEW S, IsFiniteSet(S), NEW R, StrictOrderOn(S, R), NEW T \in SUBSET S
  PROVE  Kept(Listed(S, R), {i \in DOMAIN Listed(S, R) : Listed(S, R)[i] \in T}) = Listed(T, R)
<1> DEFINE L == Listed(S, R)
           N == Cardinality(S)
           I == {i \in DOMAIN L : L[i] \in T}
           Q == {pair \in I \X I : pair[1] < pair[2]}
<1>1. /\ N \in Nat /\ DOMAIN L = 1..N
      /\ \A n \in 1..N : L[n] \in S
      /\ \A n, m \in 1..N : L[n] = L[m] => n = m
      /\ \A x \in S : \E n \in 1..N : L[n] = x
      /\ \A i, j \in 1..N : <<L[i], L[j]>> \in R <=> i < j
  <2>1. /\ N \in Nat /\ DOMAIN L = 1..N
        /\ \A n \in DOMAIN L : L[n] \in S
        /\ \A n, m \in DOMAIN L : L[n] = L[m] => n = m
        /\ \A x \in S : \E n \in DOMAIN L : L[n] = x
    BY ListedFacts
  <2>2. \A i, j \in DOMAIN L : <<L[i], L[j]>> \in R <=> i < j
    BY ListedInOrder
  <2> HIDE DEF L, N
  <2>. QED
    BY <2>1, <2>2
<1> HIDE DEF L, N
<1>2. I \subseteq 1..N /\ (\A i \in I : L[i] \in T) /\ \A y \in T : \E i \in I : L[i] = y
  BY <1>1
<1>3. \A i, j \in I : <<i, j>> \in Q <=> i < j
  OBVIOUS
<1>4. Kept(L, I) = [n \in 1..Cardinality(I) |-> L[Listed(I, Q)[n]]]
  BY DEF Kept, Ascending
<1> HIDE DEF I, Q
<1>5. IsFiniteSet(I) /\ IsFiniteSet(T) /\ StrictOrderOn(I, Q) /\ StrictOrderOn(T, R)
  <2>1. IsFiniteSet(1..N)
    BY <1>1, FS_Interval
  <2>2. \A i \in I : i \in Nat
    BY <1>2
  <2>3. StrictOrderOn(I, Q)
    BY <1>3, <2>2 DEF StrictOrderOn
  <2>4. StrictOrderOn(T, R)
    BY DEF StrictOrderOn
  <2>. QED
    BY <1>2, <2>1, <2>3, <2>4, FS_Subset
<1>6. ASSUME NEW B \in SUBSET I, NEW C \in SUBSET T,
             \A i \in B : L[i] \in C, \A y \in C : \E i \in B : L[i] = y
      PROVE  Cardinality(B) = Cardinality(C)
  <2> DEFINE f == [i \in B |-> L[i]]
  <2>1. f \in [B -> C]
    BY <1>6
  <2>2. \A i, j \in B : f[i] = f[j] => i = j
    BY <1>1, <1>2
  <2>3. \A y \in C : \E i \in B : f[i] = y
    BY <1>6
  <2> HIDE DEF f
  <2>4. f \in Bijection(B, C)
    BY <2>1, <2>2, <2>3 DEF Bijection, Injection, Surjection, IsInjective
  <2>5. IsFiniteSet(B)
    BY <1>5, FS_Subset
  <2>. QED
    BY <2>4, <2>5, FS_Bijection DEF ExistsBijection
<1>7. Cardinality(I) = Cardinality(T)
  BY <1>2, <1>6
<1>8. ASSUME NEW i \in I
      PROVE  Rank(T, R, L[i]) = Rank(I, Q, i)
  <2> DEFINE B == {j \in I : <<j, i>> \in Q}
             C == {y \in T : <<y, L[i]>> \in R}
  <2>1. \A j \in I : j \in B <=> L[j] \in C
    BY <1>1, <1>2, <1>3
  <2>2. \A y \in C : \E j \in B : L[j] = y
    <3>1. SUFFICES ASSUME NEW y \in C PROVE \E j \in B : L[j] = y
      OBVIOUS
    <3>2. PICK j \in I : L[j] = y
      BY <1>2
    <3> HIDE DEF B, C
    <3>. QED
      BY <2>1, <3>2
  <2>3. B \subseteq I /\ C \subseteq T
    OBVIOUS
  <2> HIDE DEF B, C
  <2>4. Cardinality(B) = Cardinality(C)
    BY <1>6, <2>1, <2>2, <2>3
  <2>. QED
    BY <2>4 DEF Rank, B, C
<1>9. /\ DOMAIN Listed(T, R) = 1..Cardinality(T)
      /\ \A n \in 1..Cardinality(T) : Listed(T, R)[n] \in T /\ Rank(T, R, Listed(T, R)[n]) = n - 1
      /\ \A x, z \in T : Rank(T, R, x) = Rank(T, R, z) => x = z
  BY <1>5, ListedFacts, RanksAreTaken
<1>10. \A n \in 1..Cardinality(I) : Listed(I, Q)[n] \in I /\ Rank(I, Q, Listed(I, Q)[n]) = n - 1
  BY <1>5, ListedFacts
<1>11. ASSUME NEW n \in 1..Cardinality(T)
       PROVE  L[Listed(I, Q)[n]] = Listed(T, R)[n]
  <2>1. Listed(I, Q)[n] \in I /\ Rank(I, Q, Listed(I, Q)[n]) = n - 1
    BY <1>7, <1>10
  <2>2. L[Listed(I, Q)[n]] \in T /\ Rank(T, R, L[Listed(I, Q)[n]]) = n - 1
    BY <1>2, <1>8, <2>1
  <2>. QED
    BY <1>9, <2>2
<1>12. Listed(T, R) = [n \in 1..Cardinality(T) |-> Listed(T, R)[n]]
  BY DEF Listed
<1>13. Kept(L, I) = Listed(T, R)
  BY <1>4, <1>7, <1>11, <1>12
<1>. QED
  BY <1>13 DEF L, I

(* What a filter keeps.                                                    *)
IndexOrder(I) == {pair \in I \X I : pair[1] < pair[2]}

LEMMA IndexesOrdered ==
  ASSUME NEW k \in Nat, NEW I \in SUBSET (1..k)
  PROVE  /\ IsFiniteSet(I) /\ StrictOrderOn(I, IndexOrder(I))
         /\ Ascending(I) = Listed(I, IndexOrder(I))
<1>1. IsFiniteSet(1..k)
  BY FS_Interval
<1>2. IsFiniteSet(I)
  BY <1>1, FS_Subset
<1>3. \A x, y \in I : x \in Nat /\ y \in Nat /\ (<<x, y>> \in IndexOrder(I) <=> x < y)
  BY DEF IndexOrder
<1>4. StrictOrderOn(I, IndexOrder(I))
  BY <1>3 DEF StrictOrderOn
<1>. QED
  BY <1>2, <1>4 DEF Ascending, IndexOrder

LEMMA KeptFacts ==
  ASSUME NEW seq, NEW k \in Nat, NEW I \in SUBSET (1..k)
  PROVE  /\ Cardinality(I) \in Nat /\ DOMAIN Kept(seq, I) = 1..Cardinality(I)
         /\ \A n \in DOMAIN Kept(seq, I) : \E i \in I : Kept(seq, I)[n] = seq[i]
         /\ \A i \in I : \E n \in DOMAIN Kept(seq, I) : Kept(seq, I)[n] = seq[i]
<1> DEFINE R == IndexOrder(I)
           A == Ascending(I)
           N == Cardinality(I)
<1>1. IsFiniteSet(I) /\ StrictOrderOn(I, R) /\ A = Listed(I, R)
  BY IndexesOrdered
<1> HIDE DEF R, A
<1>2. /\ N \in Nat /\ DOMAIN A = 1..N
      /\ \A n \in DOMAIN A : A[n] \in I
      /\ \A i \in I : \E n \in DOMAIN A : A[n] = i
  BY <1>1, ListedFacts
<1>3. Kept(seq, I) = [n \in 1..N |-> seq[A[n]]]
  BY DEF Kept, A
<1> HIDE DEF N
<1>4. DOMAIN Kept(seq, I) = 1..N /\ \A n \in 1..N : Kept(seq, I)[n] = seq[A[n]]
  BY <1>3
<1>5. \A n \in DOMAIN Kept(seq, I) : \E i \in I : Kept(seq, I)[n] = seq[i]
  BY <1>2, <1>4
<1>6. \A i \in I : \E n \in DOMAIN Kept(seq, I) : Kept(seq, I)[n] = seq[i]
  BY <1>2, <1>4
<1>. QED
  BY <1>2, <1>4, <1>5, <1>6 DEF N

(* There is one way to list a set of indexes in order.                     *)
LEMMA AscendingIs ==
  ASSUME NEW k \in Nat, NEW I \in SUBSET (1..k), NEW m \in Nat, NEW at \in [1..m -> I],
         {at[i] : i \in 1..m} = I, \A i, j \in 1..m : i < j => at[i] < at[j]
  PROVE  Cardinality(I) = m /\ Ascending(I) = at
<1> DEFINE R == IndexOrder(I)
<1>0. I \subseteq Nat
  OBVIOUS
<1>1. \A i \in 1..m : at[i] \in I /\ at[i] \in Nat
  BY <1>0
<1>2. \A i, j \in 1..m : at[i] < at[j] <=> i < j
  BY <1>1
<1>3. \A i, j \in 1..m : at[i] = at[j] => i = j
  BY <1>1, <1>2
<1>4. Cardinality(I) = m
  <2>1. at \in Surjection(1..m, I)
    BY DEF Surjection
  <2>2. at \in Injection(1..m, I)
    <3>1. \A a, b \in 1..m : at[a] = at[b] => a = b
      BY <1>3
    <3>. QED
      BY <3>1 DEF Injection, IsInjective
  <2>3. at \in Bijection(1..m, I)
    BY <2>1, <2>2 DEF Bijection
  <2>4. IsFiniteSet(1..m) /\ Cardinality(1..m) = m
    BY FS_Interval
  <2>. QED
    BY <2>3, <2>4, FS_Bijection DEF ExistsBijection
<1>5. IsFiniteSet(I) /\ StrictOrderOn(I, R) /\ Ascending(I) = Listed(I, R)
  BY IndexesOrdered
<1>6. ASSUME NEW n \in 1..m
      PROVE  Rank(I, R, at[n]) = n - 1
  <2> DEFINE below == {y \in I : <<y, at[n]>> \in R}
             f == [i \in 1..n - 1 |-> at[i]]
  <2>1. n - 1 \in Nat /\ \A i \in 1..n - 1 : i \in 1..m /\ i < n
    OBVIOUS
  <2>2. at[n] \in I /\ \A y \in I : y \in below <=> y < at[n]
    BY <1>1 DEF IndexOrder
  <2>3. below \subseteq I
    OBVIOUS
  <2> HIDE DEF below
  <2>4. ASSUME NEW y \in below
        PROVE  \E i \in 1..n - 1 : y = at[i]
    <3>1. PICK i \in 1..m : y = at[i]
      BY <2>3
    <3>2. i < n
      BY <1>2, <2>2, <2>3, <3>1
    <3>3. i \in 1..n - 1
      BY <3>2
    <3>. QED
      BY <3>1, <3>3
  <2>5. \A i \in 1..n - 1 : at[i] \in below
    BY <1>1, <1>2, <2>1, <2>2
  <2>6. \A i \in 1..n - 1 : f[i] = at[i]
    OBVIOUS
  <2>7. f \in [1..n - 1 -> below]
    BY <2>5
  <2>8. DOMAIN f = 1..n - 1
    OBVIOUS
  <2> HIDE DEF f
  <2>9. f \in Surjection(1..n - 1, below)
    BY <2>4, <2>6, <2>7 DEF Surjection
  <2>10. f \in Injection(1..n - 1, below)
    <3>1. \A a, b \in 1..n - 1 : f[a] = f[b] => a = b
      BY <1>3, <2>1, <2>6
    <3>. QED
      BY <2>7, <3>1 DEF Injection, IsInjective
  <2>11. f \in Bijection(1..n - 1, below)
    BY <2>9, <2>10 DEF Bijection
  <2>12. IsFiniteSet(1..n - 1) /\ Cardinality(1..n - 1) = n - 1
    <3>1. 1 \in Int /\ n - 1 \in Int
      BY <2>1
    <3>2. /\ IsFiniteSet(1..(n - 1))
          /\ Cardinality(1..(n - 1)) = IF 1 > n - 1 THEN 0 ELSE (n - 1) - 1 + 1
      BY <3>1, FS_Interval
    <3>. QED
      BY <2>1, <3>2
  <2>13. Cardinality(below) = n - 1
    BY <2>11, <2>12, FS_Bijection DEF ExistsBijection
  <2>. QED
    BY <2>13 DEF Rank, below
<1> HIDE DEF R
<1>7. /\ DOMAIN Listed(I, R) = 1..m
      /\ \A n \in 1..m : Listed(I, R)[n] \in I /\ Rank(I, R, Listed(I, R)[n]) = n - 1
  BY <1>4, <1>5, ListedFacts
<1>8. \A x, z \in I : Rank(I, R, x) = Rank(I, R, z) => x = z
  BY <1>5, RanksAreTaken
<1>9. \A n \in 1..m : Listed(I, R)[n] = at[n]
  BY <1>1, <1>6, <1>7, <1>8
<1>10. Listed(I, R) = at
  <2>1. Listed(I, R) = [n \in 1..m |-> Listed(I, R)[n]]
    BY <1>4 DEF Listed
  <2>2. at = [n \in 1..m |-> at[n]]
    OBVIOUS
  <2>. QED
    BY <1>9, <2>1, <2>2
<1>. QED
  BY <1>4, <1>5, <1>10

-----------------------------------------------------------------------------
(* Folds.                                                                  *)

MaxOf(S) == CHOOSE x \in S : \A y \in S : x >= y

(* FoldLeft(Op, base, seq) of SequencesExt, its definitions expanded.      *)
Folded(base, seq) ==
  LET iter[s \in SUBSET DOMAIN seq] ==
        IF s = {} THEN base
        ELSE LET x == MaxOf(s)
             IN  Op(iter[s \ {x}], seq[x])
  IN  iter[DOMAIN seq]

LEMMA MaxOfIs ==
  ASSUME NEW S \in SUBSET Int, NEW x \in S, \A y \in S : x >= y
  PROVE  MaxOf(S) = x
<1> DEFINE P(m) == \A y \in S : m >= y
<1>1. PICK m \in S : P(m) /\ MaxOf(S) = m
  <2>1. P(x)
    OBVIOUS
  <2>2. (CHOOSE m \in S : P(m)) \in S /\ P(CHOOSE m \in S : P(m))
    <3> HIDE DEF P
    <3>1. QED
      BY <2>1
  <2>3. QED
    BY <2>2 DEF MaxOf
<1>2. QED
  BY <1>1

(* The recursion that defines a fold has a solution, so the result is that *)
(* of the loop: start with the base, take one element after the other.     *)
LEMMA FoldIsLoop ==
  ASSUME NEW base, NEW seq, NEW n \in Nat, DOMAIN seq = 1..n
  PROVE  \E P : /\ P[0] = base
                /\ \A i \in 1..n : P[i] = Op(P[i - 1], seq[i])
                /\ Folded(base, seq) = P[n]
<1> DEFINE Body(g, s) == IF s = {} THEN base ELSE Op(g[s \ {MaxOf(s)}], seq[MaxOf(s)])
           Solves(g, k) == g = [s \in SUBSET (1..k) |-> Body(g, s)]
           Solved == {k \in Nat : \E g : Solves(g, k)}
<1>1. 0 \in Solved
  <2> DEFINE g == [s \in SUBSET (1..0) |-> base]
  <2>1. Solves(g, 0)
    <3>1. \A s \in SUBSET (1..0) : s = {}
      OBVIOUS
    <3>2. QED
      BY <3>1
  <2>2. QED
    BY <2>1
<1>2. ASSUME NEW k \in Nat, k \in Solved
      PROVE  k + 1 \in Solved
  <2>1. PICK g : Solves(g, k)
    BY <1>2
  <2> DEFINE h == [s \in SUBSET (1..k+1) |->
                     IF k + 1 \in s THEN Op(g[s \ {k + 1}], seq[k + 1]) ELSE g[s]]
  <2>2. ASSUME NEW s \in SUBSET (1..k+1)
        PROVE  h[s] = Body(h, s)
    <3>1. CASE k + 1 \in s
      <4>1. MaxOf(s) = k + 1
        BY <3>1, MaxOfIs
      <4>2. s \ {k + 1} \in SUBSET (1..k)
        OBVIOUS
      <4>3. h[s \ {k + 1}] = g[s \ {k + 1}]
        BY <4>2
      <4>4. QED
        BY <3>1, <4>1, <4>3
    <3>2. CASE k + 1 \notin s
      <4>1. s \in SUBSET (1..k)
        BY <3>2
      <4>2. h[s] = Body(g, s)
        BY <2>1, <3>2, <4>1
      <4>3. CASE s = {}
        BY <4>2, <4>3
      <4>4. CASE s # {}
        <5>1. PICK x \in s : \A y \in s : x >= y
          BY <4>1, <4>4, GreatestNatural
        <5>2. MaxOf(s) = x
          BY <4>1, <5>1, MaxOfIs
        <5>3. s \ {MaxOf(s)} \in SUBSET (1..k)
          BY <4>1
        <5>4. h[s \ {MaxOf(s)}] = g[s \ {MaxOf(s)}]
          BY <5>3
        <5>5. QED
          BY <4>2, <4>4, <5>4
      <4>5. QED
        BY <4>3, <4>4
    <3>3. QED
      BY <3>1, <3>2
  <2>3. Solves(h, k + 1)
    BY <2>2
  <2> HIDE DEF h, Solves
  <2>4. QED
    BY <2>3
<1> HIDE DEF Solved
<1>3. Nat \subseteq Solved
  BY <1>1, <1>2, NatInductionOnSet
<1> DEFINE iter == CHOOSE g : g = [s \in SUBSET DOMAIN seq |-> Body(g, s)]
<1>4. Solves(iter, n)
  <2>1. PICK g : Solves(g, n)
    BY <1>3 DEF Solved
  <2>2. g = [s \in SUBSET DOMAIN seq |-> Body(g, s)]
    BY <2>1
  <2>3. iter = [s \in SUBSET DOMAIN seq |-> Body(iter, s)]
    BY <2>2
  <2>4. QED
    BY <2>3
<1>5. Folded(base, seq) = iter[DOMAIN seq]
  BY DEF Folded
<1> HIDE DEF iter
<1> DEFINE P == [k \in 0..n |-> iter[1..k]]
<1>6. P[0] = base
  <2>1. P[0] = iter[{}]
    OBVIOUS
  <2>2. iter[{}] = base
    BY <1>4
  <2>3. QED
    BY <2>1, <2>2
<1>7. ASSUME NEW i \in 1..n
      PROVE  P[i] = Op(P[i - 1], seq[i])
  <2>1. MaxOf(1..i) = i
    <3>1. i \in 1..i /\ 1..i \in SUBSET Int /\ \A y \in 1..i : i >= y
      OBVIOUS
    <3>2. QED
      BY <3>1, MaxOfIs
  <2>2. (1..i) \ {i} = 1..(i - 1)
    OBVIOUS
  <2>3. 1..i \in SUBSET (1..n) /\ 1..i # {}
    OBVIOUS
  <2>4. iter[1..i] = Body(iter, 1..i)
    BY <1>4, <2>3
  <2>5. iter[1..i] = Op(iter[(1..i) \ {i}], seq[i])
    BY <2>1, <2>3, <2>4
  <2>6. P[i] = iter[1..i] /\ P[i - 1] = iter[1..(i - 1)]
    BY SMT
  <2>7. QED
    BY <2>2, <2>5, <2>6
<1>8. Folded(base, seq) = P[n]
  BY <1>5
<1>9. QED
  BY <1>6, <1>7, <1>8
(* The same, for a fold whose start is no literal.                         *)
Rounds(P, base, seq, n) ==
  P[0] = base /\ \A i \in 1..n : P[i] = Op(P[i - 1], seq[i])

LEMMA FoldIsRounds ==
  ASSUME NEW base, NEW seq, NEW n \in Nat, DOMAIN seq = 1..n
  PROVE  \E P : Rounds(P, base, seq, n) /\ Folded(base, seq) = P[n]
<1>1. PICK P : /\ P[0] = base
               /\ \A i \in 1..n : P[i] = Op(P[i - 1], seq[i])
               /\ Folded(base, seq) = P[n]
  BY FoldIsLoop
<1>2. Rounds(P, base, seq, n)
  BY <1>1 DEF Rounds
<1>. QED
  BY <1>1, <1>2

-----------------------------------------------------------------------------
(* Lists that grow and lists that are joined, read as loops like folds.    *)

(* Joining lists.                                                          *)
LEMMA JoinedTwice ==
  ASSUME NEW X, NEW a \in Seq(X), NEW b \in Seq(X), NEW c \in Seq(X)
  PROVE  (a \o b) \o c = a \o (b \o c) /\ a \o <<>> = a /\ a \o b \in Seq(X)
         /\ Len(a \o b) = Len(a) + Len(b) /\ Len(a) \in Nat
OBVIOUS

LEMMA OneElement ==
  ASSUME NEW X, NEW x \in X
  PROVE  <<x>> \in Seq(X) /\ Len(<<x>>) = 1
OBVIOUS

LEMMA OneMore ==
  ASSUME NEW X, NEW s \in Seq(X), NEW x \in X
  PROVE  /\ s \o <<x>> \in Seq(X) /\ Len(s \o <<x>>) = Len(s) + 1 /\ (s \o <<x>>)[Len(s) + 1] = x
         /\ \A i \in 1..Len(s) : (s \o <<x>>)[i] = s[i]
<1>1. s \o <<x>> = Append(s, x)
  OBVIOUS
<1>. QED
  BY <1>1

(* How many indexes are in a set when there is one more of them.           *)
LEMMA CountedStep ==
  ASSUME NEW n \in Nat, NEW P, NEW Q, Q \subseteq 1..n + 1, P = Q \ {n + 1}
  PROVE  Cardinality(P) \in Nat /\ Cardinality(Q) = Cardinality(P) + (IF n + 1 \in Q THEN 1 ELSE 0)
<1>1. IsFiniteSet(1..n)
  BY FS_Interval
<1>2. P \subseteq 1..n /\ n + 1 \notin P
  OBVIOUS
<1>3. IsFiniteSet(P) /\ Cardinality(P) \in Nat
  BY <1>1, <1>2, FS_Subset, FS_CardinalityType
<1>4. Cardinality(P \cup {n + 1}) = Cardinality(P) + 1
  BY <1>2, <1>3, FS_AddElement
<1>5. CASE n + 1 \in Q
  <2>1. Q = P \cup {n + 1}
    BY <1>5
  <2>. QED
    BY <1>3, <1>4, <1>5, <2>1
<1>6. CASE n + 1 \notin Q
  <2>1. Q = P
    BY <1>6
  <2>2. Cardinality(Q) = Cardinality(P)
    BY <2>1
  <2>. QED
    BY <1>3, <1>6, <2>2
<1>. QED
  BY <1>5, <1>6

(* What a filter keeps when the array grows by one element.                *)
LEMMA KeptAppend ==
  ASSUME NEW X, NEW seq \in Seq(X), NEW x \in X, NEW I \in SUBSET (1..Len(seq))
  PROVE  /\ Kept(Append(seq, x), I) = Kept(seq, I)
         /\ Kept(Append(seq, x), I \cup {Len(seq) + 1}) = Append(Kept(seq, I), x)
         /\ Kept(seq, I) \in Seq(X)
<1> DEFINE n == Len(seq)
           longer == Append(seq, x)
           J == I \cup {n + 1}
           A == Ascending(I)
           N == Cardinality(I)
           at == [i \in 1..N + 1 |-> IF i = N + 1 THEN n + 1 ELSE A[i]]
<1>1. /\ n \in Nat /\ longer[n + 1] = x
      /\ \A i \in 1..n : longer[i] = seq[i] /\ seq[i] \in X
  OBVIOUS
<1>2. /\ IsFiniteSet(I) /\ StrictOrderOn(I, IndexOrder(I)) /\ A = Listed(I, IndexOrder(I))
      /\ \A i, j \in I : <<i, j>> \in IndexOrder(I) <=> i < j
  BY <1>1, IndexesOrdered DEF IndexOrder
<1>3. I \subseteq 1..n
  OBVIOUS
<1>4. J \in SUBSET (1..n + 1) /\ n + 1 \in J /\ (\A y \in J : y \in I \/ y = n + 1) /\ I \subseteq J
  <2>1. \A y \in I : y \in 1..n + 1
    BY <1>1, <1>3
  <2>2. n + 1 \in 1..n + 1
    BY <1>1
  <2> HIDE DEF n
  <2>. QED
    BY <2>1, <2>2
<1>5. /\ Kept(seq, I) = [i \in 1..N |-> seq[A[i]]]
      /\ Kept(longer, I) = [i \in 1..N |-> longer[A[i]]]
      /\ Kept(longer, J) = [i \in 1..Cardinality(J) |-> longer[Ascending(J)[i]]]
  BY DEF Kept
<1> HIDE DEF n, longer, J, A
<1>6. /\ N \in Nat /\ DOMAIN A = 1..N
      /\ \A i \in 1..N : A[i] \in I
      /\ \A y \in I : \E i \in 1..N : A[i] = y
  BY <1>2, ListedFacts
<1> HIDE DEF N
<1>7. \A i, j \in 1..N : i < j => A[i] < A[j]
  <2>1. \A i, j \in DOMAIN A : <<A[i], A[j]>> \in IndexOrder(I) <=> i < j
    BY <1>2, ListedInOrder
  <2>. QED
    BY <1>2, <1>6, <2>1
<1>8. /\ \A i \in 1..N : A[i] \in 1..n /\ longer[A[i]] = seq[A[i]] /\ seq[A[i]] \in X
  BY <1>1, <1>3, <1>6
<1>9. Kept(longer, I) = Kept(seq, I) /\ Kept(seq, I) \in Seq(X) /\ Len(Kept(seq, I)) = N
  BY <1>5, <1>6, <1>8
<1>10. N + 1 \in 1..N + 1 /\ at[N + 1] = n + 1
       /\ \A i \in 1..N : i \in 1..N + 1 /\ at[i] = A[i]
  BY <1>6
<1>11. at \in [1..N + 1 -> J]
  <2>1. \A i \in 1..N + 1 : i = N + 1 \/ i \in 1..N
    BY <1>6
  <2>2. \A i \in 1..N + 1 : (IF i = N + 1 THEN n + 1 ELSE A[i]) \in J
    BY <1>4, <1>6, <2>1
  <2>. QED
    BY <2>2
<1> HIDE DEF at
<1>12. {at[i] : i \in 1..N + 1} = J
  <2>1. \A y \in J : \E i \in 1..N + 1 : at[i] = y
    BY <1>4, <1>6, <1>10
  <2>. QED
    BY <1>11, <2>1
<1>13. \A i, j \in 1..N + 1 : i < j => at[i] < at[j]
  <2>1. SUFFICES ASSUME NEW i \in 1..N + 1, NEW j \in 1..N + 1, i < j PROVE at[i] < at[j]
    OBVIOUS
  <2>2. i \in 1..N /\ at[i] = A[i] /\ A[i] \in 1..n
    <3>1. i \in 1..N
      BY <1>6, <2>1
    <3>. QED
      BY <1>8, <1>10, <3>1
  <2>3. CASE j = N + 1
    BY <1>1, <1>10, <2>2, <2>3
  <2>4. CASE j # N + 1
    <3>1. j \in 1..N
      BY <1>6, <2>4
    <3>. QED
      BY <1>7, <1>10, <2>1, <2>2, <3>1
  <2>. QED
    BY <2>3, <2>4
<1>14. Cardinality(J) = N + 1 /\ Ascending(J) = at
  <2>1. n + 1 \in Nat /\ N + 1 \in Nat
    BY <1>1, <1>6
  <2>. QED
    BY <1>4, <1>11, <1>12, <1>13, <2>1, AscendingIs
<1>15. Kept(longer, J) = [i \in 1..N + 1 |-> longer[at[i]]]
  BY <1>5, <1>14
<1>16. Kept(longer, J) = Append(Kept(seq, I), x)
  <2> DEFINE kept == Kept(seq, I)
             more == Kept(longer, J)
  <2>1. /\ more = [i \in 1..N + 1 |-> longer[at[i]]]
        /\ \A i \in 1..N : kept[i] = seq[A[i]]
    BY <1>5, <1>15
  <2>2. kept \in Seq(X) /\ Len(kept) = N
    BY <1>9
  <2> HIDE DEF kept, more
  <2>3. more[N + 1] = x /\ \A i \in 1..N : more[i] = kept[i]
    BY <1>1, <1>8, <1>10, <2>1
  <2> DEFINE appended == Append(kept, x)
  <2>4. /\ appended \in Seq(X) /\ Len(appended) = N + 1
        /\ appended[N + 1] = x /\ \A i \in 1..N : appended[i] = kept[i]
    BY <1>6, <2>2
  <2> HIDE DEF appended
  <2>5. appended = [i \in 1..N + 1 |-> appended[i]]
    <3>1. \A s \in Seq(X) : s = [i \in 1..Len(s) |-> s[i]]
      OBVIOUS
    <3>. QED
      BY <2>4, <3>1
  <2>6. more = [i \in 1..N + 1 |-> more[i]]
    BY <2>1
  <2>7. \A i \in 1..N + 1 : more[i] = appended[i]
    <3>1. \A i \in 1..N + 1 : i = N + 1 \/ i \in 1..N
      BY <1>6
    <3>. QED
      BY <2>3, <2>4, <3>1
  <2>. QED
    BY <2>5, <2>6, <2>7 DEF kept, more, appended
<1>. QED
  BY <1>9, <1>16 DEF n, longer, J

(* FlattenSeq joins the lists one after the other.                         *)
Joins(F, X, seqs, m) ==
  /\ F[0] = <<>>
  /\ \A i \in 1..m : F[i] = F[i - 1] \o seqs[i]
  /\ \A i \in 0..m : F[i] \in Seq(X)
  /\ FlattenSeq(seqs) = F[m]

LEMMA FlattenIsLoop ==
  ASSUME NEW X, NEW m \in Nat, NEW seqs \in [1..m -> Seq(X)]
  PROVE  \E F : Joins(F, X, seqs, m)
<1> DEFINE Body(g, i) == IF i = 1 THEN seqs[i] ELSE g[i - 1] \o seqs[i]
           Solves(g, k) == g = [i \in 1..k |-> Body(g, i)]
           Solved == {k \in Nat : \E g : Solves(g, k)}
           flatten == CHOOSE g : g = [i \in 1..Len(seqs) |-> Body(g, i)]
           F == [i \in 0..m |-> IF i = 0 THEN <<>> ELSE flatten[i]]
<1>1. 0 \in Solved
  <2>1. Solves([i \in 1..0 |-> <<>>], 0)
    OBVIOUS
  <2>. QED
    BY <2>1
<1>2. ASSUME NEW k \in Nat, k \in Solved
      PROVE  k + 1 \in Solved
  <2>1. PICK g : Solves(g, k)
    BY <1>2
  <2> DEFINE h == [i \in 1..k + 1 |-> IF i = k + 1 THEN Body(g, i) ELSE g[i]]
  <2>2. ASSUME NEW i \in 1..k + 1
        PROVE  h[i] = Body(h, i)
    <3>1. i # 1 => h[i - 1] = g[i - 1]
      OBVIOUS
    <3>2. i # k + 1 => i \in 1..k
      OBVIOUS
    <3>3. \A j \in 1..k : g[j] = Body(g, j)
      BY <2>1
    <3>. QED
      BY <3>1, <3>2, <3>3
  <2>3. Solves(h, k + 1)
    BY <2>2
  <2> HIDE DEF h, Solves
  <2>. QED
    BY <2>3
<1> HIDE DEF Solved
<1>3. Nat \subseteq Solved
  BY <1>1, <1>2, NatInductionOnSet
<1>4. Len(seqs) = m /\ seqs \in Seq(Seq(X))
  OBVIOUS
<1>5. Solves(flatten, m)
  <2>1. PICK g : Solves(g, m)
    BY <1>3 DEF Solved
  <2>2. g = [i \in 1..Len(seqs) |-> Body(g, i)]
    BY <1>4, <2>1
  <2>3. flatten = [i \in 1..Len(seqs) |-> Body(flatten, i)]
    BY <2>2
  <2>. QED
    BY <1>4, <2>3
<1>6. \A i \in 1..m : flatten[i] = Body(flatten, i)
  <2> HIDE DEF flatten
  <2>. QED
    BY <1>5
<1>7. m # 0 => FlattenSeq(seqs) = flatten[m]
  BY <1>4 DEF FlattenSeq
<1>8. m = 0 => FlattenSeq(seqs) = <<>>
  BY <1>4 DEF FlattenSeq
<1> HIDE DEF flatten
<1>9. F[0] = <<>>
  OBVIOUS
<1>10. ASSUME NEW i \in 1..m
       PROVE  F[i] = flatten[i] /\ (i # 1 => F[i - 1] = flatten[i - 1]) /\ (i = 1 => F[i - 1] = <<>>)
  OBVIOUS
<1>11. ASSUME NEW i \in 1..m
       PROVE  F[i] = F[i - 1] \o seqs[i]
  <2>1. seqs[i] \in Seq(X)
    OBVIOUS
  <2>2. <<>> \o seqs[i] = seqs[i]
    BY <2>1
  <2>. QED
    BY <1>6, <1>10, <2>2
<1>12. FlattenSeq(seqs) = F[m]
  BY <1>7, <1>8
<1> HIDE DEF F
<1>13. \A i \in 0..m : F[i] \in Seq(X)
  <2> DEFINE T == {i \in 0..m : F[i] \in Seq(X)}
  <2>1. 0 \in T
    <3>1. <<>> \in Seq(X) /\ 0 \in 0..m
      OBVIOUS
    <3>. QED
      BY <1>9, <3>1
  <2>2. ASSUME NEW i \in 1..m, i - 1 \in T
        PROVE  i \in T
    <3>1. F[i - 1] \in Seq(X) /\ seqs[i] \in Seq(X) /\ i \in 0..m
      BY <2>2
    <3>2. F[i - 1] \o seqs[i] \in Seq(X)
      BY <3>1
    <3>. QED
      BY <1>11, <3>1, <3>2
  <2> HIDE DEF T
  <2>3. \A i \in 0..m : i \in T
    BY <2>1, <2>2, LoopInduction
  <2>. QED
    BY <2>3 DEF T
<1>. QED
  BY <1>9, <1>11, <1>12, <1>13 DEF Joins

(* A function on the numbers up to a bound is a list of its values.        *)
LEMMA ListOfValues ==
  ASSUME NEW s, NEW n \in Nat, s = [i \in 1..n |-> s[i]]
  PROVE  s \in Seq({s[i] : i \in 1..n}) /\ Len(s) = n
OBVIOUS

LEMMA AppendFacts ==
  ASSUME NEW X, NEW s \in Seq(X), NEW x \in X
  PROVE  /\ Append(s, x) \in Seq(X) /\ Len(Append(s, x)) = Len(s) + 1 /\ Len(s) \in Nat
         /\ Append(s, x)[Len(s) + 1] = x
         /\ \A i \in 1..Len(s) : Append(s, x)[i] = s[i] /\ s[i] \in X
         /\ Append(s, x) # <<>>
OBVIOUS

(* Joining nothing, and joining one list more.                             *)
LEMMA FlattenNothing == FlattenSeq(<<>>) = <<>>
<1> DEFINE none == [i \in 1..0 |-> <<>>]
<1>1. none \in [1..0 -> Seq({})] /\ 0 \in Nat /\ none = <<>>
  OBVIOUS
<1> HIDE DEF none
<1>2. PICK F : Joins(F, {}, none, 0)
  BY <1>1, FlattenIsLoop
<1>. QED
  BY <1>1, <1>2 DEF Joins

LEMMA FlattenAppend ==
  ASSUME NEW X, NEW seqs \in Seq(Seq(X)), NEW s \in Seq(X)
  PROVE  /\ FlattenSeq(Append(seqs, s)) = FlattenSeq(seqs) \o s
         /\ FlattenSeq(seqs) \in Seq(X) /\ FlattenSeq(Append(seqs, s)) \in Seq(X)
<1> DEFINE m == Len(seqs)
           more == Append(seqs, s)
<1>1. m \in Nat /\ seqs \in [1..m -> Seq(X)]
  OBVIOUS
<1>2. /\ m + 1 \in Nat /\ more \in [1..(m + 1) -> Seq(X)] /\ more[m + 1] = s
      /\ \A i \in 1..m : more[i] = seqs[i]
  <2>1. /\ more \in Seq(Seq(X)) /\ Len(more) = m + 1 /\ m \in Nat /\ more[m + 1] = s
        /\ \A i \in 1..m : more[i] = seqs[i]
    BY AppendFacts
  <2> HIDE DEF m, more
  <2>2. QED
    BY <2>1
<1> HIDE DEF m, more
<1>3. PICK F : Joins(F, X, seqs, m)
  BY <1>1, FlattenIsLoop
<1>4. PICK G : Joins(G, X, more, m + 1)
  BY <1>2, FlattenIsLoop
<1> DEFINE T == {i \in 0..m : G[i] = F[i]}
<1>5. 0 \in T
  <2>1. 0 \in 0..m
    BY <1>1
  <2>. QED
    BY <1>3, <1>4, <2>1 DEF Joins
<1>6. ASSUME NEW i \in 1..m, i - 1 \in T
      PROVE  i \in T
  <2>1. G[i - 1] = F[i - 1] /\ i \in 0..m /\ i \in 1..(m + 1)
    BY <1>1, <1>6
  <2>2. G[i] = G[i - 1] \o more[i] /\ F[i] = F[i - 1] \o seqs[i]
    BY <1>3, <1>4, <2>1 DEF Joins
  <2>. QED
    BY <1>2, <2>1, <2>2
<1> HIDE DEF T
<1>7. \A i \in 0..m : i \in T
  BY <1>1, <1>5, <1>6, LoopInduction
<1>8. m \in 0..m /\ m + 1 \in 1..(m + 1) /\ (m + 1) - 1 = m /\ m + 1 \in 0..(m + 1)
  BY <1>1
<1>9. G[m] = F[m]
  BY <1>7, <1>8 DEF T
<1>10. G[m + 1] = G[m] \o s
  BY <1>2, <1>4, <1>8 DEF Joins
<1>11. /\ FlattenSeq(more) = G[m + 1] /\ FlattenSeq(seqs) = F[m]
       /\ G[m + 1] \in Seq(X) /\ F[m] \in Seq(X)
  BY <1>3, <1>4, <1>8 DEF Joins
<1>. QED
  BY <1>9, <1>10, <1>11 DEF more

(* The lists that the elements of a list stand for, when it grows.         *)
LEMMA MappedAppend ==
  ASSUME NEW X, NEW s \in Seq(X), NEW x \in X, NEW Y, NEW f \in [X -> Y]
  PROVE  /\ [i \in DOMAIN s |-> f[s[i]]] \in Seq(Y)
         /\ [i \in DOMAIN Append(s, x) |-> f[Append(s, x)[i]]] =
              Append([i \in DOMAIN s |-> f[s[i]]], f[x])
<1> DEFINE n == Len(s)
           more == Append(s, x)
           a == [i \in DOMAIN s |-> f[s[i]]]
           b == [i \in DOMAIN more |-> f[more[i]]]
<1>1. /\ n \in Nat /\ DOMAIN s = 1..n /\ DOMAIN more = 1..(n + 1) /\ more[n + 1] = x
      /\ \A i \in 1..n : more[i] = s[i] /\ s[i] \in X
  OBVIOUS
<1>2. a \in [1..n -> Y]
  BY <1>1
<1>3. /\ a \in Seq(Y) /\ Len(a) = n
  <2> HIDE DEF a
  <2>1. QED
    BY <1>1, <1>2
<1>4. /\ DOMAIN b = 1..(n + 1) /\ b[n + 1] = f[x] /\ \A i \in 1..n : b[i] = a[i]
  BY <1>1
<1>5. b = [i \in 1..(n + 1) |-> b[i]]
  BY <1>1
<1>6. f[x] \in Y
  OBVIOUS
<1> HIDE DEF a, b, more, n
<1>7. /\ Append(a, f[x]) = [i \in 1..(n + 1) |-> Append(a, f[x])[i]]
      /\ Append(a, f[x])[n + 1] = f[x] /\ \A i \in 1..n : Append(a, f[x])[i] = a[i]
  BY <1>1, <1>3, <1>6
<1>8. \A i \in 1..(n + 1) : i = n + 1 \/ i \in 1..n
  BY <1>1
<1>9. \A i \in 1..(n + 1) : b[i] = Append(a, f[x])[i]
  BY <1>4, <1>7, <1>8
<1>10. b = Append(a, f[x])
  BY <1>5, <1>7, <1>9
<1>. QED
  BY <1>3, <1>10 DEF a, b, more

-----------------------------------------------------------------------------
(* How often lists hit a set.                                              *)
Hits(seq, A) == {i \in DOMAIN seq : seq[i] \in A}

LEMMA HitsAreFinite ==
  ASSUME NEW X, NEW s \in Seq(X), NEW A
  PROVE  IsFiniteSet(Hits(s, A)) /\ Cardinality(Hits(s, A)) \in Nat /\ Hits(s, A) \in SUBSET (1..Len(s))
<1>1. DOMAIN s = 1..Len(s) /\ Len(s) \in Nat
  OBVIOUS
<1>2. IsFiniteSet(1..Len(s))
  BY <1>1, FS_Interval
<1>3. Hits(s, A) \subseteq 1..Len(s)
  BY <1>1 DEF Hits
<1>. QED
  BY <1>2, <1>3, FS_Subset, FS_CardinalityType

LEMMA SameSize ==
  ASSUME NEW S, NEW T, IsFiniteSet(S), NEW f, f \in [S -> T],
         \A x, y \in S : f[x] = f[y] => x = y, \A z \in T : \E x \in S : f[x] = z
  PROVE  IsFiniteSet(T) /\ Cardinality(T) = Cardinality(S)
<1>1. f \in Surjection(S, T)
  BY DEF Surjection
<1>2. f \in Injection(S, T)
  BY DEF Injection, IsInjective
<1>3. f \in Bijection(S, T)
  BY <1>1, <1>2 DEF Bijection
<1>. QED
  BY <1>3, FS_Bijection DEF ExistsBijection

LEMMA HitsJoined ==
  ASSUME NEW X, NEW s \in Seq(X), NEW t \in Seq(X), NEW A
  PROVE  Cardinality(Hits(s \o t, A)) = Cardinality(Hits(s, A)) + Cardinality(Hits(t, A))
<1> DEFINE n == Len(s)
           m == Len(t)
           joined == s \o t
           P == Hits(s, A)
           Q == Hits(t, A)
           f == [j \in Q |-> n + j]
           moved == {n + j : j \in Q}
<1>1. /\ n \in Nat /\ m \in Nat /\ DOMAIN s = 1..n /\ DOMAIN t = 1..m /\ DOMAIN joined = 1..(n + m)
      /\ \A i \in 1..n : joined[i] = s[i]
      /\ \A j \in 1..m : joined[n + j] = t[j]
  OBVIOUS
<1> HIDE DEF n, m, joined
<1>2. IsFiniteSet(P) /\ IsFiniteSet(Q) /\ P \subseteq 1..n /\ Q \subseteq 1..m
      /\ Cardinality(P) \in Nat /\ Cardinality(Q) \in Nat
  BY HitsAreFinite DEF n, m
<1>3. /\ \A i \in 1..n : i \in P <=> joined[i] \in A
      /\ \A j \in 1..m : j \in Q <=> joined[n + j] \in A
      /\ \A i \in 1..(n + m) : i \in Hits(joined, A) <=> joined[i] \in A
      /\ Hits(joined, A) \subseteq 1..(n + m)
  BY <1>1 DEF Hits
<1> HIDE DEF P, Q
<1>4. Hits(joined, A) = P \cup moved
  <2>1. ASSUME NEW i \in Hits(joined, A) PROVE i \in P \cup moved
    <3>1. i \in 1..(n + m) /\ joined[i] \in A
      BY <1>3
    <3>2. CASE i \in 1..n
      BY <1>3, <3>1, <3>2
    <3>3. CASE i \notin 1..n
      <4>1. i - n \in 1..m /\ n + (i - n) = i
        BY <1>1, <3>1, <3>3
      <4>2. i - n \in Q
        BY <1>3, <3>1, <4>1
      <4>. QED
        BY <4>1, <4>2
    <3>. QED
      BY <3>2, <3>3
  <2>2. ASSUME NEW i \in P PROVE i \in Hits(joined, A)
    <3>1. i \in 1..n /\ i \in 1..(n + m)
      BY <1>1, <1>2
    <3>. QED
      BY <1>3, <3>1
  <2>3. ASSUME NEW j \in Q PROVE n + j \in Hits(joined, A)
    <3>1. j \in 1..m /\ n + j \in 1..(n + m)
      BY <1>1, <1>2
    <3>. QED
      BY <1>3, <3>1
  <2>. QED
    BY <2>1, <2>2, <2>3
<1>5. IsFiniteSet(moved) /\ Cardinality(moved) = Cardinality(Q)
  <2>1. f \in [Q -> moved] /\ \A z \in moved : \E x \in Q : f[x] = z
    OBVIOUS
  <2>2. \A x, y \in Q : f[x] = f[y] => x = y
    BY <1>1, <1>2
  <2> HIDE DEF f, moved
  <2>. QED
    BY <1>2, <2>1, <2>2, SameSize
<1>6. P \cap moved = {}
  BY <1>1, <1>2
<1> HIDE DEF moved
<1>7. Cardinality(P \cup moved) = Cardinality(P) + Cardinality(moved) - Cardinality(P \cap moved)
  BY <1>2, <1>5, FS_Union
<1>8. Cardinality(P \cap moved) = 0
  BY <1>6, FS_EmptySet
<1>. QED
  BY <1>2, <1>4, <1>5, <1>7, <1>8 DEF P, Q, joined

(* A filter keeps the hits among what it keeps.                            *)
LEMMA HitsKept ==
  ASSUME NEW X, NEW s \in Seq(X), NEW I \in SUBSET (1..Len(s)), NEW A
  PROVE  /\ Kept(s, I) \in Seq(X) /\ Len(Kept(s, I)) = Cardinality(I) /\ Cardinality(I) \in Nat
         /\ Cardinality(Hits(Kept(s, I), A)) = Cardinality(I \cap Hits(s, A))
<1> DEFINE n == Len(s)
           N == Cardinality(I)
           at == Ascending(I)
           kept == Kept(s, I)
           P == Hits(kept, A)
           Q == I \cap Hits(s, A)
           f == [j \in P |-> at[j]]
<1>1. n \in Nat /\ DOMAIN s = 1..n /\ \A i \in 1..n : s[i] \in X
  OBVIOUS
<1>2. IsFiniteSet(I) /\ StrictOrderOn(I, IndexOrder(I)) /\ at = Listed(I, IndexOrder(I))
  BY <1>1, IndexesOrdered
<1>3. /\ N \in Nat /\ DOMAIN at = 1..N
      /\ \A i \in 1..N : at[i] \in I
      /\ \A i, j \in 1..N : at[i] = at[j] => i = j
      /\ \A y \in I : \E i \in 1..N : at[i] = y
  <2> HIDE DEF at, N
  <2>1. QED
    BY <1>2, ListedFacts DEF N
<1>4. kept = [i \in 1..N |-> s[at[i]]]
  BY DEF Kept
<1>5. I \subseteq 1..n
  OBVIOUS
<1> HIDE DEF kept, at, N, n
<1>6. DOMAIN kept = 1..N /\ \A i \in 1..N : kept[i] = s[at[i]] /\ kept[i] \in X
  BY <1>1, <1>3, <1>4, <1>5
<1>7. kept \in Seq(X) /\ Len(kept) = N
  <2>1. kept \in [1..N -> X]
    BY <1>4, <1>6
  <2>. QED
    BY <1>3, <2>1
<1>8. IsFiniteSet(P)
  BY <1>7, HitsAreFinite
<1>9. \A j \in P : j \in 1..N /\ at[j] \in Q
  BY <1>1, <1>3, <1>5, <1>6 DEF Hits
<1>10. \A z \in Q : \E j \in P : at[j] = z
  <2>1. SUFFICES ASSUME NEW z \in Q PROVE \E j \in P : at[j] = z
    OBVIOUS
  <2>2. PICK j \in 1..N : at[j] = z
    BY <1>3
  <2>3. kept[j] \in A
    BY <1>6, <2>2 DEF Hits
  <2>. QED
    BY <1>6, <2>2, <2>3 DEF Hits
<1> HIDE DEF P, Q
<1>11. f \in [P -> Q] /\ (\A x, y \in P : f[x] = f[y] => x = y) /\ \A z \in Q : \E x \in P : f[x] = z
  BY <1>3, <1>9, <1>10
<1> HIDE DEF f
<1>12. Cardinality(Q) = Cardinality(P)
  BY <1>8, <1>11, SameSize
<1>. QED
  BY <1>3, <1>7, <1>12 DEF N, kept, P, Q, n

(* Every element hits the set that the list is over; none does elsewhere.  *)
LEMMA HitsOfAll ==
  ASSUME NEW X, NEW s \in Seq(X), NEW A
  PROVE  /\ (\A i \in DOMAIN s : s[i] \in A) => Cardinality(Hits(s, A)) = Len(s)
         /\ (\A i \in DOMAIN s : s[i] \notin A) => Cardinality(Hits(s, A)) = 0
<1>1. DOMAIN s = 1..Len(s) /\ Len(s) \in Nat
  OBVIOUS
<1>2. Cardinality(1..Len(s)) = Len(s)
  BY <1>1, FS_Interval
<1>3. (\A i \in DOMAIN s : s[i] \in A) => Hits(s, A) = 1..Len(s)
  BY <1>1 DEF Hits
<1>4. (\A i \in DOMAIN s : s[i] \notin A) => Hits(s, A) = {}
  BY DEF Hits
<1>. QED
  BY <1>2, <1>3, <1>4, FS_EmptySet

(* The two sides of a split together.                                      *)
LEMMA HitsSplit ==
  ASSUME NEW S, IsFiniteSet(S), NEW I \in SUBSET S, NEW H \in SUBSET S
  PROVE  Cardinality(I \cap H) + Cardinality((S \ I) \cap H) = Cardinality(H)
<1> DEFINE a == I \cap H
           b == (S \ I) \cap H
<1>1. IsFiniteSet(a) /\ IsFiniteSet(b) /\ a \cup b = H /\ a \cap b = {}
  <2>1. a \subseteq S /\ b \subseteq S
    OBVIOUS
  <2>2. IsFiniteSet(a) /\ IsFiniteSet(b)
    BY <2>1, FS_Subset
  <2>. QED
    BY <2>2
<1> HIDE DEF a, b
<1>2. Cardinality(a) \in Nat /\ Cardinality(b) \in Nat
  BY <1>1, FS_CardinalityType
<1>3. Cardinality(a \cup b) = Cardinality(a) + Cardinality(b) - Cardinality(a \cap b)
  BY <1>1, FS_Union
<1>4. Cardinality(a \cap b) = 0
  BY <1>1, FS_EmptySet
<1>. QED
  BY <1>1, <1>2, <1>3, <1>4 DEF a, b

-----------------------------------------------------------------------------
(* A sum over a set, as the library recurses over it.                      *)
Summed(fun, S) ==
  LET iter[s \in SUBSET S] ==
        IF s = {} THEN 0
        ELSE LET x == CHOOSE x \in s : TRUE
             IN  fun[x] + iter[s \ {x}]
  IN  iter[S]

SumsTo(fun, S, g) ==
  g[{}] = 0 /\ \A s \in SUBSET S : \A x \in s : g[s] = fun[x] + g[s \ {x}]

LEMMA SumIs ==
  ASSUME NEW S, IsFiniteSet(S), NEW fun, NEW g, SumsTo(fun, S, g)
  PROVE  Summed(fun, S) = g[S]
<1> DEFINE Body(h, s) == IF s = {} THEN 0
                         ELSE fun[CHOOSE x \in s : TRUE] + h[s \ {CHOOSE x \in s : TRUE}]
           Solves(h) == h = [s \in SUBSET S |-> Body(h, s)]
           iter == CHOOSE h : h = [s \in SUBSET S |-> Body(h, s)]
           k == [s \in SUBSET S |-> g[s]]
<1>1. ASSUME NEW s \in SUBSET S
      PROVE  k[s] = Body(k, s)
  <2>1. CASE s = {}
    BY <2>1 DEF SumsTo
  <2>2. CASE s # {}
    <3> DEFINE x == CHOOSE x \in s : TRUE
    <3>1. x \in s
      BY <2>2
    <3> HIDE DEF x
    <3>2. g[s] = fun[x] + g[s \ {x}] /\ s \ {x} \in SUBSET S
      BY <3>1 DEF SumsTo
    <3>3. k[s] = fun[x] + k[s \ {x}]
      BY <3>2
    <3>. QED
      BY <2>2, <3>3 DEF x
  <2>. QED
    BY <2>1, <2>2
<1>2. Solves(k)
  <2> HIDE DEF Body
  <2>1. k = [s \in SUBSET S |-> k[s]]
    OBVIOUS
  <2> HIDE DEF k
  <2>. QED
    BY <1>1, <2>1
<1>3. Solves(iter)
  BY <1>2
<1> HIDE DEF iter, k
<1>4. \A s \in SUBSET S : iter[s] = Body(iter, s)
  <2> HIDE DEF Body
  <2>. QED
    BY <1>3
<1> DEFINE T == {n \in Nat : \A s \in SUBSET S : Cardinality(s) = n => iter[s] = g[s]}
<1>5. 0 \in T
  <2>1. SUFFICES ASSUME NEW s \in SUBSET S, Cardinality(s) = 0 PROVE iter[s] = g[s]
    OBVIOUS
  <2>2. s = {}
    BY <2>1, FS_Subset, FS_EmptySet
  <2>3. iter[s] = 0
    BY <1>4, <2>2
  <2>. QED
    BY <2>2, <2>3 DEF SumsTo
<1>6. ASSUME NEW n \in Nat, n \in T
      PROVE  n + 1 \in T
  <2>1. SUFFICES ASSUME NEW s \in SUBSET S, Cardinality(s) = n + 1 PROVE iter[s] = g[s]
    OBVIOUS
  <2>2. IsFiniteSet(s) /\ s # {}
    <3>1. IsFiniteSet(s)
      BY FS_Subset
    <3>2. Cardinality({}) = 0
      BY FS_EmptySet
    <3>. QED
      BY <2>1, <3>1, <3>2
  <2> DEFINE x == CHOOSE x \in s : TRUE
             less == s \ {x}
  <2>3. x \in s
    BY <2>2
  <2>4. iter[s] = fun[x] + iter[less]
    BY <1>4, <2>2
  <2> HIDE DEF x
  <2>5. Cardinality(less) = n /\ less \in SUBSET S
    <3>1. Cardinality(s \ {x}) = Cardinality(s) - 1
      BY <2>2, <2>3, FS_RemoveElement
    <3>. QED
      BY <2>1, <3>1
  <2>6. iter[less] = g[less]
    BY <1>6, <2>5
  <2>7. g[s] = fun[x] + g[less]
    BY <2>3 DEF SumsTo
  <2>. QED
    BY <2>4, <2>6, <2>7
<1> HIDE DEF T
<1>7. Nat \subseteq T
  BY <1>5, <1>6, NatInductionOnSet
<1>8. Cardinality(S) \in T
  BY <1>7, FS_CardinalityType
<1>9. iter[S] = g[S]
  BY <1>8 DEF T
<1>10. Summed(fun, S) = iter[S]
  BY DEF Summed, iter
<1>. QED
  BY <1>9, <1>10

(* The sizes of the parts of a finite set add up to its own.               *)
LEMMA PartsAddUp ==
  ASSUME NEW D, IsFiniteSet(D), NEW of, NEW fun, NEW S, S = {of[i] : i \in D},
         \A x \in S : fun[x] = Cardinality({i \in D : of[i] = x})
  PROVE  Summed(fun, S) = Cardinality(D)
<1> DEFINE g == [s \in SUBSET S |-> Cardinality({i \in D : of[i] \in s})]
<1>1. IsFiniteSet(S)
  <2> DEFINE f == [i \in D |-> of[i]]
  <2>1. f \in Surjection(D, S)
    BY DEF Surjection
  <2> HIDE DEF f
  <2>. QED
    BY <2>1, FS_Surjection
<1>2. g[{}] = 0
  <2>1. {i \in D : of[i] \in {}} = {}
    OBVIOUS
  <2>. QED
    BY <2>1, FS_EmptySet
<1>3. ASSUME NEW s \in SUBSET S, NEW x \in s
      PROVE  g[s] = fun[x] + g[s \ {x}]
  <2> DEFINE all == {i \in D : of[i] \in s}
             here == {i \in D : of[i] = x}
             rest == {i \in D : of[i] \in s \ {x}}
  <2>1. all = here \cup rest /\ here \cap rest = {} /\ here \subseteq D /\ rest \subseteq D
    OBVIOUS
  <2>2. g[s] = Cardinality(all) /\ g[s \ {x}] = Cardinality(rest) /\ fun[x] = Cardinality(here)
    OBVIOUS
  <2> HIDE DEF all, here, rest, g
  <2>3. IsFiniteSet(here) /\ IsFiniteSet(rest)
    BY <2>1, FS_Subset
  <2>4. Cardinality(here \cup rest) = Cardinality(here) + Cardinality(rest) - Cardinality(here \cap rest)
    BY <2>3, FS_Union
  <2>5. Cardinality(here \cap rest) = 0 /\ Cardinality(here) \in Nat /\ Cardinality(rest) \in Nat
    BY <2>1, <2>3, FS_EmptySet, FS_CardinalityType
  <2>. QED
    BY <2>1, <2>2, <2>4, <2>5
<1>4. g[S] = Cardinality(D)
  <2>1. {i \in D : of[i] \in S} = D
    OBVIOUS
  <2>. QED
    BY <2>1
<1> HIDE DEF g
<1>5. SumsTo(fun, S, g)
  BY <1>2, <1>3 DEF SumsTo
<1>. QED
  BY <1>1, <1>4, <1>5, SumIs

LEMMA SumFunctionIs ==
  ASSUME NEW fun
  PROVE  SumFunction(fun) = Summed(fun, DOMAIN fun)
BY DEF SumFunction, SumFunctionOnSet, FoldFunctionOnSet, MapThenFoldSet, Summed

-----------------------------------------------------------------------------
(* Lists of lists that grow at their end: a new list, or the last one.     *)
Mapped(f, seq) == [i \in DOMAIN seq |-> f[seq[i]]]

Spread(f, seq) == FlattenSeq(Mapped(f, seq))

ListsOver(f, X, Y) == f \in [X -> Seq(Y)]

Replaced(seq, x) == [seq EXCEPT ![Len(seq)] = x]

NonEmpty(X) == Seq(X) \ {<<>>}

LEMMA ReplacedFacts ==
  ASSUME NEW X, NEW seq \in NonEmpty(X), NEW x \in X
  PROVE  /\ Replaced(seq, x) \in Seq(X) /\ Len(Replaced(seq, x)) = Len(seq) /\ Replaced(seq, x) # <<>>
         /\ DOMAIN seq = 1..Len(seq) /\ Len(seq) \in Nat /\ Len(seq) \in 1..Len(seq)
         /\ Replaced(seq, x)[Len(seq)] = x
         /\ \A i \in 1..Len(seq) : i # Len(seq) => Replaced(seq, x)[i] = seq[i]
         /\ \A i \in 1..Len(seq) : seq[i] \in X
<1> DEFINE l == Len(seq)
           new == [i \in 1..l |-> IF i = l THEN x ELSE seq[i]]
<1>1. DOMAIN seq = 1..l /\ l \in Nat /\ l \in 1..l /\ \A i \in 1..l : seq[i] \in X
  BY DEF NonEmpty
<1> HIDE DEF l
<1>2. Replaced(seq, x) = new
  BY <1>1 DEF Replaced, l
<1>3. new \in [1..l -> X]
  BY <1>1
<1>4. new[l] = x /\ \A i \in 1..l : i # l => new[i] = seq[i]
  BY <1>1
<1> HIDE DEF new
<1>5. new \in Seq(X) /\ Len(new) = l /\ new # <<>>
  BY <1>1, <1>3
<1>. QED
  BY <1>1, <1>2, <1>4, <1>5 DEF l

Splits(front, seq, X, x) ==
  /\ front \in Seq(X) /\ seq = Append(front, seq[Len(seq)]) /\ seq[Len(seq)] \in X
  /\ Replaced(seq, x) = Append(front, x)

LEMMA SplitLast ==
  ASSUME NEW X, NEW seq \in NonEmpty(X), NEW x \in X
  PROVE  \E front : Splits(front, seq, X, x)
<1> DEFINE l == Len(seq)
           front == [i \in 1..(l - 1) |-> seq[i]]
           last == seq[l]
           new == Replaced(seq, x)
<1>1. /\ new \in Seq(X) /\ Len(new) = l /\ DOMAIN seq = 1..l /\ l \in Nat /\ l \in 1..l
      /\ new[l] = x /\ \A i \in 1..l : i # l => new[i] = seq[i]
      /\ \A i \in 1..l : seq[i] \in X
  BY ReplacedFacts
<1>2. Len(seq) = l
  OBVIOUS
<1> HIDE DEF l, new
<1>3. front \in Seq(X) /\ Len(front) = l - 1 /\ \A i \in 1..(l - 1) : front[i] = seq[i]
  <2>1. \A i \in 1..(l - 1) : seq[i] \in X
    BY <1>1
  <2>2. front \in [1..(l - 1) -> X] /\ l - 1 \in Nat
    BY <1>1, <2>1
  <2>3. \A i \in 1..(l - 1) : front[i] = seq[i]
    OBVIOUS
  <2> HIDE DEF front
  <2>. QED
    BY <2>2, <2>3
<1> HIDE DEF front
<1>4. \A i \in 1..l : i = l \/ i \in 1..(l - 1)
  BY <1>1
<1>5. ASSUME NEW z \in X, NEW t \in Seq(X), Len(t) = l, t[l] = z, \A i \in 1..(l - 1) : t[i] = seq[i]
      PROVE  t = Append(front, z)
  <2> DEFINE u == Append(front, z)
  <2>1. /\ u \in Seq(X) /\ Len(u) = l /\ u[l] = z /\ \A i \in 1..(l - 1) : u[i] = seq[i]
    <3>1. /\ u \in Seq(X) /\ Len(u) = Len(front) + 1 /\ u[Len(front) + 1] = z
          /\ \A i \in 1..Len(front) : u[i] = front[i]
      BY <1>3, AppendFacts
    <3> HIDE DEF u
    <3>. QED
      BY <1>1, <1>3, <3>1
  <2> HIDE DEF u
  <2>2. \A i \in 1..l : t[i] = u[i]
    BY <1>4, <1>5, <2>1
  <2>3. t = [i \in 1..l |-> t[i]] /\ u = [i \in 1..l |-> u[i]]
    BY <1>5, <2>1
  <2>4. [i \in 1..l |-> t[i]] = [i \in 1..l |-> u[i]]
    BY <2>2
  <2>. QED
    BY <2>3, <2>4 DEF u
<1>6. last \in X
  BY <1>1
<1> HIDE DEF last
<1>7. seq = Append(front, last)
  BY <1>1, <1>2, <1>5, <1>6 DEF last, NonEmpty
<1>8. new = Append(front, x)
  <2>1. \A i \in 1..(l - 1) : i \in 1..l /\ i # l
    BY <1>1
  <2>. QED
    BY <1>1, <1>5, <2>1
<1>. QED
  BY <1>3, <1>6, <1>7, <1>8 DEF last, l, new, Splits

LEMMA SpreadAppend ==
  ASSUME NEW X, NEW Y, NEW f, ListsOver(f, X, Y), NEW seq \in Seq(X), NEW x \in X
  PROVE  /\ Spread(f, seq) \in Seq(Y) /\ f[x] \in Seq(Y)
         /\ Spread(f, Append(seq, x)) = Spread(f, seq) \o f[x]
<1> DEFINE S == Seq(Y)
           mapped == Mapped(f, seq)
           more == Append(seq, x)
<1>1. f[x] \in S /\ f \in [X -> S]
  BY DEF ListsOver
<1> HIDE DEF S
<1>2. mapped \in Seq(S) /\ Len(mapped) = Len(seq) /\ Len(seq) \in Nat
      /\ \A i \in 1..Len(seq) : mapped[i] = f[seq[i]]
  BY <1>1 DEF Mapped
<1>3. /\ Len(more) = Len(seq) + 1 /\ DOMAIN more = 1..(Len(seq) + 1) /\ more[Len(seq) + 1] = x
      /\ \A i \in 1..Len(seq) : more[i] = seq[i]
  BY AppendFacts
<1> HIDE DEF more
<1>4. Mapped(f, more) = Append(mapped, f[x])
  <2> DEFINE l == Len(seq)
             u == Append(mapped, f[x])
  <2>1. DOMAIN u = 1..(l + 1) /\ u[l + 1] = f[x] /\ \A i \in 1..l : u[i] = mapped[i]
    BY <1>1, <1>2, AppendFacts
  <2>2. u = [i \in 1..(l + 1) |-> u[i]]
    BY <1>1, <1>2
  <2> HIDE DEF u, l, mapped
  <2>3. l \in Nat /\ \A i \in 1..(l + 1) : i = l + 1 \/ i \in 1..l
    BY <1>2 DEF l
  <2>4. \A i \in 1..(l + 1) : u[i] = f[more[i]]
    BY <1>2, <1>3, <2>1, <2>3 DEF l
  <2>. QED
    BY <1>3, <2>2, <2>4 DEF Mapped, l, u
<1> HIDE DEF mapped
<1>5. FlattenSeq(Append(mapped, f[x])) = FlattenSeq(mapped) \o f[x] /\ FlattenSeq(mapped) \in Seq(Y)
  BY <1>1, <1>2, FlattenAppend DEF S
<1>. QED
  BY <1>1, <1>4, <1>5 DEF Spread, mapped, more, S

LEMMA SpreadGrows ==
  ASSUME NEW X, NEW Y, NEW f, ListsOver(f, X, Y), NEW seq \in Seq(X), NEW x \in X, NEW y \in Y
  PROVE  /\ Spread(f, seq) \in Seq(Y)
         /\ f[x] = <<y>> => Spread(f, Append(seq, x)) = Append(Spread(f, seq), y)
         /\ seq # <<>> /\ f[x] = Append(f[seq[Len(seq)]], y) =>
              Spread(f, Replaced(seq, x)) = Append(Spread(f, seq), y)
<1>1. Spread(f, seq) \in Seq(Y) /\ Spread(f, Append(seq, x)) = Spread(f, seq) \o f[x]
  BY SpreadAppend
<1>2. ASSUME f[x] = <<y>>
      PROVE  Spread(f, Append(seq, x)) = Append(Spread(f, seq), y)
  <2>1. \A s \in Seq(Y) : s \o <<y>> = Append(s, y)
    OBVIOUS
  <2>. QED
    BY <1>1, <1>2, <2>1
<1>3. ASSUME seq # <<>>, f[x] = Append(f[seq[Len(seq)]], y)
      PROVE  Spread(f, Replaced(seq, x)) = Append(Spread(f, seq), y)
  <2> DEFINE last == seq[Len(seq)]
  <2>0. seq \in NonEmpty(X)
    BY <1>3 DEF NonEmpty
  <2>1. PICK front : Splits(front, seq, X, x)
    BY <2>0, SplitLast
  <2>2. /\ front \in Seq(X) /\ seq = Append(front, last) /\ last \in X
        /\ Replaced(seq, x) = Append(front, x)
    BY <2>1 DEF Splits
  <2> HIDE DEF last
  <2>3. /\ Spread(f, front) \in Seq(Y) /\ f[last] \in Seq(Y)
        /\ Spread(f, seq) = Spread(f, front) \o f[last]
        /\ Spread(f, Replaced(seq, x)) = Spread(f, front) \o f[x]
    BY <2>2, SpreadAppend
  <2>4. \A a, b \in Seq(Y) : a \o Append(b, y) = Append(a \o b, y)
    OBVIOUS
  <2>. QED
    BY <1>3, <2>3, <2>4 DEF last
<1>. QED
  BY <1>1, <1>2, <1>3
=============================================================================
