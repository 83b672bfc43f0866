------------------------------ MODULE SumFacts ------------------------------
(***************************************************************************)
(* Induction and sums, for the proofs about plans and scores.              *)
(*                                                                         *)
(* The induction theorems of the library take an operator; those here take *)
(* the set of what the induction shows, and follow from the well-founded   *)
(* order of the naturals.  With them MapThenSumSet, a recursive function   *)
(* on the subsets of a set, is shown to exist and to be a sum: whichever   *)
(* element is taken off, the rest remains.                                 *)
(***************************************************************************)
EXTENDS Integers, FiniteSets, FiniteSetsExt, FiniteSetTheorems,
        WellFoundedInduction, TLAPS

-----------------------------------------------------------------------------
(* Induction.                                                                *)

(* A set of naturals has a least element.                                    *)
LEMMA LeastNat ==
  ASSUME NEW T, T \subseteq Nat, T # {}
  PROVE  \E n \in T : \A m \in T : n <= m
<1> DEFINE R == OpToRel(<, Nat)
<1>1. IsWellFoundedOn(R, Nat)
  BY NatLessThanWellFounded
<1>2. \A x, y \in Nat : y < x => <<y, x>> \in R
  BY DEF OpToRel
<1> HIDE DEF R
<1>3. PICK x \in T : \A y \in T : ~ (<<y, x>> \in R)
  BY <1>1, WFMin
<1>4. \A y \in T : y \in Nat /\ x \in Nat /\ ~(y < x)
  BY <1>2, <1>3
<1>5. \A y \in T : x <= y
  BY <1>4
<1> QED
  BY <1>5

(* What holds of nought, and of the next number, holds of every number.      *)
LEMMA NatSteps ==
  ASSUME NEW T, 0 \in T, \A n \in Nat : n \in T => n + 1 \in T
  PROVE  Nat \subseteq T
<1> DEFINE U == Nat \ T
<1> SUFFICES ASSUME U # {} PROVE FALSE
  OBVIOUS
<1>1. PICK n \in U : \A m \in U : n <= m
  <2>1. U \subseteq Nat
    OBVIOUS
  <2> HIDE DEF U
  <2> QED
    BY <2>1, LeastNat
<1>2. n \in Nat /\ n # 0
  BY <1>1
<1>3. n - 1 \in Nat /\ ~(n <= n - 1) /\ (n - 1) + 1 = n
  BY <1>2
<1>4. n - 1 \in T
  BY <1>1, <1>3
<1>5. n \in T
  BY <1>3, <1>4
<1> QED
  BY <1>1, <1>5

(* The same for the subsets of a finite set, one element after the other.    *)
LEMMA SubsetSteps ==
  ASSUME NEW S, IsFiniteSet(S), NEW T,
         \A s \in SUBSET S : (\A x \in s : s \ {x} \in T) => s \in T
  PROVE  SUBSET S \subseteq T
<1> DEFINE Missed == {s \in SUBSET S : s \notin T}
           Sizes == {Cardinality(s) : s \in Missed}
<1> SUFFICES ASSUME NEW r \in Missed PROVE FALSE
  OBVIOUS
<1>1. \A s \in SUBSET S : IsFiniteSet(s) /\ Cardinality(s) \in Nat
  BY FS_Subset, FS_CardinalityType
<1>2. Sizes \subseteq Nat /\ Sizes # {}
  BY <1>1
<1>3. PICK n \in Sizes : \A m \in Sizes : n <= m
  <2> HIDE DEF Sizes
  <2> QED
    BY <1>2, LeastNat
<1>4. PICK s \in Missed : Cardinality(s) = n
  BY <1>3
<1>5. ASSUME NEW x \in s PROVE s \ {x} \in T
  <2>1. s \ {x} \in SUBSET S /\ IsFiniteSet(s) /\ Cardinality(s) \in Nat
    BY <1>1, <1>4
  <2>2. Cardinality(s \ {x}) = Cardinality(s) - 1
    BY <2>1, FS_RemoveElement
  <2>3. ~(n <= Cardinality(s \ {x}))
    BY <1>4, <2>1, <2>2
  <2>4. s \ {x} \notin Missed
    BY <1>3, <2>3
  <2> QED
    BY <2>1, <2>4
<1> QED
  BY <1>4, <1>5

-----------------------------------------------------------------------------
(* Sums.                                                                     *)

Pick(s) == CHOOSE x \in s : TRUE

(* g is the recursive function MapThenSumSet defines over S.                 *)
IsRecursion(f, S, g) ==
  g = [s \in SUBSET S |-> IF s = {} THEN 0 ELSE f[Pick(s)] + g[s \ {Pick(s)}]]

(* g gives the sum of f over every subset of S.                              *)
IsSum(f, S, g) ==
  /\ g \in [SUBSET S -> Int] /\ g[{}] = 0
  /\ \A s \in SUBSET S : \A x \in s : g[s] = f[x] + g[s \ {x}]

LEMMA RecursionExists ==
  ASSUME NEW S, IsFiniteSet(S), NEW f
  PROVE  \E g : IsRecursion(f, S, g)
<1> DEFINE Small(n) == {s \in SUBSET S : Cardinality(s) <= n}
           Body(g, s) == IF s = {} THEN 0 ELSE f[Pick(s)] + g[s \ {Pick(s)}]
           Upto(n, g) == g = [s \in Small(n) |-> Body(g, s)]
           T == {n \in Nat : \E g : Upto(n, g)}
<1>1. \A s \in SUBSET S : IsFiniteSet(s) /\ Cardinality(s) \in Nat
  BY FS_Subset, FS_CardinalityType
<1>2. 0 \in T
  <2>1. \A s \in Small(0) : s = {}
    BY <1>1, FS_EmptySet
  <2> DEFINE g == [s \in Small(0) |-> 0]
  <2>2. Upto(0, g)
    BY <2>1
  <2> QED
    BY <2>2
<1>3. ASSUME NEW n \in Nat, n \in T PROVE n + 1 \in T
  <2>1. PICK g : Upto(n, g)
    BY <1>3
  <2> DEFINE h == [s \in Small(n + 1) |-> Body(g, s)]
  <2>2. ASSUME NEW s \in Small(n + 1), s # {} PROVE s \ {Pick(s)} \in Small(n)
    <3>1. Pick(s) \in s
      BY <2>2 DEF Pick
    <3>2. s \ {Pick(s)} \in SUBSET S /\ Cardinality(s \ {Pick(s)}) = Cardinality(s) - 1
      BY <1>1, <3>1, FS_RemoveElement
    <3>3. Cardinality(s) \in Nat /\ Cardinality(s) <= n + 1
      BY <1>1
    <3>4. Cardinality(s) - 1 <= n
      BY <3>3
    <3> QED
      BY <3>2, <3>4
  <2>3. \A s \in Small(n) : s \in Small(n + 1)
    BY <1>1
  <2>4. \A s \in Small(n) : h[s] = g[s]
    BY <2>1, <2>3
  <2>5. \A s \in Small(n + 1) : Body(g, s) = Body(h, s)
    <3> SUFFICES ASSUME NEW s \in Small(n + 1) PROVE Body(g, s) = Body(h, s)
      OBVIOUS
    <3>1. s # {} => g[s \ {Pick(s)}] = h[s \ {Pick(s)}]
      BY <2>2, <2>4
    <3> HIDE DEF h
    <3> QED
      BY <3>1
  <2>6. Upto(n + 1, h)
    BY <2>5
  <2> HIDE DEF Upto
  <2> QED
    BY <2>6
<1>4. Nat \subseteq T
  <2> HIDE DEF T
  <2> QED
    BY <1>2, <1>3, NatSteps
<1>5. Cardinality(S) \in Nat
  BY <1>1
<1>6. PICK g : Upto(Cardinality(S), g)
  BY <1>4, <1>5
<1>7. Small(Cardinality(S)) = SUBSET S
  BY FS_Subset
<1>8. IsRecursion(f, S, g)
  BY <1>6, <1>7 DEF IsRecursion
<1> QED
  BY <1>8

LEMMA RecursionIsSum ==
  ASSUME NEW S, IsFiniteSet(S), NEW f \in [S -> Int], NEW g, IsRecursion(f, S, g)
  PROVE  IsSum(f, S, g)
<1>1. DOMAIN g = SUBSET S /\ g[{}] = 0
  BY DEF IsRecursion
<1>2. ASSUME NEW s \in SUBSET S, s # {}
      PROVE  Pick(s) \in s /\ f[Pick(s)] \in Int /\ g[s] = f[Pick(s)] + g[s \ {Pick(s)}]
  <2>1. Pick(s) \in s
    BY <1>2 DEF Pick
  <2> QED
    BY <1>2, <2>1 DEF IsRecursion
<1>3. \A s \in SUBSET S : g[s] \in Int
  <2> DEFINE T == {s \in SUBSET S : g[s] \in Int}
  <2>1. ASSUME NEW s \in SUBSET S, \A x \in s : s \ {x} \in T PROVE s \in T
    <3>1. CASE s = {}
      BY <1>1, <3>1
    <3>2. CASE s # {}
      <4>1. Pick(s) \in s /\ f[Pick(s)] \in Int /\ g[s] = f[Pick(s)] + g[s \ {Pick(s)}]
        BY <1>2, <3>2
      <4>2. g[s \ {Pick(s)}] \in Int
        BY <2>1, <4>1
      <4>3. g[s] \in Int
        BY <4>1, <4>2
      <4> QED
        BY <4>3
    <3> QED
      BY <3>1, <3>2
  <2>2. SUBSET S \subseteq T
    <3> HIDE DEF T
    <3> QED
      BY <2>1, SubsetSteps
  <2> QED
    BY <2>2
<1>4. \A s \in SUBSET S : \A x \in s : g[s] = f[x] + g[s \ {x}]
  <2> DEFINE T == {s \in SUBSET S : \A x \in s : g[s] = f[x] + g[s \ {x}]}
  <2>1. ASSUME NEW s \in SUBSET S, \A x \in s : s \ {x} \in T PROVE s \in T
    <3> SUFFICES ASSUME NEW x \in s PROVE g[s] = f[x] + g[s \ {x}]
      OBVIOUS
    <3> DEFINE y == Pick(s)
    <3>1. y \in s /\ f[y] \in Int /\ f[x] \in Int /\ g[s] = f[y] + g[s \ {y}]
      BY <1>2
    <3> HIDE DEF y, T
    <3>2. CASE x = y
      <4>1. s \ {x} = s \ {y} /\ f[x] = f[y]
        BY <3>2
      <4> QED
        BY <3>1, <4>1
    <3>3. CASE x # y
      <4>1. x \in s \ {y} /\ y \in s \ {x}
        BY <3>1, <3>3
      <4>2. g[s \ {y}] = f[x] + g[(s \ {y}) \ {x}]
        BY <2>1, <3>1, <4>1 DEF T
      <4>3. g[s \ {x}] = f[y] + g[(s \ {x}) \ {y}]
        BY <2>1, <4>1 DEF T
      <4>4. (s \ {y}) \ {x} = (s \ {x}) \ {y}
        OBVIOUS
      <4>5. g[(s \ {x}) \ {y}] \in Int
        <5>1. (s \ {x}) \ {y} \in SUBSET S
          OBVIOUS
        <5> QED
          BY <1>3, <5>1
      <4> DEFINE m == g[(s \ {x}) \ {y}]
                 n == g[s \ {x}]
      <4>6. g[s] = f[y] + (f[x] + m)
        BY <3>1, <4>2, <4>4
      <4>7. n = f[y] + m /\ m \in Int
        BY <4>3, <4>5
      <4> HIDE DEF m, n
      <4>8. g[s] = f[x] + n
        BY <3>1, <4>6, <4>7
      <4> QED
        BY <4>8 DEF n
    <3> QED
      BY <3>2, <3>3
  <2>2. SUBSET S \subseteq T
    <3> HIDE DEF T
    <3> QED
      BY <2>1, SubsetSteps
  <2> QED
    BY <2>2
<1>5. g = [s \in SUBSET S |-> g[s]]
  BY DEF IsRecursion
<1> QED
  BY <1>1, <1>3, <1>4, <1>5 DEF IsSum

(* Two ways to make summands, named so that the lemmas on them are easy to   *)
(* apply.                                                                    *)
IsIndicator(f, S, A) == \A x \in S : f[x] = IF x \in A THEN 1 ELSE 0

IsCombination(d, S, b, f, c, e) ==
  \A x \in S : f[x] \in Int /\ e[x] \in Int /\ d[x] = b * f[x] + c * e[x]

LEMMA Distributes ==
  ASSUME NEW a \in Int, NEW x \in Int, NEW y \in Int
  PROVE  a * (x + y) = a * x + a * y /\ a * x \in Int /\ a * y \in Int
OBVIOUS

LEMMA SumExists ==
  ASSUME NEW S, IsFiniteSet(S), NEW f \in [S -> Int]
  PROVE  /\ \E g : IsRecursion(f, S, g)
         /\ \A g : IsRecursion(f, S, g) => IsSum(f, S, g)
BY RecursionExists, RecursionIsSum

(* Two sums of the same summands over the same set are the same.             *)
LEMMA SumsAgree ==
  ASSUME NEW S, IsFiniteSet(S), NEW f, NEW g, IsSum(f, S, g),
         NEW R, NEW e, NEW h, IsSum(e, R, h), S \subseteq R, \A x \in S : f[x] = e[x]
  PROVE  \A s \in SUBSET S : g[s] = h[s]
<1> DEFINE T == {s \in SUBSET S : g[s] = h[s]}
<1>1. ASSUME NEW s \in SUBSET S, \A x \in s : s \ {x} \in T PROVE s \in T
  <2>1. CASE s = {}
    BY <2>1 DEF IsSum
  <2>2. CASE s # {}
    <3>1. PICK x \in s : TRUE
      BY <2>2
    <3>2. s \in SUBSET R /\ g[s] = f[x] + g[s \ {x}] /\ h[s] = e[x] + h[s \ {x}]
      BY DEF IsSum
    <3> QED
      BY <1>1, <3>2
  <2> QED
    BY <2>1, <2>2
<1>2. SUBSET S \subseteq T
  <2> HIDE DEF T
  <2> QED
    BY <1>1, SubsetSteps
<1> QED
  BY <1>2

(* Greater summands, greater sum.                                            *)
LEMMA SumIsMonotone ==
  ASSUME NEW S, IsFiniteSet(S), NEW f \in [S -> Int], NEW e \in [S -> Int],
         NEW g, IsSum(f, S, g), NEW h, IsSum(e, S, h), \A x \in S : f[x] <= e[x]
  PROVE  g[S] <= h[S]
<1> DEFINE T == {s \in SUBSET S : g[s] <= h[s]}
<1>1. ASSUME NEW s \in SUBSET S, \A x \in s : s \ {x} \in T PROVE s \in T
  <2>1. CASE s = {}
    BY <2>1 DEF IsSum
  <2>2. CASE s # {}
    <3>1. PICK x \in s : TRUE
      BY <2>2
    <3> DEFINE r == s \ {x}
    <3>2. g[s] = f[x] + g[r] /\ h[s] = e[x] + h[r] /\ g[r] \in Int /\ h[r] \in Int
      BY DEF IsSum
    <3>3. g[r] <= h[r] /\ f[x] <= e[x] /\ f[x] \in Int /\ e[x] \in Int
      BY <1>1
    <3> HIDE DEF r
    <3>4. g[s] <= h[s]
      BY <3>2, <3>3
    <3> QED
      BY <3>4
  <2> QED
    BY <2>1, <2>2
<1>2. SUBSET S \subseteq T
  <2> HIDE DEF T
  <2> QED
    BY <1>1, SubsetSteps
<1> QED
  BY <1>2

(* Naturals add up to a natural that is no less than any of them.            *)
LEMMA SumOfNaturals ==
  ASSUME NEW S, IsFiniteSet(S), NEW f \in [S -> Nat], NEW g, IsSum(f, S, g)
  PROVE  g[S] \in Nat /\ \A x \in S : f[x] <= g[S]
<1> DEFINE T == {s \in SUBSET S : g[s] \in Nat}
<1>1. ASSUME NEW s \in SUBSET S, \A x \in s : s \ {x} \in T PROVE s \in T
  <2>1. CASE s = {}
    BY <2>1 DEF IsSum
  <2>2. CASE s # {}
    <3>1. PICK x \in s : TRUE
      BY <2>2
    <3>2. g[s] = f[x] + g[s \ {x}] /\ f[x] \in Nat /\ g[s \ {x}] \in Nat
      BY <1>1 DEF IsSum
    <3>3. g[s] \in Nat
      BY <3>2
    <3> QED
      BY <3>3
  <2> QED
    BY <2>1, <2>2
<1>2. SUBSET S \subseteq T
  <2> HIDE DEF T
  <2> QED
    BY <1>1, SubsetSteps
<1>3. ASSUME NEW x \in S PROVE f[x] <= g[S]
  <2>1. g[S] = f[x] + g[S \ {x}] /\ g[S \ {x}] \in Nat /\ f[x] \in Nat
    BY <1>2 DEF IsSum
  <2> QED
    BY <2>1
<1> QED
  BY <1>2, <1>3

(* A combination of the summands adds up to the combination of the sums.     *)
LEMMA SumIsLinear ==
  ASSUME NEW S, IsFiniteSet(S), NEW f, NEW e, NEW d, NEW b \in Int, NEW c \in Int,
         NEW g, IsSum(f, S, g), NEW h, IsSum(e, S, h), NEW k, IsSum(d, S, k),
         IsCombination(d, S, b, f, c, e)
  PROVE  k[S] = b * g[S] + c * h[S]
<1> DEFINE T == {s \in SUBSET S : k[s] = b * g[s] + c * h[s]}
<1>1. ASSUME NEW s \in SUBSET S, \A x \in s : s \ {x} \in T PROVE s \in T
  <2>1. CASE s = {}
    <3>1. b * 0 + c * 0 = 0
      OBVIOUS
    <3>2. k[s] = 0 /\ g[s] = 0 /\ h[s] = 0
      BY <2>1 DEF IsSum
    <3> QED
      BY <3>1, <3>2
  <2>2. CASE s # {}
    <3>1. PICK x \in s : TRUE
      BY <2>2
    <3> DEFINE r == s \ {x}
    <3>2. /\ g[s] = f[x] + g[r] /\ h[s] = e[x] + h[r] /\ k[s] = d[x] + k[r]
          /\ g[r] \in Int /\ h[r] \in Int
      BY DEF IsSum
    <3>3. /\ k[r] = b * g[r] + c * h[r]
          /\ d[x] = b * f[x] + c * e[x] /\ f[x] \in Int /\ e[x] \in Int
      BY <1>1 DEF IsCombination
    <3> HIDE DEF r
    <3>4. c * (e[x] + h[r]) = c * e[x] + c * h[r] /\ c * e[x] \in Int /\ c * h[r] \in Int
      BY <3>2, <3>3, Distributes
    <3>5. b * (f[x] + g[r]) = b * f[x] + b * g[r] /\ b * f[x] \in Int /\ b * g[r] \in Int
      BY <3>2, <3>3, Distributes
    <3>6. k[s] = b * g[s] + c * h[s]
      BY <3>2, <3>3, <3>4, <3>5
    <3> QED
      BY <3>6
  <2> QED
    BY <2>1, <2>2
<1>2. SUBSET S \subseteq T
  <2> HIDE DEF T
  <2> QED
    BY <1>1, SubsetSteps
<1> QED
  BY <1>2

(* The sum of a set's indicator is its size.                                 *)
LEMMA SumOfIndicator ==
  ASSUME NEW S, IsFiniteSet(S), NEW A, NEW f, NEW g, IsSum(f, S, g),
         IsIndicator(f, S, A)
  PROVE  g[S] = Cardinality(S \cap A)
<1> DEFINE T == {s \in SUBSET S : g[s] = Cardinality(s \cap A)}
<1>1. ASSUME NEW s \in SUBSET S, \A x \in s : s \ {x} \in T PROVE s \in T
  <2>1. CASE s = {}
    BY <2>1, FS_EmptySet DEF IsSum
  <2>2. CASE s # {}
    <3>1. PICK x \in s : TRUE
      BY <2>2
    <3>2. IsFiniteSet(s) /\ IsFiniteSet(s \cap A)
      BY FS_Subset
    <3>3. /\ g[s] = f[x] + g[s \ {x}] /\ g[s \ {x}] = Cardinality((s \ {x}) \cap A)
          /\ f[x] = IF x \in A THEN 1 ELSE 0
      BY <1>1 DEF IsSum, IsIndicator
    <3>4. CASE x \in A
      <4>1. x \in s \cap A /\ (s \ {x}) \cap A = (s \cap A) \ {x}
        BY <3>4
      <4>2. Cardinality((s \cap A) \ {x}) = Cardinality(s \cap A) - 1
            /\ Cardinality(s \cap A) \in Nat
        BY <3>2, <4>1, FS_RemoveElement, FS_CardinalityType
      <4>3. Cardinality((s \ {x}) \cap A) = Cardinality(s \cap A) - 1
        BY <4>1, <4>2
      <4>4. f[x] = 1 /\ g[s] = f[x] + Cardinality((s \ {x}) \cap A)
        BY <3>3, <3>4
      <4>5. g[s] = Cardinality(s \cap A)
        BY <4>2, <4>3, <4>4
      <4> QED
        BY <4>5
    <3>5. CASE x \notin A
      <4>1. (s \ {x}) \cap A = s \cap A /\ Cardinality(s \cap A) \in Nat
        BY <3>2, <3>5, FS_CardinalityType
      <4>2. g[s] = Cardinality(s \cap A)
        BY <3>3, <3>5, <4>1
      <4> QED
        BY <4>2
    <3> QED
      BY <3>4, <3>5
  <2> QED
    BY <2>1, <2>2
<1>2. SUBSET S \subseteq T
  <2> HIDE DEF T
  <2> QED
    BY <1>1, SubsetSteps
<1> QED
  BY <1>2
=============================================================================
