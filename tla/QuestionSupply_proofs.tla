------------------------ MODULE QuestionSupply_proofs ------------------------
(***************************************************************************)
(* Proofs about QuestionSupply, for any corpus, any areas, shares and      *)
(* lengths (SharesAssumption, EnoughAssumption), and any number of starts. *)
(*                                                                         *)
(* The argument: what a handler may still show was not asked, since the    *)
(* pools leave out what its memory holds, and that memory holds at least   *)
(* what the interview's does.  A fresh memory is the one of a start, so    *)
(* that first picks are always made among the same documents.  What is     *)
(* asked follows the plan from its second place on, and the plan has each  *)
(* area as often as its share says, up to one question.                    *)
(***************************************************************************)
EXTENDS QuestionSupply, SumFacts, SequenceTheorems

(* What a running handler works with.                                        *)
HandlerInv ==
  /\ session # NoInterview => session.length \in Lengths /\ process.level \in Levels
  /\ pc # "idle" =>
       /\ work.level \in Levels /\ process.level \in Levels
       /\ work.handler = "start" =>
            work.length \in Lengths /\ work.memory = NewMemory /\ work.area = Easiest
       /\ work.handler # "start" =>
            /\ session # NoInterview /\ work.memory.count > 0
            /\ session.memory.documents \subseteq work.memory.documents

(* What it may show is not in its memory, and what was shown is in the       *)
(* interview's.                                                              *)
UnaskedInv ==
  /\ work.document \notin work.memory.documents
  /\ (work.pool \cup work.first) \cap work.memory.documents = {}
  /\ \A i \in DOMAIN session.questions :
       session.questions[i].document \in session.memory.documents \cup {Generated}

Inv == TypeOK /\ HandlerInv /\ UnaskedInv /\ NoDocumentTwice

-----------------------------------------------------------------------------
(* The plan of an interview: its length, and how often it has each area.     *)

Places == DOMAIN DeclaredAreas

LEMMA PlacesAre ==
  /\ Len(DeclaredAreas) \in Nat \ {0} /\ Places = 1 .. Len(DeclaredAreas)
  /\ IsFiniteSet(Places) /\ Cardinality(Places) = Len(DeclaredAreas)
<1>1. Len(DeclaredAreas) \in Nat \ {0} /\ Places = 1 .. Len(DeclaredAreas)
  BY DeclaredAssumption, LenProperties, EmptySeq DEF Places
<1> QED
  BY <1>1, FS_Interval

LEMMA SharesAreWhole ==
  ASSUME NEW length \in Nat, NEW k \in Places
  PROVE  /\ Share[DeclaredAreas[k]] \in 1 .. 100
         /\ Raw(length, k) \in Nat /\ Raw(length, k) = Share[DeclaredAreas[k]] * length
         /\ Fraction(length, k) \in 0 .. 99
         /\ AtLeastOne(length, k) \in Nat /\ 1 <= AtLeastOne(length, k)
         /\ Raw(length, k) < 100 => AtLeastOne(length, k) = 1
         /\ Raw(length, k) >= 100 =>
              Raw(length, k) = 100 * AtLeastOne(length, k) + Fraction(length, k)
<1>1. Share[DeclaredAreas[k]] \in 1 .. 100
  BY ShareAssumption DEF Area, Places
<1>2. Raw(length, k) \in Nat /\ Raw(length, k) = Share[DeclaredAreas[k]] * length
  <2>1. \A a \in 1 .. 100 : a * length \in Nat
    OBVIOUS
  <2> QED
    BY <1>1, <2>1 DEF Raw
<1>3. \A r \in Nat : /\ r % 100 \in 0 .. 99 /\ r \div 100 \in Nat
                     /\ r = 100 * (r \div 100) + (r % 100)
                     /\ r >= 100 => r \div 100 >= 1
  <2> SUFFICES ASSUME NEW r \in Nat
               PROVE  /\ r % 100 \in 0 .. 99 /\ r \div 100 \in Nat
                      /\ r = 100 * (r \div 100) + (r % 100)
                      /\ r >= 100 => r \div 100 >= 1
    OBVIOUS
  <2>1. r % 100 \in 0 .. 99
    OBVIOUS
  <2>2. r \div 100 \in Nat
    OBVIOUS
  <2>3. r = 100 * (r \div 100) + (r % 100)
    OBVIOUS
  <2>4. r >= 100 => r \div 100 >= 1
    OBVIOUS
  <2> QED
    BY <2>1, <2>2, <2>3, <2>4
<1> QED
  BY <1>1, <1>2, <1>3 DEF AtLeastOne, Fraction

LEMMA LeastCountsAddUp ==
  ASSUME NEW length \in Nat
  PROVE  \E g : /\ IsSum([k \in Places |-> AtLeastOne(length, k)], Places, g)
                /\ Remainder(length) = length - g[Places]
<1> DEFINE f == [k \in Places |-> AtLeastOne(length, k)]
           Recursion(h) == h = [s \in SUBSET Places |->
                                  IF s = {} THEN 0
                                  ELSE AtLeastOne(length, Pick(s)) + h[s \ {Pick(s)}]]
<1>1. f \in [Places -> Int] /\ IsFiniteSet(Places)
  BY SharesAreWhole, PlacesAre
<1>2. \A s \in SUBSET Places : s # {} => f[Pick(s)] = AtLeastOne(length, Pick(s))
  BY DEF Pick
<1>3. \A h : IsRecursion(f, Places, h) <=> Recursion(h)
  <2> HIDE DEF f
  <2> QED
    BY <1>2 DEF IsRecursion
<1>4. Remainder(length) = length - (CHOOSE h : Recursion(h))[Places]
  BY DEF Remainder, MapThenSumSet, MapThenFoldSet, Pick, Places
<1>5. Recursion(CHOOSE h : Recursion(h))
  <2> HIDE DEF Recursion, f
  <2> QED
    BY <1>1, <1>3, SumExists
<1> HIDE DEF Recursion, f
<1>6. IsSum(f, Places, CHOOSE h : Recursion(h))
  BY <1>1, <1>3, <1>5, SumExists
<1> QED
  BY <1>4, <1>6 DEF f

(* Ahead numbers the areas from nought on.                                   *)
LEMMA AheadIsARank ==
  ASSUME NEW length \in Nat
  PROVE  LET rank(k) == Cardinality(Ahead(length, k))
             N == Len(DeclaredAreas)
         IN  /\ \A k \in Places : rank(k) \in 0 .. N - 1
             /\ \A j, k \in Places : j \in Ahead(length, k) => rank(j) < rank(k)
             /\ \A n \in 0 .. N - 1 : \E k \in Places : rank(k) = n
             /\ \A j, k \in Places : rank(j) = rank(k) => j = k
<1> DEFINE N == Len(DeclaredAreas)
           A(k) == Ahead(length, k)
           rank(k) == Cardinality(A(k))
           f == [k \in Places |-> rank(k)]
<1>1. N \in Nat \ {0} /\ IsFiniteSet(Places) /\ Cardinality(Places) = N
  BY PlacesAre
<1>2. \A j, k \in Places :
        j \in A(k) <=> (Fraction(length, j) > Fraction(length, k)
                          \/ (Fraction(length, j) = Fraction(length, k) /\ j < k))
  BY DEF Ahead, Places
<1>3. \A k \in Places : Fraction(length, k) \in Nat /\ k \in Nat
  <2> TAKE k \in Places
  <2>1. Fraction(length, k) \in 0 .. 99
    BY SharesAreWhole
  <2>2. k \in 1 .. N
    BY PlacesAre
  <2> HIDE DEF N
  <2>3. k \in Nat
    BY <1>1, <2>2
  <2>4. Fraction(length, k) \in Nat
    BY <2>1
  <2> QED
    BY <2>3, <2>4
<1>4. \A k \in Places : k \notin A(k)
  BY <1>2, <1>3
<1>5. \A i, j, k \in Places : i \in A(j) /\ j \in A(k) => i \in A(k)
  BY <1>2, <1>3
<1>6. \A j, k \in Places : j \in A(k) \/ k \in A(j) \/ j = k
  <2> SUFFICES ASSUME NEW j \in Places, NEW k \in Places PROVE j \in A(k) \/ k \in A(j) \/ j = k
    OBVIOUS
  <2> DEFINE x == Fraction(length, j)
             y == Fraction(length, k)
  <2>1. x \in Nat /\ y \in Nat /\ j \in Nat /\ k \in Nat
    BY <1>3
  <2>2. /\ x > y \/ (x = y /\ j < k) => j \in A(k)
        /\ y > x \/ (y = x /\ k < j) => k \in A(j)
    BY <1>2
  <2> HIDE DEF x, y, A
  <2>3. x > y \/ (x = y /\ j < k) \/ y > x \/ (y = x /\ k < j) \/ j = k
    BY <2>1
  <2> QED
    BY <2>2, <2>3
<1>7. \A k \in Places : A(k) \in SUBSET Places
  BY DEF Ahead, Places
<1> HIDE DEF A, N
<1>8. \A k \in Places : IsFiniteSet(A(k)) /\ rank(k) \in Nat
  BY <1>1, <1>7, FS_Subset, FS_CardinalityType
<1>9. \A k \in Places : rank(k) \in 0 .. N - 1
  <2> TAKE k \in Places
  <2>1. A(k) # Places
    BY <1>4
  <2>2. rank(k) <= N /\ rank(k) # N
    BY <1>1, <1>7, <2>1, FS_Subset
  <2> QED
    BY <1>1, <1>8, <2>2
<1>10. \A j, k \in Places : j \in A(k) => rank(j) < rank(k)
  <2> SUFFICES ASSUME NEW j \in Places, NEW k \in Places, j \in A(k) PROVE rank(j) < rank(k)
    OBVIOUS
  <2>1. A(j) \in SUBSET A(k) /\ A(j) # A(k)
    BY <1>4, <1>5, <1>7
  <2>2. rank(j) <= rank(k) /\ rank(j) # rank(k)
    BY <1>8, <2>1, FS_Subset
  <2> QED
    BY <1>8, <2>2
<1> HIDE DEF rank
<1>11. \A j, k \in Places : rank(j) = rank(k) => j = k
  <2> SUFFICES ASSUME NEW j \in Places, NEW k \in Places, rank(j) = rank(k) PROVE j = k
    OBVIOUS
  <2>1. ~(rank(j) < rank(k)) /\ ~(rank(k) < rank(j))
    BY <1>8
  <2> QED
    BY <1>6, <1>10, <2>1
<1>12. f \in Injection(Places, 0 .. N - 1)
  BY <1>9, <1>11 DEF Injection, IsInjective
<1>13. IsFiniteSet(0 .. N - 1) /\ Cardinality(0 .. N - 1) = N
  <2>1. N - 1 \in Int /\ ~(0 > N - 1) /\ (N - 1) - 0 + 1 = N
    BY <1>1
  <2> QED
    BY <2>1, FS_Interval
<1>14. f \in Surjection(Places, 0 .. N - 1)
  <2> HIDE DEF f
  <2> QED
    BY <1>1, <1>12, <1>13, FS_Injection
<1>15. \A n \in 0 .. N - 1 : \E k \in Places : rank(k) = n
  BY <1>14 DEF Surjection
<1> QED
  BY <1>9, <1>10, <1>11, <1>15 DEF rank, A, N

(* As many areas get one more as there are questions left to give.           *)
Favoured(length) == {k \in Places : Cardinality(Ahead(length, k)) < Remainder(length)}

LEMMA FavouredAreTheRest ==
  ASSUME NEW length \in Nat, Remainder(length) \in 0 .. Len(DeclaredAreas)
  PROVE  Cardinality(Favoured(length)) = Remainder(length)
<1> DEFINE N == Len(DeclaredAreas)
           R == Remainder(length)
           rank(k) == Cardinality(Ahead(length, k))
           F == Favoured(length)
           f == [k \in F |-> rank(k)]
<1>1. N \in Nat /\ IsFiniteSet(Places) /\ R \in Nat /\ R <= N
  BY PlacesAre
<1>2. F \in SUBSET Places /\ \A k \in Places : k \in F <=> rank(k) < R
  BY DEF Favoured
<1>3. /\ \A k \in Places : rank(k) \in 0 .. N - 1
      /\ \A n \in 0 .. N - 1 : \E k \in Places : rank(k) = n
      /\ \A j, k \in Places : rank(j) = rank(k) => j = k
  BY AheadIsARank
<1> HIDE DEF rank, F, R, N
<1>4. f \in Bijection(F, 0 .. R - 1)
  <2>1. f \in [F -> 0 .. R - 1]
    <3>1. \A k \in F : rank(k) \in 0 .. R - 1
      BY <1>1, <1>2, <1>3
    <3> QED
      BY <3>1
  <2>2. f \in Injection(F, 0 .. R - 1)
    BY <1>2, <1>3, <2>1 DEF Injection, IsInjective
  <2>3. \A n \in 0 .. R - 1 : \E k \in F : f[k] = n
    <3> TAKE n \in 0 .. R - 1
    <3>1. n \in 0 .. N - 1 /\ n < R
      BY <1>1
    <3>2. PICK k \in Places : rank(k) = n
      BY <1>3, <3>1
    <3> QED
      BY <1>2, <3>1, <3>2
  <2> QED
    BY <2>1, <2>2, <2>3 DEF Bijection, Surjection
<1>5. IsFiniteSet(0 .. R - 1) /\ Cardinality(0 .. R - 1) = R
  <2>1. /\ IsFiniteSet(0 .. R - 1)
        /\ Cardinality(0 .. R - 1) = IF 0 > R - 1 THEN 0 ELSE (R - 1) - 0 + 1
    <3>1. 0 \in Int /\ R - 1 \in Int
      BY <1>1
    <3> QED
      BY <3>1, FS_Interval
  <2>2. (IF 0 > R - 1 THEN 0 ELSE (R - 1) - 0 + 1) = R
    BY <1>1
  <2> QED
    BY <2>1, <2>2
<1>6. IsFiniteSet(F)
  BY <1>1, <1>2, FS_Subset
<1>7. ExistsBijection(F, 0 .. R - 1)
  BY <1>4 DEF ExistsBijection
<1>8. Cardinality(F) = R
  BY <1>5, <1>6, <1>7, FS_Bijection
<1> QED
  BY <1>8 DEF F, R

-----------------------------------------------------------------------------
(* The counts of the areas and their sums.                                   *)

LEMMA CountsAre ==
  ASSUME NEW length \in Nat, NEW k \in Places
  PROVE  /\ Remainder(length) \in Int
         /\ Count(length, k) \in Nat /\ 1 <= Count(length, k)
         /\ Count(length, k) =
              AtLeastOne(length, k) + (IF k \in Favoured(length) THEN 1 ELSE 0)
<1>1. Remainder(length) \in Int
  <2>1. PICK g : /\ IsSum([j \in Places |-> AtLeastOne(length, j)], Places, g)
                 /\ Remainder(length) = length - g[Places]
    BY LeastCountsAddUp
  <2>2. g[Places] \in Int
    BY <2>1 DEF IsSum
  <2> QED
    BY <2>1, <2>2
<1>2. Count(length, k) = AtLeastOne(length, k) + (IF k \in Favoured(length) THEN 1 ELSE 0)
  BY DEF Count, Favoured
<1> QED
  BY <1>1, <1>2, SharesAreWhole

LEMMA CountsAddUp ==
  ASSUME NEW length \in Nat
  PROVE  \E g : /\ IsSum([k \in Places |-> Count(length, k)], Places, g)
                /\ \A k \in 0 .. Len(DeclaredAreas) : Upto(length, k) = g[1 .. k]
<1> DEFINE c == [k \in Places |-> Count(length, k)]
           N == Len(DeclaredAreas)
<1>1. N \in Nat /\ Places = 1 .. N /\ IsFiniteSet(Places)
  BY PlacesAre
<1>2. c \in [Places -> Int]
  BY CountsAre
<1>3. PICK g : IsSum(c, Places, g)
  <2> HIDE DEF c
  <2> QED
    BY <1>1, <1>2, SumExists
<1>4. ASSUME NEW k \in 0 .. N PROVE Upto(length, k) = g[1 .. k]
  <2> DEFINE S == 1 .. k
             f == [j \in S |-> Count(length, j)]
             Recursion(h) == h = [s \in SUBSET S |->
                                    IF s = {} THEN 0
                                    ELSE Count(length, Pick(s)) + h[s \ {Pick(s)}]]
  <2>1. S \in SUBSET Places /\ IsFiniteSet(S)
    <3>1. S \in SUBSET Places
      BY <1>1
    <3> HIDE DEF S
    <3> QED
      BY <1>1, <3>1, FS_Subset
  <2>2. f \in [S -> Int] /\ \A j \in S : f[j] = c[j]
    BY <2>1, CountsAre
  <2>3. \A h : IsRecursion(f, S, h) <=> Recursion(h)
    <3>1. \A s \in SUBSET S : s # {} => f[Pick(s)] = Count(length, Pick(s))
      BY DEF Pick
    <3> HIDE DEF f, S
    <3> QED
      BY <3>1 DEF IsRecursion
  <2>4. Upto(length, k) = (CHOOSE h : Recursion(h))[S]
    BY DEF Upto, MapThenSumSet, MapThenFoldSet, Pick
  <2>5. Recursion(CHOOSE h : Recursion(h))
    <3> HIDE DEF Recursion, f, S
    <3> QED
      BY <2>1, <2>2, <2>3, SumExists
  <2> HIDE DEF Recursion, f, S
  <2>6. IsSum(f, S, CHOOSE h : Recursion(h))
    BY <2>1, <2>2, <2>3, <2>5, SumExists
  <2> DEFINE h == CHOOSE h : Recursion(h)
  <2> HIDE DEF h, c
  <2>7. \A s \in SUBSET S : h[s] = g[s]
    BY <1>3, <2>1, <2>2, <2>6, SumsAgree DEF h
  <2> QED
    BY <2>4, <2>7 DEF h, S
<1> QED
  BY <1>3, <1>4

LEMMA UptoGrows ==
  ASSUME NEW length \in Nat
  PROVE  /\ Upto(length, 0) = 0
         /\ \A k \in Places : Upto(length, k) = Upto(length, k - 1) + Count(length, k)
         /\ \A k \in 0 .. Len(DeclaredAreas) : Upto(length, k) \in Nat
         /\ \A j, k \in 0 .. Len(DeclaredAreas) : j <= k => Upto(length, j) <= Upto(length, k)
<1> DEFINE N == Len(DeclaredAreas)
           U(k) == Upto(length, k)
<1>1. N \in Nat /\ Places = 1 .. N
  BY PlacesAre
<1>2. PICK g : /\ IsSum([k \in Places |-> Count(length, k)], Places, g)
               /\ \A k \in 0 .. N : U(k) = g[1 .. k]
  BY CountsAddUp
<1> HIDE DEF U
<1>3. U(0) = 0
  <2>1. 0 \in 0 .. N /\ 1 .. 0 = {}
    BY <1>1
  <2> QED
    BY <1>2, <2>1 DEF IsSum
<1>4. \A k \in Places : U(k) = U(k - 1) + Count(length, k)
  <2> TAKE k \in Places
  <2>1. k \in 0 .. N /\ k - 1 \in 0 .. N /\ k \in 1 .. k /\ 1 .. k \in SUBSET Places
    BY <1>1
  <2>2. 1 .. k - 1 = (1 .. k) \ {k}
    <3>1. k \in Nat
      BY <1>1
    <3> QED
      BY <3>1
  <2>3. g[1 .. k] = Count(length, k) + g[(1 .. k) \ {k}]
    BY <1>2, <2>1 DEF IsSum
  <2>4. U(k) = Count(length, k) + U(k - 1)
    BY <1>2, <2>1, <2>2, <2>3
  <2>5. U(k - 1) \in Int /\ Count(length, k) \in Int
    <3>1. (1 .. k) \ {k} \in SUBSET Places
      BY <2>1
    <3>2. g[(1 .. k) \ {k}] \in Int
      BY <1>2, <3>1 DEF IsSum
    <3>3. U(k - 1) = g[(1 .. k) \ {k}]
      BY <1>2, <2>1, <2>2
    <3>4. Count(length, k) \in Int
      BY CountsAre
    <3> QED
      BY <3>2, <3>3, <3>4
  <2> QED
    BY <2>4, <2>5
<1>5. \A k \in Places : Count(length, k) \in Nat
  BY CountsAre
<1>6. \A k \in 0 .. N : U(k) \in Nat /\ \A j \in 0 .. k : U(j) <= U(k)
  <2> DEFINE T == {k \in Nat : k <= N => U(k) \in Nat /\ \A j \in 0 .. k : U(j) <= U(k)}
  <2>1. 0 \in T
    <3>1. \A j \in 0 .. 0 : j = 0
      OBVIOUS
    <3> QED
      BY <1>3, <3>1
  <2>2. ASSUME NEW k \in Nat, k \in T PROVE k + 1 \in T
    <3> SUFFICES ASSUME k + 1 <= N
                 PROVE  U(k + 1) \in Nat /\ \A j \in 0 .. k + 1 : U(j) <= U(k + 1)
      OBVIOUS
    <3>1. k + 1 \in Places /\ (k + 1) - 1 = k /\ k <= N
      BY <1>1
    <3>2. U(k) \in Nat /\ \A j \in 0 .. k : U(j) <= U(k)
      BY <2>2, <3>1
    <3>3. U(k + 1) = U(k) + Count(length, k + 1) /\ Count(length, k + 1) \in Nat
      BY <1>4, <1>5, <3>1
    <3>4. U(k + 1) \in Nat /\ U(k) <= U(k + 1)
      BY <3>2, <3>3
    <3>5. ASSUME NEW j \in 0 .. k + 1 PROVE U(j) <= U(k + 1)
      <4>1. CASE j = k + 1
        BY <3>4, <4>1
      <4>2. CASE j # k + 1
        <5>1. j \in 0 .. k
          BY <4>2
        <5>2. U(j) <= U(k)
          BY <3>2, <5>1
        <5>3. U(j) \in Int
          <6>1. j \in 0 .. N
            BY <1>1, <3>1, <5>1
          <6>2. 1 .. j \in SUBSET Places
            BY <1>1, <6>1
          <6> QED
            BY <1>2, <6>1, <6>2 DEF IsSum
        <5> QED
          BY <3>2, <3>4, <5>2, <5>3
      <4> QED
        BY <4>1, <4>2
    <3> QED
      BY <3>4, <3>5
  <2>3. Nat \subseteq T
    <3> HIDE DEF T
    <3> QED
      BY <2>1, <2>2, NatSteps
  <2> QED
    BY <1>1, <2>3
<1>7. \A j, k \in 0 .. N : j <= k => j \in 0 .. k
  BY <1>1
<1> QED
  BY <1>3, <1>4, <1>6, <1>7 DEF U

(* Each place of the plan lies in the stretch of exactly one area.           *)
LEMMA StretchExists ==
  ASSUME NEW length \in Nat, NEW i \in 1 .. Upto(length, Len(DeclaredAreas))
  PROVE  /\ \E k \in Places : Upto(length, k - 1) < i /\ i <= Upto(length, k)
         /\ \A j, k \in Places :
              /\ Upto(length, j - 1) < i /\ i <= Upto(length, j)
              /\ Upto(length, k - 1) < i /\ i <= Upto(length, k)
              => j = k
<1> DEFINE N == Len(DeclaredAreas)
           U(k) == Upto(length, k)
           T == {k \in 0 .. N : i <= U(k)}
<1>1. N \in Nat /\ Places = 1 .. N
  BY PlacesAre
<1>2. /\ U(0) = 0 /\ \A k \in 0 .. N : U(k) \in Nat
      /\ \A j, k \in 0 .. N : j <= k => U(j) <= U(k)
  BY UptoGrows
<1>3. i \in Nat \ {0} /\ i <= U(N)
  <2>1. U(N) \in Nat
    BY <1>1, <1>2
  <2> QED
    BY <2>1
<1> HIDE DEF U, N
<1>4. PICK k \in T : \A m \in T : k <= m
  <2>1. T \subseteq Nat /\ T # {}
    <3>1. N \in 0 .. N
      BY <1>1
    <3> QED
      BY <1>3, <3>1
  <2> HIDE DEF T
  <2> QED
    BY <2>1, LeastNat
<1>5. k \in Places /\ k - 1 \in 0 .. N /\ ~(k <= k - 1)
  <2>1. k # 0
    BY <1>2, <1>3, <1>4
  <2> QED
    BY <1>1, <1>4, <2>1
<1>6. U(k - 1) < i /\ i <= U(k)
  <2>1. k - 1 \notin T
    BY <1>4, <1>5
  <2>2. U(k - 1) \in Nat /\ ~(i <= U(k - 1))
    BY <1>2, <1>5, <2>1
  <2> QED
    BY <1>3, <1>4, <2>2
<1>7. ASSUME NEW j \in Places, NEW m \in Places,
             U(j - 1) < i, i <= U(j), U(m - 1) < i, i <= U(m), j < m
      PROVE  FALSE
  <2>1. j \in 0 .. N /\ m - 1 \in 0 .. N /\ j <= m - 1
    BY <1>1, <1>7
  <2>2. U(j) <= U(m - 1) /\ U(j) \in Nat /\ U(m - 1) \in Nat
    BY <1>2, <2>1
  <2> QED
    BY <1>3, <1>7, <2>2
<1>8. \A j, m \in Places : j < m \/ m < j \/ j = m
  BY <1>1
<1> QED
  BY <1>5, <1>6, <1>7, <1>8 DEF U

LEMMA PlanIsListed ==
  ASSUME NEW length \in Nat
  PROVE  /\ PlannedAreas(length) \in Seq(Area)
         /\ Len(PlannedAreas(length)) = Upto(length, Len(DeclaredAreas))
         /\ \A k \in Places :
              {i \in DOMAIN PlannedAreas(length) : PlannedAreas(length)[i] = DeclaredAreas[k]}
                = Upto(length, k - 1) + 1 .. Upto(length, k)
<1> DEFINE N == Len(DeclaredAreas)
           U(k) == Upto(length, k)
           P == PlannedAreas(length)
           Within(i, k) == U(k - 1) < i /\ i <= U(k)
           place(i) == CHOOSE k \in Places : Within(i, k)
<1>1. N \in Nat /\ Places = 1 .. N
  BY PlacesAre
<1>2. /\ U(0) = 0 /\ \A k \in 0 .. N : U(k) \in Nat
      /\ \A j, k \in 0 .. N : j <= k => U(j) <= U(k)
  BY UptoGrows
<1>3. U(N) \in Nat
  BY <1>1, <1>2
<1>4. \A i \in 1 .. U(N) : \E k \in Places : Within(i, k)
  BY StretchExists
<1>5. \A i \in 1 .. U(N) : \A j, k \in Places : Within(i, j) /\ Within(i, k) => j = k
  BY StretchExists
<1>6. P = [i \in 1 .. U(N) |-> DeclaredAreas[place(i)]]
  BY DEF PlannedAreas, Places
<1> HIDE DEF U, N, P, Within
<1>7. \A i \in 1 .. U(N) : place(i) \in Places /\ Within(i, place(i))
  BY <1>4
<1>8. P \in Seq(Area) /\ Len(P) = U(N) /\ DOMAIN P = 1 .. U(N)
  <2>1. \A i \in 1 .. U(N) : DeclaredAreas[place(i)] \in Area
    BY <1>7 DEF Area, Places
  <2> HIDE DEF place
  <2> QED
    BY <1>3, <1>6, <2>1
<1>9. ASSUME NEW k \in Places
      PROVE  {i \in DOMAIN P : P[i] = DeclaredAreas[k]} = U(k - 1) + 1 .. U(k)
  <2>1. k \in 0 .. N /\ k - 1 \in 0 .. N /\ N \in 0 .. N /\ k <= N
    BY <1>1
  <2>2. U(k - 1) \in Nat /\ U(k) \in Nat /\ U(k) <= U(N)
    BY <1>2, <2>1
  <2>3. ASSUME NEW i \in DOMAIN P, P[i] = DeclaredAreas[k] PROVE i \in U(k - 1) + 1 .. U(k)
    <3>1. i \in 1 .. U(N) /\ DeclaredAreas[place(i)] = DeclaredAreas[k]
      BY <1>6, <1>8, <2>3
    <3>2. place(i) = k
      BY <1>7, <3>1, DeclaredAssumption DEF Places
    <3>3. U(k - 1) < i /\ i <= U(k) /\ i \in Nat
      BY <1>3, <1>7, <3>1, <3>2 DEF Within
    <3> QED
      BY <2>2, <3>3
  <2>4. ASSUME NEW i \in U(k - 1) + 1 .. U(k) PROVE i \in DOMAIN P /\ P[i] = DeclaredAreas[k]
    <3>1. i \in 1 .. U(N) /\ U(k - 1) < i /\ i <= U(k)
      BY <1>3, <2>2
    <3>2. place(i) = k
      BY <1>5, <1>7, <3>1 DEF Within
    <3> QED
      BY <1>6, <1>8, <3>1, <3>2
  <2> QED
    BY <2>3, <2>4
<1> QED
  BY <1>8, <1>9 DEF U, N, P

(* Every question of the length is planned, when there is enough for one of  *)
(* each area and what is left does not suffice for two.                      *)
LEMMA PlanHasItsLength ==
  ASSUME NEW length \in Nat, Remainder(length) \in 0 .. Len(DeclaredAreas)
  PROVE  Upto(length, Len(DeclaredAreas)) = length
<1> DEFINE N == Len(DeclaredAreas)
           R == Remainder(length)
           F == Favoured(length)
           least == [k \in Places |-> AtLeastOne(length, k)]
           more == [k \in Places |-> IF k \in F THEN 1 ELSE 0]
           counts == [k \in Places |-> Count(length, k)]
<1>1. N \in Nat /\ Places = 1 .. N /\ IsFiniteSet(Places) /\ F \in SUBSET Places
  BY PlacesAre DEF Favoured
<1>2. PICK g : IsSum(least, Places, g) /\ R = length - g[Places]
  BY LeastCountsAddUp
<1>3. least \in [Places -> Int] /\ more \in [Places -> Int]
  BY SharesAreWhole
<1>4. PICK h : IsSum(more, Places, h)
  <2> HIDE DEF more
  <2> QED
    BY <1>1, <1>3, SumExists
<1>5. h[Places] = R
  <2>1. IsIndicator(more, Places, F)
    BY DEF IsIndicator
  <2>2. Places \cap F = F
    BY <1>1
  <2>3. Cardinality(F) = R
    BY FavouredAreTheRest
  <2> HIDE DEF more, F, R
  <2>4. h[Places] = Cardinality(Places \cap F)
    BY <1>1, <1>4, <2>1, SumOfIndicator
  <2> QED
    BY <2>2, <2>3, <2>4
<1>7. PICK c : IsSum(counts, Places, c) /\ Upto(length, N) = c[1 .. N]
  <2>1. N \in 0 .. N
    BY <1>1
  <2> QED
    BY <2>1, CountsAddUp
<1>8. IsCombination(counts, Places, 1, least, 1, more)
  <2> SUFFICES ASSUME NEW k \in Places
               PROVE  least[k] \in Int /\ more[k] \in Int /\ counts[k] = 1 * least[k] + 1 * more[k]
    BY DEF IsCombination
  <2>1. least[k] \in Int /\ more[k] \in Int /\ counts[k] = least[k] + more[k]
    BY <1>3, CountsAre
  <2> HIDE DEF least, more, counts
  <2> QED
    BY <2>1
<1>9. c[Places] = 1 * g[Places] + 1 * h[Places]
  <2> HIDE DEF counts, least, more
  <2> QED
    BY <1>1, <1>2, <1>4, <1>7, <1>8, SumIsLinear
<1>10. g[Places] \in Int /\ h[Places] \in Int
  BY <1>2, <1>4 DEF IsSum
<1> QED
  BY <1>1, <1>2, <1>5, <1>7, <1>9, <1>10

-----------------------------------------------------------------------------
(* Where the shares add up to a whole, no more questions are left to give    *)
(* than there are fractions, and an area without one gets none of them.      *)
Fractioned(length) == {k \in Places : Fraction(length, k) > 0}

LEMMA SharesHaveASum ==
  \E g : /\ IsSum([k \in Places |-> Share[DeclaredAreas[k]]], Places, g)
         /\ g[Places] = MapThenSumSet(LAMBDA k : Share[DeclaredAreas[k]], DOMAIN DeclaredAreas)
<1> DEFINE f == [k \in Places |-> Share[DeclaredAreas[k]]]
           Recursion(h) == h = [s \in SUBSET Places |->
                                  IF s = {} THEN 0
                                  ELSE Share[DeclaredAreas[Pick(s)]] + h[s \ {Pick(s)}]]
           total == MapThenSumSet(LAMBDA k : Share[DeclaredAreas[k]], DOMAIN DeclaredAreas)
<1>1. f \in [Places -> Int] /\ IsFiniteSet(Places)
  <2>1. \A k \in Places : Share[DeclaredAreas[k]] \in 1 .. 100
    BY ShareAssumption DEF Area, Places
  <2>2. \A k \in Places : Share[DeclaredAreas[k]] \in Int
    BY <2>1
  <2> QED
    BY <2>2, PlacesAre
<1>2. \A s \in SUBSET Places : s # {} => f[Pick(s)] = Share[DeclaredAreas[Pick(s)]]
  BY DEF Pick
<1>3. \A h : IsRecursion(f, Places, h) <=> Recursion(h)
  <2> HIDE DEF f
  <2> QED
    BY <1>2 DEF IsRecursion
<1>4. total = (CHOOSE h : Recursion(h))[Places]
  BY DEF MapThenSumSet, MapThenFoldSet, Pick, Places
<1>5. Recursion(CHOOSE h : Recursion(h))
  <2> HIDE DEF Recursion, f
  <2> QED
    BY <1>1, <1>3, SumExists
<1> HIDE DEF Recursion, f
<1>6. IsSum(f, Places, CHOOSE h : Recursion(h))
  BY <1>1, <1>3, <1>5, SumExists
<1> QED
  BY <1>4, <1>6 DEF f

LEMMA RemainderIsSmall ==
  ASSUME NEW length \in Nat
  PROVE  /\ Fractioned(length) \in SUBSET Places
         /\ Cardinality(Fractioned(length)) \in Nat
         /\ Remainder(length) <= Cardinality(Fractioned(length))
         /\ Remainder(length) <= Len(DeclaredAreas)
<1> DEFINE N == Len(DeclaredAreas)
           R == Remainder(length)
           F == Fractioned(length)
           share == [k \in Places |-> Share[DeclaredAreas[k]]]
           least == [k \in Places |-> AtLeastOne(length, k)]
           one == [k \in Places |-> IF k \in F THEN 1 ELSE 0]
           left == [k \in Places |-> length * share[k] + 0 * one[k]]
           right == [k \in Places |-> 100 * least[k] + 99 * one[k]]
<1>1. N \in Nat /\ Cardinality(Places) = N /\ IsFiniteSet(Places) /\ F \in SUBSET Places
  BY PlacesAre DEF Fractioned
<1>2. PICK g : IsSum(least, Places, g) /\ R = length - g[Places]
  BY LeastCountsAddUp
<1>3. PICK s : IsSum(share, Places, s) /\ s[Places] = 100
  BY SharesHaveASum, SharesAssumption
<1>4. share \in [Places -> Int] /\ least \in [Places -> Int] /\ one \in [Places -> Int]
  <2>1. \A k \in Places : Share[DeclaredAreas[k]] \in 1 .. 100 /\ AtLeastOne(length, k) \in Nat
    BY SharesAreWhole
  <2> HIDE DEF F
  <2> QED
    BY <2>1
<1>5. PICK h : IsSum(one, Places, h)
  <2> HIDE DEF one
  <2> QED
    BY <1>1, <1>4, SumExists
<1>6. h[Places] = Cardinality(F)
  <2>1. IsIndicator(one, Places, F)
    BY DEF IsIndicator
  <2>2. Places \cap F = F
    BY <1>1
  <2> HIDE DEF one, F
  <2>3. h[Places] = Cardinality(Places \cap F)
    BY <1>1, <1>5, <2>1, SumOfIndicator
  <2> QED
    BY <2>2, <2>3
<1>8. \A k \in Places : left[k] <= right[k] /\ left[k] \in Int /\ right[k] \in Int
  <2> TAKE k \in Places
  <2> DEFINE r == Raw(length, k)
             p == Fraction(length, k)
             m == AtLeastOne(length, k)
  <2>1. /\ r \in Nat /\ p \in 0 .. 99 /\ m \in Nat /\ 1 <= m
        /\ r < 100 => m = 1
        /\ r >= 100 => r = 100 * m + p
    BY SharesAreWhole
  <2>2. one[k] = (IF p > 0 THEN 1 ELSE 0) /\ least[k] = m
    BY DEF Fractioned
  <2>3. length * share[k] = r /\ share[k] \in Int
    <3>1. share[k] \in 1 .. 100 /\ r = share[k] * length
      BY SharesAreWhole
    <3> HIDE DEF share
    <3> QED
      BY <3>1
  <2> HIDE DEF share, least, one, r, p, m
  <2>4. left[k] = r + 0 * one[k] /\ right[k] = 100 * m + 99 * one[k] /\ one[k] \in {0, 1}
    BY <2>2, <2>3
  <2> HIDE DEF left, right
  <2>5. r <= 100 * m + 99 * one[k]
    <3>1. CASE r < 100
      BY <2>1, <2>2, <3>1
    <3>2. CASE r >= 100 /\ p > 0
      BY <2>1, <2>2, <3>2
    <3>3. CASE r >= 100 /\ ~(p > 0)
      BY <2>1, <2>2, <3>3
    <3> QED
      BY <2>1, <3>1, <3>2, <3>3
  <2> QED
    BY <2>1, <2>4, <2>5
<1>9. left \in [Places -> Int] /\ right \in [Places -> Int]
  BY <1>8
<1>10. PICK a : IsSum(left, Places, a)
  <2> HIDE DEF left
  <2> QED
    BY <1>1, <1>9, SumExists
<1>11. PICK b : IsSum(right, Places, b)
  <2> HIDE DEF right
  <2> QED
    BY <1>1, <1>9, SumExists
<1>17. a[Places] <= b[Places]
  <2> HIDE DEF left, right
  <2> QED
    BY <1>1, <1>8, <1>9, <1>10, <1>11, SumIsMonotone
<1>18. a[Places] = length * s[Places] + 0 * h[Places]
  <2>1. IsCombination(left, Places, length, share, 0, one)
    BY <1>4 DEF IsCombination
  <2> HIDE DEF left, share, one
  <2>2. length \in Int /\ 0 \in Int
    OBVIOUS
  <2> QED
    BY <1>1, <1>3, <1>5, <1>10, <2>1, <2>2, SumIsLinear
<1>19. b[Places] = 100 * g[Places] + 99 * h[Places]
  <2>1. IsCombination(right, Places, 100, least, 99, one)
    BY <1>4 DEF IsCombination
  <2> HIDE DEF right, least, one
  <2>2. 100 \in Int /\ 99 \in Int
    OBVIOUS
  <2> QED
    BY <1>1, <1>2, <1>5, <1>11, <2>1, <2>2, SumIsLinear
<1>12. Cardinality(F) \in Nat /\ Cardinality(F) <= N
  <2> HIDE DEF F, N
  <2> QED
    BY <1>1, FS_Subset, FS_CardinalityType
<1>13. g[Places] \in Int
  BY <1>2 DEF IsSum
<1> HIDE DEF F, N, R
<1>14. length * 100 <= 100 * g[Places] + 99 * Cardinality(F)
  BY <1>3, <1>6, <1>12, <1>13, <1>17, <1>18, <1>19
<1>15. R \in Int /\ 100 * R <= 99 * Cardinality(F)
  BY <1>2, <1>13, <1>14, <1>12
<1>16. R <= Cardinality(F)
  BY <1>12, <1>15
<1> QED
  BY <1>1, <1>12, <1>15, <1>16 DEF F, N, R

LEMMA CountsFollowShares ==
  ASSUME NEW length \in Nat, Remainder(length) >= 0, NEW k \in Places
  PROVE  /\ Raw(length, k) < 100 * Count(length, k) + 100
         /\ Raw(length, k) >= 100 => 100 * Count(length, k) < Raw(length, k) + 100
         /\ Raw(length, k) < 100 => Count(length, k) <= 2
<1> DEFINE R == Remainder(length)
           F == Fractioned(length)
           rank == Cardinality(Ahead(length, k))
           r == Raw(length, k)
           p == Fraction(length, k)
           m == AtLeastOne(length, k)
           c == Count(length, k)
<1>1. /\ r \in Nat /\ p \in 0 .. 99 /\ m \in Nat /\ 1 <= m
      /\ r < 100 => m = 1
      /\ r >= 100 => r = 100 * m + p
  BY SharesAreWhole
<1>2. R \in Int /\ c \in Nat /\ c = m + (IF rank < R THEN 1 ELSE 0)
  BY CountsAre DEF Count
<1>3. ASSUME p = 0 PROVE ~(rank < R)
  <2>1. F \in SUBSET Ahead(length, k) /\ Ahead(length, k) \in SUBSET Places
    <3>1. \A j \in F : j \in DOMAIN DeclaredAreas /\ Fraction(length, j) > Fraction(length, k)
      BY <1>3 DEF Fractioned, Places
    <3> HIDE DEF F
    <3> QED
      BY <3>1 DEF Ahead, Places
  <2>2. IsFiniteSet(Ahead(length, k)) /\ rank \in Nat
    BY <2>1, PlacesAre, FS_Subset, FS_CardinalityType
  <2>3. Cardinality(F) <= rank
    <3> HIDE DEF F
    <3> QED
      BY <2>1, <2>2, FS_Subset
  <2>4. Cardinality(F) \in Nat /\ R <= Cardinality(F)
    BY RemainderIsSmall
  <2> HIDE DEF R, F, rank
  <2> QED
    BY <1>2, <2>2, <2>3, <2>4
<1> HIDE DEF R, F, rank, r, p, m, c
<1>4. c = m \/ c = m + 1
  BY <1>1, <1>2
<1>5. p = 0 => c = m
  BY <1>1, <1>2, <1>3
<1>6. r < 100 * c + 100
  <2>1. CASE r < 100
    BY <1>1, <1>2, <2>1
  <2>2. CASE r >= 100
    BY <1>1, <1>4, <2>2
  <2> QED
    BY <1>1, <2>1, <2>2
<1>7. r >= 100 => 100 * c < r + 100
  BY <1>1, <1>4, <1>5
<1>8. r < 100 => c <= 2
  BY <1>1, <1>4
<1> QED
  BY <1>6, <1>7, <1>8 DEF r, c

LEMMA PlannedIsListed ==
  ASSUME NEW length \in Lengths
  PROVE  /\ Planned[length] \in Seq(Area)
         /\ Len(Planned[length]) = length /\ length \in Nat \ {0}
         /\ \A k \in Places :
              LET places == {i \in 1 .. length : Planned[length][i] = DeclaredAreas[k]}
              IN  IsFiniteSet(places) /\ Cardinality(places) = Count(length, k)
<1>1. length \in Nat \ {0} /\ Planned[length] = PlannedAreas(length)
  BY LengthsAssumption DEF Planned
<1> DEFINE P == PlannedAreas(length)
<1>2. Remainder(length) \in 0 .. Len(DeclaredAreas)
  <2>1. Len(DeclaredAreas) \in Nat /\ DOMAIN DeclaredAreas # {}
    BY PlacesAre DEF Places
  <2>2. PICK k \in Places : TRUE
    BY <2>1 DEF Places
  <2>3. Remainder(length) \in Int
    BY <1>1, <2>2, CountsAre
  <2>4. Remainder(length) <= Len(DeclaredAreas) /\ Remainder(length) >= 0
    BY <1>1, RemainderIsSmall, EnoughAssumption
  <2> QED
    BY <2>1, <2>3, <2>4
<1>3. /\ P \in Seq(Area) /\ Len(P) = length
      /\ \A k \in Places :
           {i \in DOMAIN P : P[i] = DeclaredAreas[k]} = Upto(length, k - 1) + 1 .. Upto(length, k)
  BY <1>1, <1>2, PlanIsListed, PlanHasItsLength
<1>4. DOMAIN P = 1 .. length
  <2> HIDE DEF P
  <2> QED
    BY <1>3, LenProperties
<1>5. ASSUME NEW k \in Places
      PROVE  LET stretch == Upto(length, k - 1) + 1 .. Upto(length, k)
             IN  IsFiniteSet(stretch) /\ Cardinality(stretch) = Count(length, k)
  <2> DEFINE a == Upto(length, k - 1)
             c == Count(length, k)
  <2>1. a \in Nat /\ c \in Nat /\ 1 <= c /\ Upto(length, k) = a + c
    <3>1. k - 1 \in 0 .. Len(DeclaredAreas)
      BY PlacesAre
    <3> QED
      BY <1>1, <3>1, UptoGrows, CountsAre
  <2> HIDE DEF a, c
  <2>2. /\ IsFiniteSet(a + 1 .. a + c)
        /\ Cardinality(a + 1 .. a + c) = IF a + 1 > a + c THEN 0 ELSE (a + c) - (a + 1) + 1
    <3>1. a + 1 \in Int /\ a + c \in Int
      BY <2>1
    <3> QED
      BY <3>1, FS_Interval
  <2>3. (IF a + 1 > a + c THEN 0 ELSE (a + c) - (a + 1) + 1) = c
    BY <2>1
  <2> QED
    BY <2>1, <2>2, <2>3 DEF a, c
<1> HIDE DEF P
<1>6. \A k \in Places :
        LET places == {i \in 1 .. length : P[i] = DeclaredAreas[k]}
        IN  IsFiniteSet(places) /\ Cardinality(places) = Count(length, k)
  <2> TAKE k \in Places
  <2>1. {i \in 1 .. length : P[i] = DeclaredAreas[k]} = Upto(length, k - 1) + 1 .. Upto(length, k)
    BY <1>3, <1>4
  <2> QED
    BY <1>5, <2>1
<1> QED
  BY <1>1, <1>3, <1>6 DEF P

-----------------------------------------------------------------------------
(* The operators of retrieval.                                               *)

LEMMA LeastStage ==
  ASSUME NEW S \in SUBSET Stages, S # {}
  PROVE  Min(S) \in S
<1> DEFINE HasLeast == \E x \in S : \A y \in S : x <= y
<1>1. 1 \in S => HasLeast
  BY DEF Stages
<1>2. 1 \notin S /\ 2 \in S => HasLeast
  BY DEF Stages
<1>3. 1 \notin S /\ 2 \notin S /\ 3 \in S => HasLeast
  BY DEF Stages
<1>4. 4 \in S /\ 1 \notin S /\ 2 \notin S /\ 3 \notin S => HasLeast
  BY DEF Stages
<1>5. 1 \in S \/ 2 \in S \/ 3 \in S \/ 4 \in S
  <2>1. PICK x \in S : TRUE
    OBVIOUS
  <2>2. x = 1 \/ x = 2 \/ x = 3 \/ x = 4
    BY <2>1 DEF Stages
  <2> QED
    BY <2>1, <2>2
<1>6. HasLeast => Min(S) \in S
  BY DEF Min
<1> HIDE DEF HasLeast
<1> QED
  BY <1>1, <1>2, <1>3, <1>4, <1>5, <1>6

LEMMA UnaskedIsTyped ==
  ASSUME NEW l \in Levels, NEW a \in Area, NEW m, NEW n \in Stages
  PROVE  /\ Unasked(l, a, m, n) \subseteq Documents
         /\ Unasked(l, a, m, n) \cap m.documents = {}
BY DocumentsAssumption DEF Unasked

LEMMA BestStageExists ==
  ASSUME NEW l \in Levels, NEW a \in Area, NEW m
  PROVE  BestStage(l, a, m) \in Stages
<1> DEFINE Size(n) == Cardinality(Unasked(l, a, m, n))
<1> DEFINE enough == {n \in Stages : Size(n) >= Deep(a, m)}
<1> DEFINE deepest == {n \in Stages : \A k \in Stages : Size(k) <= Size(n)}
<1>1. \A n \in Stages : Size(n) \in Nat
  BY UnaskedIsTyped, DocumentsAssumption, FS_Subset, FS_CardinalityType
<1>2. deepest # {}
  <2>1. /\ 1 \in Stages /\ 2 \in Stages /\ 3 \in Stages /\ 4 \in Stages
        /\ \A k \in Stages : k \in {1, 2, 3, 4}
    BY DEF Stages
  <2>2. \E n \in {1, 2, 3, 4} : \A k \in {1, 2, 3, 4} : Size(k) <= Size(n)
    <3> HIDE DEF Size
    <3>1. Size(1) \in Nat /\ Size(2) \in Nat /\ Size(3) \in Nat /\ Size(4) \in Nat
      BY <1>1, <2>1
    <3> QED
      BY <3>1
  <2> QED
    BY <2>1, <2>2
<1>3. BestStage(l, a, m) = Min(IF enough # {} THEN enough ELSE deepest)
  BY DEF BestStage
<1>4. enough \subseteq Stages /\ deepest \subseteq Stages
  OBVIOUS
<1> HIDE DEF enough, deepest
<1> QED
  BY <1>2, <1>3, <1>4, LeastStage

LEMMA MergedStageExists ==
  ASSUME NEW l, NEW a, NEW m
  PROVE  MergedStage(l, a, m) \in Stages
<1> DEFINE S == {n \in Stages : Cardinality(Merged(l, a, m, n)) >= MergedPool \/ n = 4}
<1>1. 4 \in S /\ S \subseteq Stages
  BY DEF Stages
<1>2. MergedStage(l, a, m) = Min(S)
  BY DEF MergedStage
<1> HIDE DEF S
<1> QED
  BY <1>1, <1>2, LeastStage

(* No pool offers a document that was asked.                                 *)
LEMMA PoolIsUnasked ==
  ASSUME NEW l \in Levels, NEW a \in Area, NEW m
  PROVE  Pool(l, a, m) \subseteq Documents /\ Pool(l, a, m) \cap m.documents = {}
<1>1. CASE IsEnriched(a)
  <2> DEFINE n == MergedStage(l, a, m)
  <2>1. n \in Stages
    BY MergedStageExists
  <2> HIDE DEF n
  <2>2. \A k \in 1 .. n : k \in Stages
    BY <2>1 DEF Stages
  <2>3. \A d \in Merged(l, a, m, n) : d \in Documents /\ d \notin m.documents
    BY <2>2, UnaskedIsTyped DEF Merged
  <2>4. Pool(l, a, m) = Merged(l, a, m, n)
    BY <1>1 DEF Pool, n
  <2> QED
    BY <2>3, <2>4
<1>2. CASE ~IsEnriched(a)
  BY <1>2, BestStageExists, UnaskedIsTyped DEF Pool
<1> QED
  BY <1>1, <1>2

LEMMA PreferredIsPool ==
  ASSUME NEW a, NEW m, NEW pool
  PROVE  Preferred(a, m, pool) \subseteq pool
BY DEF Preferred, LeastPicked, Equivalents

-----------------------------------------------------------------------------
(* The memory.                                                               *)

LEMMA ProductIsNat ==
  ASSUME NEW a \in Nat, NEW b \in Nat
  PROVE  a * b \in Nat
OBVIOUS

LEMMA ProductGrows ==
  ASSUME NEW a \in Nat, NEW b \in Nat, NEW c \in Nat, a <= b
  PROVE  a * c <= b * c
<1>1. (b - a) * c >= 0
  OBVIOUS
<1>2. (b - a) * c = b * c - a * c
  OBVIOUS
<1>3. a * c \in Int /\ b * c \in Int
  OBVIOUS
<1> QED
  BY <1>1, <1>2, <1>3

(* The new average of Counted; times the number of scores it is half of that *)
(* number away from the sum it rounds.                                       *)
MeanOf(a, n, score) == Nearest(10 * a * n + score, 10 * (n + 1))

IsNear(q, a, n, score) ==
  /\ 20 * (q * (n + 1)) <= 20 * (a * n) + 2 * score + 10 * (n + 1)
  /\ 20 * (a * n) + 2 * score - 10 * (n + 1) < 20 * (q * (n + 1))

LEMMA MeanIsNear ==
  ASSUME NEW a \in Nat, NEW n \in Nat, NEW score \in Nat, NEW q, q = MeanOf(a, n, score)
  PROVE  q \in Nat /\ IsNear(q, a, n, score)
<1> DEFINE p == a * n
<1> DEFINE x == 20 * p + 2 * score + 10 * (n + 1)
<1> DEFINE y == 20 * (n + 1)
<1>1. q = x \div y
  BY DEF MeanOf, Nearest
<1>2. p \in Nat
  BY ProductIsNat
<1> HIDE DEF p
<1>3. x \in Nat /\ y \in Nat /\ y > 0
  BY <1>2
<1>4. q \in Nat /\ y * q <= x /\ x < y * q + y
  <2> HIDE DEF x, y
  <2> QED
    BY <1>1, <1>3
<1>5. PICK r \in Nat : r = q * (n + 1)
  BY <1>4, ProductIsNat
<1>6. y * q = 20 * r
  BY <1>4, <1>5
<1>7. 20 * r <= x /\ x < 20 * r + y
  <2> HIDE DEF x, y
  <2> QED
    BY <1>4, <1>6
<1>8. 20 * r <= 20 * p + 2 * score + 10 * (n + 1) /\ 20 * p + 2 * score - 10 * (n + 1) < 20 * r
  BY <1>2, <1>7
<1>9. IsNear(q, a, n, score)
  BY <1>5, <1>8, Zenon DEF p, IsNear
<1> QED
  BY <1>4, <1>9

(* A mean of averages and scores up to one is one at most.                   *)
LEMMA AverageStays ==
  ASSUME NEW a \in Nat, a <= 1000, NEW n \in Nat, NEW score \in Nat, score <= 10000,
         NEW q, q = MeanOf(a, n, score)
  PROVE  q \in Nat /\ q <= 1000
<1>1. PICK p \in Nat : p = a * n
  BY ProductIsNat
<1>2. p <= 1000 * n
  BY <1>1, ProductGrows
<1>3. q \in Nat /\ IsNear(q, a, n, score)
  BY MeanIsNear
<1>4. PICK r \in Nat : r = q * (n + 1)
  BY <1>3, ProductIsNat
<1>5. 20 * r <= 20 * p + 2 * score + 10 * (n + 1)
  BY <1>1, <1>3, <1>4 DEF IsNear
<1>6. ASSUME q >= 1001
      PROVE  FALSE
  <2>1. 1001 * (n + 1) <= r
    BY <1>3, <1>4, <1>6, ProductGrows
  <2> QED
    BY <1>2, <1>5, <2>1
<1> HIDE DEF MeanOf
<1> QED
  BY <1>3, <1>6

LEMMA CountedIsTyped ==
  ASSUME NEW m \in Memory, NEW score \in Nat, score <= 10000
  PROVE  /\ Counted(m, score) \in Memory
         /\ Counted(m, score).documents = m.documents
         /\ Counted(m, score).count = m.count + 1
         /\ Counted(m, score).sum = m.sum + score
         /\ Counted(m, score).average = MeanOf(m.average, m.count, score)
<1> DEFINE c == Counted(m, score)
<1>1. /\ m.average \in Nat /\ m.average <= 1000
      /\ m.count \in Nat /\ m.sum \in Nat /\ m.documents \in SUBSET Documents
  BY DEF Memory
<1>2. /\ c = [documents |-> m.documents, average |-> c.average,
              count |-> m.count + 1, sum |-> m.sum + score]
      /\ c.average = MeanOf(m.average, m.count, score)
  BY DEF Counted, MeanOf
<1>3. PICK a \in Nat, n \in Nat : a = m.average /\ n = m.count
  BY <1>1
<1>4. c.average \in Nat /\ c.average <= 1000
  <2>1. c.average = MeanOf(a, n, score) /\ a <= 1000
    BY <1>1, <1>2, <1>3
  <2> HIDE DEF c
  <2> QED
    BY <2>1, AverageStays
<1>5. m.count + 1 \in Nat /\ m.sum + score \in Nat
  BY <1>1
<1> HIDE DEF c
<1>6. c \in Memory
  <2>1. c.average \in 0 .. 1000
    BY <1>4
  <2> QED
    BY <1>1, <1>2, <1>5, <2>1 DEF Memory
<1>7. c.documents = m.documents /\ c.count = m.count + 1 /\ c.sum = m.sum + score
  BY <1>2
<1> QED
  BY <1>2, <1>6, <1>7 DEF c

(* One more score adds at most half a thousandth, times the number of        *)
(* scores, to the error of the sum.                                          *)
LEMMA CountedKeepsMean ==
  ASSUME NEW m \in Memory, NEW score \in Nat, score <= 10000, IsMeanOf(m)
  PROVE  IsMeanOf(Counted(m, score))
<1> DEFINE c == Counted(m, score)
<1>1. /\ c \in Memory /\ c.count = m.count + 1 /\ c.sum = m.sum + score
      /\ c.average = MeanOf(m.average, m.count, score)
  BY CountedIsTyped
<1> HIDE DEF c
<1>2. PICK a \in Nat, n \in Nat, s \in Nat, q \in Nat :
        a = m.average /\ n = m.count /\ s = m.sum /\ q = c.average
  <2>1. m.average \in Nat /\ m.count \in Nat /\ m.sum \in Nat /\ c.average \in Nat
    BY <1>1 DEF Memory
  <2> QED
    BY <2>1
<1>3. q = MeanOf(a, n, score) /\ c.count = n + 1 /\ c.sum = s + score
  BY <1>1, <1>2
<1>4. PICK p \in Nat, r \in Nat, t \in Nat : p = a * n /\ r = q * (n + 1) /\ t = n * (n + 1)
  BY ProductIsNat
<1>5. IsNear(q, a, n, score)
  BY <1>3, MeanIsNear
<1>6. /\ 20 * r <= 2 * (10 * p + score) + 10 * (n + 1)
      /\ 2 * (10 * p + score) - 10 * (n + 1) < 20 * r
  BY <1>4, <1>5 DEF IsNear
<1>7. 2 * (10 * p - s) <= 5 * t /\ -2 * (10 * p - s) <= 5 * t
  <2>1. 10 * a * n = 10 * p /\ 5 * n * (n + 1) = 5 * t
    BY <1>4
  <2> QED
    BY <1>2, <2>1 DEF IsMeanOf
<1>8. /\ 2 * (10 * r - (s + score)) <= 5 * t + 10 * (n + 1)
      /\ -2 * (10 * r - (s + score)) <= 5 * t + 10 * (n + 1)
  BY <1>6, <1>7
<1>9. 5 * (n + 1) * (n + 1 + 1) = 5 * t + 10 * (n + 1) /\ 10 * q * (n + 1) = 10 * r
  BY <1>4
<1>10. IsMeanOf(c)
  BY <1>2, <1>3, <1>8, <1>9 DEF IsMeanOf
<1> QED
  BY <1>10 DEF c

-----------------------------------------------------------------------------
(* Inv is inductive: one lemma for each action.                              *)

LEMMA ScoresAreSmall ==
  ASSUME NEW score \in Scores
  PROVE  score \in Nat /\ score <= 10000
BY ScoresAssumption

LEMMA NothingIsTyped ==
  NewMemory \in Memory /\ NoWork \in WorkType /\ NoInterview \in InterviewType
<1>1. NewMemory \in Memory
  BY DEF NewMemory, Memory
<1>2. NoWork \in WorkType
  BY <1>1, EasiestAssumption DEF WorkType, NoWork
<1>3. <<>> \in Seq(QuestionType)
  OBVIOUS
<1>4. NoInterview \in InterviewType
  BY <1>1, <1>3 DEF InterviewType, NoInterview
<1> QED
  BY <1>1, <1>2, <1>4

LEMMA ConfiguredIsTyped ==
  ASSUME NEW p \in ProcessType, NEW level \in Levels
  PROVE  LET configured == [p EXCEPT !.level = level, !.starts = @ + 1]
         IN  /\ configured \in ProcessType /\ configured.level = level
             /\ configured.picks = p.picks
<1>1. p.starts + 1 \in Nat
  BY DEF ProcessType
<1>2. PICK n \in Nat : n = p.starts + 1
  BY <1>1
<1> QED
  BY <1>2 DEF ProcessType

LEMMA PickedIsTyped ==
  ASSUME NEW p \in ProcessType, NEW d \in Documents
  PROVE  LET picked == [p EXCEPT !.picks[d] = @ + 1]
         IN  /\ picked \in ProcessType /\ picked.level = p.level
             /\ picked.picks = [p.picks EXCEPT ![d] = @ + 1]
BY DEF ProcessType

LEMMA InitInv ==
  ASSUME Init
  PROVE  Inv
<1>1. process \in ProcessType
  BY DEF Init, ProcessType
<1>2. TypeOK
  BY <1>1, NothingIsTyped DEF Init, TypeOK
<1>3. HandlerInv
  BY DEF Init, HandlerInv
<1>4. work = NoWork /\ session = NoInterview /\ NoInterview.questions = <<>>
  BY DEF Init, NoInterview
<1>5. UnaskedInv
  BY <1>4 DEF UnaskedInv, NoWork, NewMemory
<1>6. NoDocumentTwice
  BY <1>4 DEF NoDocumentTwice
<1> QED
  BY <1>2, <1>3, <1>5, <1>6 DEF Inv

LEMMA StartInv ==
  ASSUME Inv, NEW level \in Levels, NEW length \in Lengths, Start(level, length)
  PROVE  Inv'
<1>1. PICK w : w = work' /\ w = [NoWork EXCEPT !.handler = "start", !.level = level, !.length = length]
  BY DEF Start, Handle
<1>2. /\ w \in WorkType /\ w.handler = "start" /\ w.level = level /\ w.length = length
      /\ w.area = Easiest /\ w.memory = NewMemory /\ w.document = Generated
      /\ w.pool = {} /\ w.first = {}
  <2>1. /\ NoWork \in WorkType /\ NoWork.area = Easiest /\ NoWork.memory = NewMemory
        /\ NoWork.document = Generated /\ NoWork.pool = {} /\ NoWork.first = {}
    BY NothingIsTyped DEF NoWork
  <2> HIDE DEF NoWork
  <2> QED
    BY <1>1, <2>1 DEF WorkType
<1>3. session' = session /\ pc' = "retrieve" /\ process' = [process EXCEPT !.level = level, !.starts = @ + 1]
  BY DEF Start, Handle
<1>4. /\ process' \in ProcessType
      /\ process'.level = level
  BY <1>3, ConfiguredIsTyped DEF Inv, TypeOK
<1>5. TypeOK'
  BY <1>1, <1>2, <1>3, <1>4 DEF Inv, TypeOK
<1>6. HandlerInv'
  BY <1>1, <1>2, <1>3, <1>4 DEF Inv, HandlerInv
<1>7. UnaskedInv'
  BY <1>1, <1>2, <1>3 DEF Inv, UnaskedInv, NewMemory
<1>8. NoDocumentTwice'
  BY <1>3 DEF Inv, NoDocumentTwice
<1> QED
  BY <1>5, <1>6, <1>7, <1>8 DEF Inv

LEMMA OtherStartInv ==
  ASSUME Inv, NEW level \in Levels, OtherStart(level)
  PROVE  Inv'
<1>1. session' = session /\ work' = work /\ pc' = pc
  BY DEF OtherStart
<1>2. /\ process' \in ProcessType
      /\ process'.level = level
  <2> DEFINE configured == [process EXCEPT !.level = level, !.starts = @ + 1]
  <2>1. /\ configured \in ProcessType
        /\ configured.level = level
    BY ConfiguredIsTyped DEF Inv, TypeOK
  <2>2. \/ process' = configured
        \/ \E d \in LeastPicked(Pool(level, Easiest, NewMemory)) :
             process' = [configured EXCEPT !.picks[d] = @ + 1]
    BY DEF OtherStart
  <2>3. LeastPicked(Pool(level, Easiest, NewMemory)) \subseteq Documents
    BY PoolIsUnasked, EasiestAssumption DEF LeastPicked, Equivalents
  <2> HIDE DEF configured
  <2> QED
    BY <2>1, <2>2, <2>3, PickedIsTyped
<1>3. TypeOK'
  BY <1>1, <1>2 DEF Inv, TypeOK
<1>4. HandlerInv'
  BY <1>1, <1>2 DEF Inv, HandlerInv
<1> QED
  BY <1>1, <1>3, <1>4 DEF Inv, UnaskedInv, NoDocumentTwice

LEMMA GradeInv ==
  ASSUME Inv, NEW score \in Scores, Grade(score)
  PROVE  Inv'
<1>1. /\ work' = work /\ pc' = pc /\ process' = process /\ pc = "idle" /\ session # NoInterview
      /\ session' = [session EXCEPT !.score = score]
  BY DEF Grade
<1>2. /\ session' \in InterviewType /\ session'.length = session.length
      /\ session'.questions = session.questions /\ session'.memory = session.memory
  BY <1>1 DEF Inv, TypeOK, InterviewType
<1>3. TypeOK'
  BY <1>1, <1>2 DEF Inv, TypeOK
<1>4. HandlerInv'
  BY <1>1, <1>2 DEF Inv, HandlerInv
<1>5. UnaskedInv' /\ NoDocumentTwice'
  BY <1>1, <1>2 DEF Inv, UnaskedInv, NoDocumentTwice
<1> QED
  BY <1>3, <1>4, <1>5 DEF Inv

LEMMA NextClickedInv ==
  ASSUME Inv, NextClicked
  PROVE  Inv'
<1>1. /\ session # NoInterview /\ session.score \in Scores /\ session.length \in Lengths
      /\ process.level \in Levels /\ session.memory \in Memory
  BY DEF Inv, TypeOK, HandlerInv, InterviewType, NextClicked, NoInterview
<1>2. PICK a, m : /\ a = Plan(session)[Len(session.questions) + 1]
                  /\ m = Counted(session.memory, session.score)
  OBVIOUS
<1>3. a \in Area
  <2>1. session.questions \in Seq(QuestionType)
    BY DEF Inv, TypeOK, InterviewType
  <2>2. Len(session.questions) \in Nat
    BY <2>1, LenProperties
  <2>3. Plan(session) \in Seq(Area)
    BY <1>1, PlannedIsListed DEF Plan
  <2>4. Len(session.questions) < Len(Plan(session)) /\ Len(Plan(session)) \in Nat
    BY <2>3, LenProperties DEF NextClicked
  <2>5. Len(session.questions) + 1 \in 1 .. Len(Plan(session))
    BY <2>2, <2>4
  <2> QED
    BY <1>2, <2>3, <2>5, ElementOfSeq
<1>4. /\ m \in Memory /\ m.documents = session.memory.documents /\ m.count > 0
  <2>1. PICK memory \in Memory, score \in Scores :
          memory = session.memory /\ score = session.score
    BY <1>1
  <2>2. m = Counted(memory, score) /\ score \in Nat /\ score <= 10000
    BY <1>2, <2>1, ScoresAreSmall
  <2>3. m \in Memory /\ m.documents = memory.documents /\ m.count = memory.count + 1
    BY <2>2, CountedIsTyped
  <2>4. memory.count \in Nat
    BY DEF Memory
  <2> QED
    BY <2>1, <2>3, <2>4
<1>5. PICK w : w = work' /\ w = [NoWork EXCEPT !.handler = "next", !.level = process.level,
                                               !.area = a, !.memory = m]
  BY <1>2 DEF NextClicked, Handle
<1>6. /\ w \in WorkType /\ w.handler = "next" /\ w.level = process.level
      /\ w.memory = m /\ w.document = Generated /\ w.pool = {} /\ w.first = {}
  <2>1. /\ NoWork \in WorkType /\ NoWork.document = Generated
        /\ NoWork.pool = {} /\ NoWork.first = {}
    BY NothingIsTyped DEF NoWork
  <2> HIDE DEF NoWork
  <2> QED
    BY <1>1, <1>3, <1>4, <1>5, <2>1 DEF WorkType
<1>7. session' = session /\ pc' = "retrieve" /\ process' = process
  BY DEF NextClicked, Handle
<1>8. TypeOK'
  BY <1>5, <1>6, <1>7 DEF Inv, TypeOK
<1>9. HandlerInv'
  BY <1>1, <1>4, <1>5, <1>6, <1>7 DEF HandlerInv
<1>10. UnaskedInv'
  <2>1. Generated \notin m.documents
    BY <1>4, DocumentsAssumption DEF Memory
  <2> QED
    BY <1>5, <1>6, <1>7, <2>1 DEF Inv, UnaskedInv
<1>11. NoDocumentTwice'
  BY <1>7 DEF Inv, NoDocumentTwice
<1> QED
  BY <1>8, <1>9, <1>10, <1>11 DEF Inv

LEMMA RetrieveInv ==
  ASSUME Inv, Retrieve
  PROVE  Inv'
<1>1. /\ pc = "retrieve" /\ session' = session
      /\ work \in WorkType /\ process \in ProcessType /\ work.level \in Levels /\ work.area \in Area
  BY DEF Retrieve, Inv, TypeOK, HandlerInv, WorkType
<1>2. PICK pool : pool = Pool(work.level, work.area, work.memory)
  OBVIOUS
<1>3. pool \subseteq Documents /\ pool \cap work.memory.documents = {}
  BY <1>1, <1>2, PoolIsUnasked
<1>4. CASE pc' = "generate" /\ work' = work /\ process' = process
  BY <1>1, <1>4 DEF Inv, TypeOK, HandlerInv, UnaskedInv, NoDocumentTwice
<1>5. ASSUME NEW d \in Preferred(work.area, work.memory, pool),
             process' = Picked(work.area, work.memory, pool, d),
             \/ pc' = "enrich" /\ work' = [work EXCEPT !.pool = pool, !.first = {d}]
             \/ pc' = "finish" /\ work' = [work EXCEPT !.document = d]
             \/ pc' = "generate" /\ UNCHANGED work
      PROVE  Inv'
  <2>1. d \in pool
    BY PreferredIsPool
  <2>2. process' \in ProcessType /\ process'.level = process.level
    BY <1>1, <1>3, <1>5, <2>1, PickedIsTyped DEF Picked
  <2>3. /\ work' \in WorkType /\ work'.handler = work.handler /\ work'.level = work.level
        /\ work'.length = work.length /\ work'.area = work.area /\ work'.memory = work.memory
        /\ work'.document \in {work.document, d}
        /\ work'.pool \in {work.pool, pool} /\ work'.first \in {work.first, {d}}
    <3>1. d \in Documents /\ {d} \in SUBSET Documents /\ pool \in SUBSET Documents
      BY <1>3, <2>1
    <3>2. CASE work' = [work EXCEPT !.pool = pool, !.first = {d}]
      BY <1>1, <3>1, <3>2 DEF WorkType
    <3>3. CASE work' = [work EXCEPT !.document = d]
      BY <1>1, <3>1, <3>3 DEF WorkType
    <3>4. CASE UNCHANGED work
      BY <1>1, <3>4
    <3> QED
      BY <1>5, <3>2, <3>3, <3>4
  <2>4. TypeOK'
    BY <1>1, <1>5, <2>2, <2>3 DEF Inv, TypeOK
  <2>5. HandlerInv'
    BY <1>1, <2>2, <2>3 DEF Inv, HandlerInv
  <2>6. UnaskedInv'
    BY <1>1, <1>3, <2>1, <2>3 DEF Inv, UnaskedInv
  <2> QED
    BY <1>1, <2>4, <2>5, <2>6 DEF Inv, NoDocumentTwice
<1> QED
  BY <1>2, <1>4, <1>5 DEF Retrieve

LEMMA EnrichInv ==
  ASSUME Inv, Enrich
  PROVE  Inv'
<1>1. /\ pc = "enrich" /\ session' = session /\ process' = process /\ work \in WorkType
  BY DEF Enrich, Inv, TypeOK
<1>2. CASE pc' = "generate" /\ work' = work
  BY <1>1, <1>2 DEF Inv, TypeOK, HandlerInv, UnaskedInv, NoDocumentTwice
<1>3. ASSUME NEW d \in work.pool \cup work.first,
             \/ pc' = "finish" /\ work' = [work EXCEPT !.document = d]
             \/ pc' = "enrich" /\ work' = [work EXCEPT !.pool = @ \ {d}, !.first = {}]
      PROVE  Inv'
  <2>1. d \in Documents /\ d \notin work.memory.documents
    BY <1>1 DEF Inv, UnaskedInv, WorkType
  <2>2. /\ work' \in WorkType /\ work'.handler = work.handler /\ work'.level = work.level
        /\ work'.length = work.length /\ work'.area = work.area /\ work'.memory = work.memory
        /\ work'.document \in {work.document, d}
        /\ (work'.pool \cup work'.first) \subseteq work.pool \cup work.first
    BY <1>1, <1>3, <2>1 DEF WorkType
  <2>3. TypeOK'
    BY <1>1, <1>3, <2>2 DEF Inv, TypeOK
  <2>4. HandlerInv'
    BY <1>1, <2>2 DEF Inv, HandlerInv
  <2>5. UnaskedInv'
    BY <1>1, <2>1, <2>2 DEF Inv, UnaskedInv
  <2> QED
    BY <1>1, <2>3, <2>4, <2>5 DEF Inv, NoDocumentTwice
<1> QED
  BY <1>2, <1>3 DEF Enrich

LEMMA GenerateInv ==
  ASSUME Inv, Generate
  PROVE  Inv'
<1>1. /\ pc = "generate" /\ session' = session /\ process' = process /\ work \in WorkType
      /\ pc' \in {"failed", "finish", "generate"}
      /\ work' = work \/ work' = [work EXCEPT !.attempts = @ + 1]
  BY DEF Generate, Inv, TypeOK
<1>2. /\ work' \in WorkType /\ work'.handler = work.handler /\ work'.level = work.level
      /\ work'.length = work.length /\ work'.area = work.area /\ work'.memory = work.memory
      /\ work'.document = work.document
      /\ work'.pool = work.pool /\ work'.first = work.first
  <2>1. PICK n \in Nat : n = work.attempts + 1
    BY <1>1 DEF WorkType
  <2> QED
    BY <1>1, <2>1 DEF WorkType
<1>3. TypeOK'
  BY <1>1, <1>2 DEF Inv, TypeOK
<1>4. HandlerInv'
  BY <1>1, <1>2 DEF Inv, HandlerInv
<1>5. UnaskedInv'
  BY <1>1, <1>2 DEF Inv, UnaskedInv
<1> QED
  BY <1>1, <1>3, <1>4, <1>5 DEF Inv, NoDocumentTwice

LEMMA PipelineRaisesInv ==
  ASSUME Inv, PipelineRaises
  PROVE  Inv'
BY DEF PipelineRaises, Inv, TypeOK, HandlerInv, UnaskedInv, NoDocumentTwice

(* Handlers that end leave the interview with an interview of its type, or   *)
(* none, and nothing of their work.                                          *)
LEMMA DoneInv ==
  ASSUME Inv, NEW s \in InterviewType, Done(s),
         s # NoInterview => s.length \in Lengths /\ process.level \in Levels,
         \A i \in DOMAIN s.questions :
           s.questions[i].document \in s.memory.documents \cup {Generated},
         \A i, j \in DOMAIN s.questions :
           s.questions[i].document = s.questions[j].document =>
             i = j \/ s.questions[i].document = Generated
  PROVE  Inv'
<1>1. session' = s /\ work' = NoWork /\ pc' = "idle" /\ process' = process
  BY DEF Done
<1>2. TypeOK'
  BY <1>1, NothingIsTyped DEF Inv, TypeOK
<1>3. HandlerInv'
  BY <1>1 DEF HandlerInv
<1>4. UnaskedInv'
  BY <1>1 DEF UnaskedInv, NoWork, NewMemory
<1>5. NoDocumentTwice'
  BY <1>1 DEF NoDocumentTwice
<1> QED
  BY <1>2, <1>3, <1>4, <1>5 DEF Inv

LEMMA BackToSetupInv ==
  ASSUME Inv, Done(NoInterview)
  PROVE  Inv'
<1>1. NoInterview \in InterviewType /\ NoInterview.questions = <<>>
  BY NothingIsTyped DEF NoInterview
<1>2. DOMAIN NoInterview.questions = {}
  BY <1>1
<1> HIDE DEF NoInterview
<1> QED
  BY <1>1, <1>2, DoneInv

LEMMA FailInv ==
  ASSUME Inv, Fail
  PROVE  Inv'
<1>1. CASE work.handler = "start"
  BY <1>1, BackToSetupInv DEF Fail
<1>2. CASE work.handler # "start"
  <2>1. PICK s : s = [session EXCEPT !.memory = work.memory]
    OBVIOUS
  <2>2. /\ session # NoInterview /\ session.length \in Lengths /\ process.level \in Levels
        /\ session.memory.documents \subseteq work.memory.documents
        /\ session \in InterviewType /\ work.memory \in Memory
    BY <1>2 DEF Fail, Inv, TypeOK, HandlerInv, WorkType
  <2>3. /\ s \in InterviewType /\ s.length = session.length
        /\ s.questions = session.questions /\ s.memory = work.memory
    BY <2>1, <2>2 DEF InterviewType
  <2>4. Done(s)
    BY <1>2, <2>1 DEF Fail
  <2>5. \A i \in DOMAIN s.questions :
           s.questions[i].document \in s.memory.documents \cup {Generated}
    BY <2>2, <2>3 DEF Inv, UnaskedInv
  <2>6. \A i, j \in DOMAIN s.questions :
           s.questions[i].document = s.questions[j].document =>
             i = j \/ s.questions[i].document = Generated
    BY <2>3 DEF Inv, NoDocumentTwice
  <2> QED
    BY <2>2, <2>3, <2>4, <2>5, <2>6, DoneInv
<1> QED
  BY <1>1, <1>2

LEMMA TestsFailInv ==
  ASSUME Inv, TestsFail
  PROVE  Inv'
<1>1. CASE work.handler = "start"
  BY <1>1, BackToSetupInv DEF TestsFail
<1>2. CASE work.handler # "start"
  BY <1>2, DoneInv DEF TestsFail, Inv, TypeOK, HandlerInv, UnaskedInv, NoDocumentTwice
<1> QED
  BY <1>1, <1>2

LEMMA NewInterviewInv ==
  ASSUME Inv, NewInterview
  PROVE  Inv'
BY BackToSetupInv DEF NewInterview

LEMMA FinishInv ==
  ASSUME Inv, Finish
  PROVE  Inv'
<1>1. /\ pc = "finish" /\ work \in WorkType /\ work.memory \in Memory
      /\ work.level \in Levels /\ process.level \in Levels /\ work.area \in Area
      /\ work.document \in Documents \cup {Generated}
      /\ work.document \notin work.memory.documents
  BY DEF Finish, Inv, TypeOK, HandlerInv, UnaskedInv, WorkType
<1>2. PICK q, memory : q = Question /\ memory = Recorded(work.memory, work.document)
  OBVIOUS
<1>3. q \in QuestionType /\ q.document = work.document
  BY <1>1, <1>2 DEF Question, QuestionType
<1>4. /\ memory \in Memory
      /\ memory.documents = work.memory.documents \cup ({work.document} \ {Generated})
  BY <1>1, <1>2 DEF Recorded, Memory
<1>5. CASE work.handler = "start"
  <2>1. PICK s : s = [level |-> work.level, length |-> work.length, questions |-> <<q>>,
                      memory |-> memory, score |-> NoScore]
    OBVIOUS
  <2>2. Done(s)
    BY <1>2, <1>5, <2>1 DEF Finish
  <2>3. work.length \in Lengths
    BY <1>1, <1>5 DEF Inv, HandlerInv
  <2>4. <<q>> \in Seq(QuestionType) /\ DOMAIN <<q>> = {1} /\ <<q>>[1] = q
    BY <1>3
  <2>5. s \in InterviewType
    BY <1>1, <1>4, <2>1, <2>3, <2>4 DEF InterviewType
  <2>6. s.length = work.length /\ s.questions = <<q>> /\ s.memory = memory
    BY <2>1
  <2>7. \A i \in DOMAIN s.questions :
           s.questions[i].document \in s.memory.documents \cup {Generated}
    BY <1>3, <1>4, <2>4, <2>6
  <2>8. \A i, j \in DOMAIN s.questions : i = j
    BY <2>4, <2>6
  <2> QED
    BY <1>1, <2>2, <2>3, <2>5, <2>6, <2>7, <2>8, DoneInv
<1>6. CASE work.handler # "start"
  <2>1. PICK s : s = [session EXCEPT !.questions = Append(@, q), !.memory = memory,
                                     !.score = NoScore]
    OBVIOUS
  <2>2. Done(s)
    BY <1>2, <1>6, <2>1 DEF Finish
  <2>3. /\ session # NoInterview /\ session.length \in Lengths /\ session \in InterviewType
        /\ session.memory.documents \subseteq work.memory.documents
    BY <1>1, <1>6 DEF Inv, TypeOK, HandlerInv
  <2>4. PICK old \in Seq(QuestionType) : old = session.questions
    BY <2>3 DEF InterviewType
  <2>5. PICK new : new = Append(old, q)
    OBVIOUS
  <2>6. /\ new \in Seq(QuestionType) /\ DOMAIN new = DOMAIN old \cup {Len(old) + 1}
        /\ Len(old) + 1 \notin DOMAIN old
        /\ new[Len(old) + 1] = q /\ \A i \in DOMAIN old : new[i] = old[i]
    <3>1. /\ new \in Seq(QuestionType) /\ Len(new) = Len(old) + 1
          /\ \A i \in 1 .. Len(old) : new[i] = old[i]
          /\ new[Len(old) + 1] = q
      BY <1>3, <2>5, AppendProperties
    <3>2. DOMAIN new = 1 .. Len(new) /\ DOMAIN old = 1 .. Len(old) /\ Len(old) \in Nat
      BY <3>1, LenProperties
    <3> QED
      BY <3>1, <3>2
  <2>7. /\ s \in InterviewType /\ s.length = session.length
        /\ s.questions = new /\ s.memory = memory
    BY <1>4, <2>1, <2>3, <2>4, <2>5, <2>6 DEF InterviewType
  <2>8. \A i \in DOMAIN old : old[i].document \in session.memory.documents \cup {Generated}
    BY <2>4 DEF Inv, UnaskedInv
  <2>9. \A i \in DOMAIN s.questions :
           s.questions[i].document \in s.memory.documents \cup {Generated}
    BY <1>3, <1>4, <2>3, <2>6, <2>7, <2>8
  <2>10. \A i, j \in DOMAIN old :
           old[i].document = old[j].document => i = j \/ old[i].document = Generated
    BY <2>4 DEF Inv, NoDocumentTwice
  <2>11. \A i \in DOMAIN old : old[i].document = q.document => q.document = Generated
    BY <1>1, <1>3, <2>3, <2>8
  <2>12. \A i, j \in DOMAIN s.questions :
           s.questions[i].document = s.questions[j].document =>
             i = j \/ s.questions[i].document = Generated
    BY <2>6, <2>7, <2>10, <2>11
  <2> QED
    BY <1>1, <2>2, <2>3, <2>7, <2>9, <2>12, DoneInv
<1> QED
  BY <1>5, <1>6

LEMMA NextInv ==
  ASSUME Inv, [Next]_vars
  PROVE  Inv'
<1>1. CASE Next
  BY <1>1, StartInv, OtherStartInv, GradeInv, NextClickedInv, NewInterviewInv, RetrieveInv,
     EnrichInv, GenerateInv, FinishInv, FailInv, PipelineRaisesInv, TestsFailInv
     DEF Next, Supply
<1>2. CASE UNCHANGED vars
  BY <1>2 DEF vars, Inv, TypeOK, HandlerInv, UnaskedInv, NoDocumentTwice
<1> QED
  BY <1>1, <1>2

LEMMA Invariance == Spec => []Inv
<1>1. Init => Inv
  BY InitInv
<1>2. Inv /\ [Next]_vars => Inv'
  BY NextInv
<1> QED
  BY <1>1, <1>2, PTL DEF Spec

(* Interviews, handlers and counts have the types the code gives them; the   *)
(* average of the retrieval memory stays between zero and one.               *)
THEOREM TypesAreKept == Spec => []TypeOK
<1>1. Inv => TypeOK
  BY DEF Inv
<1> QED
  BY <1>1, Invariance, PTL

(* No interview asks a document of the corpus twice, whatever the store      *)
(* finds at each stage of relaxation and whichever handlers fail on the way. *)
THEOREM NothingIsAskedTwice == Spec => []NoDocumentTwice
<1>1. Inv => NoDocumentTwice
  BY DEF Inv
<1> QED
  BY <1>1, Invariance, PTL

-----------------------------------------------------------------------------
(* The running average.                                                      *)

LEMMA NewMemoryIsMean == IsMeanOf(NewMemory)
BY DEF IsMeanOf, NewMemory

LEMMA RecordedKeepsMean ==
  ASSUME NEW m \in Memory, NEW d, IsMeanOf(m)
  PROVE  IsMeanOf(Recorded(m, d))
<1>1. LET r == Recorded(m, d) IN r.average = m.average /\ r.count = m.count /\ r.sum = m.sum
  BY DEF Recorded, Memory
<1> QED
  BY <1>1 DEF IsMeanOf

(* Every memory is new, an old one with one more score or document, or that  *)
(* of the handler.                                                           *)
LEMMA AverageStep ==
  ASSUME Inv, AverageIsTrue, [Next]_vars
  PROVE  AverageIsTrue'
<1> DEFINE SM == session'.memory
<1> DEFINE WM == work'.memory
<1>1. session.memory \in Memory /\ work.memory \in Memory
  BY DEF Inv, TypeOK, InterviewType, WorkType
<1>2. IsMeanOf(NewMemory) /\ NoInterview.memory = NewMemory /\ NoWork.memory = NewMemory
  BY NewMemoryIsMean DEF NoInterview, NoWork
<1>3. CASE UNCHANGED <<session, work>>
  BY <1>3 DEF AverageIsTrue
<1>4. ASSUME NEW level \in Levels, NEW length \in Lengths, Start(level, length)
      PROVE  AverageIsTrue'
  <2>1. session' = session
    BY <1>4 DEF Start, Handle
  <2>2. work'.memory = NewMemory
    BY <1>4, NothingIsTyped DEF Start, Handle, NoWork
  <2> QED
    BY <1>2, <2>1, <2>2 DEF AverageIsTrue
<1>5. ASSUME NEW score \in Scores, Grade(score)
      PROVE  AverageIsTrue'
  <2>1. work' = work /\ session'.memory = session.memory
    BY <1>5 DEF Grade, Inv, TypeOK, InterviewType
  <2> QED
    BY <2>1 DEF AverageIsTrue
<1>6. CASE NextClicked
  <2>1. PICK score : score = session.score
    OBVIOUS
  <2>2. score \in Scores
    BY <1>6, <2>1 DEF NextClicked, Inv, TypeOK, InterviewType
  <2>3. session' = session /\ work'.memory = Counted(session.memory, score)
    BY <1>6, <2>1, NothingIsTyped DEF NextClicked, Handle, NoWork
  <2>4. PICK m \in Memory : m = session.memory
    BY <1>1
  <2>5. IsMeanOf(Counted(m, score))
    BY <2>2, <2>4, ScoresAreSmall, CountedKeepsMean DEF AverageIsTrue
  <2> QED
    BY <2>3, <2>4, <2>5 DEF AverageIsTrue
<1>7. CASE Retrieve \/ Enrich \/ Generate
  <2>1. session' = session
    BY <1>7 DEF Retrieve, Enrich, Generate
  <2>2. work'.memory = work.memory
    BY <1>7 DEF Retrieve, Enrich, Generate, Inv, TypeOK, WorkType
  <2> QED
    BY <2>1, <2>2 DEF AverageIsTrue
<1>8. ASSUME NEW s, Done(s), s.memory \in {NewMemory, session.memory, work.memory} \/ IsMeanOf(s.memory)
      PROVE  AverageIsTrue'
  <2>1. session' = s /\ work' = NoWork
    BY <1>8 DEF Done
  <2> QED
    BY <1>2, <1>8, <2>1 DEF AverageIsTrue
<1>9. CASE Finish
  <2>1. PICK memory : memory = Recorded(work.memory, work.document)
    OBVIOUS
  <2>2. IsMeanOf(memory)
    BY <1>1, <2>1, RecordedKeepsMean DEF AverageIsTrue
  <2>3. PICK s : /\ Done(s)
                 /\ s = IF work.handler = "start"
                        THEN [level |-> work.level, length |-> work.length, questions |-> <<Question>>,
                              memory |-> memory, score |-> NoScore]
                        ELSE [session EXCEPT !.questions = Append(@, Question), !.memory = memory,
                                             !.score = NoScore]
    BY <1>9, <2>1 DEF Finish
  <2>4. s.memory = memory
    BY <2>3 DEF Inv, TypeOK, InterviewType
  <2> QED
    BY <1>8, <2>2, <2>3, <2>4
<1>10. CASE Fail
  <2>1. PICK s : /\ Done(s)
                 /\ s = IF work.handler = "start" THEN NoInterview
                        ELSE [session EXCEPT !.memory = work.memory]
    BY <1>10 DEF Fail
  <2>2. s.memory \in {NewMemory, work.memory}
    BY <1>2, <2>1 DEF Inv, TypeOK, InterviewType
  <2> QED
    BY <1>8, <2>1, <2>2
<1>11. CASE TestsFail
  BY <1>2, <1>8, <1>11 DEF TestsFail
<1>12. CASE NewInterview
  BY <1>2, <1>8, <1>12 DEF NewInterview
<1>13. CASE UNCHANGED vars
  BY <1>3, <1>13 DEF vars
<1>14. ASSUME NEW level \in Levels, OtherStart(level)
       PROVE  AverageIsTrue'
  BY <1>3, <1>14 DEF OtherStart
<1>15. CASE PipelineRaises
  BY <1>3, <1>15 DEF PipelineRaises
<1> QED
  BY <1>4, <1>5, <1>6, <1>7, <1>9, <1>10, <1>11, <1>12, <1>13, <1>14, <1>15 DEF Next, Supply

(* However many questions are counted, and however often the same score is   *)
(* counted again after a failure, the errors of rounding the average of the  *)
(* rounded averages stay within a quarter thousandth per question.           *)
THEOREM TheAverageIsTrue == Spec => []AverageIsTrue
<1>1. Init => AverageIsTrue
  BY NewMemoryIsMean DEF Init, AverageIsTrue, NoInterview, NoWork
<1>2. Inv /\ AverageIsTrue /\ [Next]_vars => AverageIsTrue'
  BY AverageStep
<1> QED
  BY <1>1, <1>2, Invariance, PTL DEF Spec

-----------------------------------------------------------------------------
(* The rotation of first picks.                                              *)

(* A pick among the equivalents of a fresh start is no more picked than      *)
(* anything that is always equivalent to it.                                 *)
LEMMA PickRotates ==
  ASSUME process \in ProcessType, PicksRotate,
         NEW level \in Levels, Rotates(Easiest, NewMemory, Pool(level, Easiest, NewMemory)),
         NEW d \in LeastPicked(Pool(level, Easiest, NewMemory)),
         process'.picks = [process.picks EXCEPT ![d] = @ + 1]
  PROVE  PicksRotate'
<1>1. d \in FirstPicks[level] /\ \A e \in FirstPicks[level] : process.picks[d] <= process.picks[e]
  BY DEF FirstPicks, LeastPicked
<1>2. d \in Documents
  BY PoolIsUnasked, EasiestAssumption DEF LeastPicked, Equivalents
<1>3. process.picks \in [Documents -> Nat]
  BY DEF ProcessType
<1> SUFFICES ASSUME NEW x \in Documents, NEW y \in Documents, Together(x, y)
             PROVE  process'.picks[x] <= process'.picks[y] + 1
  BY DEF PicksRotate, Together, FirstPicks
<1>4. process.picks[x] <= process.picks[y] + 1
  BY DEF PicksRotate
<1>5. process.picks[x] \in Nat /\ process.picks[y] \in Nat
  BY <1>3
<1>6. x = d => process.picks[x] <= process.picks[y]
  BY <1>1 DEF Together
<1>7. process'.picks[x] = IF x = d THEN process.picks[x] + 1 ELSE process.picks[x]
  BY <1>2, <1>3
<1>8. process'.picks[y] >= process.picks[y] /\ process'.picks[y] \in Nat
  BY <1>2, <1>3, <1>5
<1> QED
  BY <1>4, <1>5, <1>6, <1>7, <1>8

LEMMA RotationStep ==
  ASSUME Inv, PicksRotate, [Next]_vars
  PROVE  PicksRotate'
<1>1. process \in ProcessType
  BY DEF Inv, TypeOK
<1>2. CASE process'.picks = process.picks
  BY <1>2 DEF PicksRotate, Together, FirstPicks
<1>3. ASSUME NEW level \in Levels, NEW length \in Lengths, Start(level, length)
      PROVE  PicksRotate'
  BY <1>1, <1>2, <1>3, ConfiguredIsTyped DEF Start
<1>4. ASSUME NEW level \in Levels, OtherStart(level)
      PROVE  PicksRotate'
  <2>1. PICK configured : configured = [process EXCEPT !.level = level, !.starts = @ + 1]
    OBVIOUS
  <2>2. configured \in ProcessType /\ configured.picks = process.picks
    BY <1>1, <2>1, ConfiguredIsTyped
  <2>3. CASE process' = configured
    BY <1>2, <2>2, <2>3
  <2>4. ASSUME Rotates(Easiest, NewMemory, Pool(level, Easiest, NewMemory)),
               NEW d \in LeastPicked(Pool(level, Easiest, NewMemory)),
               process' = [configured EXCEPT !.picks[d] = @ + 1]
        PROVE  PicksRotate'
    <3>1. d \in Documents
      BY PoolIsUnasked, EasiestAssumption DEF LeastPicked, Equivalents
    <3>2. process'.picks = [process.picks EXCEPT ![d] = @ + 1]
      BY <2>2, <2>4, <3>1, PickedIsTyped
    <3> QED
      BY <1>1, <2>4, <3>2, PickRotates
  <2> QED
    BY <1>4, <2>1, <2>3, <2>4 DEF OtherStart
<1>5. CASE Retrieve
  <2>1. PICK pool : pool = Pool(work.level, work.area, work.memory)
    OBVIOUS
  <2>2. CASE process' = process
    BY <1>2, <2>2
  <2>3. ASSUME NEW d \in Preferred(work.area, work.memory, pool),
               process' = Picked(work.area, work.memory, pool, d)
        PROVE  PicksRotate'
    <3>1. CASE ~Rotates(work.area, work.memory, pool)
      BY <2>2, <2>3, <3>1 DEF Picked
    <3>2. CASE Rotates(work.area, work.memory, pool)
      <4>1. /\ work.memory = NewMemory /\ work.area = Easiest /\ work.level \in Levels
            /\ pool = Pool(work.level, Easiest, NewMemory)
        <5>1. work.memory.count = 0
          BY <3>2 DEF Rotates, IsFresh
        <5>2. ~(work.memory.count > 0)
          BY <5>1
        <5>3. pc # "idle"
          BY <1>5 DEF Retrieve
        <5>4. /\ work.memory = NewMemory /\ work.area = Easiest /\ work.level \in Levels
          BY <5>2, <5>3 DEF Inv, HandlerInv
        <5> QED
          BY <2>1, <5>4
      <4>2. d \in LeastPicked(pool)
        BY <2>3, <3>2 DEF Preferred
      <4>3. d \in Documents
        BY <4>1, <4>2, PoolIsUnasked, EasiestAssumption DEF LeastPicked, Equivalents
      <4>4. process' = [process EXCEPT !.picks[d] = @ + 1]
        BY <2>3, <3>2 DEF Picked
      <4>5. process'.picks = [process.picks EXCEPT ![d] = @ + 1]
        BY <1>1, <4>3, <4>4, PickedIsTyped
      <4> QED
        BY <1>1, <3>2, <4>1, <4>2, <4>5, PickRotates
    <3> QED
      BY <3>1, <3>2
  <2> QED
    BY <1>5, <2>1, <2>2, <2>3 DEF Retrieve
<1>6. ASSUME process' = process
      PROVE  PicksRotate'
  BY <1>2, <1>6
<1>7. CASE \/ NextClicked \/ Enrich \/ Generate \/ PipelineRaises \/ UNCHANGED vars
           \/ \E score \in Scores : Grade(score)
  BY <1>6, <1>7 DEF NextClicked, Enrich, Generate, PipelineRaises, vars, Grade
<1>8. CASE Finish \/ Fail \/ TestsFail \/ NewInterview
  BY <1>6, <1>8 DEF Finish, Fail, TestsFail, NewInterview, Done
<1> QED
  BY <1>3, <1>4, <1>5, <1>7, <1>8 DEF Next, Supply

(* First picks rotate for any corpus and any mix of seniorities and lengths, *)
(* although every start counts its pick before it is known to succeed.       *)
THEOREM FirstPicksRotate == Spec => []PicksRotate
<1>1. Init => PicksRotate
  BY DEF Init, PicksRotate
<1>2. Inv /\ PicksRotate /\ [Next]_vars => PicksRotate'
  BY RotationStep
<1> QED
  BY <1>1, <1>2, Invariance, PTL DEF Spec

-----------------------------------------------------------------------------
(* The shares of the areas.                                                  *)

(* What was asked is the plan, but for the first question.                   *)
FollowsPlan(s) ==
  /\ s.length \in Lengths
  /\ Len(s.questions) >= 1 /\ Len(s.questions) <= Len(Plan(s))
  /\ s.questions[1].area = Easiest
  /\ \A i \in 2 .. Len(s.questions) : s.questions[i].area = Plan(s)[i]

(* The area a running NEXT looks for is still that of the next place: no     *)
(* other handler adds a question in the meantime.                            *)
PlanInv ==
  /\ session # NoInterview => FollowsPlan(session)
  /\ pc # "idle" /\ work.handler # "start" =>
       /\ Len(session.questions) < Len(Plan(session))
       /\ work.area = Plan(session)[Len(session.questions) + 1]

LEMMA SamePlan ==
  ASSUME NEW s, NEW t, s.length = t.length, s.questions = t.questions, FollowsPlan(s)
  PROVE  FollowsPlan(t)
BY DEF FollowsPlan, Plan

LEMMA PlanDone ==
  ASSUME NEW s, Done(s), s # NoInterview => FollowsPlan(s)
  PROVE  PlanInv'
BY DEF Done, PlanInv, FollowsPlan, Plan

LEMMA PlanStep ==
  ASSUME Inv, PlanInv, [Next]_vars
  PROVE  PlanInv'
<1>1. session \in InterviewType /\ work \in WorkType
  BY DEF Inv, TypeOK
<1>2. CASE UNCHANGED <<session, work, pc>>
  BY <1>2 DEF PlanInv, FollowsPlan, Plan
<1>3. ASSUME NEW level \in Levels, NEW length \in Lengths, Start(level, length)
      PROVE  PlanInv'
  <2>1. session' = session /\ session = NoInterview /\ work'.handler = "start"
    BY <1>3, NothingIsTyped DEF Start, Handle, NoWork
  <2> QED
    BY <2>1 DEF PlanInv
<1>4. ASSUME NEW level \in Levels, OtherStart(level)
      PROVE  PlanInv'
  BY <1>2, <1>4 DEF OtherStart
<1>5. ASSUME NEW score \in Scores, Grade(score)
      PROVE  PlanInv'
  <2>1. /\ pc' = "idle" /\ session # NoInterview
        /\ session'.length = session.length /\ session'.questions = session.questions
    BY <1>1, <1>5 DEF Grade, InterviewType
  <2>2. FollowsPlan(session)
    BY <2>1 DEF PlanInv
  <2>3. FollowsPlan(session')
    BY <2>1, <2>2, SamePlan
  <2> QED
    BY <2>1, <2>3 DEF PlanInv, FollowsPlan, Plan
<1>6. CASE NextClicked
  <2>1. /\ session' = session /\ Len(session.questions) < Len(Plan(session))
        /\ work'.area = Plan(session)[Len(session.questions) + 1]
    BY <1>6, NothingIsTyped DEF NextClicked, Handle, NoWork
  <2> QED
    BY <2>1 DEF PlanInv, FollowsPlan, Plan
<1>7. CASE Retrieve \/ Enrich \/ Generate \/ PipelineRaises
  <2>1. session' = session /\ pc # "idle"
    BY <1>7 DEF Retrieve, Enrich, Generate, PipelineRaises
  <2>2. work'.area = work.area /\ work'.handler = work.handler
    BY <1>1, <1>7 DEF Retrieve, Enrich, Generate, PipelineRaises, WorkType
  <2> QED
    BY <2>1, <2>2 DEF PlanInv, FollowsPlan, Plan
<1>8. CASE Finish
  <2>1. PICK q, memory : q = Question /\ memory = Recorded(work.memory, work.document)
    OBVIOUS
  <2>2. q.area = work.area /\ pc = "finish"
    BY <1>8, <2>1 DEF Finish, Question
  <2>3. CASE work.handler = "start"
    <3>1. PICK s : s = [level |-> work.level, length |-> work.length, questions |-> <<q>>,
                        memory |-> memory, score |-> NoScore]
      OBVIOUS
    <3>2. Done(s) /\ s.length = work.length /\ s.questions = <<q>>
      BY <1>8, <2>1, <2>3, <3>1 DEF Finish
    <3>3. work.length \in Lengths /\ work.area = Easiest
      BY <2>2, <2>3 DEF Inv, HandlerInv
    <3>4. Len(Plan(s)) >= 1
      BY <3>2, <3>3, PlannedIsListed DEF Plan
    <3>5. Len(s.questions) = 1 /\ s.questions[1] = q
      BY <3>2
    <3>6. FollowsPlan(s)
      BY <2>2, <3>2, <3>3, <3>4, <3>5 DEF FollowsPlan
    <3> QED
      BY <3>2, <3>6, PlanDone
  <2>4. CASE work.handler # "start"
    <3>1. PICK s : s = [session EXCEPT !.questions = Append(@, q), !.memory = memory,
                                       !.score = NoScore]
      OBVIOUS
    <3>2. PICK old \in Seq(QuestionType) : old = session.questions
      BY <1>1 DEF InterviewType
    <3>3. Done(s) /\ s.length = session.length /\ s.questions = Append(old, q)
      BY <1>1, <1>8, <2>1, <2>4, <3>1, <3>2 DEF Finish, InterviewType
    <3>4. /\ session # NoInterview /\ FollowsPlan(session)
          /\ Len(old) < Len(Plan(session)) /\ work.area = Plan(session)[Len(old) + 1]
      BY <2>2, <2>4, <3>2 DEF Inv, HandlerInv, PlanInv
    <3>5. /\ session.length \in Lengths /\ Len(old) >= 1 /\ old[1].area = Easiest
          /\ \A i \in 2 .. Len(old) : old[i].area = Plan(session)[i]
      BY <3>2, <3>4 DEF FollowsPlan
    <3>6. Plan(s) = Plan(session) /\ Len(Plan(s)) \in Nat
      BY <3>3, <3>5, PlannedIsListed DEF Plan
    <3>7. Len(old) \in Nat
      BY <3>2, LenProperties
    <3>8. q \in QuestionType
      BY <1>1, <2>1, <2>2 DEF Question, QuestionType, Inv, HandlerInv, WorkType
    <3>9. PICK new : new = Append(old, q)
      OBVIOUS
    <3>10. /\ Len(new) = Len(old) + 1 /\ new[Len(old) + 1] = q
           /\ \A i \in 1 .. Len(old) : new[i] = old[i]
      BY <3>2, <3>8, <3>9, AppendProperties
    <3>11. Len(new) >= 1 /\ Len(new) <= Len(Plan(s))
      BY <3>4, <3>5, <3>6, <3>7, <3>10
    <3>12. new[1].area = Easiest
      <4>1. 1 \in 1 .. Len(old)
        BY <3>5, <3>7
      <4> QED
        BY <3>5, <3>10, <4>1
    <3>13. \A i \in 2 .. Len(new) : new[i].area = Plan(s)[i]
      <4> TAKE i \in 2 .. Len(new)
      <4>1. CASE i = Len(old) + 1
        BY <2>2, <3>4, <3>6, <3>10, <4>1
      <4>2. CASE i # Len(old) + 1
        <5>1. i \in 2 .. Len(old) /\ i \in 1 .. Len(old)
          BY <3>7, <3>10, <4>2
        <5> QED
          BY <3>5, <3>6, <3>10, <5>1
      <4> QED
        BY <4>1, <4>2
    <3>14. FollowsPlan(s)
      BY <3>3, <3>5, <3>9, <3>11, <3>12, <3>13 DEF FollowsPlan
    <3> QED
      BY <3>3, <3>14, PlanDone
  <2> QED
    BY <2>3, <2>4
<1>9. CASE Fail
  <2>1. CASE work.handler = "start"
    BY <1>9, <2>1, PlanDone DEF Fail
  <2>2. CASE work.handler # "start"
    <3>1. PICK s : s = [session EXCEPT !.memory = work.memory]
      OBVIOUS
    <3>2. Done(s) /\ s.length = session.length /\ s.questions = session.questions
      BY <1>1, <1>9, <2>2, <3>1 DEF Fail, InterviewType
    <3>3. FollowsPlan(session)
      BY <1>9, <2>2 DEF Fail, Inv, HandlerInv, PlanInv
    <3> QED
      BY <3>2, <3>3, SamePlan, PlanDone
  <2> QED
    BY <2>1, <2>2
<1>10. CASE TestsFail
  BY <1>10, PlanDone DEF TestsFail, PlanInv
<1>11. CASE NewInterview
  BY <1>11, PlanDone DEF NewInterview
<1>12. CASE UNCHANGED vars
  BY <1>2, <1>12 DEF vars
<1> QED
  BY <1>3, <1>4, <1>5, <1>6, <1>7, <1>8, <1>9, <1>10, <1>11, <1>12 DEF Next, Supply

LEMMA PlanInvariance == Spec => []PlanInv
<1>1. Init => PlanInv
  BY DEF Init, PlanInv
<1>2. Inv /\ PlanInv /\ [Next]_vars => PlanInv'
  BY PlanStep
<1> QED
  BY <1>1, <1>2, Invariance, PTL DEF Spec

(* Replacing the first area of a plan changes how often it has an area by    *)
(* at most one, and only the area it is replaced by can gain.                *)
PlacesOf(a, f, n) == {i \in 1 .. n : f[i] = a}

LEMMA FirstIsReplaced ==
  ASSUME NEW n \in Nat \ {0}, NEW old, NEW new, NEW a,
         \A i \in 2 .. n : new[i] = old[i],
         NEW before, before = Cardinality(PlacesOf(a, old, n)),
         NEW after, after = Cardinality(PlacesOf(a, new, n))
  PROVE  /\ before \in Nat /\ after \in Nat
         /\ before <= after + 1
         /\ after <= before + (IF new[1] = a THEN 1 ELSE 0)
<1> DEFINE Old == PlacesOf(a, old, n)
           New == PlacesOf(a, new, n)
           Both == {i \in 2 .. n : old[i] = a}
<1>1. IsFiniteSet(1 .. n)
  BY FS_Interval
<1>2. Old \in SUBSET (1 .. n) /\ New \in SUBSET (1 .. n) /\ Both \in SUBSET (1 .. n)
  BY DEF PlacesOf
<1>3. \A i \in 1 .. n : i = 1 \/ i \in 2 .. n
  OBVIOUS
<1>4. 1 \in 1 .. n /\ ~(1 \in 2 .. n) /\ \A i \in 2 .. n : i \in 1 .. n
  OBVIOUS
<1>5. Old = IF old[1] = a THEN Both \cup {1} ELSE Both
  BY <1>3, <1>4 DEF PlacesOf
<1>6. New = IF new[1] = a THEN Both \cup {1} ELSE Both
  BY <1>3, <1>4 DEF PlacesOf
<1>7. 1 \notin Both
  BY <1>4
<1> HIDE DEF Old, New, Both
<1>8. IsFiniteSet(Both) /\ Cardinality(Both) \in Nat
  BY <1>1, <1>2, FS_Subset, FS_CardinalityType
<1>9. Cardinality(Both \cup {1}) = Cardinality(Both) + 1
  BY <1>7, <1>8, FS_AddElement
<1>10. Cardinality(Old) = IF old[1] = a THEN Cardinality(Both) + 1 ELSE Cardinality(Both)
  BY <1>5, <1>9
<1>11. Cardinality(New) = IF new[1] = a THEN Cardinality(Both) + 1 ELSE Cardinality(Both)
  BY <1>6, <1>9
<1>12. /\ Cardinality(Old) \in Nat /\ Cardinality(New) \in Nat
       /\ Cardinality(Old) <= Cardinality(New) + 1
       /\ Cardinality(New) <= Cardinality(Old) + (IF new[1] = a THEN 1 ELSE 0)
  BY <1>8, <1>10, <1>11
<1> QED
  BY <1>12 DEF Old, New

LEMMA PlanGivesShares ==
  ASSUME Inv, PlanInv
  PROVE  EachAreaGetsItsShare
<1> SUFFICES ASSUME session # NoInterview PROVE
      /\ Len(Plan(session)) = session.length
      /\ Len(session.questions) = session.length =>
           \A a \in Area :
             /\ 100 * Asked(a) < Share[a] * session.length + 200
             /\ Share[a] * session.length < 100 * Asked(a) + 200
  BY DEF EachAreaGetsItsShare
<1> DEFINE n == session.length
           qs == session.questions
           P == Planned[n]
<1>1. n \in Lengths /\ qs[1].area = Easiest /\ \A i \in 2 .. Len(qs) : qs[i].area = P[i]
  BY DEF PlanInv, FollowsPlan, Plan
<1>2. qs \in Seq(QuestionType) /\ DOMAIN qs = 1 .. Len(qs)
  BY LenProperties DEF Inv, TypeOK, InterviewType
<1> HIDE DEF n, qs, P
<1>3. /\ P \in Seq(Area) /\ Len(P) = n /\ n \in Nat \ {0}
      /\ \A k \in Places : Cardinality({i \in 1 .. n : P[i] = DeclaredAreas[k]}) = Count(n, k)
  BY <1>1, PlannedIsListed DEF P
<1>4. ASSUME Len(qs) = n, NEW a \in Area
      PROVE  100 * Asked(a) < Share[a] * n + 200 /\ Share[a] * n < 100 * Asked(a) + 200
  <2>1. PICK k \in Places : a = DeclaredAreas[k]
    BY DEF Area, Places
  <2> DEFINE new == [i \in 1 .. n |-> qs[i].area]
             asked == Cardinality(PlacesOf(a, new, n))
             c == Count(n, k)
             r == Raw(n, k)
  <2>2. Asked(a) = asked
    <3>1. {i \in DOMAIN qs : qs[i].area = a} = PlacesOf(a, new, n)
      BY <1>2, <1>4 DEF PlacesOf
    <3> HIDE DEF new
    <3> QED
      BY <3>1 DEF Asked, qs
  <2>3. \A i \in 2 .. n : new[i] = P[i]
    <3>1. \A i \in 2 .. n : i \in 1 .. n
      BY <1>3
    <3> QED
      BY <1>1, <1>4, <3>1
  <2>4. new[1] = Easiest
    <3>1. 1 \in 1 .. n
      BY <1>3
    <3> QED
      BY <1>1, <3>1
  <2>5. Cardinality(PlacesOf(a, P, n)) = c
    BY <1>3, <2>1 DEF PlacesOf
  <2> HIDE DEF new
  <2>6. /\ c \in Nat /\ asked \in Nat
        /\ c <= asked + 1
        /\ asked <= c + (IF new[1] = a THEN 1 ELSE 0)
    <3>1. asked = Cardinality(PlacesOf(a, new, n)) /\ n \in Nat \ {0}
      BY <1>3
    <3>2. c \in Nat /\ \A i \in 2 .. n : new[i] = P[i]
      BY <1>3, <2>1, <2>3, CountsAre
    <3> HIDE DEF c, asked
    <3>3. c = Cardinality(PlacesOf(a, P, n))
      BY <2>5
    <3> QED
      BY <3>1, <3>2, <3>3, FirstIsReplaced
  <2>7. r \in Nat /\ r = Share[a] * n
    BY <1>3, <2>1, SharesAreWhole
  <2>8. n \in Nat /\ Remainder(n) >= 0 /\ (a = Easiest => r >= 100)
    BY <1>1, <1>3, <2>7, EnoughAssumption
  <2>9. r < 100 * c + 100 /\ (r >= 100 => 100 * c < r + 100) /\ (r < 100 => c <= 2)
    BY <2>8, CountsFollowShares
  <2>10. r >= 1
    <3>1. Share[a] \in 1 .. 100
      BY ShareAssumption
    <3>3. n \in Nat /\ 1 <= n
      BY <1>3
    <3>4. Share[a] \in Nat /\ 1 <= Share[a]
      BY <3>1
    <3>2. \A x, y \in Nat : 1 <= x /\ 1 <= y => x * y >= 1
      OBVIOUS
    <3> QED
      BY <2>7, <3>2, <3>3, <3>4
  <2> HIDE DEF asked, c, r
  <2>11. r < 100 * asked + 200
    BY <2>6, <2>7, <2>9
  <2>12. 100 * asked < r + 200
    <3>1. CASE r >= 100
      <4>1. asked <= c + 1
        BY <2>6
      <4> QED
        BY <2>6, <2>7, <2>9, <3>1, <4>1
    <3>2. CASE r < 100
      <4>1. asked <= c
        BY <2>4, <2>6, <2>7, <2>8, <3>2
      <4> QED
        BY <2>6, <2>7, <2>9, <2>10, <3>2, <4>1
    <3> QED
      BY <2>7, <3>1, <3>2
  <2> QED
    BY <2>2, <2>7, <2>11, <2>12
<1> QED
  BY <1>3, <1>4 DEF Plan, P, n, qs

(* Whatever the areas and their shares, and whichever starts, retrievals and *)
(* generations fail on the way: the plan has the length that was chosen, and *)
(* an interview that reached it asked each area less than two questions more *)
(* or less than its share.                                                   *)
THEOREM SharesAreKept == Spec => []EachAreaGetsItsShare
<1>1. Inv /\ PlanInv => EachAreaGetsItsShare
  BY PlanGivesShares
<1> QED
  BY <1>1, Invariance, PlanInvariance, PTL

-----------------------------------------------------------------------------
(* How many steps a request for a question has left at most: every candidate *)
(* of the corpus is looked at once, and every attempt at a question made     *)
(* once.                                                                     *)
RequestInv ==
  /\ work.first \subseteq work.pool
  /\ work.attempts <= MaxGenerate(work.area)

ToGenerate(w) == MaxGenerate(w.area) - w.attempts

Left(p, w) ==
  CASE p = "retrieve" -> Cardinality(Documents) + MaxGenerate(w.area) + 4
    [] p = "enrich" -> Cardinality(w.pool) + ToGenerate(w) + 3
    [] p = "generate" -> ToGenerate(w) + 2
    [] p \in {"finish", "failed"} -> 1
    [] OTHER -> 0

StepsLeft == Left(pc, work)

ComesCloser ==
  pc # "idle" => StepsLeft' < StepsLeft \/ UNCHANGED <<pc, work>>

LEMMA MaxGenerateIsNat ==
  ASSUME NEW a
  PROVE  MaxGenerate(a) \in Nat
BY BoundsAssumption DEF MaxGenerate

LEMMA NoWorkIsShort == NoWork.first = {} /\ NoWork.attempts = 0
BY DEF NoWork

LEMMA RequestStep ==
  ASSUME TypeOK, RequestInv, [Next]_vars
  PROVE  RequestInv'
<1> DEFINE max == MaxGenerate(work.area)
<1>1. work \in WorkType /\ work.attempts \in Nat /\ max \in Nat
  BY MaxGenerateIsNat DEF TypeOK, WorkType
<1>2. CASE UNCHANGED work
  BY <1>2 DEF RequestInv
<1>3. ASSUME work'.first = {}, work'.attempts = 0
      PROVE  RequestInv'
  BY <1>3, MaxGenerateIsNat DEF RequestInv
<1>4. CASE NextClicked \/ \E level \in Levels, length \in Lengths : Start(level, length)
  <2>1. work'.first = {} /\ work'.attempts = 0
    BY <1>4 DEF NextClicked, Start, Handle, NoWork
  <2> QED
    BY <2>1, <1>3
<1>5. CASE work' = NoWork
  <2>1. work'.first = {} /\ work'.attempts = 0
    BY <1>5 DEF NoWork
  <2> QED
    BY <2>1, <1>3
<1>6. CASE Retrieve
  <2> DEFINE pool == Pool(work.level, work.area, work.memory)
  <2>1. CASE UNCHANGED work
    BY <1>2, <2>1
  <2>2. ASSUME NEW d \in Preferred(work.area, work.memory, pool),
               \/ work' = [work EXCEPT !.pool = pool, !.first = {d}]
               \/ work' = [work EXCEPT !.document = d]
        PROVE  RequestInv'
    <3>1. d \in pool
      BY DEF Preferred, LeastPicked, Equivalents
    <3>2. /\ work'.attempts = work.attempts /\ work'.area = work.area
          /\ \/ work'.first = {d} /\ work'.pool = pool
             \/ work'.first = work.first /\ work'.pool = work.pool
      BY <1>1, <2>2 DEF WorkType
    <3> HIDE DEF pool
    <3>3. work'.first \subseteq work'.pool
      BY <3>1, <3>2 DEF RequestInv
    <3> QED
      BY <3>2, <3>3 DEF RequestInv
  <2>3. \/ UNCHANGED work
        \/ \E d \in Preferred(work.area, work.memory, pool) :
              \/ work' = [work EXCEPT !.pool = pool, !.first = {d}]
              \/ work' = [work EXCEPT !.document = d]
    BY <1>6 DEF Retrieve
  <2> QED
    BY <2>1, <2>2, <2>3
<1>7. CASE Enrich
  <2>1. CASE UNCHANGED work
    BY <1>2, <2>1
  <2>2. ASSUME NEW d,
               \/ work' = [work EXCEPT !.document = d]
               \/ work' = [work EXCEPT !.pool = @ \ {d}, !.first = {}]
        PROVE  RequestInv'
    <3>1. /\ work'.attempts = work.attempts /\ work'.area = work.area
          /\ \/ work'.first = {}
             \/ work'.first = work.first /\ work'.pool = work.pool
      BY <1>1, <2>2 DEF WorkType
    <3>2. work'.first \subseteq work'.pool
      BY <3>1 DEF RequestInv
    <3> QED
      BY <3>1, <3>2 DEF RequestInv
  <2> QED
    BY <1>7, <2>1, <2>2 DEF Enrich
<1>8. CASE Generate
  <2>1. CASE UNCHANGED work
    BY <1>2, <2>1
  <2>2. CASE work' = [work EXCEPT !.attempts = @ + 1] /\ work.attempts < max
    <3>1. /\ work'.attempts = work.attempts + 1 /\ work'.area = work.area
          /\ work'.first = work.first /\ work'.pool = work.pool
      BY <1>1, <2>2 DEF WorkType
    <3>2. MaxGenerate(work'.area) = max
      BY <3>1
    <3> HIDE DEF max
    <3>3. work'.attempts <= max
      BY <1>1, <2>2, <3>1
    <3> QED
      BY <3>1, <3>2, <3>3 DEF RequestInv
  <2> QED
    BY <1>8, <2>1, <2>2 DEF Generate
<1> QED
  BY <1>2, <1>4, <1>5, <1>6, <1>7, <1>8
     DEF Next, Supply, OtherStart, Grade, PipelineRaises, Finish, Fail, TestsFail, NewInterview, Done, vars

LEMMA RequestInvariance == Spec => []RequestInv
<1>1. Init => RequestInv
  BY NoWorkIsShort, MaxGenerateIsNat DEF Init, RequestInv
<1>2. TypeOK /\ RequestInv /\ [Next]_vars => RequestInv'
  BY RequestStep
<1> QED
  BY <1>1, <1>2, TypesAreKept, PTL DEF Spec

LEMMA LeftIs ==
  ASSUME NEW w
  PROVE  /\ Left("retrieve", w) = Cardinality(Documents) + MaxGenerate(w.area) + 4
         /\ Left("enrich", w) = Cardinality(w.pool) + ToGenerate(w) + 3
         /\ Left("generate", w) = ToGenerate(w) + 2
         /\ Left("finish", w) = 1 /\ Left("failed", w) = 1
         /\ Left("idle", w) = 0
BY DEF Left

LEMMA ToGenerateIsNat ==
  ASSUME NEW w \in WorkType, w.attempts <= MaxGenerate(w.area)
  PROVE  ToGenerate(w) \in 0 .. MaxGenerate(w.area)
<1>1. w.attempts \in Nat /\ MaxGenerate(w.area) \in Nat
  BY MaxGenerateIsNat DEF WorkType
<1> QED
  BY <1>1 DEF ToGenerate

LEMMA PoolsAreFinite ==
  ASSUME NEW S \in SUBSET Documents
  PROVE  IsFiniteSet(S) /\ Cardinality(S) \in Nat /\ Cardinality(S) <= Cardinality(Documents)
BY DocumentsAssumption, FS_Subset, FS_CardinalityType

(* A request for a question takes at most one step per document of the       *)
(* corpus, one per attempt of its pipeline at a new question, and four more: *)
(* no step of anyone sends it back to retrieval, offers a candidate again or *)
(* gives it another attempt.  With the fairness of the handler this is why   *)
(* EveryRequestEnds holds.                                                   *)
THEOREM RequestsAreShort == Spec => [][ComesCloser]_vars
<1>1. ASSUME TypeOK, TypeOK', RequestInv, RequestInv', Next, pc # "idle"
      PROVE  ComesCloser
  <2> DEFINE max == MaxGenerate(work.area)
             left == ToGenerate(work)
             after == ToGenerate(work')
  <2>1. /\ work \in WorkType /\ work' \in WorkType /\ max \in Nat
        /\ left \in Nat /\ after \in Nat /\ left <= max
    <3>1. work \in WorkType /\ work' \in WorkType /\ max \in Nat
      BY <1>1, MaxGenerateIsNat DEF TypeOK
    <3>2. left \in 0 .. max
      BY <1>1, <3>1, ToGenerateIsNat DEF RequestInv
    <3>3. after \in 0 .. MaxGenerate(work'.area) /\ MaxGenerate(work'.area) \in Nat
      BY <1>1, <3>1, ToGenerateIsNat, MaxGenerateIsNat DEF RequestInv
    <3> HIDE DEF max, left, after
    <3> QED
      BY <3>1, <3>2, <3>3
  <2>2. /\ Cardinality(work.pool) \in Nat /\ Cardinality(work'.pool) \in Nat /\ Cardinality(Documents) \in Nat
        /\ IsFiniteSet(work.pool)
        /\ Cardinality(work'.pool) <= Cardinality(Documents)
    BY <2>1, PoolsAreFinite DEF WorkType
  <2>3. StepsLeft' = Left(pc', work')
    BY DEF StepsLeft
  <2>4. CASE UNCHANGED <<pc, work>>
    BY <2>4 DEF ComesCloser
  <2>5. StepsLeft \in Nat /\ StepsLeft >= 1 /\ (pc \in {"retrieve", "enrich", "generate"} => StepsLeft >= 2)
    <3> HIDE DEF max, left, after
    <3>1. pc \in {"retrieve", "enrich", "generate", "finish", "failed"}
      BY <1>1 DEF TypeOK
    <3>2. Left("retrieve", work) = Cardinality(Documents) + max + 4
      BY LeftIs DEF max
    <3>3. Left("enrich", work) = Cardinality(work.pool) + left + 3 /\ Left("generate", work) = left + 2
      BY LeftIs DEF left
    <3> QED
      BY <2>1, <2>2, <3>1, <3>2, <3>3, LeftIs DEF StepsLeft
  <2>6. CASE pc' = "idle"
    BY <2>3, <2>5, <2>6, LeftIs DEF ComesCloser
  <2>7. CASE pc' \in {"finish", "failed"} /\ pc \in {"retrieve", "enrich", "generate"}
    BY <2>3, <2>5, <2>7, LeftIs DEF ComesCloser
  <2>8. CASE Retrieve
    <3>1. /\ pc = "retrieve" /\ pc' \in {"generate", "enrich", "finish"}
          /\ work'.attempts = work.attempts /\ work'.area = work.area
      BY <2>1, <2>8 DEF Retrieve, WorkType
    <3>2. after = left
      BY <3>1 DEF ToGenerate
    <3>3. StepsLeft = Cardinality(Documents) + max + 4
      BY <3>1, LeftIs DEF StepsLeft
    <3>4. StepsLeft' \in {after + 2, Cardinality(work'.pool) + after + 3, 1}
      BY <2>3, <3>1, LeftIs
    <3> HIDE DEF max, left, after
    <3>5. StepsLeft' < StepsLeft
      BY <2>1, <2>2, <3>2, <3>3, <3>4
    <3> QED
      BY <3>5 DEF ComesCloser
  <2>9. CASE Enrich
    <3>1. pc = "enrich" /\ StepsLeft = Cardinality(work.pool) + left + 3
      BY <2>9, LeftIs DEF Enrich, StepsLeft
    <3>2. CASE pc' = "generate" /\ UNCHANGED work
      <4>1. StepsLeft' = left + 2
        BY <2>3, <3>2, LeftIs
      <4> HIDE DEF max, left, after
      <4>2. StepsLeft' < StepsLeft
        BY <2>1, <2>2, <3>1, <4>1
      <4> QED
        BY <4>2 DEF ComesCloser
    <3>3. ASSUME NEW d \in work.pool, pc' = "enrich", work' = [work EXCEPT !.pool = @ \ {d}, !.first = {}]
          PROVE  ComesCloser
      <4>1. /\ work'.pool = work.pool \ {d} /\ work'.attempts = work.attempts /\ work'.area = work.area
        BY <2>1, <3>3 DEF WorkType
      <4>2. after = left
        BY <4>1 DEF ToGenerate
      <4>3. Cardinality(work'.pool) = Cardinality(work.pool) - 1
        BY <2>2, <4>1, FS_RemoveElement
      <4>4. StepsLeft' = Cardinality(work'.pool) + after + 3
        BY <2>3, <3>3, LeftIs
      <4> HIDE DEF max, left, after
      <4>5. StepsLeft' < StepsLeft
        BY <2>1, <2>2, <3>1, <4>2, <4>3, <4>4
      <4> QED
        BY <4>5 DEF ComesCloser
    <3>4. work.first \subseteq work.pool
      BY <1>1 DEF RequestInv
    <3> QED
      BY <2>7, <2>9, <3>2, <3>3, <3>4 DEF Enrich
  <2>10. CASE Generate
    <3>1. CASE pc' = "generate" /\ work.attempts < max /\ work' = [work EXCEPT !.attempts = @ + 1]
      <4>1. pc = "generate" /\ StepsLeft = left + 2 /\ StepsLeft' = after + 2
        BY <2>3, <2>10, <3>1, LeftIs DEF Generate, StepsLeft
      <4>2. work'.attempts = work.attempts + 1 /\ work'.area = work.area
        BY <2>1, <3>1 DEF WorkType
      <4>3. left = max - work.attempts /\ after = max - (work.attempts + 1) /\ work.attempts \in Nat
        BY <2>1, <4>2 DEF ToGenerate, WorkType
      <4> HIDE DEF max, left, after
      <4>4. StepsLeft' < StepsLeft
        BY <2>1, <4>1, <4>3
      <4> QED
        BY <4>4 DEF ComesCloser
    <3>2. pc = "generate" /\ (pc' \in {"failed", "finish"} \/ pc' = "generate")
      BY <2>10 DEF Generate
    <3> QED
      BY <2>7, <2>10, <3>1, <3>2 DEF Generate
  <2>11. Supply \/ PipelineRaises \/ TestsFail \/ \E level \in Levels : OtherStart(level)
    BY <1>1 DEF Next, Start, Grade, NextClicked, NewInterview
  <2> HIDE DEF max, left, after
  <2> QED
    BY <2>4, <2>6, <2>7, <2>8, <2>9, <2>10, <2>11
       DEF Supply, PipelineRaises, TestsFail, OtherStart, Finish, Fail, Done
<1>2. TypeOK /\ TypeOK' /\ RequestInv /\ RequestInv' /\ [Next]_vars => [ComesCloser]_vars
  BY <1>1 DEF ComesCloser
<1> QED
  BY <1>2, TypesAreKept, RequestInvariance, PTL DEF Spec
=============================================================================
