--------------------------- MODULE Reasoner_proofs ---------------------------
(***************************************************************************)
(* Proofs about the memory of Reasoner, for every value of the constants:  *)
(* the evidence store, the history and the count of answers; then the      *)
(* observations and the profile that are derived from the evidence.        *)
(*                                                                         *)
(* The argument of the latter: observations are only appended or           *)
(* superseded, and superseded only by a newer one of the same type and     *)
(* question, so that what has evidence, stands or is newest stays so.      *)
(***************************************************************************)
EXTENDS Reasoner, FiniteSetTheorems, SequenceTheorems, TLAPS

-----------------------------------------------------------------------------
(* Sets as sequences.                                                        *)

(* The image of a finite set under a function is finite.                     *)
LEMMA ImageIsFinite ==
  ASSUME NEW S, IsFiniteSet(S), NEW f, DOMAIN f = S
  PROVE  IsFiniteSet({f[x] : x \in S})
<1> DEFINE T == {f[x] : x \in S}
           g == [x \in S |-> f[x]]
<1>1. g \in Surjection(S, T)
  BY DEF Surjection
<1> QED
  BY <1>1, FS_Surjection

(* SetToSeq lists elements of the set.                                       *)
LEMMA SetToSeqOfFinite ==
  ASSUME NEW S, IsFiniteSet(S)
  PROVE  SetToSeq(S) \in Seq(S)
<1> DEFINE N == Cardinality(S)
<1>1. N \in Nat /\ ExistsBijection(1 .. N, S)
  BY FS_CardinalityType
<1>2. PICK f \in [1 .. N -> S] : IsInjective(f)
  BY <1>1 DEF ExistsBijection, Bijection, Injection
<1>3. SetToSeq(S) \in [1 .. N -> S]
  BY <1>2 DEF SetToSeq
<1> QED
  BY <1>1, <1>3

(* The rank of an element of a finite set of numbers tells it from the       *)
(* others, and every rank is taken.                                          *)
LEMMA RanksAreTaken ==
  ASSUME NEW S \in SUBSET Nat, IsFiniteSet(S)
  PROVE  LET rank(k) == Cardinality({j \in S : j <= k})
         IN  /\ Cardinality(S) \in Nat
             /\ \A k \in S : rank(k) \in 1 .. Cardinality(S)
             /\ \A j, k \in S : j < k => rank(j) < rank(k)
             /\ \A n \in 1 .. Cardinality(S) : \E k \in S : rank(k) = n
<1> DEFINE N == Cardinality(S)
           Upto(k) == {j \in S : j <= k}
           rank(k) == Cardinality(Upto(k))
           f == [k \in S |-> rank(k)]
<1>1. N \in Nat
  BY FS_CardinalityType
<1>2. \A k \in S : IsFiniteSet(Upto(k)) /\ rank(k) \in Nat /\ rank(k) <= N
  <2> TAKE k \in S
  <2>1. Upto(k) \in SUBSET S
    OBVIOUS
  <2> HIDE DEF Upto
  <2> QED
    BY <2>1, FS_Subset, FS_CardinalityType
<1>3. \A k \in S : rank(k) \in 1 .. N
  <2> TAKE k \in S
  <2>1. k \in Upto(k)
    OBVIOUS
  <2> HIDE DEF Upto
  <2>2. rank(k) # 0
    BY <1>2, <2>1, FS_EmptySet
  <2> QED
    BY <1>1, <1>2, <2>2
<1>4. \A j, k \in S : j < k => rank(j) < rank(k)
  <2> SUFFICES ASSUME NEW j \in S, NEW k \in S, j < k PROVE rank(j) < rank(k)
    OBVIOUS
  <2>0. \A i \in S : i \in Nat
    OBVIOUS
  <2>1. Upto(j) \in SUBSET Upto(k) /\ k \in Upto(k) /\ k \notin Upto(j)
    <3>1. \A i \in S : i <= j => i <= k
      BY <2>0
    <3>2. k <= k /\ ~(k <= j)
      BY <2>0
    <3> QED
      BY <3>1, <3>2
  <2> HIDE DEF Upto
  <2>2. /\ Cardinality(Upto(j)) <= Cardinality(Upto(k))
        /\ Cardinality(Upto(k)) = Cardinality(Upto(j)) => Upto(k) = Upto(j)
    BY <1>2, <2>1, FS_Subset
  <2> QED
    BY <1>2, <2>1, <2>2
<1> HIDE DEF rank, Upto
<1>5. f \in Injection(S, 1 .. N)
  <2>1. f \in [S -> 1 .. N]
    BY <1>3
  <2>2. \A j, k \in S : f[j] = f[k] => j = k
    <3> SUFFICES ASSUME NEW j \in S, NEW k \in S, rank(j) = rank(k) PROVE j = k
      OBVIOUS
    <3>1. ~(rank(j) < rank(k)) /\ ~(rank(k) < rank(j))
      BY <1>2
    <3> QED
      BY <1>4, <3>1
  <2> QED
    BY <2>1, <2>2 DEF Injection, IsInjective
<1>6. IsFiniteSet(1 .. N) /\ Cardinality(1 .. N) = N
  BY <1>1, FS_Interval
<1>7. f \in Surjection(S, 1 .. N)
  <2> HIDE DEF f, N
  <2> QED
    BY <1>5, <1>6, FS_Injection DEF N
<1>8. \A n \in 1 .. N : \E k \in S : rank(k) = n
  BY <1>7 DEF Surjection
<1> QED
  BY <1>1, <1>3, <1>4, <1>8 DEF rank, Upto

(* InOrder lists all the places, and nothing else.                           *)
LEMMA InOrderLists ==
  ASSUME NEW S \in SUBSET Nat, IsFiniteSet(S)
  PROVE  /\ InOrder(S) \in Seq(S)
         /\ \A k \in S : \E n \in DOMAIN InOrder(S) : InOrder(S)[n] = k
<1> DEFINE N == Cardinality(S)
           rank(k) == Cardinality({j \in S : j <= k})
           place(n) == CHOOSE k \in S : rank(k) = n
           s == [n \in 1 .. N |-> place(n)]
<1>1. /\ N \in Nat
      /\ \A k \in S : rank(k) \in 1 .. N
      /\ \A j, k \in S : j < k => rank(j) < rank(k)
      /\ \A n \in 1 .. N : \E k \in S : rank(k) = n
  BY RanksAreTaken
<1>2. InOrder(S) = s
  BY DEF InOrder
<1> HIDE DEF rank, N
<1>3. \A n \in 1 .. N : place(n) \in S /\ rank(place(n)) = n
  BY <1>1
<1>4. \A k \in S : place(rank(k)) = k
  <2> TAKE k \in S
  <2>1. rank(k) \in 1 .. N
    BY <1>1
  <2>2. place(rank(k)) \in S /\ rank(place(rank(k))) = rank(k)
    BY <1>3, <2>1
  <2> DEFINE p == place(rank(k))
  <2>3. p \in Nat /\ k \in Nat /\ ~(p < k) /\ ~(k < p)
    <3>1. p \in S /\ rank(p) = rank(k) /\ rank(k) \in Nat
      BY <2>1, <2>2
    <3> HIDE DEF p
    <3> QED
      BY <1>1, <3>1
  <2> HIDE DEF p
  <2>4. p = k
    BY <2>3
  <2> QED
    BY <2>4 DEF p
<1> HIDE DEF place
<1>5. s \in Seq(S)
  BY <1>1, <1>3
<1>6. DOMAIN s = 1 .. N
  OBVIOUS
<1>7. \A k \in S : \E n \in DOMAIN s : s[n] = k
  BY <1>1, <1>4, <1>6
<1> QED
  BY <1>2, <1>5, <1>7

-----------------------------------------------------------------------------
(* The detectors.                                                            *)

(* What a detector may make of a store, and what it may return: a signal of  *)
(* the current question, of a dimension without signals if it reports one    *)
(* missing; and, returned, of a key the store does not have.                 *)
Makeable(store) ==
  {s \in Signal : /\ s.source = "PATTERN_DETECTOR"
                  /\ s.index = question
                  /\ s.type = "MISSING_EVIDENCE" =>
                       \A k \in DOMAIN store : store[k].dim # s.dim}

Derived(store) == {s \in Makeable(store) : Key(s) \notin Keys(store)}

(* filter_new_signals returns derived signals of new keys only.              *)
LEMMA FilterNewIsNew ==
  ASSUME NEW store, NEW D, IsFiniteSet(D),
         NEW found \in [D -> Makeable(store)]
  PROVE  FilterNew(store, found) \in Seq(Derived(store))
<1> DEFINE R == {x \in D : Key(found[x]) \notin Keys(store)}
           new == SetToSeq(R)
           out == [k \in DOMAIN new |-> found[new[k]]]
<1>1. IsFiniteSet(R)
  BY FS_Subset
<1>2. new \in Seq(R)
  BY <1>1, SetToSeqOfFinite
<1> HIDE DEF new, R
<1>3. DOMAIN new = 1 .. Len(new) /\ Len(new) \in Nat /\ \A k \in 1 .. Len(new) : new[k] \in R
  BY <1>2, LenProperties, ElementOfSeq
<1>4. \A k \in 1 .. Len(new) : out[k] \in Derived(store)
  BY <1>3 DEF Derived, R
<1>5. out \in Seq(Derived(store))
  BY <1>3, <1>4, IsASeq
<1>6. DOMAIN found = D
  OBVIOUS
<1> QED
  BY <1>5, <1>6 DEF FilterNew, new, R

(* Any detector may make any signal that reports nothing missing.            *)
LEMMA DetectedIsMakeable ==
  ASSUME NEW store, NEW type \in SignalType \ {"MISSING_EVIDENCE"},
         NEW dim \in Dimensions, NEW positive \in BOOLEAN, question \in Nat
  PROVE  Detected(type, dim, positive) \in Makeable(store)
BY DEF Detected, Signal, Makeable

LEMMA BridgedIsNew ==
  ASSUME NEW store \in Seq(Signal), question \in Nat
  PROVE  Bridged(store) \in Seq(Derived(store))
<1> DEFINE recent == {k \in DOMAIN store : /\ store[k].source = "EVALUATION"
                                           /\ store[k].type \in Bridgeable
                                           /\ store[k].index \in question - Window + 1 .. question}
           f == [k \in recent |-> <<store[k].type, store[k].dim>>]
           kinds == {<<store[k].type, store[k].dim>> : k \in recent}
           found == [t \in kinds |-> Detected(t[1], t[2], FALSE)]
<1>1. DOMAIN store = 1 .. Len(store) /\ Len(store) \in Nat
  BY LenProperties
<1>2. IsFiniteSet(recent)
  <2>1. IsFiniteSet(1 .. Len(store))
    BY <1>1, FS_Interval
  <2> QED
    BY <1>1, <2>1, FS_Subset
<1>3. IsFiniteSet(kinds)
  <2>1. kinds = {f[k] : k \in recent} /\ DOMAIN f = recent
    OBVIOUS
  <2> HIDE DEF f, recent, kinds
  <2> QED
    BY <1>2, <2>1, ImageIsFinite
<1>4. \A t \in kinds : t[1] \in SignalType \ {"MISSING_EVIDENCE"} /\ t[2] \in Dimensions
  <2>1. \A k \in recent : store[k] \in Signal
    BY ElementOfSeq, <1>1
  <2> QED
    BY <2>1 DEF Signal, Bridgeable
<1>5. found \in [kinds -> Makeable(store)]
  BY <1>4, DetectedIsMakeable
<1> HIDE DEF found, kinds
<1>6. FilterNew(store, found) \in Seq(Derived(store))
  BY <1>3, <1>5, FilterNewIsNew
<1> QED
  BY <1>6 DEF found, kinds, Bridged

LEMMA CoverageIsNew ==
  ASSUME NEW store \in Seq(Signal), question \in Nat
  PROVE  Coverage(store) \in Seq(Derived(store))
<1> DEFINE Having(n) == {d \in Dimensions : Count(store, d) = n}
           missing == [d \in Having(0) |-> Detected("MISSING_EVIDENCE", d, FALSE)]
           under == [d \in Having(1) |-> Detected("REPEATED_WEAKNESS", d, FALSE)]
<1>1. IsFiniteSet(Having(0)) /\ IsFiniteSet(Having(1))
  BY FS_Subset, ConstantsAssumption DEF ConstantsAssumption
<1>2. /\ missing \in [Having(0) -> Makeable(store)]
      /\ under \in [Having(1) -> Makeable(store)]
  <2>1. ASSUME NEW d \in Having(0)
        PROVE  Detected("MISSING_EVIDENCE", d, FALSE) \in Makeable(store)
    <3> DEFINE about == {k \in DOMAIN store : store[k].dim = d}
    <3>1. DOMAIN store = 1 .. Len(store) /\ Len(store) \in Nat
      BY LenProperties
    <3>2. IsFiniteSet(about)
      <4>1. IsFiniteSet(1 .. Len(store))
        BY <3>1, FS_Interval
      <4> QED
        BY <3>1, <4>1, FS_Subset
    <3>3. Cardinality(about) = 0
      BY <2>1 DEF Count
    <3>4. about = {}
      BY <3>2, <3>3, FS_EmptySet
    <3> QED
      BY <2>1, <3>4 DEF Detected, Signal, Makeable, SignalType
  <2>2. \A d \in Having(1) : Detected("REPEATED_WEAKNESS", d, FALSE) \in Makeable(store)
    BY DetectedIsMakeable DEF SignalType
  <2> QED
    BY <2>1, <2>2
<1> HIDE DEF Having, missing, under
<1>3. /\ FilterNew(store, missing) \in Seq(Derived(store))
      /\ FilterNew(store, under) \in Seq(Derived(store))
  BY <1>1, <1>2, FilterNewIsNew
<1>4. FilterNew(store, missing) \o FilterNew(store, under) \in Seq(Derived(store))
  BY <1>3, ConcatProperties
<1> QED
  BY <1>4 DEF Coverage, Having, missing, under

LEMMA ConsistencyIsNew ==
  ASSUME NEW store \in Seq(Signal), question \in Nat
  PROVE  Consistency(store) \in Seq(Derived(store))
<1> DEFINE dups == Duplicated(store)
           cons == Contradicted(store)
           drops == {d \in Dimensions : ConfidenceDropped}
           S == Makeable(store)
           fd == [b \in dups |-> Detected("REPEATED_WEAKNESS", b[1], FALSE)]
           fc == [c \in cons |-> Detected("CONTRADICTORY_ANSWER", c[1], FALSE)]
           fx == [d \in drops |-> Detected("CONFIDENCE_DROP", d, FALSE)]
<1>1. /\ DOMAIN store = 1 .. Len(store) /\ Len(store) \in Nat
      /\ \A k \in DOMAIN store : store[k] \in Signal
  BY LenProperties, ElementOfSeq
<1>2. IsFiniteSet(DOMAIN store)
  BY <1>1, FS_Interval
<1>3. IsFiniteSet(dups) /\ \A b \in dups : b[1] \in Dimensions
  <2> DEFINE K == {k \in DOMAIN store :
                     \E j \in DOMAIN store : j # k /\ Bucket(store[j]) = Bucket(store[k])}
             f == [k \in K |-> Bucket(store[k])]
  <2>1. IsFiniteSet(K)
    BY <1>2, FS_Subset
  <2>2. dups = {f[k] : k \in K} /\ DOMAIN f = K
    BY DEF Duplicated
  <2>3. \A k \in K : Bucket(store[k])[1] \in Dimensions
    BY <1>1 DEF Bucket, Signal
  <2>4. \A x \in dups : x[1] \in Dimensions
    BY <2>2, <2>3
  <2> HIDE DEF f, K, dups
  <2>5. IsFiniteSet(dups)
    BY <2>1, <2>2, ImageIsFinite
  <2> QED
    BY <2>4, <2>5
<1>4. IsFiniteSet(cons) /\ \A c \in cons : c[1] \in Dimensions
  <2> DEFINE K == {k \in DOMAIN store :
                     store[k].positive /\ \E j \in DOMAIN store :
                       /\ ~store[j].positive
                       /\ store[j].dim = store[k].dim /\ store[j].index = store[k].index}
             f == [k \in K |-> <<store[k].dim, store[k].index>>]
  <2>1. IsFiniteSet(K)
    BY <1>2, FS_Subset
  <2>2. cons = {f[k] : k \in K} /\ DOMAIN f = K
    BY DEF Contradicted
  <2>3. \A k \in K : <<store[k].dim, store[k].index>>[1] \in Dimensions
    BY <1>1 DEF Signal
  <2>4. \A x \in cons : x[1] \in Dimensions
    BY <2>2, <2>3
  <2> HIDE DEF f, K, cons
  <2>5. IsFiniteSet(cons)
    BY <2>1, <2>2, ImageIsFinite
  <2> QED
    BY <2>4, <2>5
<1>5. IsFiniteSet(drops)
  BY FS_Subset, ConstantsAssumption DEF ConstantsAssumption
<1> HIDE DEF dups, cons, drops
<1>6. fd \in [dups -> S] /\ fc \in [cons -> S] /\ fx \in [drops -> S]
  <2>1. \A b \in dups : Detected("REPEATED_WEAKNESS", b[1], FALSE) \in S
    BY <1>3, DetectedIsMakeable DEF SignalType
  <2>2. \A c \in cons : Detected("CONTRADICTORY_ANSWER", c[1], FALSE) \in S
    BY <1>4, DetectedIsMakeable DEF SignalType
  <2>3. \A d \in drops : Detected("CONFIDENCE_DROP", d, FALSE) \in S
    BY DetectedIsMakeable DEF SignalType, drops
  <2> QED
    BY <2>1, <2>2, <2>3
<1> HIDE DEF fd, fc, fx
<1>7. /\ FilterNew(store, fd) \in Seq(Derived(store))
      /\ FilterNew(store, fc) \in Seq(Derived(store))
      /\ FilterNew(store, fx) \in Seq(Derived(store))
  BY <1>3, <1>4, <1>5, <1>6, FilterNewIsNew
<1>8. FilterNew(store, fd) \o FilterNew(store, fc) \in Seq(Derived(store))
  BY <1>7, ConcatProperties
<1>9. (FilterNew(store, fd) \o FilterNew(store, fc)) \o FilterNew(store, fx) \in Seq(Derived(store))
  BY <1>7, <1>8, ConcatProperties
<1> QED
  BY <1>9 DEF Consistency, fd, fc, fx, dups, cons, drops

(* Whatever the detectors find, a cycle derives signals of new keys only.    *)
LEMMA NewEvidenceIsNew ==
  ASSUME NEW store \in Seq(Signal), NEW patterns \in SUBSET Patterns, question \in Nat
  PROVE  NewEvidence(store, patterns) \in Seq(Derived(store))
<1> DEFINE found == [p \in patterns |-> Detected(p.type, p.dim, p.positive)]
<1>1. IsFiniteSet(patterns)
  BY FS_Subset, PatternsAssumption DEF PatternsAssumption
<1>2. found \in [patterns -> Makeable(store)]
  <2>1. \A p \in patterns : p.type \in SignalType \ {"MISSING_EVIDENCE"} /\ p.dim \in Dimensions /\ p.positive \in BOOLEAN
    BY PatternsAssumption DEF PatternsAssumption
  <2> QED
    BY <2>1, DetectedIsMakeable
<1> HIDE DEF found
<1>3. FilterNew(store, found) \in Seq(Derived(store))
  BY <1>1, <1>2, FilterNewIsNew
<1>4. Others(store, patterns) \in Seq(Derived(store))
  BY <1>3 DEF Others, found
<1>5. Bridged(store) \o Coverage(store) \in Seq(Derived(store))
  BY BridgedIsNew, CoverageIsNew, ConcatProperties
<1>6. (Bridged(store) \o Coverage(store)) \o Consistency(store) \in Seq(Derived(store))
  BY <1>5, ConsistencyIsNew, ConcatProperties
<1>7. ((Bridged(store) \o Coverage(store)) \o Consistency(store)) \o Others(store, patterns)
        \in Seq(Derived(store))
  BY <1>4, <1>6, ConcatProperties
<1> QED
  BY <1>7 DEF NewEvidence

-----------------------------------------------------------------------------
(* The evidence store.                                                       *)

(* t is s with elements of S appended, within the capacity.                  *)
Grown(s, t, S) ==
  /\ t \in Seq(Signal)
  /\ Len(t) <= MaxSignals
  /\ Len(s) <= Len(t)
  /\ \A k \in 1 .. Len(s) : t[k] = s[k]
  /\ \A k \in Len(s) + 1 .. Len(t) : t[k] \in S

LEMMA GrownTwice ==
  ASSUME NEW s \in Seq(Signal), NEW t, NEW u, NEW S, Grown(s, t, S), Grown(t, u, S)
  PROVE  Grown(s, u, S)
<1>1. Len(s) \in Nat /\ Len(t) \in Nat /\ Len(u) \in Nat
  BY LenProperties DEF Grown
<1>2. \A k \in Len(s) + 1 .. Len(u) : u[k] \in S
  <2> TAKE k \in Len(s) + 1 .. Len(u)
  <2>1. CASE k <= Len(t)
    BY <1>1, <2>1 DEF Grown
  <2>2. CASE k > Len(t)
    BY <1>1, <2>2 DEF Grown
  <2> QED
    BY <1>1, <2>1, <2>2
<1>3. \A k \in 1 .. Len(s) : u[k] = s[k]
  BY <1>1 DEF Grown
<1>4. Len(s) <= Len(u)
  BY <1>1 DEF Grown
<1> QED
  BY <1>2, <1>3, <1>4 DEF Grown

(* EvidenceStore.append keeps what is there and stops at the capacity.       *)
LEMMA AppendAllGrows ==
  ASSUME NEW store \in Seq(Signal), Len(store) <= MaxSignals,
         NEW S \in SUBSET Signal, NEW new \in Seq(S)
  PROVE  /\ Grown(store, AppendAll(store, new), S)
         /\ Len(AppendAll(store, new)) <= Len(store) + Len(new)
<1> DEFINE n == IF Len(new) <= Room(store) THEN Len(new) ELSE Room(store)
           part == SubSeq(new, 1, n)
<1>1. Len(store) \in Nat /\ Len(new) \in Nat /\ MaxSignals \in Nat
  BY LenProperties, ConstantsAssumption DEF ConstantsAssumption
<1>2. n \in 0 .. Len(new) /\ Len(store) + n <= MaxSignals
  BY <1>1 DEF Room
<1> HIDE DEF n
<1>3. \A k \in 1 .. n : new[k] \in S
  BY <1>1, <1>2, ElementOfSeq
<1>4. part \in Seq(S) /\ Len(part) = n
  BY <1>2, <1>3, SubSeqProperties
<1>5. part \in Seq(Signal)
  BY <1>4, SeqMonotonic
<1>6. \A k \in 1 .. n : part[k] \in S
  BY <1>4, ElementOfSeq
<1> HIDE DEF part
<1>7. /\ store \o part \in Seq(Signal)
      /\ Len(store \o part) = Len(store) + n
      /\ \A i \in 1 .. Len(store) + n :
           (store \o part)[i] = IF i <= Len(store) THEN store[i] ELSE part[i - Len(store)]
  BY <1>4, <1>5, ConcatProperties
<1>8. \A k \in 1 .. Len(store) : (store \o part)[k] = store[k]
  BY <1>1, <1>2, <1>7
<1>9. \A k \in Len(store) + 1 .. Len(store) + n : (store \o part)[k] \in S
  <2> TAKE k \in Len(store) + 1 .. Len(store) + n
  <2>1. k - Len(store) \in 1 .. n /\ k \in 1 .. Len(store) + n /\ ~(k <= Len(store))
    BY <1>1, <1>2
  <2> QED
    BY <1>6, <1>7, <2>1
<1>10. Grown(store, store \o part, S)
  BY <1>1, <1>2, <1>7, <1>8, <1>9 DEF Grown
<1> QED
  BY <1>1, <1>2, <1>7, <1>10 DEF AppendAll, part, n

(* The signals of a cycle are appended once and again.                       *)
LEMMA PropagatedGrows ==
  ASSUME NEW store \in Seq(Signal), Len(store) <= MaxSignals,
         NEW S \in SUBSET Signal, NEW new \in Seq(S)
  PROVE  Grown(store, Propagated(store, new), S)
<1> DEFINE once == AppendAll(store, new)
<1>1. Grown(store, once, S)
  BY AppendAllGrows
<1>2. once \in Seq(Signal) /\ Len(once) <= MaxSignals
  BY <1>1 DEF Grown
<1> HIDE DEF once
<1>3. Grown(once, AppendAll(once, new), S)
  BY <1>2, AppendAllGrows
<1> QED
  BY <1>1, <1>3, GrownTwice DEF Propagated, once

(* What the interview shows the reasoner.                                    *)
Position ==
  /\ screen \in {"setup", "question", "feedback"}
  /\ question \in Slots
  /\ asked \in {question, question + 1}
  /\ grades \in [Slots -> Grade]

StoreOK ==
  /\ signals \in Seq(Signal)
  /\ Len(signals) <= MaxSignals

NewEvaluation ==
  {s \in Signal : /\ s.source = "EVALUATION"
                  /\ s.index = question
                  /\ s.type # "MISSING_EVIDENCE"
                  /\ ~HasEvaluation(signals, question)}

(* The writer appends one evaluation or none.                                *)
LEMMA InjectedGrows ==
  ASSUME Position, StoreOK, NEW results \in [Slots -> Grade]
  PROVE  /\ Grown(signals, Injected(results), NewEvaluation)
         /\ Len(Injected(results)) <= Len(signals) + 1
<1>1. Len(signals) \in Nat /\ Questions \in Nat
  BY LenProperties, ConstantsAssumption DEF StoreOK, ConstantsAssumption
<1>2. CASE Injected(results) = signals
  BY <1>1, <1>2 DEF Grown, StoreOK
<1>3. CASE ~(asked = 0 \/ results[asked - 1] \in {"none", "strong"} \/ HasEvaluation(signals, question))
  <2> DEFINE band == results[asked - 1]
             one == <<Evaluated(band)>>
  <2>1. asked - 1 \in Slots
    BY <1>1, <1>3 DEF Position, Slots
  <2>2. band \in {"severe", "weak", "partial"}
    BY <1>3, <2>1 DEF Grade, Band
  <2>3. GapType[band] \in SignalType \ {"MISSING_EVIDENCE"}
    BY <2>2 DEF GapType, SignalType, Bridgeable
  <2>4. question \in Nat
    BY <1>1 DEF Position, Slots
  <2>5. Evaluated(band) \in NewEvaluation
    BY <1>3, <2>3, <2>4, ConstantsAssumption
       DEF Evaluated, NewEvaluation, Signal, ConstantsAssumption
  <2>6. one \in Seq(NewEvaluation) /\ Len(one) = 1
    BY <2>5
  <2>7. NewEvaluation \in SUBSET Signal
    BY DEF NewEvaluation
  <2>8. Injected(results) = AppendAll(signals, one)
    BY <1>3 DEF Injected
  <2> HIDE DEF one
  <2> QED
    BY <2>6, <2>7, <2>8, AppendAllGrows DEF StoreOK
<1> QED
  BY <1>2, <1>3 DEF Injected

(* What a whole cycle does to the store: at most one evaluation of a         *)
(* question that had none, then signals that an earlier cycle has not        *)
(* derived.                                                                  *)
Cycled(s, t) ==
  \E j \in Seq(Signal) :
    /\ Grown(s, j, NewEvaluation)
    /\ Len(j) <= Len(s) + 1
    /\ Grown(j, t, Derived(j))

LEMMA ReasonCycles ==
  ASSUME Position, StoreOK, NEW results \in [Slots -> Grade], Reason(results)
  PROVE  Cycled(signals, signals')
<1> PICK patterns \in SUBSET Patterns :
         signals' = Propagated(Injected(results), NewEvidence(Injected(results), patterns))
  BY DEF Reason
<1> DEFINE j == Injected(results)
<1>1. Grown(signals, j, NewEvaluation) /\ Len(j) <= Len(signals) + 1
  BY InjectedGrows
<1>2. j \in Seq(Signal) /\ Len(j) <= MaxSignals
  BY <1>1 DEF Grown
<1>3. question \in Nat
  BY ConstantsAssumption DEF Position, Slots, ConstantsAssumption
<1> HIDE DEF j
<1>4. NewEvidence(j, patterns) \in Seq(Derived(j))
  BY <1>2, <1>3, NewEvidenceIsNew
<1>5. Derived(j) \in SUBSET Signal
  BY DEF Derived, Makeable
<1>6. Grown(j, Propagated(j, NewEvidence(j, patterns)), Derived(j))
  BY <1>2, <1>4, <1>5, PropagatedGrows
<1>7. signals' = Propagated(j, NewEvidence(j, patterns))
  BY DEF j
<1> QED
  BY <1>1, <1>2, <1>6, <1>7 DEF Cycled

LEMMA FailureCycles ==
  ASSUME Position, StoreOK, NEW results \in [Slots -> Grade], ReasonerFails(results)
  PROVE  Cycled(signals, signals')
<1> DEFINE j == Injected(results)
<1>1. Grown(signals, j, NewEvaluation) /\ Len(j) <= Len(signals) + 1
  BY InjectedGrows
<1>2. signals' = j
  BY DEF ReasonerFails
<1> HIDE DEF j
<1>3. j \in Seq(Signal) /\ Len(j) \in Nat /\ Len(j) <= MaxSignals
  BY <1>1, LenProperties DEF Grown
<1>4. Grown(j, j, Derived(j))
  BY <1>3 DEF Grown
<1> QED
  BY <1>1, <1>2, <1>3, <1>4 DEF Cycled

(* The keys a cycle adds are new, and an index gets no second evaluation.    *)
LEMMA CycleIsSettled ==
  ASSUME StoreOK, NEW t, Cycled(signals, t)
  PROVE  /\ t \in Seq(Signal) /\ Len(t) <= MaxSignals /\ Len(signals) <= Len(t)
         /\ \A k \in 1 .. Len(signals) : t[k] = signals[k]
         /\ \A k \in Len(signals) + 1 .. Len(t) :
              /\ Key(t[k]) \notin Keys(signals)
              /\ t[k].source = "EVALUATION" =>
                   /\ k = Len(signals) + 1
                   /\ ~HasEvaluation(signals, t[k].index)
              /\ t[k].type = "MISSING_EVIDENCE" =>
                   /\ t[k].index = question
                   /\ \A n \in 1 .. Len(signals) : signals[n].dim # t[k].dim
<1> PICK j \in Seq(Signal) : /\ Grown(signals, j, NewEvaluation)
                             /\ Len(j) <= Len(signals) + 1
                             /\ Grown(j, t, Derived(j))
  BY DEF Cycled
<1>1. Len(signals) \in Nat /\ Len(j) \in Nat /\ t \in Seq(Signal) /\ Len(t) \in Nat
  BY LenProperties DEF StoreOK, Grown
<1>2. /\ Len(t) <= MaxSignals /\ Len(signals) <= Len(j) /\ Len(j) <= Len(t)
      /\ \A k \in 1 .. Len(signals) : j[k] = signals[k]
      /\ \A k \in 1 .. Len(j) : t[k] = j[k]
      /\ \A k \in Len(signals) + 1 .. Len(j) : j[k] \in NewEvaluation
      /\ \A k \in Len(j) + 1 .. Len(t) : t[k] \in Derived(j)
  BY DEF Grown
<1>3. DOMAIN signals = 1 .. Len(signals) /\ DOMAIN j = 1 .. Len(j)
  BY LenProperties DEF StoreOK
<1>4. Keys(signals) \subseteq Keys(j)
  BY <1>1, <1>2, <1>3 DEF Keys
<1>5. ASSUME NEW k \in Len(signals) + 1 .. Len(t)
      PROVE  /\ Key(t[k]) \notin Keys(signals)
             /\ t[k].source = "EVALUATION" =>
                  /\ k = Len(signals) + 1
                  /\ ~HasEvaluation(signals, t[k].index)
             /\ t[k].type = "MISSING_EVIDENCE" =>
                  /\ t[k].index = question
                  /\ \A n \in 1 .. Len(signals) : signals[n].dim # t[k].dim
  <2>1. CASE k <= Len(j)
    <3>1. t[k] \in NewEvaluation /\ k = Len(signals) + 1
      BY <1>1, <1>2, <2>1
    <3>2. /\ t[k].source = "EVALUATION" /\ t[k].index = question
          /\ t[k].type # "MISSING_EVIDENCE" /\ ~HasEvaluation(signals, question)
      BY <3>1 DEF NewEvaluation
    <3>3. Key(t[k]) \notin Keys(signals)
      BY <1>3, <3>2 DEF Key, Keys, HasEvaluation
    <3> QED
      BY <3>1, <3>2, <3>3
  <2>2. CASE k > Len(j)
    <3>1. t[k] \in Derived(j)
      BY <1>1, <1>2, <2>2
    <3>2. \A n \in 1 .. Len(signals) : n \in DOMAIN j /\ signals[n] = j[n]
      BY <1>1, <1>2, <1>3
    <3> QED
      BY <1>4, <3>1, <3>2 DEF Derived, Makeable
  <2> QED
    BY <1>1, <2>1, <2>2
<1> QED
  BY <1>1, <1>2, <1>5

LEMMA CycleKeepsOneEvaluation ==
  ASSUME StoreOK, OneEvaluationPerIndex, Cycled(signals, signals')
  PROVE  StoreOK' /\ OneEvaluationPerIndex'
<1>1. /\ signals' \in Seq(Signal) /\ Len(signals') <= MaxSignals
      /\ Len(signals) <= Len(signals')
      /\ \A k \in 1 .. Len(signals) : signals'[k] = signals[k]
      /\ \A k \in Len(signals) + 1 .. Len(signals') :
           signals'[k].source = "EVALUATION" =>
             k = Len(signals) + 1 /\ ~HasEvaluation(signals, signals'[k].index)
  BY CycleIsSettled
<1>2. /\ Len(signals) \in Nat /\ Len(signals') \in Nat
      /\ DOMAIN signals = 1 .. Len(signals) /\ DOMAIN signals' = 1 .. Len(signals')
  BY <1>1, LenProperties DEF StoreOK
<1>3. ASSUME NEW i \in DOMAIN signals', NEW j \in DOMAIN signals',
             signals'[i].source = "EVALUATION", signals'[j].source = "EVALUATION",
             signals'[i].index = signals'[j].index
      PROVE  i = j
  <2>1. CASE i <= Len(signals) /\ j <= Len(signals)
    BY <1>1, <1>2, <1>3, <2>1 DEF OneEvaluationPerIndex
  <2>2. CASE i <= Len(signals) /\ j > Len(signals)
    <3>1. i \in DOMAIN signals /\ signals[i] = signals'[i]
      BY <1>1, <1>2, <2>2
    <3>2. ~HasEvaluation(signals, signals'[j].index)
      BY <1>1, <1>2, <1>3, <2>2
    <3> QED
      BY <1>3, <3>1, <3>2 DEF HasEvaluation
  <2>3. CASE i > Len(signals) /\ j <= Len(signals)
    <3>1. j \in DOMAIN signals /\ signals[j] = signals'[j]
      BY <1>1, <1>2, <2>3
    <3>2. ~HasEvaluation(signals, signals'[i].index)
      BY <1>1, <1>2, <1>3, <2>3
    <3> QED
      BY <1>3, <3>1, <3>2 DEF HasEvaluation
  <2>4. CASE i > Len(signals) /\ j > Len(signals)
    BY <1>1, <1>2, <1>3, <2>4
  <2> QED
    BY <1>2, <2>1, <2>2, <2>3, <2>4
<1> QED
  BY <1>1, <1>3 DEF StoreOK, OneEvaluationPerIndex

(* A dimension that is reported missing has no signal yet.                   *)
LEMMA CycleReportsMissingOnce ==
  ASSUME StoreOK, MissingIsReportedOnce, Cycled(signals, signals')
  PROVE  MissingIsReportedOnce'
<1>1. /\ signals' \in Seq(Signal)
      /\ \A k \in 1 .. Len(signals) : signals'[k] = signals[k]
      /\ \A k \in Len(signals) + 1 .. Len(signals') :
           signals'[k].type = "MISSING_EVIDENCE" =>
             /\ signals'[k].index = question
             /\ \A n \in 1 .. Len(signals) : signals[n].dim # signals'[k].dim
  BY CycleIsSettled
<1>2. /\ Len(signals) \in Nat /\ Len(signals') \in Nat
      /\ DOMAIN signals = 1 .. Len(signals) /\ DOMAIN signals' = 1 .. Len(signals')
  BY <1>1, LenProperties DEF StoreOK
<1>3. ASSUME NEW i \in DOMAIN signals', NEW j \in DOMAIN signals',
             signals'[i].type = "MISSING_EVIDENCE", signals'[j].type = "MISSING_EVIDENCE",
             signals'[i].dim = signals'[j].dim
      PROVE  signals'[i].index = signals'[j].index
  <2>1. CASE i <= Len(signals) /\ j <= Len(signals)
    <3>1. /\ i \in DOMAIN signals /\ signals[i] = signals'[i]
          /\ j \in DOMAIN signals /\ signals[j] = signals'[j]
      BY <1>1, <1>2, <2>1
    <3> QED
      BY <1>3, <3>1 DEF MissingIsReportedOnce
  <2>2. CASE i <= Len(signals) /\ j > Len(signals)
    <3>1. i \in 1 .. Len(signals) /\ j \in Len(signals) + 1 .. Len(signals')
      BY <1>2, <2>2
    <3> QED
      BY <1>1, <1>3, <3>1
  <2>3. CASE i > Len(signals) /\ j <= Len(signals)
    <3>1. j \in 1 .. Len(signals) /\ i \in Len(signals) + 1 .. Len(signals')
      BY <1>2, <2>3
    <3> QED
      BY <1>1, <1>3, <3>1
  <2>4. CASE i > Len(signals) /\ j > Len(signals)
    <3>1. i \in Len(signals) + 1 .. Len(signals') /\ j \in Len(signals) + 1 .. Len(signals')
      BY <1>2, <2>4
    <3> QED
      BY <1>1, <1>3, <3>1
  <2> QED
    BY <1>2, <2>1, <2>2, <2>3, <2>4
<1> QED
  BY <1>3 DEF MissingIsReportedOnce

-----------------------------------------------------------------------------
(* The evidence invariant: where the interview is, and the store.            *)
EvidenceInv == Position /\ StoreOK /\ OneEvaluationPerIndex /\ MissingIsReportedOnce

LEMMA EvidenceInit == Init => EvidenceInv
<1> SUFFICES ASSUME Init PROVE EvidenceInv
  OBVIOUS
<1>1. Questions \in Nat \ {0} /\ MaxSignals \in Nat
  BY ConstantsAssumption DEF ConstantsAssumption
<1>2. Position
  BY <1>1 DEF Init, NoInterview, Position, Slots, Grade
<1>3. signals = <<>>
  BY DEF Init
<1> QED
  BY <1>1, <1>2, <1>3 DEF EvidenceInv, StoreOK, OneEvaluationPerIndex, MissingIsReportedOnce

(* Every step runs a cycle, or leaves the evidence alone, or begins a new    *)
(* interview with none.                                                      *)
LEMMA StepOfEvidence ==
  ASSUME EvidenceInv, [Next]_vars
  PROVE  /\ Position'
         /\ \/ Cycled(signals, signals')
            \/ signals' = signals
            \/ signals' = <<>>
<1>0. Questions \in Nat \ {0} /\ question \in Nat
  BY ConstantsAssumption DEF EvidenceInv, Position, Slots, ConstantsAssumption
<1> USE DEF EvidenceInv
<1>1. CASE Start
  <2>1. Position'
    BY <1>1 DEF Start, Position
  <2>2. CASE Skip
    BY <2>1, <2>2 DEF Skip
  <2>3. CASE ReasonerFails(grades)
    BY <2>1, <2>3, FailureCycles DEF Position
  <2> QED
    BY <1>1, <2>2, <2>3 DEF Start
<1>2. ASSUME NEW band \in Band, GradeAnswer(band)
      PROVE  Position' /\ Cycled(signals, signals')
  <2>1. grades' \in [Slots -> Grade]
    BY <1>2 DEF GradeAnswer, Position, Grade
  <2>2. Position'
    BY <1>2, <2>1 DEF GradeAnswer, Position
  <2>3. CASE Reason(grades')
    BY <2>1, <2>2, <2>3, ReasonCycles
  <2>4. CASE ReasonerFails(grades')
    BY <2>1, <2>2, <2>4, FailureCycles
  <2> QED
    BY <1>2, <2>3, <2>4 DEF GradeAnswer
<1>3. CASE GradingFails
  BY <1>3 DEF GradingFails, Position, memory
<1>4. CASE Retry
  BY <1>4 DEF Retry, Position, memory, Grade
<1>5. CASE NextQuestion
  BY <1>0, <1>5 DEF NextQuestion, Position, memory
<1>6. CASE NextQuestionFails
  BY <1>6 DEF NextQuestionFails, Position, memory
<1>7. CASE NewInterview
  BY <1>0, <1>7 DEF NewInterview, Position, Slots, Grade
<1>8. CASE UNCHANGED vars
  BY <1>8 DEF vars, interview, memory, Position
<1> QED
  BY <1>1, <1>2, <1>3, <1>4, <1>5, <1>6, <1>7, <1>8 DEF Next

LEMMA EvidenceStep == EvidenceInv /\ [Next]_vars => EvidenceInv'
<1> SUFFICES ASSUME EvidenceInv, [Next]_vars PROVE EvidenceInv'
  OBVIOUS
<1>1. Position'
  BY StepOfEvidence
<1>2. CASE Cycled(signals, signals')
  BY <1>1, <1>2, CycleKeepsOneEvaluation, CycleReportsMissingOnce DEF EvidenceInv
<1>3. CASE signals' = signals
  BY <1>1, <1>3 DEF EvidenceInv, StoreOK, OneEvaluationPerIndex, MissingIsReportedOnce
<1>4. CASE signals' = <<>>
  BY <1>1, <1>4, ConstantsAssumption
     DEF EvidenceInv, StoreOK, OneEvaluationPerIndex, MissingIsReportedOnce, ConstantsAssumption
<1> QED
  BY <1>2, <1>3, <1>4, StepOfEvidence

LEMMA EvidenceIsInvariant == Spec => []EvidenceInv
BY EvidenceInit, EvidenceStep, PTL DEF Spec

(* However often an answer is graded again and the reasoner fails, an index  *)
(* has at most one evaluation in the store (write_evaluation_signals).       *)
THEOREM EvaluatedOnce == Spec => []OneEvaluationPerIndex
<1>1. EvidenceInv => OneEvaluationPerIndex
  BY DEF EvidenceInv
<1> QED
  BY <1>1, EvidenceIsInvariant, PTL

(* A dimension is reported as missing evidence at one question only: the     *)
(* report counts as evidence (CoverageDetector.detect).                      *)
THEOREM MissingOnce == Spec => []MissingIsReportedOnce
<1>1. EvidenceInv => MissingIsReportedOnce
  BY DEF EvidenceInv
<1> QED
  BY <1>1, EvidenceIsInvariant, PTL

(* The store only grows, and only by signals of keys it did not have         *)
(* (filter_new_signals), for any number of detectors' patterns.              *)
THEOREM EvidenceIsSettled == Spec => KeysAreSettled
<1> DEFINE A == \/ signals' = <<>>
                \/ /\ IsPrefix(signals, signals')
                   /\ \A k \in DOMAIN signals' \ DOMAIN signals :
                        Key(signals'[k]) \notin Keys(signals)
<1>1. EvidenceInv /\ [Next]_vars => [A]_vars
  <2> SUFFICES ASSUME EvidenceInv, [Next]_vars PROVE A
    OBVIOUS
  <2>0. signals \in Seq(Signal) /\ Len(signals) \in Nat /\ DOMAIN signals = 1 .. Len(signals)
    BY LenProperties DEF EvidenceInv, StoreOK
  <2>1. CASE Cycled(signals, signals')
    <3>1. /\ signals' \in Seq(Signal)
          /\ Len(signals) <= Len(signals')
          /\ \A k \in 1 .. Len(signals) : signals'[k] = signals[k]
          /\ \A k \in Len(signals) + 1 .. Len(signals') : Key(signals'[k]) \notin Keys(signals)
      BY <2>1, CycleIsSettled DEF EvidenceInv
    <3>2. Len(signals') \in Nat /\ DOMAIN signals' = 1 .. Len(signals')
      BY <3>1, LenProperties
    <3>3. SubSeq(signals, 1, Len(signals)) = SubSeq(signals', 1, Len(signals))
      <4>1. \A i \in 1 .. Len(signals) : signals[i] \in Signal /\ signals'[i] \in Signal
        BY <2>0, <3>1, ElementOfSeq
      <4>2. /\ SubSeq(signals, 1, Len(signals)) \in Seq(Signal)
            /\ SubSeq(signals', 1, Len(signals)) \in Seq(Signal)
            /\ Len(SubSeq(signals, 1, Len(signals))) = Len(signals)
            /\ Len(SubSeq(signals', 1, Len(signals))) = Len(signals)
            /\ \A i \in 1 .. Len(signals) :
                 /\ SubSeq(signals, 1, Len(signals))[i] = signals[i]
                 /\ SubSeq(signals', 1, Len(signals))[i] = signals'[i]
        BY <2>0, <4>1, SubSeqProperties
      <4> QED
        BY <3>1, <4>2, SeqEqual
    <3> QED
      BY <2>0, <3>1, <3>2, <3>3 DEF IsPrefix
  <2>2. CASE signals' = signals
    BY <2>0, <2>2 DEF IsPrefix
  <2>3. CASE signals' = <<>>
    BY <2>3
  <2> QED
    BY <2>1, <2>2, <2>3, StepOfEvidence
<1> QED
  BY <1>1, EvidenceIsInvariant, PTL DEF Spec, KeysAreSettled

-----------------------------------------------------------------------------
(* The history and the count of answers.                                     *)

(* HistoryCountsCycles and ConfidenceNeverDrops hold together: no entry is   *)
(* above the confidence of the count, which the last one has.                *)
HistoryInv ==
  /\ history \in Seq(Entry)
  /\ Len(history) <= MaxEntries
  /\ answered \in Nat
  /\ history = <<>> => answered = 0
  /\ screen = "setup" => history = <<>>
  /\ HistoryCountsCycles
  /\ ConfidenceNeverDrops

(* An entry added, of the oldest ones the first dropped when the log is full.*)
LEMMA EntryAdded ==
  ASSUME HistoryInv, question \in Nat, NEW c \in Nat
  PROVE  LET h == WithEntry(c)
             d == Len(history) + 1 - Len(h)
         IN  /\ h \in Seq(Entry)
             /\ Len(h) = IF Len(history) < MaxEntries THEN Len(history) + 1 ELSE MaxEntries
             /\ h[Len(h)].confidence = c
             /\ \A i \in 1 .. Len(h) - 1 : h[i] = history[i + d] /\ i + d \in 1 .. Len(history)
<1> DEFINE entry == [index |-> question, confidence |-> c]
           all == Append(history, entry)
           m == IF Len(all) <= MaxEntries THEN 1 ELSE Len(all) - MaxEntries + 1
           h == SubSeq(all, m, Len(all))
<1>1. MaxEntries \in Nat \ {0} /\ Len(history) \in Nat /\ entry \in Entry
  BY LenProperties, ConstantsAssumption DEF HistoryInv, ConstantsAssumption, Entry
<1> HIDE DEF entry
<1>2. /\ all \in Seq(Entry) /\ Len(all) = Len(history) + 1
      /\ \A i \in 1 .. Len(history) : all[i] = history[i]
      /\ all[Len(history) + 1] = entry
  BY <1>1, AppendProperties DEF HistoryInv
<1> HIDE DEF all
<1>3. m \in 1 .. Len(all) /\ Len(all) \in Nat
      /\ Len(all) - m + 1 = IF Len(history) < MaxEntries THEN Len(history) + 1 ELSE MaxEntries
  <2>1. Len(history) <= MaxEntries
    BY DEF HistoryInv
  <2>2. CASE Len(history) < MaxEntries
    <3>1. Len(all) <= MaxEntries /\ m = 1
      BY <1>1, <1>2, <2>2
    <3> HIDE DEF m
    <3> QED
      BY <1>1, <1>2, <2>2, <3>1
  <2>3. CASE ~ (Len(history) < MaxEntries)
    <3>1. Len(history) = MaxEntries /\ Len(all) = MaxEntries + 1
      BY <1>1, <1>2, <2>1, <2>3
    <3>2. m = 2
      BY <1>1, <3>1
    <3> HIDE DEF m
    <3> QED
      BY <1>1, <1>2, <2>3, <3>1, <3>2
  <2> QED
    BY <2>2, <2>3
<1> HIDE DEF m
<1>4. \A i \in m .. Len(all) : all[i] \in Entry
  BY <1>2, <1>3, ElementOfSeq
<1>5. /\ h \in Seq(Entry) /\ Len(h) = Len(all) - m + 1
      /\ \A i \in 1 .. Len(all) - m + 1 : h[i] = all[m + i - 1]
  BY <1>3, <1>4, SubSeqProperties
<1> HIDE DEF h
<1>6. h[Len(h)] = entry
  BY <1>1, <1>2, <1>3, <1>5
<1>7. \A i \in 1 .. Len(h) - 1 :
        /\ h[i] = history[i + (Len(history) + 1 - Len(h))]
        /\ i + (Len(history) + 1 - Len(h)) \in 1 .. Len(history)
  <2> TAKE i \in 1 .. Len(h) - 1
  <2>1. Len(h) \in Nat /\ Len(h) = Len(history) + 2 - m
    BY <1>1, <1>2, <1>3, <1>5
  <2>2. i \in 1 .. Len(all) - m + 1 /\ m + i - 1 = i + (Len(history) + 1 - Len(h))
    BY <1>1, <1>2, <1>3, <1>5, <2>1
  <2>3. m + i - 1 \in 1 .. Len(history)
    BY <1>1, <1>2, <1>3, <2>1
  <2>4. h[i] = all[m + i - 1] /\ all[m + i - 1] = history[m + i - 1]
    BY <1>2, <1>5, <2>2, <2>3
  <2> QED
    BY <2>2, <2>3, <2>4
<1>8. WithEntry(c) = h
  BY DEF WithEntry, NewestEntries, h, m, all, entry
<1>9. entry.confidence = c
  BY DEF entry
<1> QED
  BY <1>3, <1>5, <1>6, <1>7, <1>8, <1>9

(* A cycle that counts n answers and notes the confidence of n.              *)
LEMMA EntryKeepsHistory ==
  ASSUME HistoryInv, question \in Nat, NEW n \in Nat,
         answered' = n, history' = WithEntry(Confidence(n)), screen' # "setup",
         n = answered + 1 \/ (n = answered /\ history = <<>>)
  PROVE  HistoryInv'
<1> DEFINE h == WithEntry(Confidence(n))
           d == Len(history) + 1 - Len(h)
<1>1. /\ MaxEntries \in Nat \ {0} /\ answered \in Nat
      /\ Len(history) \in Nat /\ DOMAIN history = 1 .. Len(history)
      /\ Len(history) <= MaxEntries /\ \A i \in 1 .. Len(history) : history[i] \in Entry
  BY LenProperties, ElementOfSeq, ConstantsAssumption DEF HistoryInv, ConstantsAssumption
<1>2. Confidence(n) \in Nat /\ Confidence(answered) <= Confidence(n)
  BY <1>1 DEF Confidence
<1>3. /\ h \in Seq(Entry)
      /\ Len(h) = IF Len(history) < MaxEntries THEN Len(history) + 1 ELSE MaxEntries
      /\ h[Len(h)].confidence = Confidence(n)
      /\ \A i \in 1 .. Len(h) - 1 : h[i] = history[i + d] /\ i + d \in 1 .. Len(history)
  BY <1>2, EntryAdded
<1> HIDE DEF h
<1>4. h # <<>> /\ Len(h) \in Nat \ {0} /\ DOMAIN h = 1 .. Len(h)
  <2>1. Len(h) \in Nat /\ DOMAIN h = 1 .. Len(h)
    BY <1>3, LenProperties
  <2>2. Len(h) >= 1
    BY <1>1, <1>3
  <2>3. h # <<>>
    BY <2>1, <2>2, EmptySeq
  <2> QED
    BY <2>1, <2>2, <2>3
<1>5. \A i \in 1 .. Len(history) : history[i].confidence <= Confidence(n)
  <2> TAKE i \in 1 .. Len(history)
  <2>1. history # <<>> /\ history[Len(history)].confidence = Confidence(answered)
    <3>1. Len(history) >= 1
      BY <1>1
    <3>2. history # <<>>
      BY <1>1, <3>1, EmptySeq
    <3> QED
      BY <3>2 DEF HistoryInv, HistoryCountsCycles, Last
  <2>2. history[i].confidence <= history[Len(history)].confidence
    BY <1>1 DEF HistoryInv, ConfidenceNeverDrops, Entry
  <2>3. history[i].confidence \in Nat /\ Confidence(answered) \in Nat
    BY <1>1 DEF Confidence, Entry
  <2> QED
    BY <1>2, <2>1, <2>2, <2>3
<1>6. \A i, j \in DOMAIN h : i < j => h[i].confidence <= h[j].confidence
  <2> TAKE i, j \in DOMAIN h
  <2> HAVE i < j
  <2>1. i \in 1 .. Len(h) - 1 /\ h[i] = history[i + d] /\ i + d \in 1 .. Len(history)
    BY <1>3, <1>4
  <2>2. CASE j = Len(h)
    BY <1>3, <1>5, <2>1, <2>2
  <2>3. CASE j # Len(h)
    <3>0. j \in 1 .. Len(h) - 1
      BY <1>4, <2>3
    <3>1. h[j] = history[j + d] /\ j + d \in 1 .. Len(history)
      BY <1>3, <3>0
    <3>2. i + d < j + d
      <4>1. i \in Nat /\ j \in Nat /\ d \in Int
        BY <1>1, <1>4
      <4> HIDE DEF d
      <4> QED
        BY <4>1
    <3> QED
      BY <1>1, <2>1, <3>1, <3>2 DEF HistoryInv, ConfidenceNeverDrops
  <2> QED
    BY <2>2, <2>3
<1>7. Len(h) \in {IF k < MaxEntries THEN k ELSE MaxEntries : k \in {n, n + 1}}
  <2>1. CASE history = <<>>
    <3>1. Len(history) = 0 /\ answered = 0
      BY <2>1, EmptySeq DEF HistoryInv
    <3>2. Len(h) = 1
      BY <1>1, <1>3, <3>1
    <3> QED
      BY <1>1, <3>1, <3>2
  <2>2. CASE history # <<>>
    <3>1. Len(history) \in {IF k < MaxEntries THEN k ELSE MaxEntries : k \in {answered, answered + 1}}
      BY <2>2 DEF HistoryInv, HistoryCountsCycles
    <3>2. n = answered + 1
      BY <2>2
    <3>3. PICK k \in {answered, answered + 1} : Len(history) = IF k < MaxEntries THEN k ELSE MaxEntries
      BY <3>1
    <3>4. k + 1 \in {n, n + 1} /\ k \in Nat
      BY <1>1, <3>2
    <3>5. Len(h) = IF k + 1 < MaxEntries THEN k + 1 ELSE MaxEntries
      BY <1>1, <1>3, <3>3, <3>4
    <3> QED
      BY <3>4, <3>5
  <2> QED
    BY <2>1, <2>2
<1>8. history' = h
  BY DEF h
<1>9. HistoryCountsCycles'
  BY <1>3, <1>4, <1>7, <1>8 DEF HistoryCountsCycles, Last
<1>10. ConfidenceNeverDrops'
  BY <1>6, <1>8 DEF ConfidenceNeverDrops
<1>11. Len(h) <= MaxEntries
  BY <1>1, <1>3
<1> QED
  BY <1>3, <1>4, <1>8, <1>9, <1>10, <1>11 DEF HistoryInv

LEMMA HistoryInit == Init => HistoryInv
BY EmptySeq, ConstantsAssumption
   DEF Init, HistoryInv, HistoryCountsCycles, ConfidenceNeverDrops, ConstantsAssumption

LEMMA HistoryStep == Position /\ HistoryInv /\ [Next]_vars => HistoryInv'
<1> SUFFICES ASSUME Position, HistoryInv, [Next]_vars PROVE HistoryInv'
  OBVIOUS
<1>0. question \in Nat /\ answered \in Nat
  BY ConstantsAssumption DEF Position, Slots, ConstantsAssumption, HistoryInv
<1>1. ASSUME UNCHANGED <<history, answered>>, screen' = "setup" => screen = "setup"
      PROVE  HistoryInv'
  BY <1>1 DEF HistoryInv, HistoryCountsCycles, ConfidenceNeverDrops, Last
<1>2. CASE Start
  <2>1. history = <<>> /\ answered = 0 /\ screen' = "question"
    BY <1>2 DEF Start, HistoryInv
  <2>2. CASE Skip
    BY <1>0, <2>1, <2>2, EntryKeepsHistory DEF Skip
  <2>3. CASE ReasonerFails(grades)
    BY <1>1, <2>1, <2>3 DEF ReasonerFails
  <2> QED
    BY <1>2, <2>2, <2>3 DEF Start
<1>3. ASSUME NEW band \in Band, GradeAnswer(band)
      PROVE  HistoryInv'
  <2>1. screen' = "feedback"
    BY <1>3 DEF GradeAnswer
  <2>2. CASE Reason(grades')
    <3>1. answered' = answered + 1 /\ history' = WithEntry(Confidence(answered + 1))
      BY <2>2 DEF Reason
    <3> QED
      BY <1>0, <2>1, <3>1, EntryKeepsHistory
  <2>3. CASE ReasonerFails(grades')
    BY <1>1, <2>1, <2>3 DEF ReasonerFails
  <2> QED
    BY <1>3, <2>2, <2>3 DEF GradeAnswer
<1>4. CASE GradingFails
  BY <1>1, <1>4 DEF GradingFails, memory
<1>5. CASE Retry
  BY <1>1, <1>5 DEF Retry, memory
<1>6. CASE NextQuestion
  BY <1>1, <1>6 DEF NextQuestion, memory
<1>7. CASE NextQuestionFails
  BY <1>1, <1>7 DEF NextQuestionFails, memory
<1>8. CASE NewInterview
  BY <1>8, EmptySeq, ConstantsAssumption
     DEF NewInterview, HistoryInv, HistoryCountsCycles, ConfidenceNeverDrops, ConstantsAssumption
<1>9. CASE UNCHANGED vars
  BY <1>1, <1>9 DEF vars, interview, memory
<1> QED
  BY <1>2, <1>3, <1>4, <1>5, <1>6, <1>7, <1>8, <1>9 DEF Next

LEMMA HistoryIsInvariant == Spec => []HistoryInv
<1>1. EvidenceInv => Position
  BY DEF EvidenceInv
<1> QED
  BY <1>1, HistoryInit, HistoryStep, EvidenceIsInvariant, PTL DEF Spec

(* The reasoner's confidence never drops within an interview, so that        *)
(* _detect_confidence_drops never finds anything.                            *)
THEOREM ConfidenceRises == Spec => []ConfidenceNeverDrops
<1>1. HistoryInv => ConfidenceNeverDrops
  BY DEF HistoryInv
<1> QED
  BY <1>1, HistoryIsInvariant, PTL

(* _append_reasoning_entry and _propagate_evidence stay in step.             *)
THEOREM HistoryInStep == Spec => []HistoryCountsCycles
<1>1. HistoryInv => HistoryCountsCycles
  BY DEF HistoryInv
<1> QED
  BY <1>1, HistoryIsInvariant, PTL

-----------------------------------------------------------------------------
(* The observations.                                                         *)

Mapped(read) == {k \in DOMAIN read : read[k].index = question /\ read[k].type \notin Unmapped}

(* The extractor returns one new observation for each signal of the current  *)
(* question that has an observation type, and no others.                     *)
LEMMA ObservedIsMapped ==
  ASSUME NEW read \in Seq(Signal), question \in Nat
  PROVE  /\ Observed(read) \in Seq(Observation)
         /\ \A n \in DOMAIN Observed(read) :
              /\ Observed(read)[n].active /\ Observed(read)[n].index = question
              /\ \E k \in Mapped(read) : Observed(read)[n].type = read[k].type
         /\ \A k \in Mapped(read) : \E n \in DOMAIN Observed(read) :
              Observed(read)[n].type = read[k].type
<1> DEFINE S == Mapped(read)
           list == InOrder(S)
           seen == [n \in DOMAIN list |->
                      [type |-> read[list[n]].type, index |-> question, active |-> TRUE]]
<1>1. /\ DOMAIN read = 1 .. Len(read) /\ Len(read) \in Nat
      /\ \A k \in DOMAIN read : read[k] \in Signal
  BY LenProperties, ElementOfSeq
<1>2. S \in SUBSET Nat /\ S \in SUBSET (1 .. Len(read))
  BY <1>1 DEF Mapped
<1>3. IsFiniteSet(S)
  <2>1. IsFiniteSet(1 .. Len(read))
    BY <1>1, FS_Interval
  <2> HIDE DEF S
  <2> QED
    BY <1>2, <2>1, FS_Subset
<1>4. \A k \in S : read[k].type \in SignalType
  BY <1>1 DEF Mapped, Signal
<1>5. Observed(read) = seen
  BY DEF Observed, Mapped
<1> HIDE DEF S
<1>6. list \in Seq(S) /\ \A k \in S : \E n \in DOMAIN list : list[n] = k
  BY <1>2, <1>3, InOrderLists
<1> HIDE DEF list
<1>7. DOMAIN list = 1 .. Len(list) /\ Len(list) \in Nat /\ \A n \in DOMAIN list : list[n] \in S
  BY <1>6, LenProperties, ElementOfSeq
<1>8. DOMAIN seen = DOMAIN list
  OBVIOUS
<1>9. \A n \in DOMAIN list :
        /\ seen[n] \in Observation /\ seen[n].active /\ seen[n].index = question
        /\ seen[n].type = read[list[n]].type
  BY <1>4, <1>7 DEF Observation
<1>10. seen \in Seq(Observation)
  BY <1>7, <1>9
<1>11. \A k \in S : \E n \in DOMAIN seen : seen[n].type = read[k].type
  BY <1>6, <1>8, <1>9
<1> HIDE DEF seen
<1> QED
  BY <1>5, <1>7, <1>8, <1>9, <1>10, <1>11 DEF S

(* Which observations are active: the newest of each kind.                   *)
NewestIsActive(store) ==
  \A k \in DOMAIN store :
    store[k].active <=> \A j \in DOMAIN store : j > k => ~Same(store[j], store[k])

(* The observation store keeps what it has, adds what is new, and leaves     *)
(* exactly the newest of each kind active.                                   *)
LEMMA InsertedKeeps ==
  ASSUME observations \in Seq(Observation), NewestIsActive(observations),
         NEW fresh \in Seq(Observation), \A n \in DOMAIN fresh : fresh[n].active
  PROVE  /\ Inserted(fresh) \in Seq(Observation)
         /\ Len(Inserted(fresh)) = Len(observations) + Len(fresh)
         /\ \A k \in 1 .. Len(observations) : Same(Inserted(fresh)[k], observations[k])
         /\ \A n \in 1 .. Len(fresh) : Same(Inserted(fresh)[Len(observations) + n], fresh[n])
         /\ NewestIsActive(Inserted(fresh))
<1> DEFINE all == observations \o fresh
           Keeps(k) == \A j \in DOMAIN all :
                         j > k /\ j > Len(observations) => ~Same(all[j], all[k])
           next == [k \in DOMAIN all |-> [all[k] EXCEPT !.active = @ /\ Keeps(k)]]
<1>1. /\ Len(observations) \in Nat /\ Len(fresh) \in Nat
      /\ DOMAIN observations = 1 .. Len(observations) /\ DOMAIN fresh = 1 .. Len(fresh)
  BY LenProperties
<1>2. /\ all \in Seq(Observation) /\ Len(all) = Len(observations) + Len(fresh)
      /\ \A i \in 1 .. Len(observations) + Len(fresh) :
           all[i] = IF i <= Len(observations) THEN observations[i] ELSE fresh[i - Len(observations)]
  BY ConcatProperties
<1>3. Inserted(fresh) = next
  BY DEF Inserted
<1> HIDE DEF all
<1>4. DOMAIN all = 1 .. Len(all) /\ Len(all) \in Nat /\ \A i \in DOMAIN all : all[i] \in Observation
  BY <1>2, LenProperties, ElementOfSeq
<1>5. \A k \in DOMAIN all : Keeps(k) \in BOOLEAN
  OBVIOUS
<1> HIDE DEF Keeps
<1>6. \A k \in DOMAIN all : (all[k].active /\ Keeps(k)) \in BOOLEAN
  OBVIOUS
<1>7. \A k \in DOMAIN all :
        /\ next[k] \in Observation
        /\ next[k].type = all[k].type /\ next[k].index = all[k].index
  BY <1>4, <1>6 DEF Observation
<1>8. \A k \in DOMAIN all : next[k].active <=> all[k].active /\ Keeps(k)
  BY <1>4 DEF Observation
<1>9. DOMAIN next = DOMAIN all
  OBVIOUS
<1> HIDE DEF next
<1>10. next \in Seq(Observation) /\ Len(next) = Len(all)
  <2>1. next \in [1 .. Len(all) -> Observation]
    BY <1>3, <1>4, <1>7, <1>9 DEF Inserted, next
  <2> QED
    BY <1>4, <2>1
<1>11. \A k \in 1 .. Len(observations) : Same(next[k], observations[k])
  BY <1>1, <1>2, <1>4, <1>7 DEF Same
<1>12. \A n \in 1 .. Len(fresh) : Same(next[Len(observations) + n], fresh[n])
  <2> TAKE n \in 1 .. Len(fresh)
  <2> DEFINE i == Len(observations) + n
  <2>1. i \in 1 .. Len(observations) + Len(fresh) /\ ~(i <= Len(observations))
        /\ i - Len(observations) = n
    BY <1>1
  <2>2. i \in DOMAIN all /\ all[i] = fresh[n]
    BY <1>2, <1>4, <2>1
  <2> QED
    BY <1>7, <2>2 DEF Same
<1>13. \A j, k \in DOMAIN all : Same(next[j], next[k]) <=> Same(all[j], all[k])
  BY <1>7 DEF Same
<1>14. ASSUME NEW k \in DOMAIN all
       PROVE  next[k].active <=> \A j \in DOMAIN all : j > k => ~Same(all[j], all[k])
  <2>1. CASE k <= Len(observations)
    <3>1. k \in DOMAIN observations /\ all[k] = observations[k]
      BY <1>1, <1>2, <1>4, <2>1
    <3>2. all[k].active <=> \A j \in DOMAIN observations : j > k => ~Same(observations[j], all[k])
      BY <3>1 DEF NewestIsActive
    <3>3. \A j \in DOMAIN observations : j \in DOMAIN all /\ all[j] = observations[j]
      BY <1>1, <1>2, <1>4
    <3>4. all[k].active <=> \A j \in DOMAIN observations : j > k => ~Same(all[j], all[k])
      BY <3>2, <3>3
    <3>5. \A j \in DOMAIN all : j \in DOMAIN observations \/ j > Len(observations)
      BY <1>1, <1>4
    <3> QED
      BY <1>8, <3>3, <3>4, <3>5 DEF Keeps
  <2>2. CASE k > Len(observations)
    <3>1. all[k].active
      <4>1. k - Len(observations) \in DOMAIN fresh /\ all[k] = fresh[k - Len(observations)]
        BY <1>1, <1>2, <1>4, <2>2
      <4> QED
        BY <4>1
    <3>2. \A j \in DOMAIN all : j > k => j > Len(observations)
      BY <1>1, <1>4, <2>2
    <3> QED
      BY <1>8, <3>1, <3>2 DEF Keeps
  <2> QED
    BY <1>1, <1>4, <2>1, <2>2
<1>15. NewestIsActive(next)
  BY <1>9, <1>13, <1>14 DEF NewestIsActive
<1> QED
  BY <1>2, <1>3, <1>10, <1>11, <1>12, <1>15

-----------------------------------------------------------------------------
(* The observation invariant: the newest observation of each kind is the     *)
(* active one, every observation has its signal in the evidence store, and a *)
(* feature stands on observations of its types, of which there are enough.   *)
EvidenceOf(o) ==
  \E k \in DOMAIN signals :
    signals[k].type = o.type /\ signals[k].index = o.index /\ o.type \notin Unmapped

EveryObservationHasEvidence == \A n \in DOMAIN observations : EvidenceOf(observations[n])

FeaturesStand ==
  /\ profile \in [DOMAIN FeatureTypes -> SUBSET DOMAIN observations]
  /\ \A f \in DOMAIN FeatureTypes :
       /\ profile[f] \subseteq Standing(observations, f)
       /\ profile[f] # {} => Cardinality(Standing(observations, f)) >= FeatureMinimum[f]

(* An attempt beyond the maximum is one that follows a failed grading.       *)
AttemptsInv ==
  /\ attempts \in 0 .. MaxAttempts + 1
  /\ screen # "feedback" => attempts <= MaxAttempts

ObservationInv ==
  /\ AttemptsInv
  /\ observations \in Seq(Observation)
  /\ NewestIsActive(observations)
  /\ EveryObservationHasEvidence
  /\ FeaturesStand

(* The four ways a step may treat the observations.                          *)
Observes ==
  /\ answered' = answered + 1 /\ question' = question
  /\ Cycled(signals, signals')
  /\ observations' = Inserted(Observed(signals'))
  /\ profile' \in {profile, Profiled(observations')}

(* The extraction failed.  An empty store has no profile to compute anew.    *)
Misses ==
  /\ Cycled(signals, signals')
  /\ observations' = observations
  /\ profile' \in {profile, Profiled(observations)}

LeavesObservations ==
  /\ answered' = answered
  /\ Cycled(signals, signals') \/ signals' = signals
  /\ UNCHANGED <<observations, profile>>

Forgets ==
  /\ screen' = "setup" /\ attempts' = 0
  /\ answered' = 0 /\ signals' = <<>> /\ observations' = <<>> /\ profile' = NoProfile

LEMMA StepOfObservations ==
  ASSUME EvidenceInv, [Next]_vars
  PROVE  Observes \/ Misses \/ LeavesObservations \/ Forgets
<1> USE DEF EvidenceInv
<1>1. CASE Start
  <2>1. Skip => LeavesObservations
    BY DEF Skip, LeavesObservations
  <2>2. ReasonerFails(grades) => LeavesObservations
    BY FailureCycles DEF Position, ReasonerFails, LeavesObservations
  <2> QED
    BY <1>1, <2>1, <2>2 DEF Start
<1>2. ASSUME NEW band \in Band, GradeAnswer(band)
      PROVE  Observes \/ Misses \/ LeavesObservations
  <2>1. grades' \in [Slots -> Grade] /\ question' = question
    BY <1>2 DEF GradeAnswer, Position, Grade
  <2>2. CASE Reason(grades')
    <3>1. Cycled(signals, signals')
      BY <2>1, <2>2, ReasonCycles
    <3>2. /\ answered' = answered + 1
          /\ observations' \in {Inserted(Observed(signals')), observations}
          /\ profile' \in {profile, Profiled(observations')}
      BY <2>2 DEF Reason, Fresh
    <3>3. CASE observations' = Inserted(Observed(signals'))
      BY <2>1, <3>1, <3>2, <3>3 DEF Observes
    <3>4. CASE observations' = observations
      BY <3>1, <3>2, <3>4 DEF Misses
    <3> QED
      BY <3>2, <3>3, <3>4
  <2>3. CASE ReasonerFails(grades')
    BY <2>1, <2>3, FailureCycles DEF ReasonerFails, LeavesObservations
  <2> QED
    BY <1>2, <2>2, <2>3 DEF GradeAnswer
<1>3. CASE GradingFails
  BY <1>3 DEF GradingFails, memory, LeavesObservations
<1>4. CASE Retry
  BY <1>4 DEF Retry, memory, LeavesObservations
<1>5. CASE NextQuestion
  BY <1>5 DEF NextQuestion, memory, LeavesObservations
<1>6. CASE NextQuestionFails
  BY <1>6 DEF NextQuestionFails, memory, LeavesObservations
<1>7. CASE NewInterview
  BY <1>7 DEF NewInterview, Forgets
<1>8. CASE UNCHANGED vars
  BY <1>8 DEF vars, memory, LeavesObservations
<1> QED
  BY <1>1, <1>2, <1>3, <1>4, <1>5, <1>6, <1>7, <1>8 DEF Next

LEMMA AttemptsStep ==
  ASSUME AttemptsInv, [Next]_vars
  PROVE  AttemptsInv'
<1>0. MaxAttempts \in Nat \ {0}
  BY ConstantsAssumption DEF ConstantsAssumption
<1> USE DEF AttemptsInv
<1>1. CASE Start
  BY <1>0, <1>1 DEF Start
<1>2. ASSUME NEW band \in Band, GradeAnswer(band)
      PROVE  AttemptsInv'
  BY <1>0, <1>2 DEF GradeAnswer
<1>3. CASE GradingFails
  BY <1>0, <1>3 DEF GradingFails
<1>4. CASE Retry
  BY <1>0, <1>4 DEF Retry
<1>5. CASE NextQuestion \/ NewInterview
  BY <1>0, <1>5 DEF NextQuestion, NewInterview
<1>6. CASE NextQuestionFails
  BY <1>0, <1>6 DEF NextQuestionFails
<1>7. CASE UNCHANGED vars
  BY <1>7 DEF vars, interview
<1> QED
  BY <1>1, <1>2, <1>3, <1>4, <1>5, <1>6, <1>7 DEF Next

(* Features stand on observations by their types, which never change.        *)
LEMMA StandingGrows ==
  ASSUME NEW s \in Seq(Observation), NEW t \in Seq(Observation), Len(s) <= Len(t),
         \A k \in 1 .. Len(s) : Same(t[k], s[k]),
         NEW f \in DOMAIN FeatureTypes
  PROVE  /\ Standing(s, f) \subseteq Standing(t, f)
         /\ Standing(t, f) \subseteq DOMAIN t
         /\ Cardinality(Standing(s, f)) \in Nat
         /\ Cardinality(Standing(t, f)) \in Nat
         /\ Cardinality(Standing(s, f)) <= Cardinality(Standing(t, f))
<1>1. /\ Len(s) \in Nat /\ Len(t) \in Nat
      /\ DOMAIN s = 1 .. Len(s) /\ DOMAIN t = 1 .. Len(t)
  BY LenProperties
<1>2. Standing(s, f) \subseteq Standing(t, f) /\ Standing(t, f) \subseteq DOMAIN t
  BY <1>1 DEF Standing, Same
<1>3. IsFiniteSet(1 .. Len(t))
  BY <1>1, FS_Interval
<1>4. IsFiniteSet(Standing(t, f))
  BY <1>1, <1>2, <1>3, FS_Subset
<1> QED
  BY <1>2, <1>4, FS_Subset, FS_CardinalityType

LEMMA FeatureMinimumType ==
  DOMAIN FeatureMinimum = DOMAIN FeatureTypes /\ \A f \in DOMAIN FeatureTypes : FeatureMinimum[f] \in Nat
BY DEF FeatureMinimum, FeatureTypes

(* What a cycle makes of the profile, computed anew or not.                  *)
LEMMA ProfileGrows ==
  ASSUME FeaturesStand, observations \in Seq(Observation),
         observations' \in Seq(Observation), Len(observations) <= Len(observations'),
         \A k \in 1 .. Len(observations) : Same(observations'[k], observations[k]),
         profile' \in {profile, Profiled(observations')}
  PROVE  FeaturesStand' /\ \A f \in DOMAIN FeatureTypes : profile[f] \subseteq profile'[f]
<1> DEFINE F == DOMAIN FeatureTypes
           old(f) == Standing(observations, f)
           new(f) == Standing(observations', f)
<1>1. \A f \in F : /\ old(f) \subseteq new(f) /\ new(f) \subseteq DOMAIN observations'
                   /\ Cardinality(old(f)) \in Nat /\ Cardinality(new(f)) \in Nat
                   /\ Cardinality(old(f)) <= Cardinality(new(f))
                   /\ FeatureMinimum[f] \in Nat
  BY StandingGrows, FeatureMinimumType
<1>2. profile \in [F -> SUBSET DOMAIN observations]
  BY DEF FeaturesStand
<1>3. \A f \in F : /\ profile[f] \subseteq old(f)
                   /\ profile[f] # {} => Cardinality(old(f)) >= FeatureMinimum[f]
  BY DEF FeaturesStand
<1> HIDE DEF old, new, F
<1>4. CASE profile' = profile
  <2>1. \A f \in F : profile[f] \subseteq DOMAIN observations'
    BY <1>1, <1>3
  <2>2. profile' \in [F -> SUBSET DOMAIN observations']
    BY <1>2, <1>4, <2>1
  <2>3. \A f \in F : /\ profile'[f] \subseteq new(f)
                     /\ profile'[f] # {} => Cardinality(new(f)) >= FeatureMinimum[f]
    BY <1>1, <1>3, <1>4
  <2> QED
    BY <1>4, <2>2, <2>3 DEF FeaturesStand, F, new
<1>5. CASE profile' = Profiled(observations')
  <2>1. profile' = [f \in F |-> IF Cardinality(new(f)) >= FeatureMinimum[f] THEN new(f) ELSE {}]
    BY <1>5 DEF Profiled, F, new
  <2>2. profile' \in [F -> SUBSET DOMAIN observations']
    BY <1>1, <2>1
  <2>3. \A f \in F : /\ profile'[f] \subseteq new(f)
                     /\ profile'[f] # {} => Cardinality(new(f)) >= FeatureMinimum[f]
    BY <2>1
  <2>4. \A f \in F : profile[f] \subseteq profile'[f]
    <3> TAKE f \in F
    <3>1. CASE profile[f] = {}
      BY <3>1
    <3>2. CASE profile[f] # {}
      <4>1. /\ Cardinality(old(f)) >= FeatureMinimum[f]
            /\ Cardinality(old(f)) \in Nat /\ Cardinality(new(f)) \in Nat
            /\ Cardinality(old(f)) <= Cardinality(new(f)) /\ FeatureMinimum[f] \in Nat
        BY <1>1, <1>3, <3>2
      <4>2. Cardinality(new(f)) >= FeatureMinimum[f]
        BY <4>1
      <4>3. profile'[f] = new(f)
        BY <2>1, <4>2
      <4> QED
        BY <1>1, <1>3, <4>3
    <3> QED
      BY <3>1, <3>2
  <2> QED
    BY <2>2, <2>3, <2>4 DEF FeaturesStand, F, new
<1> QED
  BY <1>4, <1>5

(* What a cycle makes of the observations.                                   *)
LEMMA ObservesGrows ==
  ASSUME EvidenceInv, ObservationInv, Observes
  PROVE  /\ observations' \in Seq(Observation) /\ Len(observations) <= Len(observations')
         /\ \A k \in 1 .. Len(observations) : Same(observations'[k], observations[k])
         /\ NewestIsActive(observations')
         /\ \A n \in DOMAIN observations' :
              n \in DOMAIN observations
                \/ \E k \in Mapped(signals') : /\ observations'[n].type = signals'[k].type
                                               /\ observations'[n].index = question
         /\ \A k \in Mapped(signals') : \E n \in DOMAIN observations' :
              observations'[n].type = signals'[k].type /\ observations'[n].index = question
<1> DEFINE fresh == Observed(signals')
<1>1. question \in Nat /\ signals' \in Seq(Signal) /\ observations' = Inserted(fresh)
  BY CycleIsSettled, ConstantsAssumption
     DEF EvidenceInv, Position, Slots, ConstantsAssumption, Observes
<1>2. /\ fresh \in Seq(Observation)
      /\ \A n \in DOMAIN fresh : /\ fresh[n].active /\ fresh[n].index = question
                                 /\ \E k \in Mapped(signals') : fresh[n].type = signals'[k].type
      /\ \A k \in Mapped(signals') : \E n \in DOMAIN fresh : fresh[n].type = signals'[k].type
  BY <1>1, ObservedIsMapped
<1> HIDE DEF fresh
<1>3. /\ observations' \in Seq(Observation)
      /\ Len(observations') = Len(observations) + Len(fresh)
      /\ \A k \in 1 .. Len(observations) : Same(observations'[k], observations[k])
      /\ \A n \in 1 .. Len(fresh) : Same(observations'[Len(observations) + n], fresh[n])
      /\ NewestIsActive(observations')
  BY <1>1, <1>2, InsertedKeeps DEF ObservationInv
<1>4. /\ Len(observations) \in Nat /\ Len(fresh) \in Nat
      /\ DOMAIN fresh = 1 .. Len(fresh) /\ DOMAIN observations = 1 .. Len(observations)
      /\ DOMAIN observations' = 1 .. Len(observations')
  BY <1>2, <1>3, LenProperties DEF ObservationInv
<1>5. ASSUME NEW n \in DOMAIN observations', n \notin DOMAIN observations
      PROVE  \E k \in Mapped(signals') : /\ observations'[n].type = signals'[k].type
                                         /\ observations'[n].index = question
  <2> DEFINE i == n - Len(observations)
  <2>1. i \in DOMAIN fresh /\ n = Len(observations) + i
    BY <1>3, <1>4, <1>5
  <2> HIDE DEF i
  <2>2. Same(observations'[n], fresh[i])
    BY <1>3, <1>4, <2>1
  <2> QED
    BY <1>2, <2>1, <2>2 DEF Same
<1>6. ASSUME NEW k \in Mapped(signals')
      PROVE  \E n \in DOMAIN observations' :
               observations'[n].type = signals'[k].type /\ observations'[n].index = question
  <2>1. PICK i \in DOMAIN fresh : fresh[i].type = signals'[k].type
    BY <1>2
  <2>2. Len(observations) + i \in DOMAIN observations'
    BY <1>3, <1>4, <2>1
  <2>3. Same(observations'[Len(observations) + i], fresh[i]) /\ fresh[i].index = question
    BY <1>2, <1>3, <1>4, <2>1
  <2> QED
    BY <2>1, <2>2, <2>3 DEF Same
<1> QED
  BY <1>3, <1>4, <1>5, <1>6

(* What a cycle whose extraction failed makes of the profile.                *)
LEMMA MissesGrows ==
  ASSUME ObservationInv, Misses
  PROVE  FeaturesStand' /\ \A f \in DOMAIN FeatureTypes : profile[f] \subseteq profile'[f]
<1>1. observations' \in Seq(Observation) /\ Len(observations) <= Len(observations')
  <2>1. observations' = observations /\ observations \in Seq(Observation)
    BY DEF Misses, ObservationInv
  <2>2. Len(observations) \in Nat
    BY <2>1, LenProperties
  <2> QED
    BY <2>1, <2>2
<1>2. \A k \in 1 .. Len(observations) : Same(observations'[k], observations[k])
  BY DEF Misses, Same
<1>3. profile' \in {profile, Profiled(observations')}
  BY DEF Misses, Profiled, Standing
<1> QED
  BY <1>1, <1>2, <1>3, ProfileGrows DEF ObservationInv

(* The evidence of an observation is never taken away.                       *)
LEMMA EvidenceStays ==
  ASSUME EvidenceInv, Cycled(signals, signals') \/ signals' = signals
  PROVE  \A k \in DOMAIN signals : k \in DOMAIN signals' /\ signals'[k] = signals[k]
<1>1. CASE Cycled(signals, signals')
  <2>1. /\ signals' \in Seq(Signal) /\ Len(signals) <= Len(signals')
        /\ \A k \in 1 .. Len(signals) : signals'[k] = signals[k]
    BY <1>1, CycleIsSettled DEF EvidenceInv
  <2>2. /\ Len(signals) \in Nat /\ Len(signals') \in Nat
        /\ DOMAIN signals = 1 .. Len(signals) /\ DOMAIN signals' = 1 .. Len(signals')
    BY <2>1, LenProperties DEF EvidenceInv, StoreOK
  <2> QED
    BY <2>1, <2>2
<1> QED
  BY <1>1

LEMMA ObservationInit == Init => ObservationInv
<1> SUFFICES ASSUME Init PROVE ObservationInv
  OBVIOUS
<1>1. MaxAttempts \in Nat
  BY ConstantsAssumption DEF ConstantsAssumption
<1>2. attempts = 0 /\ observations = <<>> /\ profile = NoProfile
  BY DEF Init, NoInterview
<1>3. FeaturesStand
  BY <1>2 DEF FeaturesStand, NoProfile
<1> QED
  BY <1>1, <1>2, <1>3
     DEF ObservationInv, AttemptsInv, NewestIsActive, EveryObservationHasEvidence

LEMMA ObservationStep == EvidenceInv /\ ObservationInv /\ [Next]_vars => ObservationInv'
<1> SUFFICES ASSUME EvidenceInv, ObservationInv, [Next]_vars PROVE ObservationInv'
  OBVIOUS
<1>1. AttemptsInv'
  BY AttemptsStep DEF ObservationInv
<1>2. CASE Observes
  <2>1. /\ observations' \in Seq(Observation) /\ Len(observations) <= Len(observations')
        /\ \A k \in 1 .. Len(observations) : Same(observations'[k], observations[k])
        /\ NewestIsActive(observations')
    BY <1>2, ObservesGrows
  <2>2. FeaturesStand'
    BY <1>2, <2>1, ProfileGrows DEF ObservationInv, Observes
  <2>3. ASSUME NEW n \in DOMAIN observations'
        PROVE  EvidenceOf(observations[n])'
    <3>1. CASE n \in DOMAIN observations
      <4>1. Same(observations'[n], observations[n])
        BY <2>1, <3>1, LenProperties DEF ObservationInv
      <4>2. EvidenceOf(observations[n])
        BY <3>1 DEF ObservationInv, EveryObservationHasEvidence
      <4>3. \A k \in DOMAIN signals : k \in DOMAIN signals' /\ signals'[k] = signals[k]
        BY <1>2, EvidenceStays DEF Observes
      <4> QED
        BY <4>1, <4>2, <4>3 DEF EvidenceOf, Same
    <3>2. CASE n \notin DOMAIN observations
      <4>1. PICK k \in Mapped(signals') : /\ observations'[n].type = signals'[k].type
                                          /\ observations'[n].index = question
        BY <1>2, <3>2, ObservesGrows
      <4> QED
        BY <4>1 DEF EvidenceOf, Mapped
    <3> QED
      BY <3>1, <3>2
  <2> QED
    BY <1>1, <2>1, <2>2, <2>3
       DEF ObservationInv, EveryObservationHasEvidence
<1>3. CASE LeavesObservations
  <2>1. UNCHANGED <<observations, profile>>
    BY <1>3 DEF LeavesObservations
  <2>2. EveryObservationHasEvidence'
    <3>1. \A k \in DOMAIN signals : k \in DOMAIN signals' /\ signals'[k] = signals[k]
      BY <1>3, EvidenceStays DEF LeavesObservations
    <3> QED
      BY <2>1, <3>1 DEF ObservationInv, EveryObservationHasEvidence, EvidenceOf
  <2>3. FeaturesStand'
    BY <2>1 DEF ObservationInv, FeaturesStand, Standing
  <2> QED
    BY <1>1, <2>1, <2>2, <2>3 DEF ObservationInv, NewestIsActive
<1>4. CASE Forgets
  <2>1. observations' = <<>> /\ profile' = NoProfile
    BY <1>4 DEF Forgets
  <2>2. FeaturesStand'
    BY <2>1 DEF FeaturesStand, NoProfile
  <2> QED
    BY <1>1, <2>1, <2>2
       DEF ObservationInv, NewestIsActive, EveryObservationHasEvidence
<1>5. CASE Misses
  <2>1. observations' = observations
    BY <1>5 DEF Misses
  <2>2. EveryObservationHasEvidence'
    <3>1. \A k \in DOMAIN signals : k \in DOMAIN signals' /\ signals'[k] = signals[k]
      BY <1>5, EvidenceStays DEF Misses
    <3> QED
      BY <2>1, <3>1 DEF ObservationInv, EveryObservationHasEvidence, EvidenceOf
  <2>3. FeaturesStand'
    BY <1>5, MissesGrows
  <2> QED
    BY <1>1, <2>1, <2>2, <2>3 DEF ObservationInv, NewestIsActive
<1> QED
  BY <1>2, <1>3, <1>4, <1>5, StepOfObservations

LEMMA ObservationsAreInvariant == Spec => []ObservationInv
BY ObservationInit, ObservationStep, EvidenceIsInvariant, PTL DEF Spec

(* Of the observations of one type at one question exactly one is active,    *)
(* the newest (InMemoryObservationStore.append), after any number of         *)
(* gradings of the same question.                                            *)
THEOREM NewestObservationsAreActive == Spec => [](NewestIsActive(observations))
<1>1. ObservationInv => NewestIsActive(observations)
  BY DEF ObservationInv
<1> QED
  BY <1>1, ObservationsAreInvariant, PTL

(* Every observation is of a signal that the evidence store still holds: the *)
(* two stores never part, whichever cycles fail.                             *)
THEOREM ObservationsHaveEvidence == Spec => []EveryObservationHasEvidence
<1>1. ObservationInv => EveryObservationHasEvidence
  BY DEF ObservationInv
<1> QED
  BY <1>1, ObservationsAreInvariant, PTL

(* All five stores have the contents their contracts name, within their      *)
(* capacities, and features only refer to observations that exist.           *)
THEOREM StoresAreTyped == Spec => []TypeOK
<1>1. EvidenceInv /\ HistoryInv /\ ObservationInv => TypeOK
  BY DEF EvidenceInv, Position, StoreOK, HistoryInv, ObservationInv, AttemptsInv,
         FeaturesStand, TypeOK
<1> QED
  BY <1>1, EvidenceIsInvariant, HistoryIsInvariant, ObservationsAreInvariant, PTL

(* An extraction that adds anything (_run_observation_extraction) leaves no  *)
(* kind of signal stored for the current question unobserved, those of       *)
(* failed cycles and failed extractions included.                            *)
THEOREM EvidenceGetsObserved == Spec => EvidenceIsObserved
<1> DEFINE A == observations' # observations =>
                  \A k \in DOMAIN signals' :
                    signals'[k].index = question /\ signals'[k].type \notin Unmapped =>
                      \E j \in DOMAIN observations' :
                        observations'[j].type = signals'[k].type /\ observations'[j].index = question
<1>1. EvidenceInv /\ ObservationInv /\ [Next]_vars => [A]_vars
  <2> SUFFICES ASSUME EvidenceInv, ObservationInv, [Next]_vars PROVE A
    OBVIOUS
  <2>1. CASE Observes
    BY <2>1, ObservesGrows DEF Mapped
  <2>2. CASE Misses \/ LeavesObservations \/ Forgets
    BY <2>2 DEF Misses, LeavesObservations, Forgets
  <2> QED
    BY <2>1, <2>2, StepOfObservations
<1> QED
  BY <1>1, EvidenceIsInvariant, ObservationsAreInvariant, PTL DEF Spec, EvidenceIsObserved

(* Until a new interview begins no feature loses an observation it stood on, *)
(* superseded or not (FeatureEngine.run), though the pipeline may fail.      *)
THEOREM ProfilesOnlyGrow == Spec => ProfileOnlyGrows
<1> DEFINE A == \A f \in DOMAIN profile : profile[f] \subseteq profile'[f] \/ screen' = "setup"
<1>1. EvidenceInv /\ ObservationInv /\ [Next]_vars => [A]_vars
  <2> SUFFICES ASSUME EvidenceInv, ObservationInv, [Next]_vars PROVE A
    OBVIOUS
  <2>1. DOMAIN profile = DOMAIN FeatureTypes
    BY DEF ObservationInv, FeaturesStand
  <2>2. CASE Observes
    <3>1. /\ observations' \in Seq(Observation) /\ Len(observations) <= Len(observations')
          /\ \A k \in 1 .. Len(observations) : Same(observations'[k], observations[k])
      BY <2>2, ObservesGrows
    <3>2. \A f \in DOMAIN FeatureTypes : profile[f] \subseteq profile'[f]
      BY <2>2, <3>1, ProfileGrows DEF ObservationInv, Observes
    <3> QED
      BY <2>1, <3>2
  <2>3. CASE LeavesObservations \/ Forgets
    BY <2>3 DEF LeavesObservations, Forgets
  <2>4. CASE Misses
    BY <2>1, <2>4, MissesGrows
  <2> QED
    BY <2>2, <2>3, <2>4, StepOfObservations
<1> QED
  BY <1>1, EvidenceIsInvariant, ObservationsAreInvariant, PTL DEF Spec, ProfileOnlyGrows
=============================================================================
