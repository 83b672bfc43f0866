--------------------------- MODULE InterviewLength ---------------------------
(***************************************************************************)
(* interview_length_planner: how many questions each area of a technical   *)
(* interview gets, and the planned areas in the order they are asked.      *)
(* Shares are percents; the weights of the code are multiples of a         *)
(* twentieth, which its floats represent well enough for floor and sort.   *)
(***************************************************************************)
EXTENDS Naturals, Sequences, FiniteSetsExt

CONSTANTS
  DeclaredAreas,   \* InterviewType.get_areas, in order
  Share            \* TECHNICAL_AREA_WEIGHTS, in percent

Area == {DeclaredAreas[k] : k \in DOMAIN DeclaredAreas}

ASSUME DeclaredAssumption ==
  /\ DeclaredAreas \in Seq(Area) /\ DeclaredAreas # <<>>
  /\ \A j, k \in DOMAIN DeclaredAreas : DeclaredAreas[j] = DeclaredAreas[k] => j = k
ASSUME ShareAssumption == Share \in [Area -> 1 .. 100]

(* An area's share in hundredths of a question, rounded down but not to      *)
(* nothing.                                                                  *)
Raw(length, k) == Share[DeclaredAreas[k]] * length
AtLeastOne(length, k) == IF Raw(length, k) < 100 THEN 1 ELSE Raw(length, k) \div 100
Fraction(length, k) == Raw(length, k) % 100

Remainder(length) ==
  length - MapThenSumSet(LAMBDA k : AtLeastOne(length, k), DOMAIN DeclaredAreas)

(* The areas that come before k in the stable sort by falling fraction.      *)
Ahead(length, k) ==
  {j \in DOMAIN DeclaredAreas :
     \/ Fraction(length, j) > Fraction(length, k)
     \/ Fraction(length, j) = Fraction(length, k) /\ j < k}

Count_NoRemainder(length, k) == AtLeastOne(length, k)

Count(length, k) ==
  AtLeastOne(length, k)
    + (IF Cardinality(Ahead(length, k)) < Remainder(length) THEN 1 ELSE 0)

(* planned_areas: each area as often as it counts, in declared order.        *)
Upto(length, k) == MapThenSumSet(LAMBDA j : Count(length, j), 1 .. k)

PlannedAreas(length) ==
  [i \in 1 .. Upto(length, Len(DeclaredAreas)) |->
     DeclaredAreas[CHOOSE k \in DOMAIN DeclaredAreas :
                     Upto(length, k - 1) < i /\ i <= Upto(length, k)]]
=============================================================================
