-------------------------- MODULE MC_QuestionSupply --------------------------
(* An instance of QuestionSupply for TLC.                                    *)
EXTENDS QuestionSupply, TLC

CONSTANTS d1, d2, d3, d4

(* Two written areas, the first with the smallest share, and the coding one. *)
ThreeAreas == <<"background", "knowledge", "coding">>
Shares == ("background" :> 20) @@ ("knowledge" :> 40) @@ ("coding" :> 40)

(* The store: two equivalent documents of the easiest area and one that is   *)
(* not found before the last stage; a senior's first stages are narrower.    *)
Nothing == [n \in Stages |-> {}]
AtStages(first, last) == [n \in Stages |-> IF n < 4 THEN first ELSE last]

Corpus ==
  [level \in {"mid", "senior"} |->
     ("background" :> Nothing)
       @@ ("knowledge" :> AtStages(IF level = "senior" THEN {d1} ELSE {d1, d2}, {d1, d2, d3}))
       @@ ("coding" :> AtStages(IF level = "senior" THEN {} ELSE {d4}, {d4, d3}))]
=============================================================================
