----------------------------- MODULE MC_Answers -----------------------------
(* An instance of Answers for TLC.                                           *)
EXTENDS Answers

(* Both kinds of executed questions, a written one in the dimension of one   *)
(* of them, and a dimension that is only written and has a gate.             *)
MixedPlan == <<[kind |-> "coding", dim |-> "problem_solving"],
               [kind |-> "database", dim |-> "technical_depth"],
               [kind |-> "written", dim |-> "technical_depth"],
               [kind |-> "written", dim |-> "system_design"]>>

(* Two summaries: one as if all had passed, one the validator refuses.       *)
Total(marker, p, total) == [marker |-> marker, status |-> "none", passed |-> p, total |-> total]

SomeClaims == {Total("visible", 2, 2), Total("hidden", 3, 2)}

SomeRoles == {"backend_engineer", "qa_engineer"}

(* On both sides of the gates and of the thresholds of the decision.         *)
SomeScores == {59 * 60, 100 * 60}
=============================================================================
