----------------------------- MODULE MC_Reasoner -----------------------------
(* Instances of Reasoner for TLC.                                            *)
EXTENDS Reasoner

TwoDimensions == {"technical_depth", "communication"}
TechnicalDepth == "technical_depth"

(* A positive signal about the dimension of the evaluations, so that they    *)
(* can be contradicted.                                                      *)
Depth == {[type |-> "REASONING_DEPTH_HIGH", dim |-> "technical_depth", positive |-> TRUE]}
=============================================================================
