-------------------------- MODULE MC_ShutdownDrain --------------------------
(* Instances of ShutdownDrain for TLC.                                       *)
EXTENDS ShutdownDrain
CONSTANTS r1, r2, r3
ThreeRequests == {r1, r2, r3}
=============================================================================
