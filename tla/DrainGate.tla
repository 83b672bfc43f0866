------------------------------ MODULE DrainGate ------------------------------
(***************************************************************************)
(* What draining the process promises: requests come and go while the gate *)
(* is open; once it is shut they only go; and the one report made of it is *)
(* "clean" exactly when nobody was left inside.                            *)
(*                                                                         *)
(* ShutdownDrain is shown to implement it.                                 *)
(***************************************************************************)
CONSTANT Requests

VARIABLES open, inside, report

gate == <<open, inside, report>>

GateInit == open = TRUE /\ inside = {} /\ report = "none"

Enter(r) ==
  /\ open
  /\ r \notin inside
  /\ inside' = inside \cup {r}
  /\ UNCHANGED <<open, report>>

Go(r) ==
  /\ r \in inside
  /\ inside' = inside \ {r}
  /\ UNCHANGED <<open, report>>

Shut ==
  /\ open' = FALSE
  /\ UNCHANGED <<inside, report>>

Conclude ==
  /\ ~open
  /\ report = "none"
  /\ report' = IF inside = {} THEN "clean" ELSE "timeout"
  /\ UNCHANGED <<open, inside>>

GateStep == (\E r \in Requests : Enter(r) \/ Go(r)) \/ Shut \/ Conclude

GateSpec == GateInit /\ [][GateStep]_gate
=============================================================================
