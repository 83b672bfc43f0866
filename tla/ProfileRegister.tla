--------------------------- MODULE ProfileRegister ---------------------------
(***************************************************************************)
(* What the longitudinal profile promises its sessions: a register that    *)
(* each of them may read once and, having found no entry of its own index, *)
(* may overwrite once, in one step, with what it read and its own entry.   *)
(* It does not promise that nobody wrote in between.                       *)
(*                                                                         *)
(* LongitudinalStore is shown to implement it.                             *)
(***************************************************************************)
CONSTANTS
  Clients,        \* the sessions
  EntryOf(_)      \* the entry of each, a record with its index

VARIABLES stored, phase, seen

register == <<stored, phase, seen>>

RegisterInit ==
  /\ stored = {}
  /\ phase = [c \in Clients |-> "before"]
  /\ seen = [c \in Clients |-> {}]

ReadOnce(c) ==
  /\ phase[c] = "before"
  /\ phase' = [phase EXCEPT ![c] = "between"]
  /\ seen' = [seen EXCEPT ![c] = stored]
  /\ UNCHANGED stored

WriteOnce(c) ==
  /\ phase[c] = "between"
  /\ \A e \in seen[c] : e.index # EntryOf(c).index
  /\ stored' = seen[c] \cup {EntryOf(c)}
  /\ phase' = [phase EXCEPT ![c] = "after"]
  /\ UNCHANGED seen

(* A client finds its entry, meets an error, or is killed with all others.   *)
GiveUp(leaving) ==
  /\ phase' = [c \in Clients |-> IF c \in leaving THEN "after" ELSE phase[c]]
  /\ UNCHANGED <<stored, seen>>

RegisterStep ==
  \/ \E c \in Clients : ReadOnce(c) \/ WriteOnce(c)
  \/ \E leaving \in SUBSET Clients : GiveUp(leaving)

RegisterSpec == RegisterInit /\ [][RegisterStep]_register
=============================================================================
