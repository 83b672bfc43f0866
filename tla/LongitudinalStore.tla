-------------------------- MODULE LongitudinalStore --------------------------
(***************************************************************************)
(* The longitudinal profile: one JSON file that every interview of the     *)
(* candidate reads and replaces when it closes.  There is one candidate:   *)
(* every interview is "session-1" (app/ui/state_handlers/start.py:214), of *)
(* which candidate_identity_id is derived.                                 *)
(*                                                                         *)
(* Sessions run in threads of one process; nothing guards the file between *)
(* the read and the replacement.  The process may be killed at any step.   *)
(* A profile is the set of its entries: they are sorted by index, and the  *)
(* indices are unique.  An entry names the interview whose knowledge it    *)
(* holds; the id it stores is the same for all.  Languages and epochs are  *)
(* constant in this version.                                               *)
(***************************************************************************)
EXTENDS Naturals, FiniteSets

CONSTANTS
  Sessions,      \* the interviews that will be closed, numbered
  MaxCrashes     \* bound of the model: how often the process is killed

ASSUME SessionsAssumption == Sessions \subseteq Nat
ASSUME CrashesAssumption == MaxCrashes \in Nat

(* The index a closed session has in its history.                            *)
InterviewIndex(s) == 0

SessionEntry(s) == [session |-> s, index |-> InterviewIndex(s)]

Profile == SUBSET [session : Sessions, index : Nat]

(* A file: there is none when `exists` is FALSE; the JSON can be read when   *)
(* `whole` is TRUE.                                                          *)
File == [exists : BOOLEAN, whole : BOOLEAN, entries : Profile]
Missing == [exists |-> FALSE, whole |-> FALSE, entries |-> {}]
Partial == [exists |-> TRUE, whole |-> FALSE, entries |-> {}]
Complete(p) == [exists |-> TRUE, whole |-> TRUE, entries |-> p]

(* "closed": session_close_node set the history.  "loaded": get returned.    *)
(* "built": build returned.  "writing", "written": the temporary file.  The  *)
(* rest are ends: "done" is saved, "skipped" found its index present,        *)
(* "failed" met an exception, "killed" died with the process.                *)
End == {"done", "skipped", "failed", "killed"}
Phase == {"open", "closed", "loaded", "built", "writing", "written"} \cup End

VARIABLES
  profile_file,  \* data/longitudinal/<candidate>.json
  tmp,           \* each session's temporary file
  pc,            \* where each session is
  prior,         \* prior_profile.session_snapshots, {} for None
  updated,       \* updated_profile.session_snapshots
  crashes

vars == <<profile_file, tmp, pc, prior, updated, crashes>>

Goto(s, from, to) ==
  /\ pc[s] = from
  /\ pc' = [pc EXCEPT ![s] = to]

Indices(p) == {e.index : e \in p}

-----------------------------------------------------------------------------
(* The node: longitudinal_update_node, and the builder and repository calls  *)
(* it makes.                                                                 *)

(* session_close_node: an interview whose history could not be built is      *)
(* never seen by the profile.                                                *)
Close(s) ==
  /\ \E to \in {"closed", "failed"} : Goto(s, "open", to)
  /\ UNCHANGED <<profile_file, tmp, prior, updated, crashes>>

(* get: None without a file, an exception for a file that is not whole.      *)
Load(s) ==
  /\ profile_file.exists => profile_file.whole
  /\ Goto(s, "closed", "loaded")
  /\ prior' = [prior EXCEPT ![s] = profile_file.entries]
  /\ UNCHANGED <<profile_file, tmp, updated, crashes>>

LoadFails(s) ==
  /\ Goto(s, "closed", "failed")
  /\ UNCHANGED <<profile_file, tmp, prior, updated, crashes>>

(* The guard against recording a session twice.  Mutations - here and below, *)
(* definitions with a suffix - are plausible bugs of the definition that     *)
(* follows them; nothing else uses them.                                     *)
AlreadyPresent_Unchecked(s) == FALSE

AlreadyPresent(s) == InterviewIndex(s) \in Indices(prior[s])

Skip(s) ==
  /\ AlreadyPresent(s)
  /\ Goto(s, "loaded", "skipped")
  /\ UNCHANGED <<profile_file, tmp, prior, updated, crashes>>

(* LongitudinalProfileBuilder.build has a guard of its own: it returns the   *)
(* prior profile when the index is present.                                  *)
Built(s) ==
  IF InterviewIndex(s) \in Indices(prior[s])
  THEN prior[s]
  ELSE prior[s] \cup {SessionEntry(s)}

Build(s) ==
  /\ ~AlreadyPresent(s)
  /\ Goto(s, "loaded", "built")
  /\ updated' = [updated EXCEPT ![s] = Built(s)]
  /\ UNCHANGED <<profile_file, tmp, prior, crashes>>

(* NamedTemporaryFile gives every call a name of its own.                    *)
TmpName_Fixed(s) == CHOOSE t \in Sessions : TRUE

TmpName(s) == s

(* save: the temporary file is opened, written and closed, then renamed.     *)
OpenTmp_InPlace(s) ==
  /\ Goto(s, "built", "writing")
  /\ profile_file' = Partial
  /\ tmp' = [tmp EXCEPT ![TmpName(s)] = Partial]
  /\ UNCHANGED <<prior, updated, crashes>>

OpenTmp(s) ==
  /\ Goto(s, "built", "writing")
  /\ tmp' = [tmp EXCEPT ![TmpName(s)] = Partial]
  /\ UNCHANGED <<profile_file, prior, updated, crashes>>

WriteTmp(s) ==
  /\ Goto(s, "writing", "written")
  /\ tmp' = [tmp EXCEPT ![TmpName(s)] = Complete(updated[s])]
  /\ UNCHANGED <<profile_file, prior, updated, crashes>>

Replace(s) ==
  /\ tmp[TmpName(s)].exists
  /\ Goto(s, "written", "done")
  /\ profile_file' = tmp[TmpName(s)]
  /\ tmp' = [tmp EXCEPT ![TmpName(s)] = Missing]
  /\ UNCHANGED <<prior, updated, crashes>>

(* The disk is full or the rename is refused: the exception is swallowed and *)
(* the temporary file, delete=False, stays.                                  *)
SaveFails(s) ==
  /\ \E from \in {"built", "writing", "written"} : Goto(s, from, "failed")
  /\ UNCHANGED <<profile_file, tmp, prior, updated, crashes>>

(* The process is killed, and with it every session that was closing; the    *)
(* files stay.  Those that are open then are new interviews.                 *)
Crash ==
  /\ crashes < MaxCrashes
  /\ crashes' = crashes + 1
  /\ pc' = [s \in Sessions |-> IF pc[s] \in End \cup {"open"} THEN pc[s] ELSE "killed"]
  /\ UNCHANGED <<profile_file, tmp, prior, updated>>

-----------------------------------------------------------------------------
Init ==
  /\ profile_file = Missing
  /\ tmp = [s \in Sessions |-> Missing]
  /\ pc = [s \in Sessions |-> "open"]
  /\ prior = [s \in Sessions |-> {}]
  /\ updated = [s \in Sessions |-> {}]
  /\ crashes = 0

Update(s) ==
  \/ Close(s) \/ Load(s) \/ LoadFails(s) \/ Skip(s) \/ Build(s)
  \/ OpenTmp(s) \/ WriteTmp(s) \/ Replace(s) \/ SaveFails(s)

Next == (\E s \in Sessions : Update(s)) \/ Crash

Spec == Init /\ [][Next]_vars

-----------------------------------------------------------------------------
(* Properties.                                                               *)

TypeOK ==
  /\ profile_file \in File
  /\ tmp \in [Sessions -> File]
  /\ pc \in [Sessions -> Phase]
  /\ prior \in [Sessions -> Profile]
  /\ updated \in [Sessions -> Profile]
  /\ crashes \in 0 .. MaxCrashes

(* Whatever is killed or fails at whatever step, a profile that exists can   *)
(* be read: a reader never meets a partial write of save.                    *)
ProfileIsWhole == profile_file.exists => profile_file.whole

(* has_sufficient_data, that needs two sessions, never becomes true: the     *)
(* constant index makes every later session look recorded already.  The      *)
(* report's trends have nothing to show.                                     *)
NoTrends == Cardinality(profile_file.entries) <= 1

(* A recorded session is only overwritten by one that loaded before there    *)
(* was a profile: the two closed concurrently.                               *)
OnlyRacersOverwrite ==
  [][\A s \in Sessions :
       profile_file.exists /\ profile_file' # profile_file /\ pc[s] # pc'[s]
         => prior[s] = {}]_vars

(* The steps of the file system are one atomic write, or none.               *)
Register ==
  INSTANCE ProfileRegister WITH
    Clients <- Sessions,
    EntryOf <- SessionEntry,
    stored <- profile_file.entries,
    phase <- [s \in Sessions |->
                IF pc[s] \in {"open", "closed"} THEN "before"
                ELSE IF pc[s] \in {"loaded", "built", "writing", "written"} THEN "between"
                ELSE "after"],
    seen <- prior

ImplementsRegister == Register!RegisterSpec

(* V13-PRODUCT-MASTER-PLAN.md:357: the profile is persisted after every      *)
(* session completion - of those whose update met no error.                  *)
EverySessionIsRecorded ==
  \A s \in Sessions :
    pc[s] \in {"done", "skipped"} => s \in {e.session : e \in profile_file.entries}
=============================================================================
