----------------------- MODULE LongitudinalStore_proofs -----------------------
(***************************************************************************)
(* Proofs about LongitudinalStore, for any set of sessions and any number  *)
(* of crashes.  They rest on one fact: a session that is saving loaded no  *)
(* profile at all, since any entry would have had its index.               *)
(***************************************************************************)
EXTENDS LongitudinalStore, FiniteSetTheorems, TLAPS

(* No more than one entry, whoever wrote it.                                 *)
AtMostOne(p) == p = {} \/ \E s \in Sessions : p = {SessionEntry(s)}

Saving == {"built", "writing", "written"}

(* What is built, is on its way to the file, and is in it.                   *)
SavedInv ==
  /\ AtMostOne(profile_file.entries)
  /\ \A s \in Sessions :
       /\ AtMostOne(prior[s])
       /\ pc[s] \in Saving => prior[s] = {} /\ updated[s] = {SessionEntry(s)}
       /\ pc[s] = "written" => tmp[s] = Complete(updated[s])

Inv == TypeOK /\ ProfileIsWhole /\ SavedInv

-----------------------------------------------------------------------------
LEMMA EntryIsTyped ==
  ASSUME NEW s \in Sessions
  PROVE  /\ SessionEntry(s) \in [session : Sessions, index : Nat]
         /\ SessionEntry(s).index = InterviewIndex(s)
         /\ InterviewIndex(s) = 0
BY DEF SessionEntry, InterviewIndex

(* Any entry has the index of every session.                                 *)
LEMMA PresentUnlessEmpty ==
  ASSUME NEW s \in Sessions, AtMostOne(prior[s])
  PROVE  AlreadyPresent(s) <=> prior[s] # {}
BY EntryIsTyped DEF AtMostOne, AlreadyPresent, Indices, InterviewIndex

LEMMA InitInv == Init => Inv
BY CrashesAssumption
   DEF Init, Inv, TypeOK, ProfileIsWhole, SavedInv, AtMostOne, Saving,
       Missing, File, Profile, Phase, End

LEMMA CloseKeepsInv ==
  ASSUME Inv, NEW s \in Sessions, Close(s)
  PROVE  Inv'
BY DEF Inv, TypeOK, ProfileIsWhole, SavedInv, Saving, Close, Goto, Phase, End

LEMMA LoadKeepsInv ==
  ASSUME Inv, NEW s \in Sessions, Load(s)
  PROVE  Inv'
<1>1. profile_file.entries \in Profile
  BY DEF Inv, TypeOK, File
<1>2. TypeOK'
  BY <1>1 DEF Inv, TypeOK, Load, Goto, Phase
<1>3. SavedInv'
  BY DEF Inv, TypeOK, SavedInv, Saving, Load, Goto
<1> QED
  BY <1>2, <1>3 DEF Inv, ProfileIsWhole, Load

LEMMA FailureKeepsInv ==
  ASSUME Inv, NEW s \in Sessions, LoadFails(s) \/ Skip(s) \/ SaveFails(s)
  PROVE  Inv'
BY DEF Inv, TypeOK, ProfileIsWhole, SavedInv, Saving, LoadFails, Skip, SaveFails, Goto,
       Phase, End

LEMMA BuildKeepsInv ==
  ASSUME Inv, NEW s \in Sessions, Build(s)
  PROVE  Inv'
<1>1. prior[s] = {}
  BY PresentUnlessEmpty DEF Inv, SavedInv, Build
<1>2. Built(s) = {SessionEntry(s)}
  BY <1>1 DEF Built, Indices
<1>3. {SessionEntry(s)} \in Profile
  BY EntryIsTyped DEF Profile
<1>4. updated' = [updated EXCEPT ![s] = {SessionEntry(s)}]
  BY <1>2 DEF Build
<1>5. TypeOK'
  BY <1>3, <1>4 DEF Inv, TypeOK, Build, Goto, Phase
<1>6. SavedInv'
  BY <1>1, <1>4 DEF Inv, TypeOK, SavedInv, Saving, Build, Goto
<1> QED
  BY <1>5, <1>6 DEF Inv, ProfileIsWhole, Build

LEMMA SaveKeepsInv ==
  ASSUME Inv, NEW s \in Sessions, OpenTmp(s) \/ WriteTmp(s) \/ Replace(s)
  PROVE  Inv'
<1>1. CASE OpenTmp(s)
  <2>1. Partial \in File
    BY DEF Partial, File, Profile
  <2>2. TypeOK'
    BY <1>1, <2>1 DEF Inv, TypeOK, OpenTmp, Goto, TmpName, Phase
  <2>3. SavedInv'
    BY <1>1 DEF Inv, TypeOK, SavedInv, Saving, OpenTmp, Goto, TmpName
  <2> QED
    BY <1>1, <2>2, <2>3 DEF Inv, ProfileIsWhole, OpenTmp
<1>2. CASE WriteTmp(s)
  <2>1. Complete(updated[s]) \in File
    BY DEF Inv, TypeOK, Complete, File
  <2>2. TypeOK'
    BY <1>2, <2>1 DEF Inv, TypeOK, WriteTmp, Goto, TmpName, Phase
  <2>3. SavedInv'
    BY <1>2 DEF Inv, TypeOK, SavedInv, Saving, WriteTmp, Goto, TmpName
  <2> QED
    BY <1>2, <2>2, <2>3 DEF Inv, ProfileIsWhole, WriteTmp
<1>3. CASE Replace(s)
  <2>1. Missing \in File
    BY DEF Missing, File, Profile
  <2>2. profile_file' = Complete({SessionEntry(s)})
    BY <1>3 DEF Inv, SavedInv, Saving, Replace, Goto, TmpName
  <2>3. /\ profile_file' \in File /\ profile_file'.entries = {SessionEntry(s)}
        /\ profile_file'.exists /\ profile_file'.whole
    BY <2>2, EntryIsTyped DEF Complete, File, Profile
  <2>4. TypeOK'
    BY <1>3, <2>1, <2>3 DEF Inv, TypeOK, Replace, Goto, TmpName, Phase, End
  <2>5. SavedInv'
    BY <1>3, <2>3 DEF Inv, TypeOK, SavedInv, AtMostOne, Saving, Replace, Goto, TmpName
  <2> QED
    BY <2>3, <2>4, <2>5 DEF Inv, ProfileIsWhole
<1> QED
  BY <1>1, <1>2, <1>3

LEMMA CrashKeepsInv ==
  ASSUME Inv, Crash
  PROVE  Inv'
<1>1. TypeOK'
  BY CrashesAssumption DEF Inv, TypeOK, Crash, Phase, End
<1>2. SavedInv'
  BY DEF Inv, TypeOK, SavedInv, Saving, Crash, End
<1> QED
  BY <1>1, <1>2 DEF Inv, ProfileIsWhole, Crash

LEMMA StepInv == Inv /\ [Next]_vars => Inv'
<1> SUFFICES ASSUME Inv, [Next]_vars PROVE Inv'
  OBVIOUS
<1>1. ASSUME NEW s \in Sessions, Update(s)
      PROVE  Inv'
  BY <1>1, CloseKeepsInv, LoadKeepsInv, FailureKeepsInv, BuildKeepsInv, SaveKeepsInv DEF Update
<1>2. CASE Crash
  BY <1>2, CrashKeepsInv
<1>3. CASE UNCHANGED vars
  BY <1>3 DEF vars, Inv, TypeOK, ProfileIsWhole, SavedInv
<1> QED
  BY <1>1, <1>2, <1>3 DEF Next

(* The strengthening the theorems below rest on.                             *)
THEOREM InvIsInvariant == Spec => []Inv
BY InitInv, StepInv, PTL DEF Spec

(* Every variable keeps its type.                                            *)
THEOREM TypesAreKept == Spec => []TypeOK
<1>1. Inv => TypeOK
  BY DEF Inv
<1> QED
  BY <1>1, InvIsInvariant, PTL

(* The profile on disk can always be read, whatever save was killed at.      *)
THEOREM WholeProfile == Spec => []ProfileIsWhole
<1>1. Inv => ProfileIsWhole
  BY DEF Inv
<1> QED
  BY <1>1, InvIsInvariant, PTL

(* The profile never reaches the two sessions that a trend takes.            *)
THEOREM TrendsNeverShow == Spec => []NoTrends
<1>1. ASSUME Inv PROVE NoTrends
  <2>1. CASE profile_file.entries = {}
    BY <2>1, FS_EmptySet DEF NoTrends
  <2>2. CASE \E s \in Sessions : profile_file.entries = {SessionEntry(s)}
    <3>1. PICK s \in Sessions : profile_file.entries = {SessionEntry(s)}
      BY <2>2
    <3>2. Cardinality({SessionEntry(s)}) = 1
      BY FS_Singleton
    <3> QED
      BY <3>1, <3>2 DEF NoTrends
  <2> QED
    BY <1>1, <2>1, <2>2 DEF Inv, SavedInv, AtMostOne
<1> QED
  BY <1>1, InvIsInvariant, PTL

-----------------------------------------------------------------------------
(* The steps, one by one.                                                    *)

LEMMA FileChangesByReplace ==
  ASSUME NEW s \in Sessions, Update(s), profile_file' # profile_file
  PROVE  Replace(s)
BY DEF Update, Close, Load, LoadFails, Skip, Build, OpenTmp, WriteTmp, SaveFails

(* A recorded session is only lost to one that loaded before any profile     *)
(* existed.                                                                  *)
THEOREM RacersOverwrite == Spec => OnlyRacersOverwrite
<1> DEFINE A == \A s \in Sessions :
                  profile_file.exists /\ profile_file' # profile_file /\ pc[s] # pc'[s]
                    => prior[s] = {}
<1>1. Inv /\ [Next]_vars => [A]_vars
  <2> SUFFICES ASSUME Inv, [Next]_vars,
                      NEW s \in Sessions, profile_file' # profile_file, pc[s] # pc'[s]
               PROVE  prior[s] = {}
    OBVIOUS
  <2>1. PICK t \in Sessions : Update(t)
    BY DEF Next, Crash, vars
  <2>2. Replace(t)
    BY <2>1, FileChangesByReplace
  <2>3. s = t
    BY <2>2 DEF Replace, Goto, Inv, TypeOK
  <2> QED
    BY <2>2, <2>3 DEF Replace, Goto, Inv, SavedInv, Saving
<1> QED
  BY <1>1, InvIsInvariant, PTL DEF Spec, OnlyRacersOverwrite

-----------------------------------------------------------------------------
(* The refinement.                                                           *)

PhaseOf(p) ==
  IF p \in {"open", "closed"} THEN "before"
  ELSE IF p \in {"loaded", "built", "writing", "written"} THEN "between"
  ELSE "after"

Phases == [s \in Sessions |-> PhaseOf(pc[s])]

LEMMA RegisterInitially == Init => Register!RegisterInit
BY DEF Init, Register!RegisterInit, Missing

(* A session that moves from one program counter to another.                 *)
LEMMA MovedPhase ==
  ASSUME TypeOK, NEW s \in Sessions, NEW to, pc' = [pc EXCEPT ![s] = to]
  PROVE  Phases' = [Phases EXCEPT ![s] = PhaseOf(to)]
BY DEF TypeOK, Phases

LEMMA GivingUp ==
  ASSUME TypeOK, NEW s \in Sessions, NEW to \in End, pc' = [pc EXCEPT ![s] = to],
         UNCHANGED <<profile_file, prior>>
  PROVE  Register!GiveUp({s})
<1>1. Phases' = [Phases EXCEPT ![s] = "after"]
  BY MovedPhase DEF PhaseOf, End
<1>2. Phases' = [c \in Sessions |-> IF c \in {s} THEN "after" ELSE Phases[c]]
  BY <1>1 DEF Phases
<1> QED
  BY <1>2 DEF Register!GiveUp, Phases, PhaseOf

LEMMA StepOfRegister ==
  ASSUME Inv, NEW s \in Sessions, Update(s)
  PROVE  [Register!RegisterStep]_(Register!register)
<1> USE DEF Inv
<1>1. ASSUME NEW from, NEW to, Goto(s, from, to), PhaseOf(from) = PhaseOf(to),
             UNCHANGED <<profile_file, prior>>
      PROVE  UNCHANGED Register!register
  <2>1. Phases' = [Phases EXCEPT ![s] = PhaseOf(to)]
    BY <1>1, MovedPhase DEF Goto
  <2>2. Phases[s] = PhaseOf(to)
    BY <1>1 DEF Phases, Goto
  <2>3. Phases' = Phases
    BY <2>1, <2>2 DEF Phases
  <2> QED
    BY <1>1, <2>3 DEF Register!register, Phases, PhaseOf
<1>2. ASSUME NEW from, NEW to \in End, Goto(s, from, to), UNCHANGED <<profile_file, prior>>
      PROVE  Register!RegisterStep
  BY <1>2, GivingUp DEF Goto, Register!RegisterStep
<1>3. CASE Close(s)
  <2>1. CASE Goto(s, "open", "closed")
    BY <1>1, <1>3, <2>1 DEF Close, PhaseOf
  <2>2. CASE Goto(s, "open", "failed")
    BY <1>2, <1>3, <2>2 DEF Close, End
  <2> QED
    BY <1>3, <2>1, <2>2 DEF Close
<1>4. CASE Load(s)
  <2>1. Phases' = [Phases EXCEPT ![s] = "between"] /\ Phases[s] = "before"
    BY <1>4, MovedPhase DEF Load, Goto, PhaseOf, Phases
  <2> QED
    BY <1>4, <2>1 DEF Load, Register!RegisterStep, Register!ReadOnce, Phases, PhaseOf
<1>5. CASE LoadFails(s)
  BY <1>2, <1>5 DEF LoadFails, End
<1>6. CASE Skip(s)
  BY <1>2, <1>6 DEF Skip, End
<1>7. CASE Build(s)
  BY <1>1, <1>7 DEF Build, PhaseOf
<1>8. CASE OpenTmp(s)
  BY <1>1, <1>8 DEF OpenTmp, PhaseOf
<1>9. CASE WriteTmp(s)
  BY <1>1, <1>9 DEF WriteTmp, PhaseOf
<1>10. CASE Replace(s)
  <2>1. Phases' = [Phases EXCEPT ![s] = "after"] /\ Phases[s] = "between"
    BY <1>10, MovedPhase DEF Replace, Goto, PhaseOf, Phases
  <2>2. prior[s] = {} /\ profile_file'.entries = {SessionEntry(s)}
    <3>1. prior[s] = {} /\ profile_file' = Complete({SessionEntry(s)})
      BY <1>10 DEF Replace, Goto, TmpName, SavedInv, Saving
    <3> QED
      BY <3>1 DEF Complete
  <2> QED
    BY <1>10, <2>1, <2>2
       DEF Replace, Register!RegisterStep, Register!WriteOnce, Phases, PhaseOf
<1>11. CASE SaveFails(s)
  <2>1. PICK from \in {"built", "writing", "written"} : Goto(s, from, "failed")
    BY <1>11 DEF SaveFails
  <2> QED
    BY <1>2, <1>11, <2>1 DEF SaveFails, End
<1> QED
  BY <1>3, <1>4, <1>5, <1>6, <1>7, <1>8, <1>9, <1>10, <1>11 DEF Update

(* Everybody who was closing gives up at once.                               *)
LEMMA CrashOfRegister ==
  ASSUME Inv, Crash
  PROVE  Register!RegisterStep
<1>1. PICK gone \in SUBSET Sessions : gone = {s \in Sessions : pc[s] # "open"}
  OBVIOUS
<1>2. ASSUME NEW s \in Sessions
      PROVE  Phases'[s] = IF s \in gone THEN "after" ELSE Phases[s]
  BY <1>1 DEF Inv, TypeOK, Crash, Phases, PhaseOf, Phase, End
<1>3. Phases' = [s \in Sessions |-> IF s \in gone THEN "after" ELSE Phases[s]]
  BY <1>2 DEF Phases
<1>4. Register!GiveUp(gone)
  BY <1>3 DEF Crash, Register!GiveUp, Phases, PhaseOf
<1> QED
  BY <1>4 DEF Register!RegisterStep

(* save and the node around it are one atomic write of a register, or none.  *)
THEOREM StoreRefinesRegister == Spec => ImplementsRegister
<1>1. Inv /\ [Next]_vars => [Register!RegisterStep]_(Register!register)
  <2> SUFFICES ASSUME Inv, [Next]_vars
               PROVE  [Register!RegisterStep]_(Register!register)
    OBVIOUS
  <2>1. CASE \E s \in Sessions : Update(s)
    BY <2>1, StepOfRegister
  <2>2. CASE Crash
    BY <2>2, CrashOfRegister
  <2>3. CASE UNCHANGED vars
    BY <2>3 DEF vars, Register!register
  <2> QED
    BY <2>1, <2>2, <2>3 DEF Next
<1> QED
  BY <1>1, RegisterInitially, InvIsInvariant, PTL
     DEF Spec, ImplementsRegister, Register!RegisterSpec
=============================================================================
