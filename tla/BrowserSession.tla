---------------------------- MODULE BrowserSession ----------------------------
(***************************************************************************)
(* The page around InterviewSession: handlers that overlap, the report     *)
(* section, and the replay of a closed interview.                          *)
(*                                                                         *)
(* Gradio runs the handlers of different buttons at the same time, over    *)
(* one gr.State (`state`).  A handler reads and writes only the copy it    *)
(* was given, so only its yields meet the others: InterviewSession's       *)
(* variables are the handler that computes, from its first yield to its    *)
(* last, and `late` keeps that last yield until Gradio delivers it.        *)
(***************************************************************************)
EXTENDS InterviewSession

CONSTANT MaxPending   \* bound of the model: handlers under way at once

ASSUME PendingAssumption == MaxPending \in Nat \ {0}

VARIABLES
  state,       \* gr.State: what the next handler is given
  late,        \* for each button, the last yield of its handler, not delivered yet
  page,        \* what is visible beside the interview
  runtime,     \* replay_runtime
  overlapped   \* a handler began on a screen that another one was about to replace

browser == <<state, late, page, runtime, overlapped>>
allvars == <<vars, browser>>

(* The listeners; next_question serves Next and Generate Report.             *)
Listener == {"start", "submit", "retry", "next"}
ListenerOf(h) == IF h = "report" THEN "next" ELSE h

Pending(l) == late[l] # {}

(* report_section is drawn with the completed interview and with its report. *)
DrawsReport(s) == UiPhase(s) \in {"COMPLETION", "REPORT"}

(* One yield of a handler of the interview: state and page at once.          *)
Yielded(s) ==
  /\ state' = s
  /\ page' = [page EXCEPT !.report = DrawsReport(s)]

-----------------------------------------------------------------------------
(* The interview's handlers, one computing at a time.                        *)

(* Submit, Next and Start first yield a locked screen; Retry does not, and   *)
(* leaves its screen, buttons and all, as it was.                            *)
FirstYield_NextHasNone(s) ==
  IF handler' \in {"retry", "next", "report"} THEN UNCHANGED <<state, page>> ELSE Yielded(s)

FirstYield(s) ==
  IF handler' = "retry" THEN UNCHANGED <<state, page>> ELSE Yielded(s)

(* A button is dead while its own handler is under way (trigger_mode "once").*)
Click ==
  /\ session = state
  /\ Cardinality({l \in Listener : Pending(l)}) < MaxPending
  /\ StartInterview \/ Submit \/ Retry \/ NextQuestion
  /\ ~Pending(ListenerOf(handler'))
  /\ FirstYield(session')
  /\ overlapped' = (overlapped \/ Pending("retry"))
  /\ UNCHANGED <<late, runtime>>

Compute ==
  /\ HandlerStep
  /\ late' = IF handler' # "none" THEN late
             ELSE [late EXCEPT ![ListenerOf(handler)] = {session'}]
  /\ UNCHANGED <<state, page, runtime, overlapped>>

(* The last yield replaces whatever is there.                                *)
Deliver(l) ==
  /\ handler = "none"
  /\ \E s \in late[l] : End(s) /\ Yielded(s)
  /\ late' = [late EXCEPT ![l] = {}]
  /\ UNCHANGED <<runtime, overlapped>>

(* The next handler is given gr.State, not what the last one has computed.   *)
Read ==
  /\ handler = "none"
  /\ session # state
  /\ End(state)
  /\ UNCHANGED browser

(* "Start New Interview" stands in the report section, wherever that shows.  *)
StartOver ==
  /\ page.report
  /\ handler = "none"
  /\ End(EmptyState)
  /\ Yielded(EmptyState)
  /\ overlapped' = (overlapped \/ \E l \in Listener : Pending(l))
  /\ UNCHANGED <<late, runtime>>

-----------------------------------------------------------------------------
(* Replay.  A ReplayViewController holds a session, here the questions it    *)
(* has records of, and a position in it; an error boundary holds neither.    *)

NoReplay    == [kind |-> "none", records |-> {}, position |-> 0]
ReplayError == [kind |-> "error", records |-> {}, position |-> 0]
Runtime == [kind : {"none", "error", "replay"}, records : SUBSET Slots, position : Nat]
Page    == [report : BOOLEAN, replay : BOOLEAN, listed : BOOLEAN]

LastPosition == Cardinality(runtime.records) - 1

(* ReplayEntryPoint.load and route, composed into a page.  A reconstruction  *)
(* may fail; without a record to show, composing raises instead.             *)
Loaded(h) ==
  {ReplayError} \cup
    {[kind |-> "replay", records |-> r, position |-> 0] : r \in {h.results} \ {{}}}

ShowReplay(r) ==
  /\ runtime' = r
  /\ page' = [page EXCEPT !.report = FALSE, !.replay = TRUE]

(* The loader finds the history of the state; without a report the handler   *)
(* raises and nothing changes.                                               *)
EnterFromReport ==
  /\ page.report
  /\ state.report
  /\ \E r \in Loaded(state.history) : runtime' = r
  /\ page' = [report |-> FALSE, replay |-> TRUE, listed |-> TRUE]
  /\ UNCHANGED <<vars, state, late, overlapped>>

(* The history section always shows; its default loader finds nothing.       *)
EnterFromHistory ==
  /\ page.listed
  /\ ShowReplay(ReplayError)
  /\ UNCHANGED <<vars, state, late, overlapped>>

NavigateForward_PastTheEnd ==
  /\ page.replay
  /\ runtime.kind = "replay"
  /\ runtime.position <= LastPosition
  /\ ShowReplay([runtime EXCEPT !.position = @ + 1])
  /\ UNCHANGED <<vars, state, late, overlapped>>

(* The buttons are interactive where there is somewhere to go.               *)
NavigateForward ==
  /\ page.replay
  /\ runtime.kind = "replay"
  /\ runtime.position < LastPosition
  /\ ShowReplay([runtime EXCEPT !.position = @ + 1])
  /\ UNCHANGED <<vars, state, late, overlapped>>

NavigateBackward ==
  /\ page.replay
  /\ runtime.kind = "replay"
  /\ runtime.position > 0
  /\ ShowReplay([runtime EXCEPT !.position = @ - 1])
  /\ UNCHANGED <<vars, state, late, overlapped>>

(* exit resolves the screen of the interview, and shows the report section   *)
(* without looking at it.                                                    *)
ExitReplay ==
  /\ page.replay
  /\ runtime' = NoReplay
  /\ page' = [page EXCEPT !.report = TRUE, !.replay = FALSE]
  /\ UNCHANGED <<vars, state, late, overlapped>>

-----------------------------------------------------------------------------
BrowserInit ==
  /\ Init
  /\ state = EmptyState
  /\ late = [l \in Listener |-> {}]
  /\ page = [report |-> FALSE, replay |-> FALSE, listed |-> FALSE]
  /\ runtime = NoReplay
  /\ overlapped = FALSE

Delivery == \E l \in Listener : Deliver(l)
Replay == EnterFromReport \/ EnterFromHistory \/ NavigateForward \/ NavigateBackward
          \/ ExitReplay

BrowserNext == Click \/ Compute \/ Delivery \/ Read \/ StartOver \/ Replay

(* A handler returns and its yields arrive; each listener has its own queue. *)
BrowserSpec ==
  /\ BrowserInit /\ [][BrowserNext]_allvars
  /\ WF_allvars(Compute)
  /\ \A l \in Listener : WF_allvars(Deliver(l))

-----------------------------------------------------------------------------
(* What holds of every page.                                                 *)

(* However the yields of overlapping handlers are delivered, every screen    *)
(* they leave is one a handler made whole: its verdict is of its own last    *)
(* answer, it has a way out, nothing incorrect was passed, and an interview  *)
(* that is closed on it has every question graded and recorded.              *)
ScreensStayCoherent ==
  /\ FeedbackCoherent /\ NoDeadEnd /\ NoSkipping
  /\ CompletedMeansAllGraded /\ HistoryIsWhole

(* A replay shows a whole interview, one record for every question of its    *)
(* plan, at one of its questions, also when a late yield or a new interview  *)
(* has replaced the state it was entered from.                               *)
ReplayIsWhole ==
  /\ runtime \in Runtime /\ page \in Page
  /\ runtime.kind = "replay" =>
       /\ runtime.records \in {{i \in Slots : i < Len(p)} : p \in Plans}
       /\ runtime.position \in 0 .. LastPosition

(* The locks do their part: as long as nothing began while a retry, which    *)
(* locks nothing, was under way, and nobody started over in the middle of    *)
(* it, no delivery takes back an answer or reopens a closed interview.       *)
LocksKeepAnswers ==
  [][~overlapped' =>
       \/ state' = EmptyState
       \/ /\ \A i \in Slots : state'.answers[i] >= state.answers[i]
          /\ state.history.closed => state'.history = state.history]_allvars

(* The loader always leaves the screen: a locked screen has no button, and   *)
(* of the handlers whose yields mix, the one that locked it comes last.      *)
LoaderGoes == state.processing ~> ~state.processing
=============================================================================
