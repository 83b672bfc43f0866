------------------------- MODULE BrowserSession_proofs -------------------------
(***************************************************************************)
(* Proofs about BrowserSession, for every value of its constants: whatever *)
(* the order in which handlers begin and their yields are delivered.       *)
(*                                                                         *)
(* The argument: what InterviewSession's invariant says of an idle session *)
(* depends on nothing but the session (Good), so any good state may be     *)
(* given to the next handler; and every yield, delivered or not, is good.  *)
(***************************************************************************)
EXTENDS BrowserSession, InterviewSession_proofs, FiniteSetTheorems

(* A history is empty until it is closed.                                    *)
Blank(s) == s.history.closed \/ s.history.results = {}

InterviewInv ==
  /\ TypeInv /\ GradingInv /\ RecordInv
  /\ Blank(session) /\ Blank(work)

(* A state that a handler may be given.                                      *)
Good(s) ==
  s \in InterviewState /\ Placed(s) /\ Fresh(s) /\ Settled(s) /\ Sound(s) /\ Blank(s)

(* The screen of a handler that is under way leaves nothing else to click,   *)
(* unless it is a retry's.                                                   *)
Held(l, s) ==
  /\ l = "start" => s = EmptyState
  /\ l \in {"submit", "next"} => UiPhase(s) = "PROCESSING"

(* What a yield may do to the state it was computed from.                    *)
After(s, t) ==
  \/ t = EmptyState
  \/ /\ \A i \in Slots : t.answers[i] >= s.answers[i]
     /\ s.history.closed => t.history = s.history

(* As long as nothing overlapped there is one handler under way at most.     *)
Alone ==
  /\ handler # "none" => session = state
  /\ ~overlapped =>
       /\ handler # "none" =>
            Held(ListenerOf(handler), state) /\ \A l \in Listener : ~Pending(l)
       /\ \A l \in Listener : Pending(l) =>
            /\ Held(l, state)
            /\ \A m \in Listener : Pending(m) => l = m
            /\ \A s \in late[l] : After(state, s)

BrowserInv ==
  /\ InterviewInv
  /\ Good(state)
  /\ late \in [Listener -> SUBSET InterviewState]
  /\ \A l \in Listener : \A s \in late[l] : Good(s)
  /\ overlapped \in BOOLEAN
  /\ ReplayIsWhole
  /\ Alone

-----------------------------------------------------------------------------
(* Good states.                                                              *)

LEMMA EmptyIsGood == Good(EmptyState)
<1>1. EmptyState \in InterviewState
  BY EmptyStateType
<1>2. Placed(EmptyState) /\ Blank(EmptyState)
  BY DEF Placed, Blank, EmptyState, NoHistory
<1>3. Ungraded(EmptyState) /\ Fresh(EmptyState)
  BY SlotFacts DEF Ungraded, Open, Current, Fresh, EmptyState
<1> QED
  BY <1>1, <1>2, <1>3, EmptyIsSound DEF Good, Settled

LEMMA SessionIsGood == InterviewInv => Good(session)
BY DEF InterviewInv, TypeInv, TypeOK, GradingInv, RecordInv, Good

(* The next handler may be given any good state.                             *)
LEMMA EndIsGood ==
  ASSUME NEW s, Good(s), End(s)
  PROVE  InterviewInv'
<1>1. session' = s /\ work' = s /\ handler' = "none" /\ pc' = "idle"
  BY DEF End
<1>2. TypeInv'
  BY <1>1 DEF TypeInv, TypeOK, Good, Handler, Step
<1>3. Stage("idle", s)
  BY StageFacts DEF Good
<1>4. GradingInv'
  BY <1>1, <1>3 DEF GradingInv, Good
<1>5. Serves("idle", s)'
  BY <1>1 DEF Serves, Grading, Closing
<1>6. RecordInv'
  BY <1>1, <1>5 DEF RecordInv, Kept, Good
<1> QED
  BY <1>1, <1>2, <1>4, <1>6 DEF InterviewInv, Good

(* A step of a handler keeps the history it has, or writes it whole.         *)
LEMMA BlankNext ==
  ASSUME InterviewInv, Next
  PROVE  Blank(session)' /\ Blank(work)'
<1>1. work \in InterviewState /\ session \in InterviewState /\ Blank(work) /\ Blank(session)
  BY DEF InterviewInv, TypeInv, TypeOK
<1>2. Blank(EmptyState) /\ \A plan \in Plans : Blank(InitialState(plan))
  BY DEF Blank, EmptyState, InitialState, NoHistory
<1>3. \A s \in InterviewState : Blank(s) =>
        (\A i : Blank(Locked(s, i))) /\ (\A a : Blank(Unlocked(s, a)))
  BY DEF Blank, Locked, Unlocked, InterviewState
<1>4. CASE UserStep
  BY <1>1, <1>2, <1>3, <1>4
     DEF UserStep, StartInterview, Submit, Retry, NextQuestion, NewInterview, Begin, End
<1>5. CASE GenerateFirst \/ StartFails
  BY <1>1, <1>2, <1>5 DEF GenerateFirst, StartFails, End
<1>6. CASE SubmitEmpty \/ SubmitAnswer
  BY <1>1, <1>6 DEF SubmitEmpty, SubmitAnswer, End, Blank, InterviewState
<1>7. CASE Finish
  BY <1>1, <1>3, <1>7 DEF Finish, End
<1>8. CASE GraphRaises
  <2>1. BeforeGraph \in InterviewState /\ BeforeGraph.history = session.history
    BY <1>1, AnswerType DEF BeforeGraph, InterviewState
  <2>2. Blank(BeforeGraph)
    BY <1>1, <2>1 DEF Blank
  <2> QED
    BY <1>3, <1>8, <2>1, <2>2 DEF GraphRaises, End
<1>9. ASSUME NEW node, NEW t, Goto(node, t), t.history = work.history
      PROVE  Blank(session)' /\ Blank(work)'
  <2>1. session' = session /\ work' = t
    BY <1>9 DEF Goto
  <2> QED
    BY <1>1, <1>9, <2>1 DEF Blank
<1>10. CASE RouteEntry \/ RouteByQuestionType \/ PassThrough \/ Decision \/ StartProcessing
  BY <1>1, <1>9, <1>10 DEF RouteEntry, RouteByQuestionType, PassThrough, Decision,
                           StartProcessing, Leave, InterviewState
<1>11. CASE Execution \/ Evaluation \/ WrittenEvaluation \/ Feedback
  BY <1>1, <1>9, <1>11 DEF Execution, Evaluation, WrittenEvaluation, Feedback, Leave,
                           InterviewState
<1>12. CASE Navigation
  <2>1. /\ Stay(work).history = work.history
        /\ Forward([work EXCEPT !.questions = @ + 1]).history = work.history
        /\ Cleared(work).history = work.history
        /\ [work EXCEPT !.awaiting = FALSE, !.intent = "NONE"].history = work.history
    BY <1>1 DEF Stay, Forward, MarkAsked, Cleared, InterviewState
  <2>2. WithinGenerated(work) = Stay(work)
    BY <1>1, <1>12, NowhereToGo DEF InterviewInv, TypeInv
  <2> QED
    BY <1>9, <1>12, <2>1, <2>2 DEF Navigation, NavigateNext, Leave
<1>13. CASE Question \/ Completion \/ EvaluationAggregate \/ Report
  BY <1>1, <1>9, <1>13 DEF Question, Completion, EvaluationAggregate, Report, Leave,
                           InterviewState
<1>14. CASE SessionClose
  <2>1. [work EXCEPT !.history = HistoryOf(work)].history.closed
    BY <1>1 DEF HistoryOf, InterviewState
  <2> QED
    BY <1>1, <1>14, <2>1 DEF SessionClose, Leave, Goto, Blank
<1> QED
  BY <1>4, <1>5, <1>6, <1>7, <1>8, <1>10, <1>11, <1>12, <1>13, <1>14
     DEF Next, HandlerStep, GraphStep

LEMMA InterviewNext ==
  ASSUME InterviewInv, Next
  PROVE  InterviewInv'
<1>1. TypeInv' /\ GradingInv' /\ RecordInv'
  BY TypeInvNext, GradingNext, RecordNext DEF InterviewInv
<1> QED
  BY <1>1, BlankNext DEF InterviewInv

-----------------------------------------------------------------------------
(* Handlers.                                                                 *)

(* A handler leaves the session alone until its last step, and that step     *)
(* takes back no answer; a closed interview has no handler.                  *)
LEMMA HandlersAdd ==
  ASSUME InterviewInv, HandlerStep
  PROVE  /\ handler # "none"
         /\ \/ session' = session /\ handler' = handler
            \/ handler' = "none" /\ After(session, session')
<1>1. /\ handler # "none" /\ ~session.completed /\ ~session.history.closed
      /\ session \in InterviewState /\ work \in InterviewState
  BY HandlersRun DEF InterviewInv, TypeInv, TypeOK, RecordInv, Sound, Whole
<1> SUFFICES \/ session' = session /\ handler' = handler
             \/ handler' = "none" /\ After(session, session')
  BY <1>1
<1>2. CASE StartFails
  BY <1>2 DEF StartFails, End, After
<1>3. ASSUME NEW t \in InterviewState, session' = t, t.answers = BeforeGraph.answers
      PROVE  After(session, session')
  <2>1. \A i \in Slots : BeforeGraph.answers[i] >= session.answers[i]
    <3>1. CASE handler # "submit"
      BY <1>1, <3>1 DEF BeforeGraph, InterviewState
    <3>2. CASE handler = "submit"
      <4>1. BeforeGraph.answers = [session.answers EXCEPT ![session.index] = @ + 1]
        BY <1>1, <3>2 DEF BeforeGraph, InterviewState
      <4>2. session.answers \in [Slots -> Nat]
        BY <1>1 DEF InterviewState
      <4> QED
        BY <4>1, <4>2
    <3> QED
      BY <3>1, <3>2
  <2> QED
    BY <1>1, <1>3, <2>1 DEF After
<1>4. CASE SubmitEmpty
  <2> DEFINE t == [work EXCEPT !.awaiting = TRUE, !.processing = FALSE]
  <2>1. work = session
    BY <1>4 DEF SubmitEmpty, InterviewInv, RecordInv, Serves
  <2>2. session' = t /\ handler' = "none" /\ t.answers = session.answers
    BY <1>1, <1>4, <2>1 DEF SubmitEmpty, End, InterviewState
  <2>3. \A i \in Slots : t.answers[i] >= session.answers[i]
    BY <1>1, <2>2 DEF InterviewState
  <2> QED
    BY <1>1, <2>2, <2>3 DEF After
<1>5. CASE Finish
  <2> DEFINE t == Unlocked(work, IF handler = "report" THEN work.awaiting ELSE TRUE)
  <2>1. session' = t /\ handler' = "none"
    BY <1>5 DEF Finish, End
  <2>2. t \in InterviewState /\ t.answers = work.answers
    <3>1. work.awaiting \in BOOLEAN
      BY <1>1 DEF InterviewState
    <3>2. \A a \in BOOLEAN : Unlocked(work, a) \in InterviewState
      BY <1>1, UnlockedType
    <3>3. \A a \in BOOLEAN : Unlocked(work, a).answers = work.answers
      BY <1>1 DEF Unlocked, InterviewState
    <3> QED
      BY <3>1, <3>2, <3>3
  <2>3. work.answers = BeforeGraph.answers
    BY <1>1, <1>5 DEF Finish, InterviewInv, RecordInv, Kept
  <2> HIDE DEF t
  <2> QED
    BY <1>3, <2>1, <2>2, <2>3
<1>6. CASE GraphRaises
  <2> DEFINE t == Unlocked(BeforeGraph, TRUE)
  <2>1. session' = t /\ handler' = "none"
    BY <1>6 DEF GraphRaises, End
  <2>2. BeforeGraph \in InterviewState
    BY <1>1, AnswerType DEF BeforeGraph
  <2>3. t \in InterviewState
    BY <2>2, UnlockedType
  <2>4. t.answers = BeforeGraph.answers
    BY <2>2 DEF Unlocked, InterviewState
  <2> HIDE DEF t
  <2> QED
    BY <1>3, <2>1, <2>3, <2>4
<1>7. CASE GenerateFirst \/ SubmitAnswer
  BY <1>7 DEF GenerateFirst, SubmitAnswer
<1>8. CASE GraphStep /\ ~GraphRaises
  <2>1. ASSUME NEW node, NEW t, Goto(node, t) PROVE session' = session /\ handler' = handler
    BY <2>1 DEF Goto
  <2> QED
    BY <1>8, <2>1 DEF GraphStep, RouteEntry, RouteByQuestionType, Execution, Evaluation,
       WrittenEvaluation, Feedback, PassThrough, Decision, StartProcessing, Navigation,
       NavigateNext, Question, Completion, EvaluationAggregate, SessionClose, Report, Leave
<1> QED
  BY <1>1, <1>2, <1>4, <1>5, <1>6, <1>7, <1>8 DEF HandlerStep

(* A handler begins on a screen that no other has locked, and locks it.      *)
LEMMA ClickLocks ==
  ASSUME InterviewInv, Click
  PROVE  /\ handler = "none" /\ handler' \in Handler \ {"none"}
         /\ state' = session' /\ Next
         /\ \A l \in Listener : Held(l, state) => l = "retry" \/ ~Pending(l)
         /\ Held(ListenerOf(handler'), state')
<1>1. session \in InterviewState /\ session = state
  BY DEF InterviewInv, TypeInv, TypeOK, Click
<1>2. UiPhase(EmptyState) = "SETUP"
  BY DEF UiPhase, Has, EmptyState
<1>3. \A i : UiPhase(session) \in {"QUESTION", "FEEDBACK"} =>
               UiPhase(Locked(session, i)) = "PROCESSING"
  <2> SUFFICES ASSUME NEW i, UiPhase(session) \in {"QUESTION", "FEEDBACK"}
               PROVE  UiPhase(Locked(session, i)) = "PROCESSING"
    OBVIOUS
  <2>1. ~session.report /\ ~session.completed /\ Has(session)
    BY DEF UiPhase
  <2>2. /\ Locked(session, i).report = session.report
        /\ Locked(session, i).completed = session.completed
        /\ Locked(session, i).index = session.index
        /\ Locked(session, i).questions = session.questions
        /\ Locked(session, i).processing
    BY <1>1 DEF Locked, InterviewState
  <2> QED
    BY <2>1, <2>2 DEF UiPhase, Has
<1>4. CASE StartInterview
  <2>1. /\ handler = "none" /\ handler' = "start" /\ session' = EmptyState
        /\ UiPhase(session) = "SETUP"
    BY <1>4 DEF StartInterview, Begin
  <2>2. ~Pending("start") /\ state' = session'
    BY <2>1 DEF Click, FirstYield, Yielded, ListenerOf
  <2> QED
    BY <1>1, <1>4, <2>1, <2>2 DEF Held, Listener, ListenerOf, Handler, Next, UserStep
<1>5. CASE Submit \/ NextQuestion
  <2>1. /\ handler = "none" /\ handler' \in {"submit", "next", "report"}
        /\ UiPhase(session) \in {"QUESTION", "FEEDBACK"}
        /\ \E i : session' = Locked(session, i)
    BY <1>5 DEF Submit, NextQuestion, Begin
  <2>2. state' = session' /\ UiPhase(session') = "PROCESSING"
    BY <1>3, <2>1 DEF Click, FirstYield, Yielded
  <2>3. Held(ListenerOf(handler'), state')
    BY <2>1, <2>2 DEF Held, ListenerOf
  <2>4. \A l \in Listener : Held(l, state) => l = "retry"
    BY <1>1, <1>2, <2>1 DEF Held, Listener
  <2> QED
    BY <1>5, <2>1, <2>2, <2>3, <2>4 DEF Handler, Next, UserStep
<1>6. CASE Retry
  <2>1. /\ handler = "none" /\ handler' = "retry" /\ session' = session
        /\ UiPhase(session) = "FEEDBACK"
    BY <1>6 DEF Retry, Begin
  <2>2. state' = state
    BY <2>1 DEF Click, FirstYield
  <2>3. \A l \in Listener : Held(l, state) => l = "retry"
    BY <1>1, <1>2, <2>1 DEF Held, Listener
  <2> QED
    BY <1>1, <1>6, <2>1, <2>2, <2>3 DEF Held, ListenerOf, Handler, Next, UserStep
<1> QED
  BY <1>4, <1>5, <1>6 DEF Click

-----------------------------------------------------------------------------
(* BrowserInv is inductive.                                                  *)

LEMMA BrowserStart == BrowserInit => BrowserInv
<1> SUFFICES ASSUME BrowserInit PROVE BrowserInv
  OBVIOUS
<1>1. /\ Init /\ state = EmptyState /\ late = [l \in Listener |-> {}]
      /\ page = [report |-> FALSE, replay |-> FALSE, listed |-> FALSE]
      /\ runtime = NoReplay /\ overlapped = FALSE
  BY DEF BrowserInit
<1>2. InterviewInv
  <2>1. TypeInv /\ GradingInv /\ RecordInv
    BY <1>1, TypeInvInit, GradingInit, RecordInit
  <2>2. Blank(session) /\ Blank(work)
    BY <1>1, EmptyIsGood DEF Init, Good
  <2> QED
    BY <2>1, <2>2 DEF InterviewInv
<1>3. ReplayIsWhole
  BY <1>1 DEF ReplayIsWhole, Runtime, Page, NoReplay
<1>4. Alone
  BY <1>1 DEF Alone, Pending, Init
<1> QED
  BY <1>1, <1>2, <1>3, <1>4, EmptyIsGood DEF BrowserInv

(* What the interview's handlers show leaves a replay as it is.              *)
LEMMA ReplayStays ==
  ASSUME ReplayIsWhole, runtime' = runtime,
         page' = page \/ \E s : page' = [page EXCEPT !.report = DrawsReport(s)]
  PROVE  ReplayIsWhole'
<1>1. page' \in Page
  <2>1. \A s : DrawsReport(s) \in BOOLEAN
    BY DEF DrawsReport
  <2> QED
    BY <2>1 DEF ReplayIsWhole, Page
<1>2. LastPosition' = LastPosition
  BY DEF LastPosition
<1> QED
  BY <1>1, <1>2 DEF ReplayIsWhole

LEMMA ClickKeeps ==
  ASSUME BrowserInv, Click
  PROVE  BrowserInv'
<1>1. /\ InterviewInv /\ Good(state) /\ ReplayIsWhole /\ Alone
      /\ late \in [Listener -> SUBSET InterviewState] /\ overlapped \in BOOLEAN
      /\ \A l \in Listener : \A s \in late[l] : Good(s)
  BY DEF BrowserInv
<1>2. /\ late' = late /\ runtime' = runtime
      /\ overlapped' = (overlapped \/ Pending("retry"))
      /\ page' = page \/ \E s : page' = [page EXCEPT !.report = DrawsReport(s)]
  BY DEF Click, FirstYield, Yielded
<1>3. /\ handler = "none" /\ handler' \in Handler \ {"none"} /\ state' = session' /\ Next
      /\ \A l \in Listener : Held(l, state) => l = "retry" \/ ~Pending(l)
      /\ Held(ListenerOf(handler'), state')
  BY <1>1, ClickLocks
<1>4. InterviewInv'
  BY <1>1, <1>3, InterviewNext
<1>5. Good(state)'
  <2>1. Good(session)'
    BY <1>4, SessionIsGood, PTL
  <2> QED
    BY <1>3, <2>1 DEF Good
<1>6. ~overlapped' => \A l \in Listener : ~Pending(l)
  BY <1>1, <1>2, <1>3 DEF Alone
<1>7. Alone'
  BY <1>2, <1>3, <1>6 DEF Alone, Pending
<1>8. ReplayIsWhole'
  BY <1>1, <1>2, ReplayStays
<1>9. late' \in [Listener -> SUBSET InterviewState] /\ overlapped' \in BOOLEAN
      /\ \A l \in Listener : \A s \in late'[l] : Good(s)
  BY <1>1, <1>2 DEF Pending
<1> QED
  BY <1>4, <1>5, <1>7, <1>8, <1>9 DEF BrowserInv, Good

LEMMA ListenerFacts ==
  \A h \in Handler \ {"none"} : ListenerOf(h) \in Listener
BY DEF Handler, ListenerOf, Listener

LEMMA ComputeKeeps ==
  ASSUME BrowserInv, Compute
  PROVE  BrowserInv'
<1>1. /\ InterviewInv /\ Good(state) /\ ReplayIsWhole /\ Alone
      /\ late \in [Listener -> SUBSET InterviewState] /\ overlapped \in BOOLEAN
      /\ \A l \in Listener : \A s \in late[l] : Good(s)
      /\ handler \in Handler
  BY DEF BrowserInv, InterviewInv, TypeInv, TypeOK
<1>2. /\ HandlerStep /\ state' = state /\ page' = page /\ runtime' = runtime
      /\ overlapped' = overlapped
      /\ late' = IF handler' # "none" THEN late
                 ELSE [late EXCEPT ![ListenerOf(handler)] = {session'}]
  BY DEF Compute
<1>3. /\ handler # "none"
      /\ \/ session' = session /\ handler' = handler
         \/ handler' = "none" /\ After(session, session')
  BY <1>1, <1>2, HandlersAdd
<1>4. InterviewInv'
  BY <1>1, <1>2, InterviewNext DEF Next
<1>5. Good(session')
  <2>1. Good(session)'
    BY <1>4, SessionIsGood, PTL
  <2> QED
    BY <2>1 DEF Good
<1>6. ReplayIsWhole'
  BY <1>1, <1>2, ReplayStays
<1>7. ListenerOf(handler) \in Listener /\ session = state
  BY <1>1, <1>3, ListenerFacts DEF Alone
<1>8. CASE handler' # "none"
  <2>1. late' = late /\ session' = session /\ handler' = handler
    BY <1>2, <1>3, <1>8
  <2>2. Alone'
    BY <1>1, <1>2, <2>1 DEF Alone, Pending
  <2> QED
    BY <1>1, <1>2, <1>4, <1>6, <2>1, <2>2 DEF BrowserInv, Good
<1>9. CASE handler' = "none"
  <2> DEFINE l == ListenerOf(handler)
  <2>1. /\ late' = [late EXCEPT ![l] = {session'}] /\ After(state, session')
        /\ session' \in InterviewState
    <3>1. After(session, session')
      BY <1>3, <1>9
    <3> QED
      BY <1>2, <1>5, <1>7, <1>9, <3>1 DEF Good
  <2>2. /\ late'[l] = {session'}
        /\ \A m \in Listener \ {l} : late'[m] = late[m]
        /\ late' \in [Listener -> SUBSET InterviewState]
    BY <1>1, <1>7, <2>1
  <2>3. \A m \in Listener : \A s \in late'[m] : Good(s)
    BY <1>1, <1>5, <2>2
  <2>4. ~overlapped => Held(l, state) /\ \A m \in Listener : ~Pending(m)
    BY <1>1, <1>3 DEF Alone
  <2> HIDE DEF l
  <2>5. ~overlapped => \A m \in Listener : Pending(m)' => m = l
    BY <2>2, <2>4 DEF Pending
  <2>6. Alone'
    <3>1. ~overlapped => \A m \in Listener : Pending(m)' =>
             /\ Held(m, state)
             /\ \A n \in Listener : Pending(n)' => m = n
             /\ \A s \in late'[m] : After(state, s)
      BY <2>1, <2>2, <2>4, <2>5
    <3> QED
      BY <1>2, <1>9, <3>1 DEF Alone
  <2> QED
    BY <1>1, <1>2, <1>4, <1>6, <2>2, <2>3, <2>6 DEF BrowserInv, Good
<1> QED
  BY <1>8, <1>9

(* A delivered yield is the state from now on.                               *)
LEMMA DeliverKeeps ==
  ASSUME BrowserInv, NEW l \in Listener, Deliver(l)
  PROVE  BrowserInv'
<1>1. /\ InterviewInv /\ Good(state) /\ ReplayIsWhole /\ Alone
      /\ late \in [Listener -> SUBSET InterviewState] /\ overlapped \in BOOLEAN
      /\ \A m \in Listener : \A s \in late[m] : Good(s)
  BY DEF BrowserInv
<1>2. PICK s \in late[l] : End(s) /\ Yielded(s)
  BY DEF Deliver
<1>3. /\ late' = [late EXCEPT ![l] = {}] /\ runtime' = runtime /\ overlapped' = overlapped
      /\ handler' = "none" /\ state' = s /\ page' = [page EXCEPT !.report = DrawsReport(s)]
  BY <1>2 DEF Deliver, End, Yielded
<1>4. Good(s) /\ InterviewInv'
  BY <1>1, <1>2, EndIsGood
<1>5. /\ late' \in [Listener -> SUBSET InterviewState] /\ late'[l] = {}
      /\ \A m \in Listener \ {l} : late'[m] = late[m]
  BY <1>1, <1>3
<1>6. ~overlapped => \A m \in Listener : ~Pending(m)'
  <2> SUFFICES ASSUME ~overlapped, NEW m \in Listener PROVE late'[m] = {}
    BY DEF Pending
  <2>1. Pending(l)
    BY <1>2 DEF Pending
  <2>2. m # l => ~Pending(m)
    BY <1>1, <2>1 DEF Alone
  <2> QED
    BY <1>5, <2>2 DEF Pending
<1>7. Alone'
  BY <1>3, <1>6 DEF Alone
<1>8. ReplayIsWhole'
  BY <1>1, <1>3, ReplayStays
<1>9. \A m \in Listener : \A t \in late'[m] : Good(t)
  BY <1>1, <1>5
<1> QED
  BY <1>1, <1>3, <1>4, <1>5, <1>7, <1>8, <1>9 DEF BrowserInv, Good

LEMMA ReadKeeps ==
  ASSUME BrowserInv, Read
  PROVE  BrowserInv'
<1>1. /\ Good(state) /\ ReplayIsWhole /\ Alone /\ handler = "none"
      /\ late \in [Listener -> SUBSET InterviewState] /\ overlapped \in BOOLEAN
      /\ \A m \in Listener : \A s \in late[m] : Good(s)
  BY DEF BrowserInv, Read
<1>2. End(state) /\ state' = state /\ late' = late /\ page' = page /\ runtime' = runtime
      /\ overlapped' = overlapped /\ handler' = "none"
  BY DEF Read, End, browser
<1>3. InterviewInv'
  BY <1>1, <1>2, EndIsGood
<1>4. Alone'
  BY <1>1, <1>2 DEF Alone, Pending
<1>5. ReplayIsWhole'
  BY <1>1, <1>2, ReplayStays
<1> QED
  BY <1>1, <1>2, <1>3, <1>4, <1>5 DEF BrowserInv, Good

LEMMA StartOverKeeps ==
  ASSUME BrowserInv, StartOver
  PROVE  BrowserInv'
<1>1. /\ ReplayIsWhole /\ Alone
      /\ late \in [Listener -> SUBSET InterviewState] /\ overlapped \in BOOLEAN
      /\ \A m \in Listener : \A s \in late[m] : Good(s)
  BY DEF BrowserInv
<1>2. /\ End(EmptyState) /\ state' = EmptyState /\ late' = late /\ runtime' = runtime
      /\ overlapped' = (overlapped \/ \E l \in Listener : Pending(l)) /\ handler' = "none"
      /\ page' = [page EXCEPT !.report = DrawsReport(EmptyState)]
  BY DEF StartOver, End, Yielded
<1>3. InterviewInv'
  BY <1>2, EndIsGood, EmptyIsGood
<1>4. Alone'
  BY <1>2 DEF Alone, Pending
<1>5. ReplayIsWhole'
  BY <1>1, <1>2, ReplayStays
<1>6. overlapped' \in BOOLEAN
  BY <1>1, <1>2
<1> QED
  BY <1>1, <1>2, <1>3, <1>4, <1>5, <1>6, EmptyIsGood DEF BrowserInv, Good

(* The histories that a replay may show.                                     *)
WholePlans == {{i \in Slots : i < Len(p)} : p \in Plans}

LEMMA RecordsAreFinite ==
  ASSUME NEW r \in WholePlans
  PROVE  r \subseteq Slots /\ IsFiniteSet(r) /\ Cardinality(r) \in Nat
         /\ (r # {} => 0 \in 0 .. Cardinality(r) - 1)
<1>1. IsFiniteSet(Slots)
  BY FS_Interval, PlansAssumption DEF Slots
<1>2. r \subseteq Slots
  BY DEF WholePlans
<1>3. IsFiniteSet(r) /\ Cardinality(r) \in Nat /\ (Cardinality(r) = 0 <=> r = {})
  BY <1>1, <1>2, FS_Subset, FS_CardinalityType, FS_EmptySet
<1> QED
  BY <1>2, <1>3

LEMMA HistoriesAreWhole ==
  ASSUME NEW s, Good(s), s.history.results # {}
  PROVE  s.history.results \in WholePlans
<1>1. s.completed /\ s.history.results = {i \in Slots : i < PlannedTotal(s)} /\ Placed(s)
      /\ s.questions = PlannedTotal(s)
  BY DEF Good, Blank, Sound, Whole
<1>2. s.planned_areas \in Plans
  <2>1. CASE s.planned_areas = <<>> /\ s.questions = 0
    <3>1. PlannedTotal(s) = 0
      BY <2>1 DEF PlannedTotal
    <3>2. \A i \in Slots : ~(i < 0)
      BY PlansAssumption DEF Slots
    <3> QED
      BY <1>1, <3>1, <3>2
  <2> QED
    BY <1>1, <2>1 DEF Placed
<1>3. PlannedTotal(s) = Len(s.planned_areas)
  BY <1>2, PlanFacts DEF PlannedTotal
<1> QED
  BY <1>1, <1>2, <1>3 DEF WholePlans

(* A controller moves within its records, and what it shows may be anything  *)
(* that was loaded.                                                          *)
LEMMA ReplayKeeps ==
  ASSUME BrowserInv, Replay
  PROVE  BrowserInv'
<1>1. /\ Good(state) /\ ReplayIsWhole /\ Alone /\ InterviewInv
      /\ late \in [Listener -> SUBSET InterviewState] /\ overlapped \in BOOLEAN
      /\ \A m \in Listener : \A s \in late[m] : Good(s)
  BY DEF BrowserInv
<1>2. /\ UNCHANGED vars /\ state' = state /\ late' = late /\ overlapped' = overlapped
  BY DEF Replay, EnterFromReport, EnterFromHistory, NavigateForward, NavigateBackward, ExitReplay
<1>3. session' = session /\ work' = work /\ handler' = handler /\ pc' = pc
  BY <1>2 DEF vars
<1>4. InterviewInv' /\ Alone'
  <2>1. InterviewInv'
    BY <1>1, <1>3 DEF InterviewInv, TypeInv, TypeOK, GradingInv, RecordInv, Serves, Asks, Kept,
                      BeforeGraph
  <2>2. Alone'
    BY <1>1, <1>2, <1>3 DEF Alone, Pending
  <2> QED
    BY <2>1, <2>2
<1>5. page \in Page /\ runtime \in Runtime
  BY <1>1 DEF ReplayIsWhole
<1>6. page' \in Page
  <2>1. CASE EnterFromReport
    BY <2>1 DEF EnterFromReport, Page
  <2>2. CASE ExitReplay
    BY <1>5, <2>2 DEF ExitReplay, Page
  <2>3. ASSUME NEW r, ShowReplay(r) PROVE page' \in Page
    BY <1>5, <2>3 DEF ShowReplay, Page
  <2> QED
    BY <2>1, <2>2, <2>3 DEF Replay, EnterFromHistory, NavigateForward, NavigateBackward
<1>7. SUFFICES /\ runtime' \in Runtime
               /\ runtime'.kind = "replay" =>
                    /\ runtime'.records \in WholePlans
                    /\ runtime'.position \in 0 .. Cardinality(runtime'.records) - 1
  BY <1>1, <1>2, <1>4, <1>6 DEF BrowserInv, Good, ReplayIsWhole, WholePlans, LastPosition
<1>8. NoReplay \in Runtime /\ ReplayError \in Runtime
  BY DEF Runtime, NoReplay, ReplayError
<1>9. CASE EnterFromReport
  <2>1. PICK r \in Loaded(state.history) : runtime' = r
    BY <1>9 DEF EnterFromReport
  <2>2. CASE r = ReplayError
    BY <1>8, <2>1, <2>2 DEF ReplayError
  <2>3. CASE /\ r = [kind |-> "replay", records |-> state.history.results, position |-> 0]
             /\ state.history.results # {}
    <3>1. state.history.results \in WholePlans
      BY <1>1, <2>3, HistoriesAreWhole
    <3> QED
      BY <2>1, <2>3, <3>1, RecordsAreFinite DEF Runtime
  <2> QED
    BY <2>1, <2>2, <2>3 DEF Loaded
<1>10. CASE EnterFromHistory \/ ExitReplay
  BY <1>8, <1>10 DEF EnterFromHistory, ExitReplay, ShowReplay, NoReplay, ReplayError
<1>11. CASE NavigateForward \/ NavigateBackward
  <2>1. /\ runtime.kind = "replay" /\ runtime.records \in WholePlans
        /\ runtime.position \in 0 .. LastPosition
    BY <1>1, <1>11 DEF NavigateForward, NavigateBackward, ReplayIsWhole, WholePlans
  <2>2. Cardinality(runtime.records) \in Nat
    BY <2>1, RecordsAreFinite
  <2>3. PICK p \in 0 .. LastPosition : runtime' = [runtime EXCEPT !.position = p]
    <3>1. CASE NavigateForward
      BY <2>1, <2>2, <3>1 DEF NavigateForward, ShowReplay, LastPosition
    <3>2. CASE NavigateBackward
      BY <2>1, <2>2, <3>2 DEF NavigateBackward, ShowReplay, LastPosition
    <3> QED
      BY <1>11, <3>1, <3>2
  <2>4. p \in Nat
    BY <2>2 DEF LastPosition
  <2>5. /\ runtime' \in Runtime /\ runtime'.records = runtime.records
        /\ runtime'.position = p
    BY <1>5, <2>3, <2>4 DEF Runtime
  <2> QED
    BY <2>1, <2>3, <2>5 DEF LastPosition
<1> QED
  BY <1>9, <1>10, <1>11 DEF Replay

LEMMA BrowserKeeps == BrowserInv /\ [BrowserNext]_allvars => BrowserInv'
<1> SUFFICES ASSUME BrowserInv, [BrowserNext]_allvars PROVE BrowserInv'
  OBVIOUS
<1>1. CASE UNCHANGED allvars
  <2>1. /\ session' = session /\ work' = work /\ handler' = handler /\ pc' = pc
        /\ state' = state /\ late' = late /\ page' = page /\ runtime' = runtime
        /\ overlapped' = overlapped
    BY <1>1 DEF allvars, vars, browser
  <2>2. InterviewInv'
    BY <2>1 DEF BrowserInv, InterviewInv, TypeInv, TypeOK, GradingInv, RecordInv, Serves, Asks,
                Kept, BeforeGraph
  <2>3. ReplayIsWhole'
    BY <2>1, ReplayStays DEF BrowserInv
  <2>4. Alone'
    BY <2>1 DEF BrowserInv, Alone, Pending
  <2> QED
    BY <2>1, <2>2, <2>3, <2>4 DEF BrowserInv, Good
<1>2. CASE Click \/ Compute
  BY <1>2, ClickKeeps, ComputeKeeps
<1>3. CASE Delivery \/ Read \/ StartOver
  BY <1>3, DeliverKeeps, ReadKeeps, StartOverKeeps DEF Delivery
<1>4. CASE Replay
  BY <1>4, ReplayKeeps
<1> QED
  BY <1>1, <1>2, <1>3, <1>4 DEF BrowserNext

(* Handlers that overlap, and yields that come late, keep all of it.         *)
THEOREM BrowserInvariant == BrowserSpec => []BrowserInv
<1>1. BrowserSpec => BrowserInit /\ [][BrowserNext]_allvars
  BY PTL DEF BrowserSpec
<1> QED
  BY <1>1, BrowserStart, BrowserKeeps, PTL

-----------------------------------------------------------------------------
(* What follows.                                                             *)

(* Every screen that any order of yields leaves is coherent: its verdict is  *)
(* of its last answer, it has a way out, nothing was skipped, and a closed   *)
(* interview is graded and recorded as a whole.                              *)
THEOREM ScreensAreCoherent == BrowserSpec => []ScreensStayCoherent
<1>1. BrowserInv => ScreensStayCoherent
  <2> SUFFICES ASSUME BrowserInv PROVE ScreensStayCoherent
    OBVIOUS
  <2>1. TypeInv /\ GradingInv /\ RecordInv
    BY DEF BrowserInv, InterviewInv
  <2>2. FeedbackCoherent /\ NoDeadEnd /\ CompletedMeansAllGraded
    BY <2>1, CoherentHere, WayOutHere, GradedHere
  <2>3. HistoryIsWhole /\ NoSkipping
    BY <2>1 DEF RecordInv, Sound, Past, Whole, HistoryIsWhole, NoSkipping
  <2> QED
    BY <2>2, <2>3 DEF ScreensStayCoherent
<1> QED
  BY <1>1, BrowserInvariant, PTL

(* A replay shows a record for every question of a plan, and stands at one.  *)
THEOREM ReplaysAreWhole == BrowserSpec => []ReplayIsWhole
<1>1. BrowserInv => ReplayIsWhole
  BY DEF BrowserInv
<1> QED
  BY <1>1, BrowserInvariant, PTL

(* Without an overlap only a handler's own yields replace the state it was   *)
(* computed from, and they take back nothing.                                *)
THEOREM LocksSuffice == BrowserSpec => LocksKeepAnswers
<1> DEFINE Keeps ==
      \/ state' = EmptyState
      \/ /\ \A i \in Slots : state'.answers[i] >= state.answers[i]
         /\ state.history.closed => state'.history = state.history
<1>1. BrowserInv /\ [BrowserNext]_allvars => [~overlapped' => Keeps]_allvars
  <2> SUFFICES ASSUME BrowserInv, BrowserNext, ~overlapped' PROVE Keeps
    OBVIOUS
  <2>1. /\ InterviewInv /\ Alone /\ overlapped \in BOOLEAN
        /\ state \in InterviewState /\ session \in InterviewState
    BY DEF BrowserInv, Good, InterviewInv, TypeInv, TypeOK
  <2>2. ASSUME state'.answers = state.answers, state'.history = state.history PROVE Keeps
    <3>1. \A i \in Slots : state.answers[i] \in Nat
      BY <2>1 DEF InterviewState
    <3> QED
      BY <2>2, <3>1
  <2>3. CASE Click
    <3>1. state' = session' /\ session = state
      BY <2>1, <2>3, ClickLocks DEF Click
    <3>2. \/ session' = EmptyState \/ session' = session
          \/ \E i : session' = Locked(session, i)
      BY <2>3 DEF Click, StartInterview, Submit, Retry, NextQuestion, Begin
    <3>3. \A i : /\ Locked(session, i).answers = session.answers
                 /\ Locked(session, i).history = session.history
      BY <2>1 DEF Locked, InterviewState
    <3>4. \/ state' = EmptyState
          \/ state'.answers = state.answers /\ state'.history = state.history
      BY <3>1, <3>2, <3>3
    <3> QED
      BY <2>2, <3>4
  <2>4. CASE Delivery
    <3>1. PICK l \in Listener : Deliver(l)
      BY <2>4 DEF Delivery
    <3>2. PICK s \in late[l] : state' = s
      BY <3>1 DEF Deliver, Yielded
    <3>3. ~overlapped /\ Pending(l)
      BY <3>1, <3>2 DEF Deliver, Pending
    <3>4. After(state, s)
      BY <2>1, <3>2, <3>3 DEF Alone
    <3> QED
      BY <3>2, <3>4 DEF After
  <2>5. CASE StartOver
    BY <2>5 DEF StartOver, Yielded
  <2>6. CASE Compute \/ Read \/ Replay
    BY <2>2, <2>6 DEF Compute, Read, browser, Replay, EnterFromReport, EnterFromHistory,
                      NavigateForward, NavigateBackward, ExitReplay
  <2> QED
    BY <2>3, <2>4, <2>5, <2>6 DEF BrowserNext
<1>2. BrowserSpec => [][BrowserNext]_allvars
  BY PTL DEF BrowserSpec
<1> QED
  BY <1>1, <1>2, BrowserInvariant, PTL DEF LocksKeepAnswers

-----------------------------------------------------------------------------
(* The loader.  What is locked was locked by a handler that is still under   *)
(* way, and every yield under way unlocks.                                   *)
LoaderIsOwed ==
  /\ \A l \in Listener : \A s \in late[l] : ~s.processing
  /\ state.processing => handler # "none" \/ \E l \in Listener : Pending(l)

(* No handler ends with a locked screen.                                     *)
LEMMA HandlersUnlock ==
  ASSUME InterviewInv, HandlerStep, handler' = "none"
  PROVE  ~session'.processing
<1>1. session \in InterviewState /\ work \in InterviewState
  BY DEF InterviewInv, TypeInv, TypeOK
<1>2. ~EmptyState.processing
  BY DEF EmptyState
<1>3. \A s \in InterviewState : \A a : ~Unlocked(s, a).processing
  BY DEF Unlocked, InterviewState
<1>4. BeforeGraph \in InterviewState
  BY <1>1, AnswerType DEF BeforeGraph
<1>5. CASE StartFails \/ SubmitEmpty
  BY <1>1, <1>2, <1>5 DEF StartFails, SubmitEmpty, End, InterviewState
<1>6. CASE Finish
  BY <1>1, <1>3, <1>6 DEF Finish, End
<1>7. CASE GraphRaises
  BY <1>3, <1>4, <1>7 DEF GraphRaises, End
<1>8. CASE UNCHANGED handler
  BY <1>8, HandlersAdd
<1>9. CASE GraphStep /\ ~GraphRaises
  BY <1>8, <1>9
     DEF GraphStep, RouteEntry, RouteByQuestionType, Execution, Evaluation,
         WrittenEvaluation, Feedback, PassThrough, Decision, StartProcessing, Navigation,
         NavigateNext, Question, Completion, EvaluationAggregate, SessionClose, Report, Leave, Goto
<1>10. CASE GenerateFirst \/ SubmitAnswer
  BY <1>8, <1>10 DEF GenerateFirst, SubmitAnswer
<1> QED
  BY <1>5, <1>6, <1>7, <1>9, <1>10 DEF HandlerStep

(* A screen that is locked has no button, but for the one to start over.     *)
LEMMA LockedIsDead ==
  ASSUME BrowserInv, Click, state.processing
  PROVE  state' = EmptyState
<1>1. session = state /\ UiPhase(session) # "QUESTION" /\ UiPhase(session) # "FEEDBACK"
  BY DEF Click, UiPhase
<1>2. StartInterview
  BY <1>1 DEF Click, Submit, Retry, NextQuestion
<1> QED
  BY <1>2 DEF Click, StartInterview, Begin, FirstYield, Yielded

LEMMA LoaderStep ==
  ASSUME BrowserInv, LoaderIsOwed, [BrowserNext]_allvars
  PROVE  LoaderIsOwed' /\ (state.processing => state' = state \/ ~state'.processing)
<1>1. InterviewInv /\ Alone /\ late \in [Listener -> SUBSET InterviewState] /\ handler \in Handler
  BY DEF BrowserInv, InterviewInv, TypeInv, TypeOK
<1>2. ~EmptyState.processing
  BY DEF EmptyState
<1>3. CASE Click
  <2>1. late' = late /\ handler' # "none"
    BY <1>3 DEF Click, StartInterview, Submit, Retry, NextQuestion, Begin
  <2>2. state.processing => ~state'.processing
    BY <1>2, <1>3, LockedIsDead
  <2> QED
    BY <2>1, <2>2 DEF LoaderIsOwed, Pending
<1>4. CASE Compute
  <2>1. HandlerStep /\ state' = state
    BY <1>4 DEF Compute
  <2>2. CASE handler' # "none"
    BY <1>4, <2>1, <2>2 DEF Compute, LoaderIsOwed, Pending
  <2>3. CASE handler' = "none"
    <3>1. ~session'.processing /\ handler # "none"
      BY <1>1, <2>1, <2>3, HandlersUnlock, HandlersAdd
    <3>2. ListenerOf(handler) \in Listener
      BY <1>1, <3>1, ListenerFacts
    <3>3. late' = [late EXCEPT ![ListenerOf(handler)] = {session'}]
      BY <1>4, <2>3 DEF Compute
    <3>4. late'[ListenerOf(handler)] = {session'}
      BY <1>1, <3>2, <3>3
    <3>5. \A l \in Listener : \A s \in late'[l] : ~s.processing
      BY <1>1, <3>1, <3>2, <3>3 DEF LoaderIsOwed
    <3>6. \E l \in Listener : late'[l] # {}
      BY <3>2, <3>4
    <3> QED
      BY <2>1, <3>5, <3>6 DEF LoaderIsOwed, Pending
  <2> QED
    BY <2>2, <2>3
<1>5. CASE Delivery
  <2>1. PICK l \in Listener : Deliver(l)
    BY <1>5 DEF Delivery
  <2>2. ~state'.processing /\ late' = [late EXCEPT ![l] = {}]
    BY <2>1 DEF Deliver, Yielded, LoaderIsOwed
  <2> QED
    BY <1>1, <2>2 DEF LoaderIsOwed
<1>6. CASE StartOver
  BY <1>2, <1>6 DEF StartOver, Yielded, LoaderIsOwed
<1>7. CASE Read \/ Replay \/ UNCHANGED allvars
  <2>1. state' = state /\ late' = late /\ handler' = handler
    BY <1>7 DEF Read, End, browser, Replay, EnterFromReport, EnterFromHistory, NavigateForward,
                NavigateBackward, ExitReplay, allvars, vars
  <2> QED
    BY <2>1 DEF LoaderIsOwed, Pending
<1> QED
  BY <1>3, <1>4, <1>5, <1>6, <1>7 DEF BrowserNext

LEMMA LoaderStart == BrowserInit => LoaderIsOwed
BY DEF BrowserInit, LoaderIsOwed, EmptyState

(* Whoever overlaps and whichever yields come late, a locked screen always   *)
(* has a handler under way, and everything that handlers leave behind        *)
(* unlocks it.  With the fairness of handlers and deliveries this is why     *)
(* LoaderGoes holds.                                                         *)
THEOREM LoadersAreOwed == BrowserSpec => []LoaderIsOwed
<1>1. BrowserInv /\ LoaderIsOwed /\ [BrowserNext]_allvars => LoaderIsOwed'
  BY LoaderStep
<1>2. BrowserSpec => BrowserInit /\ [][BrowserNext]_allvars
  BY PTL DEF BrowserSpec
<1> QED
  BY <1>1, <1>2, LoaderStart, BrowserInvariant, PTL

(* A locked screen is replaced by one that is not: no other click locks it   *)
(* again before the loader has gone.                                         *)
THEOREM LocksAreReleased ==
  BrowserSpec => [][state.processing => state' = state \/ ~state'.processing]_allvars
<1>1. BrowserInv /\ LoaderIsOwed /\ [BrowserNext]_allvars =>
        [state.processing => state' = state \/ ~state'.processing]_allvars
  BY LoaderStep
<1>2. BrowserSpec => BrowserInit /\ [][BrowserNext]_allvars
  BY PTL DEF BrowserSpec
<1> QED
  BY <1>1, <1>2, LoadersAreOwed, BrowserInvariant, PTL
=============================================================================
