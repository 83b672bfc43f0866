------------------------ MODULE InterviewSession_proofs ------------------------
(***************************************************************************)
(* Proofs about InterviewSession, for every value of its constants: its    *)
(* types, the locks of its handlers and what is graded; then what an       *)
(* interview leaves behind - the questions it moved past, the answers it   *)
(* was given, the history it closes with.                                  *)
(*                                                                         *)
(* The argument of the latter: a question is left only from a feedback     *)
(* screen that offered to, so that its result is the one of its last       *)
(* answer; and the interview is completed from the last such screen.       *)
(* RecordInv says this of both copies of the state, and what of it a       *)
(* running handler relies on; GradingInv says what is offered.             *)
(*                                                                         *)
(* Last, that InterviewSession implements InterviewProtocol.  The protocol *)
(* looks at the session alone, and only the last step of a handler changes *)
(* what it sees there.  LinkInv says how the handler's copy stands to the  *)
(* session it will replace: by the time the handler ends, one is a step of *)
(* the protocol away from the other.                                       *)
(***************************************************************************)
EXTENDS InterviewSession, TLAPS

-----------------------------------------------------------------------------
(* Where a state stands: there is no interview, or the question on screen is *)
(* the last one generated and the plan has room for what was generated.      *)
Placed(s) ==
  \/ s.planned_areas = <<>> /\ s.questions = 0 /\ s.index = 0
  \/ /\ s.planned_areas \in Plans
     /\ s.questions = s.index + 1
     /\ s.questions <= Len(s.planned_areas)

(* TypeOK is inductive with this: the index of the next question is in range *)
(* because of where the current one stands.                                  *)
TypeInv ==
  /\ TypeOK
  /\ Placed(session)
  /\ Placed(work)
  /\ pc \notin {"idle", "generate"} => Has(work)

(* Plans are sequences of types, and there are as many slots as questions.   *)
LEMMA PlanFacts ==
  ASSUME NEW p \in Plans
  PROVE  /\ p \in Seq(QuestionType)
         /\ p # <<>>
         /\ Len(p) \in Nat
         /\ 2 <= Len(p)
         /\ Len(p) <= MaxQuestions
         /\ MaxQuestions \in Nat \ {0}
<1>1. p \in Seq(QuestionType) /\ Len(p) \in 2 .. MaxQuestions /\ MaxQuestions \in Nat \ {0}
  BY PlansAssumption
<1>2. p # <<>>
  BY <1>1
<1> QED
  BY <1>1, <1>2

LEMMA SlotFacts == Slots \subseteq Nat /\ 0 \in Slots
BY PlansAssumption DEF Slots

(* The screens with a question are those of a state that has one.            *)
LEMMA PhaseFacts ==
  ASSUME NEW s
  PROVE  /\ UiPhase(s) \in {"QUESTION", "FEEDBACK"} => Has(s) /\ ~s.completed
         /\ UiPhase(s) = "QUESTION" => s.allowed = {} \/ s.bundle = NoQuality
         /\ UiPhase(s) = "FEEDBACK" => s.allowed # {} /\ s.bundle # NoQuality
         /\ UiPhase(s) = "SETUP" => ~Has(s)
BY DEF UiPhase

-----------------------------------------------------------------------------
(* Each helper returns a state.                                              *)

LEMMA EmptyStateType == EmptyState \in InterviewState
BY SlotFacts
   DEF EmptyState, InterviewState, Quality, NoQuality, NoResult, Result, NoHistory,
       History, Intent, Action

LEMMA InitialStateType ==
  ASSUME NEW plan \in Plans
  PROVE  InitialState(plan) \in InterviewState /\ Placed(InitialState(plan))
                                               /\ Has(InitialState(plan))
<1>1. InitialState(plan) \in InterviewState
  BY EmptyStateType DEF InitialState, InterviewState
<1>2. /\ InitialState(plan).planned_areas = plan
      /\ InitialState(plan).questions = 1
      /\ InitialState(plan).index = 0
  BY DEF InitialState, EmptyState
<1> QED
  BY <1>1, <1>2, PlanFacts DEF Placed, Has

LEMMA LockedType ==
  ASSUME NEW s \in InterviewState, NEW intent \in Intent
  PROVE  Locked(s, intent) \in InterviewState
BY DEF Locked, InterviewState

LEMMA UnlockedType ==
  ASSUME NEW s \in InterviewState, NEW awaiting \in BOOLEAN
  PROVE  Unlocked(s, awaiting) \in InterviewState
BY DEF Unlocked, InterviewState, Intent

LEMMA CurrentType ==
  ASSUME NEW s \in InterviewState
  PROVE  Current(s) \in Result /\ Attempts(s) \in Nat /\ s.index \in Nat
BY SlotFacts DEF Current, Attempts, InterviewState

LEMMA AnswerType ==
  ASSUME NEW s \in InterviewState
  PROVE  [s EXCEPT !.answers[s.index] = @ + 1] \in InterviewState
<1>1. [s.answers EXCEPT ![s.index] = @ + 1] \in [Slots -> Nat]
  BY DEF InterviewState
<1> QED
  BY <1>1 DEF InterviewState

LEMMA RecordType ==
  ASSUME NEW s \in InterviewState, NEW r \in Result
  PROVE  [s EXCEPT !.results[s.index] = r] \in InterviewState
<1>1. [s.results EXCEPT ![s.index] = r] \in [Slots -> Result]
  BY DEF InterviewState
<1> QED
  BY <1>1 DEF InterviewState

LEMMA MarkAskedType ==
  ASSUME NEW s \in InterviewState
  PROVE  MarkAsked(s) \in InterviewState
BY DEF MarkAsked, InterviewState

LEMMA StayType ==
  ASSUME NEW s \in InterviewState
  PROVE  Stay(s) \in InterviewState
BY MarkAskedType DEF Stay, InterviewState, Intent

LEMMA ForwardType ==
  ASSUME NEW s \in InterviewState, s.index + 1 \in Slots
  PROVE  Forward(s) \in InterviewState
<1>1. MarkAsked(s).index = s.index
  BY DEF MarkAsked, InterviewState
<1> QED
  BY <1>1, MarkAskedType DEF Forward, InterviewState, Intent, Quality

LEMMA ClearedType ==
  ASSUME NEW s \in InterviewState
  PROVE  Cleared(s) \in InterviewState
<1>1. NoResult \in Result
  BY DEF NoResult, Result, Quality
<1>2. [s.results EXCEPT ![s.index] = NoResult] \in [Slots -> Result]
  BY <1>1 DEF InterviewState
<1> QED
  BY <1>2 DEF Cleared, InterviewState, Intent, Quality

LEMMA HistoryOfType ==
  ASSUME NEW s \in InterviewState
  PROVE  HistoryOf(s) \in History
BY DEF HistoryOf, History

-----------------------------------------------------------------------------
(* A state that keeps the plan, the number of questions and the index stands *)
(* where it stood; what the helpers do to those three.                       *)

LEMMA SamePlace ==
  ASSUME NEW s, NEW t,
         t.planned_areas = s.planned_areas, t.questions = s.questions, t.index = s.index
  PROVE  /\ Placed(s) => Placed(t)
         /\ Has(s) => Has(t)
BY DEF Placed, Has

LEMMA PlaceKept ==
  ASSUME NEW s \in InterviewState, Placed(s)
  PROVE  /\ \A i \in Intent : Placed(Locked(s, i)) /\ (Has(s) => Has(Locked(s, i)))
         /\ \A a \in BOOLEAN : Placed(Unlocked(s, a)) /\ (Has(s) => Has(Unlocked(s, a)))
         /\ Placed(Stay(s)) /\ (Has(s) => Has(Stay(s)))
         /\ Placed(Cleared(s)) /\ (Has(s) => Has(Cleared(s)))
<1>1. \A i \in Intent : Placed(Locked(s, i)) /\ (Has(s) => Has(Locked(s, i)))
  BY DEF Locked, InterviewState, Placed, Has
<1>2. \A a \in BOOLEAN : Placed(Unlocked(s, a)) /\ (Has(s) => Has(Unlocked(s, a)))
  BY DEF Unlocked, InterviewState, Placed, Has
<1>3. Placed(Stay(s)) /\ (Has(s) => Has(Stay(s)))
  BY DEF Stay, MarkAsked, InterviewState, Placed, Has
<1>4. Placed(Cleared(s)) /\ (Has(s) => Has(Cleared(s)))
  BY DEF Cleared, InterviewState, Placed, Has
<1> QED
  BY <1>1, <1>2, <1>3, <1>4

(* A generated question has a slot of its own.                               *)
LEMMA GeneratedPlace ==
  ASSUME NEW s \in InterviewState, Placed(s), Has(s), NextArea(s)
  PROVE  LET t == Forward([s EXCEPT !.questions = @ + 1])
         IN  t \in InterviewState /\ Placed(t) /\ Has(t)
<1> DEFINE g == [s EXCEPT !.questions = @ + 1]
<1>1. /\ s.index \in Nat /\ s.questions \in Nat
      /\ s.questions = s.index + 1
      /\ s.planned_areas \in Plans
      /\ s.questions + 1 <= Len(s.planned_areas)
      /\ Len(s.planned_areas) <= MaxQuestions
  <2>1. s.index \in Nat /\ s.questions \in Nat
    BY SlotFacts DEF InterviewState
  <2>2. s.planned_areas \in Plans /\ s.questions = s.index + 1
    BY <2>1 DEF Placed, Has
  <2>3. PlannedTotal(s) = Len(s.planned_areas)
    BY <2>2, PlanFacts DEF PlannedTotal
  <2>4. Len(s.planned_areas) \in Nat /\ Len(s.planned_areas) <= MaxQuestions
    BY <2>2, PlanFacts
  <2>5. s.questions < Len(s.planned_areas)
    BY <2>3 DEF NextArea
  <2> QED
    BY <2>1, <2>2, <2>4, <2>5
<1>2. /\ g \in InterviewState
      /\ g.planned_areas = s.planned_areas /\ g.questions = s.questions + 1
      /\ g.index = s.index
  <2>1. s.questions \in Nat /\ s.questions + 1 \in Nat
    BY <1>1
  <2>2. g \in InterviewState
    BY <2>1 DEF InterviewState
  <2>3. g.planned_areas = s.planned_areas /\ g.questions = s.questions + 1
    BY DEF InterviewState
  <2>4. g.index = s.index
    BY DEF InterviewState
  <2> QED
    BY <2>2, <2>3, <2>4
<1>3. g.index + 1 \in Slots
  BY <1>1, <1>2, PlanFacts DEF Slots
<1>4. Forward(g) \in InterviewState
  BY <1>2, <1>3, ForwardType
<1>5. /\ Forward(g).planned_areas = s.planned_areas
      /\ Forward(g).questions = s.questions + 1
      /\ Forward(g).index = s.index + 1
  BY <1>2 DEF Forward, MarkAsked, InterviewState
<1> QED
  BY <1>1, <1>4, <1>5 DEF Placed, Has

(* Within what was generated there is no next question to move to.           *)
LEMMA NowhereToGo ==
  ASSUME NEW s \in InterviewState, Placed(s)
  PROVE  WithinGenerated(s) = Stay(s)
<1>1. s.index \in Nat
  BY SlotFacts DEF InterviewState
<1>2. ~(s.index + 1 < s.questions)
  BY <1>1 DEF Placed
<1> QED
  BY <1>2 DEF WithinGenerated

-----------------------------------------------------------------------------
(* TypeInv is inductive.                                                     *)

LEMMA TypeInvInit == Init => TypeInv
BY EmptyStateType DEF Init, TypeInv, TypeOK, Placed, EmptyState, Handler, Step

(* The handlers' own steps.                                                  *)
LEMMA TypeInvUser ==
  TypeInv /\ UserStep => TypeInv'
<1> SUFFICES ASSUME TypeInv, UserStep PROVE TypeInv'
  OBVIOUS
<1> USE DEF TypeInv, TypeOK
<1>0. Placed(EmptyState)
  BY DEF Placed, EmptyState
<1>1. CASE StartInterview
  BY <1>0, <1>1, EmptyStateType DEF StartInterview, Begin, Handler, Step
<1>2. CASE Submit
  <2>1. "SUBMIT" \in Intent
    BY DEF Intent
  <2>2. Has(session)
    BY <1>2, PhaseFacts DEF Submit
  <2> QED
    BY <1>2, <2>1, <2>2, LockedType, PlaceKept DEF Submit, Begin, Handler, Step, Node
<1>3. CASE Retry
  <2>1. "RETRY" \in Intent
    BY DEF Intent, Action
  <2>2. Has(session)
    BY <1>3, PhaseFacts DEF Retry
  <2> QED
    BY <1>3, <2>1, <2>2, LockedType, PlaceKept DEF Retry, Begin, Handler, Step, Node
<1>4. CASE NextQuestion
  <2> DEFINE intent == IF "GENERATE_REPORT" \in session.allowed
                       THEN "GENERATE_REPORT" ELSE "NEXT"
  <2>1. intent \in Intent
    BY DEF Intent, Action
  <2>2. Has(session)
    BY <1>4, PhaseFacts DEF NextQuestion
  <2>3. /\ session' = Locked(session, intent) /\ work' = Locked(session, intent)
        /\ handler' \in {"report", "next"} /\ pc' = "entry"
    BY <1>4 DEF NextQuestion, Begin
  <2> QED
    BY <2>1, <2>2, <2>3, LockedType, PlaceKept DEF Handler, Step, Node
<1>5. CASE NewInterview
  BY <1>0, <1>5, EmptyStateType DEF NewInterview, End, Handler, Step
<1> QED
  BY <1>1, <1>2, <1>3, <1>4, <1>5 DEF UserStep

LEMMA TypeInvHandler ==
  ASSUME TypeInv, GenerateFirst \/ StartFails \/ SubmitEmpty \/ SubmitAnswer \/ Finish
  PROVE  TypeInv'
<1> USE DEF TypeInv, TypeOK
<1>0. Placed(EmptyState)
  BY DEF Placed, EmptyState
<1>1. CASE GenerateFirst
  BY <1>1, InitialStateType DEF GenerateFirst, Step, Node
<1>2. CASE StartFails
  BY <1>0, <1>2, EmptyStateType DEF StartFails, End, Handler, Step
<1>3. CASE SubmitEmpty
  <2> DEFINE t == [work EXCEPT !.awaiting = TRUE, !.processing = FALSE]
  <2>1. t \in InterviewState /\ Placed(t)
    BY DEF InterviewState, Placed
  <2> QED
    BY <1>3, <2>1 DEF SubmitEmpty, End, Handler, Step
<1>4. CASE SubmitAnswer
  <2> DEFINE t == [work EXCEPT !.answers[work.index] = @ + 1]
  <2>1. t \in InterviewState
    BY AnswerType
  <2>2. Placed(t) /\ Has(t)
    <3>1. Has(work)
      BY <1>4 DEF SubmitAnswer
    <3>2. t.planned_areas = work.planned_areas /\ t.questions = work.questions
                                               /\ t.index = work.index
      BY DEF InterviewState
    <3> QED
      BY <3>1, <3>2, SamePlace
  <2> QED
    BY <1>4, <2>1, <2>2 DEF SubmitAnswer, Step, Node
<1>5. CASE Finish
  <2> DEFINE awaiting == IF handler = "report" THEN work.awaiting ELSE TRUE
  <2>1. awaiting \in BOOLEAN
    BY DEF InterviewState
  <2> QED
    BY <1>5, <2>1, UnlockedType, PlaceKept DEF Finish, End, Handler, Step
<1> QED
  BY <1>1, <1>2, <1>3, <1>4, <1>5

(* A graph step that keeps the place of the copy keeps TypeInv.              *)
LEMMA TypeInvGoto ==
  ASSUME TypeInv, NEW node \in Step \ {"idle", "generate"}, NEW t \in InterviewState,
         t.planned_areas = work.planned_areas, t.questions = work.questions,
         t.index = work.index, pc \notin {"idle", "generate"}, Goto(node, t)
  PROVE  TypeInv'
<1>1. Placed(t) /\ Has(t)
  BY SamePlace DEF TypeInv
<1> QED
  BY <1>1 DEF TypeInv, TypeOK, Goto

LEMMA EdgeFacts ==
  ASSUME pc \in DOMAIN Edge
  PROVE  Edge[pc] \in Step \ {"idle", "generate"} /\ pc \notin {"idle", "generate"}
BY DEF Edge, Step, Node

LEMMA TypeInvLeave ==
  ASSUME TypeInv, pc \in DOMAIN Edge, NEW t \in InterviewState,
         t.planned_areas = work.planned_areas, t.questions = work.questions,
         t.index = work.index, Leave(t)
  PROVE  TypeInv'
BY EdgeFacts, TypeInvGoto DEF Leave

LEMMA TypeInvRouting ==
  ASSUME TypeInv, RouteEntry \/ RouteByQuestionType \/ PassThrough \/ Decision \/ StartProcessing
  PROVE  TypeInv'
<1>0. work \in InterviewState
  BY DEF TypeInv, TypeOK
<1>1. CASE RouteEntry
  BY <1>0, <1>1, TypeInvGoto DEF RouteEntry, Step, Node
<1>2. CASE RouteByQuestionType
  BY <1>0, <1>2, TypeInvGoto DEF RouteByQuestionType, Step, Node
<1>3. CASE PassThrough
  BY <1>0, <1>3, TypeInvLeave DEF PassThrough, Edge
<1>4. CASE Decision
  <2> DEFINE t == [work EXCEPT !.allowed = AllowedActions(work), !.intent = "NONE",
                               !.awaiting = TRUE, !.processing = FALSE]
  <2>1. AllowedActions(work) \in SUBSET Action
    BY DEF AllowedActions, Action
  <2>2. t \in InterviewState
    BY <1>0, <2>1 DEF InterviewState, Intent
  <2>3. /\ t.planned_areas = work.planned_areas /\ t.questions = work.questions
        /\ t.index = work.index
    BY <1>0 DEF InterviewState
  <2>4. pc \notin {"idle", "generate"}
    BY <1>4 DEF Decision
  <2>5. Goto("finish", t) \/ Goto("finish", work) \/ Goto("navigation", work)
    BY <1>4 DEF Decision
  <2>6. {"finish", "navigation"} \subseteq Step \ {"idle", "generate"}
    BY DEF Step, Node
  <2> QED
    BY <1>0, <2>2, <2>3, <2>4, <2>5, <2>6, TypeInvGoto
<1>5. CASE StartProcessing
  <2> DEFINE t == [work EXCEPT !.processing = TRUE]
  <2>1. /\ t \in InterviewState
        /\ t.planned_areas = work.planned_areas /\ t.questions = work.questions
        /\ t.index = work.index
    BY <1>0 DEF InterviewState
  <2>2. pc \in DOMAIN Edge /\ Leave(t)
    BY <1>5 DEF StartProcessing, Edge
  <2> QED
    BY <2>1, <2>2, TypeInvLeave
<1> QED
  BY <1>1, <1>2, <1>3, <1>4, <1>5

LEMMA TypeInvGrading ==
  ASSUME TypeInv, Execution \/ Evaluation \/ WrittenEvaluation \/ Feedback
  PROVE  TypeInv'
<1>0. work \in InterviewState /\ Current(work) \in Result /\ Attempts(work) \in Nat
  BY CurrentType DEF TypeInv, TypeOK
<1>1. pc \in DOMAIN Edge
  BY DEF Execution, Evaluation, WrittenEvaluation, Feedback, Edge
<1>2. ASSUME NEW r \in Result
      PROVE  LET t == [work EXCEPT !.results[work.index] = r]
             IN  /\ t \in InterviewState
                 /\ t.planned_areas = work.planned_areas /\ t.questions = work.questions
                 /\ t.index = work.index
  BY <1>0, RecordType DEF InterviewState
<1>3. ASSUME NEW r \in Result, Leave([work EXCEPT !.results[work.index] = r])
      PROVE  TypeInv'
  BY <1>1, <1>2, <1>3, TypeInvLeave
<1>4. Leave(work) => TypeInv'
  BY <1>0, <1>1, TypeInvLeave
<1>5. CASE Execution
  <2>1. CASE Leave(work)
    BY <2>1, <1>4
  <2>2. CASE ~Leave(work)
    <3>1. PICK q \in ExecutionQuality :
            Leave([work EXCEPT !.results[work.index] =
                     [execution |-> TRUE, evaluation |-> @.evaluation,
                      quality |-> q, attempt |-> Attempts(work)]])
      BY <1>5, <2>2 DEF Execution
    <3> DEFINE r == [execution |-> TRUE, evaluation |-> Current(work).evaluation,
                     quality |-> q, attempt |-> Attempts(work)]
    <3>2. r \in Result
      BY <1>0 DEF Result, Quality
    <3>3. Leave([work EXCEPT !.results[work.index] = r])
      BY <3>1 DEF Current
    <3> QED
      BY <3>2, <3>3, <1>3
  <2> QED
    BY <2>1, <2>2
<1>6. CASE Evaluation
  <2> DEFINE r == [Current(work) EXCEPT !.evaluation = TRUE]
  <2>1. r \in Result
    BY <1>0 DEF Result
  <2>2. Leave(work) \/ Leave([work EXCEPT !.results[work.index] = r])
    BY <1>6 DEF Evaluation, Current
  <2> QED
    BY <2>1, <2>2, <1>3, <1>4
<1>7. CASE WrittenEvaluation
  <2>1. CASE Leave(work)
    BY <2>1, <1>4
  <2>2. CASE ~Leave(work)
    <3>1. PICK q \in WrittenQuality :
            Leave([work EXCEPT !.results[work.index] =
                     [execution |-> @.execution, evaluation |-> TRUE,
                      quality |-> q, attempt |-> Attempts(work)]])
      BY <1>7, <2>2 DEF WrittenEvaluation
    <3> DEFINE r == [execution |-> Current(work).execution, evaluation |-> TRUE,
                     quality |-> q, attempt |-> Attempts(work)]
    <3>2. r \in Result
      BY <1>0 DEF Result, Quality, WrittenQuality, ExecutionQuality
    <3>3. Leave([work EXCEPT !.results[work.index] = r])
      BY <3>1 DEF Current
    <3> QED
      BY <3>2, <3>3, <1>3
  <2> QED
    BY <2>1, <2>2
<1>8. CASE Feedback
  <2> DEFINE t == [work EXCEPT !.bundle = Current(work).quality]
  <2>1. /\ t \in InterviewState
        /\ t.planned_areas = work.planned_areas /\ t.questions = work.questions
        /\ t.index = work.index
    BY <1>0 DEF InterviewState, Result
  <2>2. Leave(work) \/ Leave(t)
    BY <1>8 DEF Feedback
  <2> QED
    BY <2>1, <2>2, <1>1, <1>4, TypeInvLeave
<1> QED
  BY <1>5, <1>6, <1>7, <1>8

LEMMA TypeInvNavigation ==
  ASSUME TypeInv, Navigation
  PROVE  TypeInv'
<1>0. work \in InterviewState /\ Placed(work) /\ pc = "navigation" /\ Has(work)
  BY DEF TypeInv, TypeOK, Navigation
<1>1. pc \in DOMAIN Edge
  BY <1>0 DEF Edge
<1>2. ASSUME NEW t \in InterviewState, Placed(t), Has(t), Leave(t)
      PROVE  TypeInv'
  BY <1>1, <1>2, EdgeFacts DEF Leave, Goto, TypeInv, TypeOK
<1>3. CASE Leave(Cleared(work))
  BY <1>0, <1>2, <1>3, ClearedType, PlaceKept
<1>4. CASE Leave(WithinGenerated(work))
  BY <1>0, <1>2, <1>4, StayType, PlaceKept, NowhereToGo
<1>5. CASE NextArea(work) /\ Leave(Forward([work EXCEPT !.questions = @ + 1]))
  BY <1>0, <1>2, <1>5, GeneratedPlace
<1>6. CASE Leave([work EXCEPT !.awaiting = FALSE, !.intent = "NONE"])
  <2> DEFINE t == [work EXCEPT !.awaiting = FALSE, !.intent = "NONE"]
  <2>1. t \in InterviewState /\ Placed(t) /\ Has(t)
    BY <1>0 DEF InterviewState, Intent, Placed, Has
  <2> QED
    BY <1>2, <1>6, <2>1
<1>7. CASE Leave(work)
  BY <1>0, <1>2, <1>7
<1> QED
  BY <1>3, <1>4, <1>5, <1>6, <1>7 DEF Navigation, NavigateNext

LEMMA TypeInvTail ==
  ASSUME TypeInv, Question \/ Completion \/ EvaluationAggregate \/ SessionClose \/ Report
  PROVE  TypeInv'
<1>0. work \in InterviewState
  BY DEF TypeInv, TypeOK
<1>1. ASSUME pc \in DOMAIN Edge, Leave(work) PROVE TypeInv'
  BY <1>0, <1>1, TypeInvLeave
<1>2. CASE Question
  <2>0. pc \in DOMAIN Edge
    BY <1>2 DEF Question, Edge
  <2>1. ASSUME NEW n \in Nat, NEW f \in BOOLEAN, NEW m \in Nat,
               Leave([work EXCEPT !.shown = n, !.last_follow_up = f, !.follow_ups = m])
        PROVE  TypeInv'
    <3> DEFINE t == [work EXCEPT !.shown = n, !.last_follow_up = f, !.follow_ups = m]
    <3>1. /\ t \in InterviewState
          /\ t.planned_areas = work.planned_areas /\ t.questions = work.questions
          /\ t.index = work.index
      BY <1>0 DEF InterviewState
    <3> QED
      BY <2>0, <2>1, <3>1, TypeInvLeave
  <2>2. CASE Leave(work)
    BY <2>0, <2>2, <1>1
  <2>3. CASE Leave([work EXCEPT !.shown = @ + 1])
    <3> DEFINE t == [work EXCEPT !.shown = @ + 1]
    <3>1. /\ t \in InterviewState
          /\ t.planned_areas = work.planned_areas /\ t.questions = work.questions
          /\ t.index = work.index
      BY <1>0 DEF InterviewState
    <3> QED
      BY <2>0, <2>3, <3>1, TypeInvLeave
  <2>4. CASE ~Leave(work) /\ ~Leave([work EXCEPT !.shown = @ + 1])
    <3>1. PICK f \in FollowUpTurns(work) :
            Leave([work EXCEPT !.shown = @ + 1, !.last_follow_up = f,
                               !.follow_ups = IF f THEN @ + 1 ELSE @])
      BY <1>2, <2>4 DEF Question
    <3>2. f \in BOOLEAN
      BY DEF FollowUpTurns
    <3>3. work.shown + 1 \in Nat /\ (IF f THEN work.follow_ups + 1 ELSE work.follow_ups) \in Nat
      BY <1>0 DEF InterviewState
    <3> QED
      BY <3>1, <3>2, <3>3, <2>1
  <2> QED
    BY <2>2, <2>3, <2>4
<1>3. CASE Completion
  <2> DEFINE t == [work EXCEPT !.completed = TRUE]
  <2>1. /\ t \in InterviewState
        /\ t.planned_areas = work.planned_areas /\ t.questions = work.questions
        /\ t.index = work.index
    BY <1>0 DEF InterviewState
  <2>2. pc \in DOMAIN Edge /\ (Leave(work) \/ Leave(t))
    BY <1>3 DEF Completion, Edge
  <2> QED
    BY <2>1, <2>2, <1>1, TypeInvLeave
<1>4. CASE EvaluationAggregate
  <2>1. ASSUME NEW ok \in BOOLEAN
        PROVE  LET t == [work EXCEPT !.scored = ok, !.intent = "NONE"]
               IN  /\ t \in InterviewState
                   /\ t.planned_areas = work.planned_areas /\ t.questions = work.questions
                   /\ t.index = work.index
    BY <1>0 DEF InterviewState, Intent
  <2>2. \/ Goto("session_close", work) \/ Goto("finish", work)
        \/ \E ok \in BOOLEAN :
             Goto("session_close", [work EXCEPT !.scored = ok, !.intent = "NONE"])
    BY <1>4 DEF EvaluationAggregate
  <2>3. {"session_close", "finish"} \subseteq Step \ {"idle", "generate"}
    BY DEF Step, Node
  <2>4. pc \notin {"idle", "generate"}
    BY <1>4 DEF EvaluationAggregate
  <2> QED
    BY <1>0, <2>1, <2>2, <2>3, <2>4, TypeInvGoto
<1>5. CASE SessionClose
  <2> DEFINE t == [work EXCEPT !.history = HistoryOf(work)]
  <2>1. /\ t \in InterviewState
        /\ t.planned_areas = work.planned_areas /\ t.questions = work.questions
        /\ t.index = work.index
    BY <1>0, HistoryOfType DEF InterviewState
  <2>2. pc \in DOMAIN Edge /\ (Leave(work) \/ Leave(t))
    BY <1>5 DEF SessionClose, Edge
  <2> QED
    BY <2>1, <2>2, <1>1, TypeInvLeave
<1>6. CASE Report
  <2>1. PICK built \in {FALSE, work.history.closed} :
          Leave([work EXCEPT !.report = @ \/ built, !.processing = FALSE])
    BY <1>6 DEF Report
  <2> DEFINE t == [work EXCEPT !.report = @ \/ built, !.processing = FALSE]
  <2>2. work.report \/ built \in BOOLEAN
    BY <1>0 DEF InterviewState, History
  <2>3. /\ t \in InterviewState
        /\ t.planned_areas = work.planned_areas /\ t.questions = work.questions
        /\ t.index = work.index
    BY <1>0, <2>2 DEF InterviewState
  <2>4. pc \in DOMAIN Edge
    BY <1>6 DEF Report, Edge
  <2> QED
    BY <2>1, <2>3, <2>4, TypeInvLeave
<1> QED
  BY <1>2, <1>3, <1>4, <1>5, <1>6

LEMMA TypeInvRaises ==
  ASSUME TypeInv, GraphRaises
  PROVE  TypeInv'
<1>0. session \in InterviewState /\ Placed(session)
  BY DEF TypeInv, TypeOK
<1> DEFINE t == [session EXCEPT !.answers[session.index] = @ + 1]
<1>1. t \in InterviewState
  BY <1>0, AnswerType
<1>2. Placed(t)
  <2>1. /\ t.planned_areas = session.planned_areas /\ t.questions = session.questions
        /\ t.index = session.index
    BY <1>0 DEF InterviewState
  <2> QED
    BY <1>0, <2>1, SamePlace
<1>3. BeforeGraph \in InterviewState /\ Placed(BeforeGraph)
  BY <1>0, <1>1, <1>2 DEF BeforeGraph
<1>4. Unlocked(BeforeGraph, TRUE) \in InterviewState /\ Placed(Unlocked(BeforeGraph, TRUE))
  BY <1>3, UnlockedType, PlaceKept
<1> QED
  BY <1>4 DEF GraphRaises, End, TypeInv, TypeOK, Handler, Step

LEMMA TypeInvNext == TypeInv /\ [Next]_vars => TypeInv'
<1> SUFFICES ASSUME TypeInv, [Next]_vars PROVE TypeInv'
  OBVIOUS
<1>1. CASE UNCHANGED vars
  BY <1>1 DEF vars, TypeInv, TypeOK
<1>2. CASE UserStep
  BY <1>2, TypeInvUser
<1>3. CASE HandlerStep
  BY <1>3, TypeInvHandler, TypeInvRouting, TypeInvGrading, TypeInvNavigation,
     TypeInvTail, TypeInvRaises DEF HandlerStep, GraphStep
<1> QED
  BY <1>1, <1>2, <1>3 DEF Next

LEMMA TypeInvariant == Spec => []TypeInv
BY TypeInvInit, TypeInvNext, PTL DEF Spec

(* Every field of the interview state has its type at every step of every    *)
(* handler; above all, the index is never moved past the slots of the plan,  *)
(* which is what current_question and the lazy generation rely on.           *)
THEOREM TypeCorrectness == Spec => []TypeOK
BY TypeInvariant, PTL DEF TypeInv

-----------------------------------------------------------------------------
(* Grading.  A session between two clicks either waits for an answer to a    *)
(* question without a result, or offers what AllowedActions derives from the *)
(* result of the last answer; and a copy goes from the first to the second   *)
(* through the stages below, node by node.                                   *)

Open(s)     == s.bundle = NoQuality /\ s.allowed = {}
Ungraded(s) == Open(s) /\ Current(s) = NoResult
Executed(s) == /\ Current(s).execution
               /\ Current(s).quality \in ExecutionQuality
               /\ Current(s).attempt = Attempts(s)
Marked(s)   == /\ Current(s).evaluation
               /\ Current(s).quality \in ExecutionQuality
               /\ Current(s).attempt = Attempts(s)
Offered(s)  == /\ Marked(s)
               /\ s.bundle = Current(s).quality
               /\ s.allowed = AllowedActions(s)
Settled(s)  == Ungraded(s) \/ Offered(s)

(* Nothing is known of the questions that come later.                        *)
Fresh(s) == \A i \in Slots : i > s.index => s.results[i] = NoResult

(* What the copy is like when a node is about to run.                        *)
Stage(node, s) ==
  CASE node = "prepare" -> Ungraded(s) /\ s.intent \notin Action
    [] node = "entry" ->
         IF s.intent \in Action THEN Offered(s) ELSE Ungraded(s)
    [] node \in {"router", "execution", "written"} -> Ungraded(s) /\ s.intent \notin Action
    [] node = "evaluation" ->
         Open(s) /\ (Current(s) = NoResult \/ Executed(s)) /\ s.intent \notin Action
    [] node \in {"hint", "feedback"} ->
         Open(s) /\ (Current(s) = NoResult \/ Marked(s)) /\ s.intent \notin Action
    [] node \in {"reasoner", "decision"} ->
         /\ s.allowed = {} /\ s.intent \notin Action
         /\ IF s.bundle = NoQuality THEN Current(s) = NoResult
            ELSE Marked(s) /\ s.bundle = Current(s).quality
    [] node = "start_processing" -> Offered(s)
    [] node = "navigation" -> Offered(s) \/ (Ungraded(s) /\ s.intent \notin Action)
    [] OTHER -> Settled(s)

GradingInv ==
  /\ Fresh(session)
  /\ Fresh(work)
  /\ Settled(session)
  /\ handler = "submit" => Ungraded(session)
  /\ Stage(pc, work)

(* Stage, node by node.                                                      *)
LEMMA StageFacts ==
  ASSUME NEW s
  PROVE  /\ Stage("prepare", s) <=> Ungraded(s) /\ s.intent \notin Action
         /\ Stage("entry", s) <=> IF s.intent \in Action THEN Offered(s) ELSE Ungraded(s)
         /\ \A n \in {"router", "execution", "written"} :
              Stage(n, s) <=> Ungraded(s) /\ s.intent \notin Action
         /\ Stage("evaluation", s) <=>
              Open(s) /\ (Current(s) = NoResult \/ Executed(s)) /\ s.intent \notin Action
         /\ \A n \in {"hint", "feedback"} :
              Stage(n, s) <=> /\ Open(s) /\ s.intent \notin Action
                              /\ Current(s) = NoResult \/ Marked(s)
         /\ \A n \in {"reasoner", "decision"} :
              Stage(n, s) <=> /\ s.allowed = {} /\ s.intent \notin Action
                              /\ IF s.bundle = NoQuality THEN Current(s) = NoResult
                                 ELSE Marked(s) /\ s.bundle = Current(s).quality
         /\ Stage("start_processing", s) <=> Offered(s)
         /\ Stage("navigation", s) <=> Offered(s) \/ (Ungraded(s) /\ s.intent \notin Action)
         /\ \A n \in {"idle", "generate", "finish", "question", "completion",
                      "evaluation_aggregate", "session_close", "report",
                      "longitudinal_update"} : Stage(n, s) <=> Settled(s)
BY DEF Stage

(* What grading looks at.                                                    *)
SameGrade(s, t) ==
  /\ t.planned_areas = s.planned_areas /\ t.questions = s.questions
  /\ t.index = s.index /\ t.answers = s.answers /\ t.results = s.results
  /\ t.bundle = s.bundle /\ t.allowed = s.allowed

LEMMA SameGradeFacts ==
  ASSUME NEW s, NEW t, SameGrade(s, t)
  PROVE  /\ Open(s) <=> Open(t)
         /\ Ungraded(s) <=> Ungraded(t)
         /\ Marked(s) <=> Marked(t)
         /\ Offered(s) <=> Offered(t)
         /\ Settled(s) <=> Settled(t)
         /\ Fresh(s) <=> Fresh(t)
         /\ Current(s) = Current(t)
<1>1. Current(t) = Current(s) /\ Attempts(t) = Attempts(s) /\ OnLast(t) = OnLast(s)
  BY DEF SameGrade, Current, Attempts, OnLast, PlannedTotal
<1>2. t.bundle = s.bundle /\ t.allowed = s.allowed /\ t.results = s.results /\ t.index = s.index
  BY DEF SameGrade
<1>3. AllowedActions(t) = AllowedActions(s)
  BY <1>1, <1>2 DEF AllowedActions
<1>4. (Open(s) <=> Open(t)) /\ (Marked(s) <=> Marked(t)) /\ (Fresh(s) <=> Fresh(t))
  BY <1>1, <1>2 DEF Open, Marked, Fresh
<1> QED
  BY <1>1, <1>2, <1>3, <1>4 DEF Ungraded, Offered, Settled

(* Locking and unlocking grade nothing.                                      *)
LEMMA LocksGradeNothing ==
  ASSUME NEW s \in InterviewState
  PROVE  /\ \A i : SameGrade(s, Locked(s, i)) /\ Locked(s, i).intent = i
         /\ \A a : SameGrade(s, Unlocked(s, a))
BY DEF SameGrade, Locked, Unlocked, InterviewState

(* The handlers rely on it: the question screen means there is no result,    *)
(* the feedback screen that there is an offer.                               *)
LEMMA SettledScreens ==
  ASSUME NEW s \in InterviewState, Settled(s)
  PROVE  /\ UiPhase(s) = "QUESTION" => Ungraded(s)
         /\ UiPhase(s) = "FEEDBACK" => Offered(s)
<1>1. Offered(s) => s.allowed # {} /\ s.bundle # NoQuality
  BY DEF Offered, Marked, AllowedActions, ExecutionQuality, NoQuality
<1> QED
  BY <1>1, PhaseFacts DEF Settled, Ungraded, Open

LEMMA GradingInit == Init => GradingInv
<1> SUFFICES ASSUME Init PROVE GradingInv
  OBVIOUS
<1>1. Ungraded(EmptyState) /\ Fresh(EmptyState)
  BY SlotFacts DEF Ungraded, Open, Current, Fresh, EmptyState
<1> QED
  BY <1>1, StageFacts DEF Init, GradingInv, Settled

LEMMA GradingUser ==
  ASSUME TypeInv, GradingInv, UserStep
  PROVE  GradingInv'
<1>0. session \in InterviewState /\ Fresh(session) /\ Settled(session)
  BY DEF TypeInv, TypeOK, GradingInv
<1>1. Ungraded(EmptyState) /\ Fresh(EmptyState)
  BY SlotFacts DEF Ungraded, Open, Current, Fresh, EmptyState
<1>2. CASE StartInterview \/ NewInterview
  <2>1. /\ session' = EmptyState /\ work' = EmptyState
        /\ handler' # "submit" /\ pc' \in {"idle", "generate"}
    BY <1>2 DEF StartInterview, NewInterview, Begin, End
  <2> QED
    BY <1>1, <2>1, StageFacts DEF GradingInv, Settled
<1>3. CASE Submit
  <2> DEFINE t == Locked(session, "SUBMIT")
  <2>1. Ungraded(session)
    BY <1>0, <1>3, SettledScreens DEF Submit
  <2>2. Ungraded(t) /\ Fresh(t) /\ t.intent = "SUBMIT"
    BY <1>0, <2>1, LocksGradeNothing, SameGradeFacts
  <2>3. session' = t /\ work' = t /\ pc' = "prepare"
    BY <1>3 DEF Submit, Begin
  <2>4. Stage("prepare", t)
    BY <2>2, StageFacts DEF Action
  <2> QED
    BY <2>2, <2>3, <2>4 DEF GradingInv, Settled
<1>4. CASE Retry
  <2> DEFINE t == Locked(session, "RETRY")
  <2>1. Offered(session)
    BY <1>0, <1>4, SettledScreens DEF Retry
  <2>2. Offered(t) /\ Fresh(t) /\ t.intent = "RETRY"
    BY <1>0, <2>1, LocksGradeNothing, SameGradeFacts
  <2>3. session' = session /\ work' = t /\ pc' = "entry" /\ handler' = "retry"
    BY <1>4 DEF Retry, Begin
  <2>4. Stage("entry", t)
    BY <2>2, StageFacts DEF Action
  <2> QED
    BY <1>0, <2>2, <2>3, <2>4 DEF GradingInv
<1>5. CASE NextQuestion
  <2> DEFINE intent == IF "GENERATE_REPORT" \in session.allowed
                       THEN "GENERATE_REPORT" ELSE "NEXT"
             t == Locked(session, intent)
  <2>1. Offered(session)
    BY <1>0, <1>5, SettledScreens DEF NextQuestion
  <2>2. Offered(t) /\ Fresh(t) /\ t.intent = intent
    BY <1>0, <2>1, LocksGradeNothing, SameGradeFacts
  <2>3. session' = t /\ work' = t /\ pc' = "entry" /\ handler' \in {"report", "next"}
    BY <1>5 DEF NextQuestion, Begin
  <2>4. Stage("entry", t)
    BY <2>2, StageFacts DEF Action
  <2> QED
    BY <2>2, <2>3, <2>4 DEF GradingInv, Settled
<1> QED
  BY <1>2, <1>3, <1>4, <1>5 DEF UserStep

LEMMA GradingHandler ==
  ASSUME TypeInv, GradingInv,
         GenerateFirst \/ StartFails \/ SubmitEmpty \/ SubmitAnswer \/ Finish
  PROVE  GradingInv'
<1>0. /\ work \in InterviewState /\ Fresh(work) /\ Stage(pc, work)
      /\ Fresh(session) /\ Settled(session) /\ handler = "submit" => Ungraded(session)
  BY DEF TypeInv, TypeOK, GradingInv
<1>1. CASE GenerateFirst
  <2>1. PICK plan \in Plans : work' = InitialState(plan)
    BY <1>1 DEF GenerateFirst
  <2>2. /\ Ungraded(InitialState(plan)) /\ Fresh(InitialState(plan))
        /\ InitialState(plan).intent = "NONE"
    BY SlotFacts DEF Ungraded, Open, Current, Fresh, InitialState, EmptyState
  <2>3. Stage("entry", InitialState(plan))
    BY <2>2, StageFacts DEF Action
  <2> QED
    BY <1>0, <1>1, <2>1, <2>2, <2>3 DEF GenerateFirst, GradingInv
<1>2. CASE StartFails
  <2>1. Ungraded(EmptyState) /\ Fresh(EmptyState)
    BY SlotFacts DEF Ungraded, Open, Current, Fresh, EmptyState
  <2> QED
    BY <1>2, <2>1, StageFacts DEF StartFails, End, GradingInv, Settled
<1>3. CASE SubmitEmpty
  <2> DEFINE t == [work EXCEPT !.awaiting = TRUE, !.processing = FALSE]
  <2>1. SameGrade(work, t)
    BY <1>0 DEF SameGrade, InterviewState
  <2>2. Settled(t) /\ Fresh(t)
    BY <1>0, <1>3, <2>1, SameGradeFacts, StageFacts DEF SubmitEmpty, Settled
  <2> QED
    BY <1>3, <2>2, StageFacts DEF SubmitEmpty, End, GradingInv
<1>4. CASE SubmitAnswer
  <2> DEFINE t == [work EXCEPT !.answers[work.index] = @ + 1]
  <2>1. /\ t.bundle = work.bundle /\ t.allowed = work.allowed /\ t.intent = work.intent
        /\ t.index = work.index /\ t.results = work.results
    BY <1>0 DEF InterviewState
  <2>2. Ungraded(work) /\ work.intent \notin Action
    BY <1>0, <1>4, StageFacts DEF SubmitAnswer
  <2>3. Ungraded(t) /\ Fresh(t)
    BY <1>0, <2>1, <2>2 DEF Ungraded, Open, Current, Fresh
  <2>4. Stage("entry", t)
    BY <2>1, <2>2, <2>3, StageFacts
  <2> QED
    BY <1>0, <1>4, <2>3, <2>4 DEF SubmitAnswer, GradingInv
<1>5. CASE Finish
  <2> DEFINE t == Unlocked(work, IF handler = "report" THEN work.awaiting ELSE TRUE)
  <2>1. Settled(t) /\ Fresh(t)
    BY <1>0, <1>5, LocksGradeNothing, SameGradeFacts, StageFacts DEF Finish
  <2> QED
    BY <1>5, <2>1, StageFacts DEF Finish, End, GradingInv
<1> QED
  BY <1>1, <1>2, <1>3, <1>4, <1>5

(* A graph step keeps GradingInv if it takes the copy to the next stage.     *)
LEMMA GradingGoto ==
  ASSUME GradingInv, NEW node, NEW t, Goto(node, t), Fresh(t), Stage(node, t)
  PROVE  GradingInv'
BY DEF GradingInv, Goto

LEMMA GradingRouting ==
  ASSUME TypeInv, GradingInv,
         RouteEntry \/ RouteByQuestionType \/ PassThrough \/ StartProcessing
  PROVE  GradingInv'
<1>0. work \in InterviewState /\ Fresh(work) /\ Stage(pc, work)
  BY DEF TypeInv, TypeOK, GradingInv
<1>1. CASE RouteEntry
  <2>1. IF work.intent \in Action THEN Stage("start_processing", work) ELSE Stage("router", work)
    BY <1>0, <1>1, StageFacts DEF RouteEntry
  <2> QED
    BY <1>0, <1>1, <2>1, GradingGoto DEF RouteEntry
<1>2. CASE RouteByQuestionType
  <2>1. Stage("written", work) /\ Stage("execution", work)
    BY <1>0, <1>2, StageFacts DEF RouteByQuestionType
  <2> QED
    BY <1>0, <1>2, <2>1, GradingGoto DEF RouteByQuestionType
<1>3. CASE PassThrough
  <2>1. Stage(Edge[pc], work)
    BY <1>0, <1>3, StageFacts DEF PassThrough, Edge
  <2> QED
    BY <1>0, <1>3, <2>1, GradingGoto DEF PassThrough, Leave
<1>4. CASE StartProcessing
  <2> DEFINE t == [work EXCEPT !.processing = TRUE]
  <2>1. SameGrade(work, t)
    BY <1>0 DEF SameGrade, InterviewState
  <2>2. Fresh(t) /\ Offered(t)
    BY <1>0, <1>4, <2>1, SameGradeFacts, StageFacts DEF StartProcessing
  <2>3. Stage("navigation", t)
    BY <2>2, StageFacts
  <2>4. Goto("navigation", t)
    BY <1>4 DEF StartProcessing, Leave, Edge
  <2> QED
    BY <2>2, <2>3, <2>4, GradingGoto
<1> QED
  BY <1>1, <1>2, <1>3, <1>4

LEMMA GradingDecision ==
  ASSUME TypeInv, GradingInv, Decision
  PROVE  GradingInv'
<1>0. work \in InterviewState /\ Fresh(work)
  BY DEF TypeInv, TypeOK, GradingInv
<1>1. /\ work.allowed = {} /\ work.intent \notin Action
      /\ IF work.bundle = NoQuality THEN Current(work) = NoResult
         ELSE Marked(work) /\ work.bundle = Current(work).quality
  BY StageFacts DEF GradingInv, Decision
<1>2. CASE work.bundle # NoQuality
  <2> DEFINE t == [work EXCEPT !.allowed = AllowedActions(work), !.intent = "NONE",
                               !.awaiting = TRUE, !.processing = FALSE]
  <2>1. /\ t.planned_areas = work.planned_areas /\ t.questions = work.questions
        /\ t.index = work.index /\ t.answers = work.answers /\ t.results = work.results
        /\ t.bundle = work.bundle /\ t.allowed = AllowedActions(work)
    BY <1>0 DEF InterviewState
  <2>2. /\ Current(t) = Current(work) /\ Attempts(t) = Attempts(work)
        /\ AllowedActions(t) = AllowedActions(work)
    BY <2>1 DEF Current, Attempts, AllowedActions, OnLast, PlannedTotal
  <2>3. Offered(t) /\ Fresh(t)
    BY <1>0, <1>1, <1>2, <2>1, <2>2 DEF Offered, Marked, Fresh
  <2>4. Stage("finish", t)
    BY <2>3, StageFacts DEF Settled
  <2>5. Goto("finish", t)
    BY <1>2 DEF Decision
  <2> QED
    BY <2>3, <2>4, <2>5, GradingGoto
<1>3. CASE work.bundle = NoQuality
  <2>1. Ungraded(work)
    BY <1>1, <1>3 DEF Ungraded, Open
  <2>2. Stage("finish", work) /\ Stage("navigation", work)
    BY <1>1, <2>1, StageFacts DEF Settled
  <2> QED
    BY <1>0, <1>3, <2>2, GradingGoto DEF Decision
<1> QED
  BY <1>2, <1>3

(* Recording a result changes that one result and nothing else.              *)
LEMMA RecordFacts ==
  ASSUME NEW s \in InterviewState, NEW r
  PROVE  LET t == [s EXCEPT !.results[s.index] = r]
         IN  /\ Current(t) = r /\ Attempts(t) = Attempts(s)
             /\ t.bundle = s.bundle /\ t.allowed = s.allowed /\ t.intent = s.intent
             /\ Fresh(s) => Fresh(t)
<1> DEFINE t == [s EXCEPT !.results[s.index] = r]
<1>1. /\ t.index = s.index /\ t.answers = s.answers
      /\ t.bundle = s.bundle /\ t.allowed = s.allowed /\ t.intent = s.intent
      /\ t.results = [s.results EXCEPT ![s.index] = r]
  BY DEF InterviewState
<1>2. s.index \in Slots /\ DOMAIN s.results = Slots
  BY DEF InterviewState
<1>3. Current(t) = r /\ Attempts(t) = Attempts(s)
  BY <1>1, <1>2 DEF Current, Attempts
<1>4. \A i \in Slots : i > s.index => t.results[i] = s.results[i]
  BY <1>1, <1>2, SlotFacts
<1> QED
  BY <1>1, <1>3, <1>4 DEF Fresh

LEMMA GradingGrades ==
  ASSUME TypeInv, GradingInv, Execution \/ Evaluation \/ WrittenEvaluation \/ Feedback
  PROVE  GradingInv'
<1>0. /\ work \in InterviewState /\ Fresh(work) /\ Stage(pc, work)
      /\ Current(work) \in Result /\ Attempts(work) \in Nat
  BY CurrentType DEF TypeInv, TypeOK, GradingInv
<1>1. CASE Execution
  <2>1. Ungraded(work) /\ work.intent \notin Action
    BY <1>0, <1>1, StageFacts DEF Execution
  <2>2. CASE Goto("evaluation", work)
    <3>1. Stage("evaluation", work)
      BY <2>1, StageFacts DEF Ungraded
    <3> QED
      BY <1>0, <2>2, <3>1, GradingGoto
  <2>3. CASE ~Goto("evaluation", work)
    <3>1. PICK q \in ExecutionQuality :
            Goto("evaluation", [work EXCEPT !.results[work.index] =
                     [execution |-> TRUE, evaluation |-> @.evaluation,
                      quality |-> q, attempt |-> Attempts(work)]])
      BY <1>1, <2>3 DEF Execution, Leave, Edge
    <3> DEFINE r == [execution |-> TRUE, evaluation |-> Current(work).evaluation,
                     quality |-> q, attempt |-> Attempts(work)]
               t == [work EXCEPT !.results[work.index] = r]
    <3>2. Goto("evaluation", t)
      BY <3>1 DEF Current
    <3>3. /\ Current(t) = r /\ Attempts(t) = Attempts(work) /\ Fresh(t)
          /\ t.bundle = work.bundle /\ t.allowed = work.allowed /\ t.intent = work.intent
      BY <1>0, RecordFacts
    <3>4. r.execution = TRUE /\ r.quality = q /\ r.attempt = Attempts(work)
      OBVIOUS
    <3>5. Fresh(t) /\ Open(t) /\ t.intent \notin Action /\ Executed(t)
      BY <2>1, <3>3, <3>4 DEF Ungraded, Open, Executed
    <3>6. Stage("evaluation", t)
      BY <3>5, StageFacts
    <3> QED
      BY <3>2, <3>5, <3>6, GradingGoto
  <2> QED
    BY <2>2, <2>3
<1>2. CASE Evaluation
  <2>1. /\ Open(work) /\ work.intent \notin Action
        /\ Current(work) = NoResult \/ Executed(work)
    BY <1>0, <1>2, StageFacts DEF Evaluation
  <2>2. CASE Current(work).execution
    <3> DEFINE r == [Current(work) EXCEPT !.evaluation = TRUE]
               t == [work EXCEPT !.results[work.index] = r]
    <3>1. Goto("hint", t)
      BY <1>2, <2>2 DEF Evaluation, Leave, Edge, Current
    <3>2. Executed(work)
      BY <2>1, <2>2 DEF NoResult
    <3>3. r.evaluation /\ r.quality = Current(work).quality /\ r.attempt = Current(work).attempt
      BY <1>0 DEF Result
    <3>4. Fresh(t) /\ Open(t) /\ t.intent \notin Action /\ Marked(t)
      BY <1>0, <2>1, <3>2, <3>3, RecordFacts DEF Open, Executed, Marked
    <3>5. Stage("hint", t)
      BY <3>4, StageFacts
    <3> QED
      BY <3>1, <3>4, <3>5, GradingGoto
  <2>3. CASE ~Current(work).execution
    <3>1. Current(work) = NoResult
      BY <2>1, <2>3 DEF Executed
    <3>2. Stage("hint", work)
      BY <2>1, <3>1, StageFacts
    <3>3. Goto("hint", work)
      BY <1>2, <2>3 DEF Evaluation, Leave, Edge
    <3> QED
      BY <1>0, <3>2, <3>3, GradingGoto
  <2> QED
    BY <2>2, <2>3
<1>3. CASE WrittenEvaluation
  <2>1. Ungraded(work) /\ work.intent \notin Action
    BY <1>0, <1>3, StageFacts DEF WrittenEvaluation
  <2>2. CASE Goto("feedback", work)
    <3>1. Stage("feedback", work)
      BY <2>1, StageFacts DEF Ungraded
    <3> QED
      BY <1>0, <2>2, <3>1, GradingGoto
  <2>3. CASE ~Goto("feedback", work)
    <3>1. PICK q \in WrittenQuality :
            Goto("feedback", [work EXCEPT !.results[work.index] =
                     [execution |-> @.execution, evaluation |-> TRUE,
                      quality |-> q, attempt |-> Attempts(work)]])
      BY <1>3, <2>3 DEF WrittenEvaluation, Leave, Edge
    <3> DEFINE r == [execution |-> Current(work).execution, evaluation |-> TRUE,
                     quality |-> q, attempt |-> Attempts(work)]
               t == [work EXCEPT !.results[work.index] = r]
    <3>2. Goto("feedback", t)
      BY <3>1 DEF Current
    <3>3. q \in ExecutionQuality
      BY DEF WrittenQuality, ExecutionQuality
    <3>4. Fresh(t) /\ Open(t) /\ t.intent \notin Action /\ Marked(t)
      BY <1>0, <2>1, <3>3, RecordFacts DEF Ungraded, Open, Marked
    <3>5. Stage("feedback", t)
      BY <3>4, StageFacts
    <3> QED
      BY <3>2, <3>4, <3>5, GradingGoto
  <2> QED
    BY <2>2, <2>3
<1>4. CASE Feedback
  <2>1. /\ Open(work) /\ work.intent \notin Action
        /\ Current(work) = NoResult \/ Marked(work)
    BY <1>0, <1>4, StageFacts DEF Feedback
  <2>2. CASE Current(work) # NoResult
    <3> DEFINE t == [work EXCEPT !.bundle = Current(work).quality]
    <3>1. /\ t.index = work.index /\ t.results = work.results /\ t.answers = work.answers
          /\ t.allowed = work.allowed /\ t.intent = work.intent
          /\ t.bundle = Current(work).quality
      BY <1>0 DEF InterviewState
    <3>2. Current(t) = Current(work) /\ Marked(t) /\ Fresh(t)
      BY <1>0, <2>1, <2>2, <3>1 DEF Current, Attempts, Marked, Fresh
    <3>3. t.bundle # NoQuality
      BY <2>1, <2>2, <3>1 DEF Marked, ExecutionQuality, NoQuality
    <3>4. Stage("reasoner", t)
      BY <2>1, <3>1, <3>2, <3>3, StageFacts DEF Open
    <3>5. Goto("reasoner", t)
      BY <1>4, <2>2 DEF Feedback, Leave, Edge
    <3> QED
      BY <3>2, <3>4, <3>5, GradingGoto
  <2>3. CASE Current(work) = NoResult
    <3>1. Stage("reasoner", work)
      BY <2>1, <2>3, StageFacts DEF Open
    <3>2. Goto("reasoner", work)
      BY <1>4, <2>3 DEF Feedback, Leave, Edge
    <3> QED
      BY <1>0, <3>1, <3>2, GradingGoto
  <2> QED
    BY <2>2, <2>3
<1> QED
  BY <1>1, <1>2, <1>3, <1>4

LEMMA GradingNavigation ==
  ASSUME TypeInv, GradingInv, Navigation
  PROVE  GradingInv'
<1>0. /\ work \in InterviewState /\ Placed(work) /\ Has(work) /\ pc = "navigation"
      /\ Fresh(work) /\ work.index \in Slots /\ work.index \in Nat
      /\ Offered(work) \/ (Ungraded(work) /\ work.intent \notin Action)
  BY StageFacts, SlotFacts DEF TypeInv, TypeOK, GradingInv, Navigation, InterviewState
<1>1. ASSUME NEW t, Settled(t), Fresh(t), Leave(t) PROVE GradingInv'
  <2>1. Goto("question", t)
    BY <1>0, <1>1 DEF Leave, Edge
  <2>2. Stage("question", t)
    BY <1>1, StageFacts
  <2> QED
    BY <1>1, <2>1, <2>2, GradingGoto
<1>2. CASE Leave(Cleared(work))
  <2> DEFINE t == Cleared(work)
  <2>1. /\ t.index = work.index /\ t.bundle = NoQuality /\ t.allowed = {}
        /\ t.results = [work.results EXCEPT ![work.index] = NoResult]
    BY <1>0 DEF Cleared, InterviewState
  <2>2. DOMAIN work.results = Slots
    BY <1>0 DEF InterviewState
  <2>3. Ungraded(t) /\ Fresh(t)
    BY <1>0, <2>1, <2>2, SlotFacts DEF Ungraded, Open, Current, Fresh
  <2> QED
    BY <1>1, <1>2, <2>3 DEF Settled
<1>3. CASE Leave(WithinGenerated(work))
  <2>1. WithinGenerated(work) = Stay(work)
    BY <1>0, NowhereToGo
  <2>2. SameGrade(work, Stay(work))
    BY <1>0 DEF Stay, MarkAsked, SameGrade, InterviewState
  <2>3. Settled(Stay(work)) /\ Fresh(Stay(work))
    BY <1>0, <2>2, SameGradeFacts DEF Settled
  <2> QED
    BY <1>1, <1>3, <2>1, <2>3
<1>4. CASE NextArea(work) /\ Leave(Forward([work EXCEPT !.questions = @ + 1]))
  <2> DEFINE g == [work EXCEPT !.questions = @ + 1]
             t == Forward(g)
  <2>1. t \in InterviewState
    BY <1>0, <1>4, GeneratedPlace
  <2>2. /\ t.index = work.index + 1 /\ t.results = work.results
        /\ t.bundle = NoQuality /\ t.allowed = {}
    BY <1>0 DEF Forward, MarkAsked, InterviewState
  <2>3. t.index \in Slots /\ t.index > work.index
    BY <1>0, <2>1, <2>2 DEF InterviewState
  <2>4. Ungraded(t)
    BY <1>0, <2>2, <2>3 DEF Fresh, Ungraded, Open, Current
  <2>5. Fresh(t)
    BY <1>0, <2>2, <2>3, SlotFacts DEF Fresh
  <2> QED
    BY <1>1, <1>4, <2>4, <2>5 DEF Settled
<1>5. CASE Leave([work EXCEPT !.awaiting = FALSE, !.intent = "NONE"])
  <2> DEFINE t == [work EXCEPT !.awaiting = FALSE, !.intent = "NONE"]
  <2>1. SameGrade(work, t)
    BY <1>0 DEF SameGrade, InterviewState
  <2>2. Settled(t) /\ Fresh(t)
    BY <1>0, <2>1, SameGradeFacts DEF Settled
  <2> QED
    BY <1>1, <1>5, <2>2
<1>6. CASE Leave(work)
  BY <1>0, <1>1, <1>6 DEF Settled
<1> QED
  BY <1>2, <1>3, <1>4, <1>5, <1>6 DEF Navigation, NavigateNext

(* The nodes after the navigation write nothing that grading looks at.       *)
LEMMA GradingTail ==
  ASSUME TypeInv, GradingInv,
         Question \/ Completion \/ EvaluationAggregate \/ SessionClose \/ Report
  PROVE  GradingInv'
<1> DEFINE Ending == {"question", "completion", "evaluation_aggregate", "session_close",
                    "report", "longitudinal_update", "finish"}
<1>0. work \in InterviewState /\ Fresh(work) /\ Settled(work)
  BY StageFacts DEF TypeInv, TypeOK, GradingInv,
                    Question, Completion, EvaluationAggregate, SessionClose, Report
<1>1. ASSUME NEW node \in Ending, NEW t, SameGrade(work, t), Goto(node, t) PROVE GradingInv'
  <2>1. Settled(t) /\ Fresh(t)
    BY <1>0, <1>1, SameGradeFacts
  <2>2. Stage(node, t)
    BY <2>1, StageFacts
  <2> QED
    BY <1>1, <2>1, <2>2, GradingGoto
<1>2. SameGrade(work, work)
  BY DEF SameGrade
<1>3. CASE Question
  <2>1. \/ Goto("completion", work)
        \/ Goto("completion", [work EXCEPT !.shown = @ + 1])
        \/ \E f \in BOOLEAN :
             Goto("completion", [work EXCEPT !.shown = @ + 1, !.last_follow_up = f,
                                             !.follow_ups = IF f THEN @ + 1 ELSE @])
    BY <1>3 DEF Question, Leave, Edge, FollowUpTurns
  <2>2. SameGrade(work, [work EXCEPT !.shown = @ + 1])
    BY <1>0 DEF SameGrade, InterviewState
  <2>3. \A f \in BOOLEAN :
          SameGrade(work, [work EXCEPT !.shown = @ + 1, !.last_follow_up = f,
                                       !.follow_ups = IF f THEN @ + 1 ELSE @])
    BY <1>0 DEF SameGrade, InterviewState
  <2> QED
    BY <1>1, <1>2, <2>1, <2>2, <2>3
<1>4. CASE Completion
  <2>1. SameGrade(work, [work EXCEPT !.completed = TRUE])
    BY <1>0 DEF SameGrade, InterviewState
  <2>2. \/ Goto("evaluation_aggregate", work)
        \/ Goto("evaluation_aggregate", [work EXCEPT !.completed = TRUE])
    BY <1>4 DEF Completion, Leave, Edge
  <2> QED
    BY <1>1, <1>2, <2>1, <2>2
<1>5. CASE EvaluationAggregate
  <2>1. \A ok \in BOOLEAN : SameGrade(work, [work EXCEPT !.scored = ok, !.intent = "NONE"])
    BY <1>0 DEF SameGrade, InterviewState
  <2>2. \/ Goto("session_close", work) \/ Goto("finish", work)
        \/ \E ok \in BOOLEAN :
             Goto("session_close", [work EXCEPT !.scored = ok, !.intent = "NONE"])
    BY <1>5 DEF EvaluationAggregate
  <2> QED
    BY <1>1, <1>2, <2>1, <2>2
<1>6. CASE SessionClose
  <2>1. SameGrade(work, [work EXCEPT !.history = HistoryOf(work)])
    BY <1>0 DEF SameGrade, InterviewState
  <2>2. \/ Goto("report", work)
        \/ Goto("report", [work EXCEPT !.history = HistoryOf(work)])
    BY <1>6 DEF SessionClose, Leave, Edge
  <2> QED
    BY <1>1, <1>2, <2>1, <2>2
<1>7. CASE Report
  <2>1. PICK built \in {FALSE, work.history.closed} :
          Goto("longitudinal_update",
               [work EXCEPT !.report = @ \/ built, !.processing = FALSE])
    BY <1>7 DEF Report, Leave, Edge
  <2>2. SameGrade(work, [work EXCEPT !.report = @ \/ built, !.processing = FALSE])
    BY <1>0 DEF SameGrade, InterviewState
  <2> QED
    BY <1>1, <2>1, <2>2
<1> QED
  BY <1>3, <1>4, <1>5, <1>6, <1>7

(* A failed submission leaves a question without a result: that is why its   *)
(* answer can be submitted again.                                            *)
LEMMA GradingRaises ==
  ASSUME TypeInv, GradingInv, GraphRaises
  PROVE  GradingInv'
<1>0. /\ session \in InterviewState /\ Fresh(session) /\ Settled(session)
      /\ handler = "submit" => Ungraded(session)
  BY DEF TypeInv, TypeOK, GradingInv
<1> DEFINE t == [session EXCEPT !.answers[session.index] = @ + 1]
<1>1. t \in InterviewState
  BY <1>0, AnswerType
<1>2. /\ t.bundle = session.bundle /\ t.allowed = session.allowed
      /\ t.index = session.index /\ t.results = session.results
  BY <1>0 DEF InterviewState
<1>3. handler = "submit" => Ungraded(t) /\ Fresh(t)
  BY <1>0, <1>2 DEF Ungraded, Open, Current, Fresh
<1>4. BeforeGraph \in InterviewState /\ Settled(BeforeGraph) /\ Fresh(BeforeGraph)
  BY <1>0, <1>1, <1>3 DEF BeforeGraph, Settled
<1>5. Settled(Unlocked(BeforeGraph, TRUE)) /\ Fresh(Unlocked(BeforeGraph, TRUE))
  BY <1>4, LocksGradeNothing, SameGradeFacts
<1> QED
  BY <1>5, StageFacts DEF GraphRaises, End, GradingInv

LEMMA GradingNext == TypeInv /\ GradingInv /\ [Next]_vars => GradingInv'
<1> SUFFICES ASSUME TypeInv, GradingInv, [Next]_vars PROVE GradingInv'
  OBVIOUS
<1>1. CASE UNCHANGED vars
  <2>1. session' = session /\ work' = work /\ handler' = handler /\ pc' = pc
    BY <1>1 DEF vars
  <2> QED
    BY <2>1 DEF GradingInv
<1>2. CASE UserStep
  BY <1>2, GradingUser
<1>3. CASE HandlerStep
  BY <1>3, GradingHandler, GradingRouting, GradingDecision, GradingGrades,
     GradingNavigation, GradingTail, GradingRaises DEF HandlerStep, GraphStep
<1> QED
  BY <1>1, <1>2, <1>3 DEF Next

(* The grading of every interview goes through the stages above.             *)
THEOREM GradingInvariant == Spec => []GradingInv
<1>1. Init => TypeInv /\ GradingInv
  BY TypeInvInit, GradingInit
<1>2. TypeInv /\ GradingInv /\ [Next]_vars => (TypeInv /\ GradingInv)'
  BY TypeInvNext, GradingNext
<1> QED
  BY <1>1, <1>2, PTL DEF Spec

LEMMA CoherentHere == TypeInv /\ GradingInv => FeedbackCoherent
BY SettledScreens DEF TypeInv, TypeOK, GradingInv, FeedbackCoherent, Offered, Marked

(* The feedback screen shows the verdict on the last submitted answer, after *)
(* any number of retries and of submissions that failed.                     *)
THEOREM FeedbackIsCoherent == Spec => []FeedbackCoherent
BY CoherentHere, TypeInvariant, GradingInvariant, PTL

LEMMA WayOutHere == TypeInv /\ GradingInv => NoDeadEnd
<1> SUFFICES ASSUME TypeInv, GradingInv, UiPhase(session) = "FEEDBACK"
             PROVE  \/ session.allowed \cap {"NEXT", "GENERATE_REPORT"} # {}
                    \/ /\ "RETRY" \in session.allowed
                       /\ Attempts(session) < MaxAttempts
                       /\ session.bundle \notin {"correct", "optimal"}
  BY DEF NoDeadEnd
<1>1. session.allowed = AllowedActions(session)
  BY SettledScreens DEF TypeInv, TypeOK, GradingInv, Offered
<1>2. CASE session.bundle = "incorrect" /\ Attempts(session) < MaxAttempts
  BY <1>1, <1>2 DEF AllowedActions, Decide
<1>3. CASE ~(session.bundle = "incorrect" /\ Attempts(session) < MaxAttempts)
  BY <1>1, <1>3 DEF AllowedActions, Decide
<1> QED
  BY <1>2, <1>3

(* The feedback screen always has a button that leads out of it, for any     *)
(* attempt limit, although the graph and the UI count attempts on their own. *)
THEOREM FeedbackHasAWayOut == Spec => []NoDeadEnd
BY WayOutHere, TypeInvariant, GradingInvariant, PTL

-----------------------------------------------------------------------------
(* What an interview leaves behind.                                          *)


(* The questions an interview has left behind.                               *)
Past(s) ==
  \A i \in Slots : i < s.index =>
    /\ s.results[i].evaluation
    /\ s.results[i].attempt = s.answers[i]
    /\ s.results[i].quality # "incorrect" \/ s.answers[i] >= MaxAttempts

(* It is completed on the last question, with its history or without.        *)
Whole(s) ==
  /\ s.completed => Offered(s) /\ s.questions = PlannedTotal(s)
  /\ s.history.closed =>
       s.completed /\ s.history.results = {i \in Slots : i < PlannedTotal(s)}

Sound(s) == Past(s) /\ Whole(s) /\ s.follow_ups <= MaxFollowUps

Grading == {"router", "execution", "written", "evaluation", "hint", "feedback", "reasoner",
            "decision"}
Closing == {"evaluation_aggregate", "session_close", "report", "longitudinal_update", "finish",
            "idle"}

(* Who is running the graph, and what for.                                   *)
Asks(s) == handler = "start" \/ (handler = "submit" /\ Answered(s))

Serves(node, s) ==
  /\ node = "generate" => handler = "start"
  /\ node = "prepare" => handler = "submit" /\ s = session
  /\ handler = "start" => s.index = 0 /\ s.intent \notin Action /\ session = EmptyState
  /\ node = "entry" /\ s.intent \notin Action => Asks(s)
  /\ node \in {"entry", "start_processing", "navigation"} =>
       /\ s.intent \in {"NEXT", "GENERATE_REPORT"} => Decide(s.bundle, Attempts(s)) = "NEXT"
       /\ s.intent = "GENERATE_REPORT" => handler = "report"
  /\ node \in Grading => Asks(s)
  /\ node = "execution" => ~IsWritten(s)
  /\ node \in Grading \ {"router", "execution", "written"} =>
       handler = "start" \/ Current(s) # NoResult
  /\ node \in {"start_processing", "navigation"} => handler = "start" \/ s.intent \in Action
  /\ node \in {"question", "completion"} =>
       s.awaiting \/ ~OnLast(s) \/ (Offered(s) /\ handler = "report")
  /\ node \in {"session_close", "report", "longitudinal_update"} => s.completed
  /\ node \notin Closing => ~s.completed

(* A handler's copy has the answers it will give back if a node raises.      *)
Kept ==
  handler # "none" /\ pc \notin {"prepare", "generate"} => work.answers = BeforeGraph.answers

RecordInv ==
  /\ Sound(session) /\ Sound(work)
  /\ (handler = "none") <=> (pc = "idle")
  /\ session.completed => handler = "none"
  /\ Serves(pc, work)
  /\ Kept

-----------------------------------------------------------------------------
(* What keeps a state sound.                                                 *)

LEMMA EmptyIsSound == Sound(EmptyState) /\ ~EmptyState.completed
<1>1. /\ EmptyState.index = 0 /\ ~EmptyState.completed /\ ~EmptyState.history.closed
      /\ EmptyState.follow_ups = 0
  BY DEF EmptyState, NoHistory
<1> QED
  BY <1>1, SlotFacts, LimitsAssumption DEF Sound, Past, Whole

(* Before completion only what lies behind the current question counts.      *)
LEMMA OpenIsSound ==
  ASSUME NEW s, NEW t, Sound(s), ~s.completed,
         t.index = s.index, t.completed = s.completed, t.history = s.history,
         t.follow_ups <= MaxFollowUps,
         \A i \in Slots : i < s.index =>
           t.results[i] = s.results[i] /\ t.answers[i] = s.answers[i]
  PROVE  Sound(t)
BY DEF Sound, Past, Whole

SameRecord(s, t) ==
  /\ SameGrade(s, t) /\ t.completed = s.completed /\ t.history = s.history
  /\ t.follow_ups = s.follow_ups

LEMMA SameIsSound ==
  ASSUME NEW s, NEW t, SameRecord(s, t), Sound(s)
  PROVE  Sound(t)
<1>1. Offered(s) <=> Offered(t)
  BY SameGradeFacts DEF SameRecord
<1>2. PlannedTotal(t) = PlannedTotal(s)
  BY DEF SameRecord, SameGrade, PlannedTotal
<1> QED
  BY <1>1, <1>2 DEF SameRecord, SameGrade, Sound, Past, Whole

LEMMA LocksRecordNothing ==
  ASSUME NEW s \in InterviewState
  PROVE  /\ \A i : SameRecord(s, Locked(s, i)) /\ Locked(s, i).intent = i
         /\ \A a : SameRecord(s, Unlocked(s, a))
BY DEF SameRecord, SameGrade, Locked, Unlocked, InterviewState

LEMMA AnsweredOnce ==
  ASSUME NEW s \in InterviewState
  PROVE  LET t == [s EXCEPT !.answers[s.index] = @ + 1]
         IN  /\ t.index = s.index /\ t.completed = s.completed /\ t.history = s.history
             /\ t.follow_ups = s.follow_ups /\ t.results = s.results /\ t.intent = s.intent
             /\ \A i \in Slots : i < s.index => t.answers[i] = s.answers[i]
             /\ Answered(t)
<1> DEFINE t == [s EXCEPT !.answers[s.index] = @ + 1]
<1>1. /\ t.index = s.index /\ t.completed = s.completed /\ t.history = s.history
      /\ t.follow_ups = s.follow_ups /\ t.results = s.results /\ t.intent = s.intent
      /\ t.answers = [s.answers EXCEPT ![s.index] = @ + 1]
  BY DEF InterviewState
<1>2. s.index \in Slots /\ s.index \in Nat /\ s.answers \in [Slots -> Nat]
  BY SlotFacts DEF InterviewState
<1>3. t.answers[s.index] = s.answers[s.index] + 1 /\ s.answers[s.index] \in Nat
  BY <1>1, <1>2
<1>4. Answered(t)
  BY <1>1, <1>3 DEF Answered, Attempts
<1> QED
  BY <1>1, <1>2, <1>4

-----------------------------------------------------------------------------
(* RecordInv is inductive.                                                   *)

LEMMA RecordInit == Init => RecordInv
<1> SUFFICES ASSUME Init PROVE RecordInv
  OBVIOUS
<1>1. EmptyState.index = 0 /\ EmptyState.intent = "NONE"
  BY DEF EmptyState
<1>2. Serves("idle", EmptyState)
  BY <1>1, EmptyIsSound DEF Serves, Grading, Closing, Init
<1> QED
  BY <1>2, EmptyIsSound DEF Init, RecordInv, Kept

LEMMA RecordUser ==
  ASSUME TypeInv, GradingInv, RecordInv, UserStep
  PROVE  RecordInv'
<1>0. /\ session \in InterviewState /\ Settled(session) /\ Sound(session)
      /\ EmptyState.index = 0 /\ EmptyState.intent = "NONE" /\ "NONE" \notin Action
  BY DEF TypeInv, TypeOK, GradingInv, RecordInv, EmptyState, Action
<1>1. CASE StartInterview
  <2>1. session' = EmptyState /\ work' = EmptyState /\ handler' = "start" /\ pc' = "generate"
    BY <1>1 DEF StartInterview, Begin
  <2>2. Serves(pc, work)'
    BY <1>0, <2>1, EmptyIsSound DEF Serves, Grading, Closing
  <2> QED
    BY <2>1, <2>2, EmptyIsSound DEF RecordInv, Kept
<1>2. CASE NewInterview
  <2>1. session' = EmptyState /\ work' = EmptyState /\ handler' = "none" /\ pc' = "idle"
    BY <1>2 DEF NewInterview, End
  <2>2. Serves(pc, work)'
    BY <2>1, EmptyIsSound DEF Serves, Grading, Closing
  <2> QED
    BY <2>1, <2>2, EmptyIsSound DEF RecordInv, Kept
<1>3. CASE Submit
  <2> DEFINE t == Locked(session, "SUBMIT")
  <2>1. session' = t /\ work' = t /\ handler' = "submit" /\ pc' = "prepare"
    BY <1>3 DEF Submit, Begin
  <2>2. ~session.completed
    BY <1>3, PhaseFacts DEF Submit
  <2>3. Sound(t) /\ ~t.completed
    BY <1>0, <2>2, LocksRecordNothing, SameIsSound DEF SameRecord
  <2>4. Serves(pc, work)'
    BY <2>1, <2>3 DEF Serves, Grading, Closing
  <2> QED
    BY <2>1, <2>3, <2>4 DEF RecordInv, Kept
<1>4. CASE Retry
  <2> DEFINE t == Locked(session, "RETRY")
  <2>1. session' = session /\ work' = t /\ handler' = "retry" /\ pc' = "entry"
    BY <1>4 DEF Retry, Begin
  <2>2. ~session.completed
    BY <1>4, PhaseFacts DEF Retry
  <2>3. Sound(t) /\ ~t.completed /\ t.intent = "RETRY" /\ t.answers = session.answers
    BY <1>0, <2>2, LocksRecordNothing, SameIsSound DEF SameRecord, SameGrade
  <2>4. Serves(pc, work)'
    BY <2>1, <2>3 DEF Serves, Grading, Closing, Action
  <2>5. Kept'
    BY <2>1, <2>3 DEF Kept, BeforeGraph
  <2> QED
    BY <1>0, <2>1, <2>2, <2>3, <2>4, <2>5 DEF RecordInv
<1>5. CASE NextQuestion
  <2> DEFINE intent == IF "GENERATE_REPORT" \in session.allowed
                       THEN "GENERATE_REPORT" ELSE "NEXT"
             t == Locked(session, intent)
  <2>1. /\ session' = t /\ work' = t /\ pc' = "entry"
        /\ handler' = IF "GENERATE_REPORT" \in session.allowed THEN "report" ELSE "next"
    BY <1>5 DEF NextQuestion, Begin
  <2>2. ~session.completed /\ Offered(session)
    BY <1>0, <1>5, PhaseFacts, SettledScreens DEF NextQuestion
  <2>3. Sound(t) /\ ~t.completed /\ t.intent = intent
    BY <1>0, <2>2, LocksRecordNothing, SameIsSound DEF SameRecord
  <2>4. t.bundle = session.bundle /\ Attempts(t) = Attempts(session)
    BY <1>0, LocksRecordNothing DEF SameRecord, SameGrade, Attempts
  <2>5. Decide(session.bundle, Attempts(session)) = "NEXT"
    BY <1>5, <2>2 DEF NextQuestion, Offered, AllowedActions, Decide
  <2>6. intent \in Action /\ intent \in {"NEXT", "GENERATE_REPORT"}
    BY DEF Action
  <2> HIDE DEF t
  <2>7. Serves(pc, work)'
    <3>1. intent = "GENERATE_REPORT" => handler' = "report"
      BY <2>1
    <3>2. handler' # "start"
      BY <2>1
    <3> HIDE DEF intent
    <3> QED
      BY <2>1, <2>3, <2>4, <2>5, <2>6, <3>1, <3>2 DEF Serves, Grading, Closing
  <2>8. Kept'
    BY <2>1 DEF Kept, BeforeGraph
  <2> QED
    BY <2>1, <2>3, <2>7, <2>8 DEF RecordInv
<1> QED
  BY <1>1, <1>2, <1>3, <1>4, <1>5 DEF UserStep

(* A graph step keeps RecordInv if it gives the next node what it relies on. *)
LEMMA RecordGoto ==
  ASSUME RecordInv, NEW node, NEW t, Goto(node, t),
         pc \notin {"idle", "prepare", "generate"},
         node \notin {"idle", "prepare", "generate"},
         Sound(t), t.answers = work.answers, Serves(node, t)
  PROVE  RecordInv'
<1>1. /\ work' = t /\ pc' = node /\ session' = session /\ handler' = handler
      /\ Answered(t)' <=> Answered(t)
  BY DEF Goto, Answered, Attempts
<1>2. handler # "none"
  BY DEF RecordInv
<1>3. BeforeGraph' = BeforeGraph
  BY <1>1 DEF BeforeGraph
<1>4. Kept'
  BY <1>1, <1>2, <1>3 DEF RecordInv, Kept
<1>5. Serves(pc, work)'
  BY <1>1 DEF Serves, Asks, Answered, Attempts, Current, NoResult, IsWritten, OnLast,
              PlannedTotal, Offered, Marked, AllowedActions, Decide
<1> QED
  BY <1>1, <1>2, <1>4, <1>5 DEF RecordInv

LEMMA RecordHandler ==
  ASSUME TypeInv, GradingInv, RecordInv,
         GenerateFirst \/ StartFails \/ SubmitEmpty \/ SubmitAnswer \/ Finish
  PROVE  RecordInv'
<1>0. /\ work \in InterviewState /\ Sound(work) /\ Sound(session) /\ Serves(pc, work)
      /\ session.completed => handler = "none"
      /\ (handler = "none") <=> (pc = "idle")
  BY DEF TypeInv, TypeOK, RecordInv
<1>1. CASE GenerateFirst
  <2>1. PICK plan \in Plans : work' = InitialState(plan)
    BY <1>1 DEF GenerateFirst
  <2> DEFINE t == InitialState(plan)
  <2>2. /\ t.index = 0 /\ ~t.completed /\ ~t.history.closed /\ t.follow_ups = 0
        /\ t.intent = "NONE" /\ t.answers = EmptyState.answers
    BY DEF InitialState, EmptyState, NoHistory
  <2>3. Sound(t)
    BY <2>2, SlotFacts, LimitsAssumption DEF Sound, Past, Whole
  <2> HIDE DEF t
  <2>4. session' = session /\ handler' = handler /\ pc = "generate" /\ pc' = "entry" /\ work' = t
    BY <1>1, <2>1 DEF GenerateFirst, t
  <2>5. handler = "start" /\ session = EmptyState
    BY <1>0, <2>4 DEF Serves
  <2>6. Kept'
    BY <2>2, <2>4, <2>5 DEF Kept, BeforeGraph
  <2>7. Serves(pc, work)'
    BY <2>2, <2>4, <2>5 DEF Serves, Asks, Grading, Closing, Action
  <2> QED
    BY <1>0, <2>3, <2>4, <2>5, <2>6, <2>7, EmptyIsSound DEF RecordInv
<1>2. CASE StartFails
  <2>1. session' = EmptyState /\ work' = EmptyState /\ handler' = "none" /\ pc' = "idle"
    BY <1>2 DEF StartFails, End
  <2>2. Serves(pc, work)'
    BY <2>1, EmptyIsSound DEF Serves, Grading, Closing
  <2> QED
    BY <2>1, <2>2, EmptyIsSound DEF RecordInv, Kept
<1>3. CASE SubmitEmpty
  <2> DEFINE t == [work EXCEPT !.awaiting = TRUE, !.processing = FALSE]
  <2>1. SameRecord(work, t)
    BY <1>0 DEF SameRecord, SameGrade, InterviewState
  <2>2. Sound(t)
    BY <1>0, <2>1, SameIsSound
  <2> HIDE DEF t
  <2>3. session' = t /\ work' = t /\ handler' = "none" /\ pc' = "idle"
    BY <1>3 DEF SubmitEmpty, End, t
  <2>4. Serves(pc, work)'
    BY <2>3 DEF Serves, Grading, Closing
  <2> QED
    BY <2>2, <2>3, <2>4 DEF RecordInv, Kept
<1>4. CASE SubmitAnswer
  <2> DEFINE t == [work EXCEPT !.answers[work.index] = @ + 1]
  <2>1. /\ session' = session /\ work' = t /\ handler' = handler /\ pc = "prepare"
        /\ pc' = "entry"
    BY <1>4 DEF SubmitAnswer
  <2>2. handler = "submit" /\ work = session /\ ~work.completed
    BY <1>0, <2>1 DEF Serves, Closing
  <2>3. /\ t.index = work.index /\ t.completed = work.completed /\ t.history = work.history
        /\ t.follow_ups = work.follow_ups /\ t.results = work.results /\ t.intent = work.intent
        /\ \A i \in Slots : i < work.index => t.answers[i] = work.answers[i]
        /\ Answered(t)
    BY <1>0, AnsweredOnce
  <2>4. Sound(t)
    <3>1. work.follow_ups <= MaxFollowUps
      BY <1>0 DEF Sound
    <3> HIDE DEF t
    <3> QED
      BY <1>0, <2>2, <2>3, <3>1, OpenIsSound
  <2>5. work.intent \notin Action
    BY <2>1, StageFacts DEF GradingInv
  <2>6. t = BeforeGraph
    BY <2>2 DEF BeforeGraph
  <2> HIDE DEF t
  <2>7. Kept'
    BY <2>1, <2>2, <2>6 DEF Kept, BeforeGraph
  <2>8. Serves(pc, work)'
    BY <2>1, <2>2, <2>3, <2>5 DEF Serves, Asks, Answered, Attempts, Grading, Closing, Action
  <2> QED
    BY <1>0, <2>1, <2>2, <2>4, <2>7, <2>8 DEF RecordInv
<1>5. CASE Finish
  <2> DEFINE t == Unlocked(work, IF handler = "report" THEN work.awaiting ELSE TRUE)
  <2>1. Sound(t)
    BY <1>0, LocksRecordNothing, SameIsSound
  <2> HIDE DEF t
  <2>2. session' = t /\ work' = t /\ handler' = "none" /\ pc' = "idle"
    BY <1>5 DEF Finish, End, t
  <2>3. Serves(pc, work)'
    BY <2>2 DEF Serves, Grading, Closing
  <2> QED
    BY <2>1, <2>2, <2>3 DEF RecordInv, Kept
<1> QED
  BY <1>1, <1>2, <1>3, <1>4, <1>5

LEMMA RecordRouting ==
  ASSUME TypeInv, RecordInv,
         RouteEntry \/ RouteByQuestionType \/ PassThrough \/ StartProcessing
  PROVE  RecordInv'
<1>0. work \in InterviewState /\ Sound(work) /\ Serves(pc, work)
  BY DEF TypeInv, TypeOK, RecordInv
<1>1. CASE RouteEntry
  <2> DEFINE node == IF work.intent \in Action THEN "start_processing" ELSE "router"
  <2>1. pc = "entry" /\ Goto(node, work) /\ node \in {"start_processing", "router"}
    BY <1>1 DEF RouteEntry
  <2>2. Serves(node, work)
    BY <1>0, <2>1 DEF Serves, Grading, Closing
  <2> QED
    BY <1>0, <2>1, <2>2, RecordGoto
<1>2. CASE RouteByQuestionType
  <2> DEFINE node == IF IsWritten(work) THEN "written" ELSE "execution"
  <2>1. pc = "router" /\ Goto(node, work) /\ node \in {"written", "execution"}
    BY <1>2 DEF RouteByQuestionType
  <2>2. Serves(node, work)
    BY <1>0, <2>1 DEF Serves, Grading, Closing
  <2> QED
    BY <1>0, <2>1, <2>2, RecordGoto
<1>3. CASE PassThrough
  <2>1. \/ pc = "hint" /\ Goto("feedback", work)
        \/ pc = "reasoner" /\ Goto("decision", work)
        \/ pc = "longitudinal_update" /\ Goto("finish", work)
    BY <1>3 DEF PassThrough, Leave, Edge
  <2>2. /\ pc = "hint" => Serves("feedback", work)
        /\ pc = "reasoner" => Serves("decision", work)
        /\ pc = "longitudinal_update" => Serves("finish", work)
    BY <1>0 DEF Serves, Grading, Closing
  <2> QED
    BY <1>0, <2>1, <2>2, RecordGoto
<1>4. CASE StartProcessing
  <2> DEFINE t == [work EXCEPT !.processing = TRUE]
  <2>1. pc = "start_processing" /\ Goto("navigation", t)
    BY <1>4 DEF StartProcessing, Leave, Edge
  <2>2. /\ SameRecord(work, t) /\ t.index = work.index /\ t.intent = work.intent
        /\ t.bundle = work.bundle /\ t.answers = work.answers /\ t.completed = work.completed
    BY <1>0 DEF SameRecord, SameGrade, InterviewState
  <2>3. Sound(t) /\ Attempts(t) = Attempts(work)
    BY <1>0, <2>2, SameIsSound DEF Attempts
  <2> HIDE DEF t
  <2>4. Serves("navigation", t)
    BY <1>0, <2>1, <2>2, <2>3 DEF Serves, Grading, Closing
  <2> QED
    BY <2>1, <2>2, <2>3, <2>4, RecordGoto
<1> QED
  BY <1>1, <1>2, <1>3, <1>4

(* A start has nothing to decide on and goes on to its first question.       *)
LEMMA RecordDecision ==
  ASSUME TypeInv, GradingInv, RecordInv, Decision
  PROVE  RecordInv'
<1>0. /\ work \in InterviewState /\ Sound(work) /\ Serves("decision", work)
      /\ pc = "decision"
  BY DEF TypeInv, TypeOK, RecordInv, Decision
<1>1. CASE work.bundle # NoQuality
  <2> DEFINE t == [work EXCEPT !.allowed = AllowedActions(work), !.intent = "NONE",
                               !.awaiting = TRUE, !.processing = FALSE]
  <2>1. /\ t.planned_areas = work.planned_areas /\ t.questions = work.questions
        /\ t.index = work.index /\ t.answers = work.answers /\ t.results = work.results
        /\ t.completed = work.completed /\ t.history = work.history
        /\ t.follow_ups = work.follow_ups /\ t.intent = "NONE"
    BY <1>0 DEF InterviewState
  <2>2. Goto("finish", t)
    BY <1>1 DEF Decision
  <2>3. ~work.completed
    BY <1>0 DEF Serves, Closing
  <2> HIDE DEF t
  <2>4. Sound(t)
    <3>1. work.follow_ups <= MaxFollowUps
      BY <1>0 DEF Sound
    <3> QED
      BY <1>0, <2>1, <2>3, <3>1, OpenIsSound
  <2>5. Serves("finish", t)
    BY <1>0, <2>1 DEF Serves, Grading, Closing, Action
  <2> QED
    BY <1>0, <2>1, <2>2, <2>4, <2>5, RecordGoto
<1>2. CASE work.bundle = NoQuality
  <2>1. Current(work) = NoResult /\ work.intent \notin Action
    BY <1>0, <1>2, StageFacts DEF GradingInv
  <2>2. handler = "start"
    BY <1>0, <2>1 DEF Serves, Grading
  <2>3. Serves("navigation", work) /\ Serves("finish", work)
    BY <1>0, <2>1, <2>2 DEF Serves, Grading, Closing, Action
  <2>4. Goto("finish", work) \/ Goto("navigation", work)
    BY <1>2 DEF Decision
  <2> QED
    BY <1>0, <2>3, <2>4, RecordGoto
<1> QED
  BY <1>1, <1>2

(* The result of the current question is not what the past is made of.       *)
LEMMA GradeIsSound ==
  ASSUME NEW s \in InterviewState, Sound(s), ~s.completed, NEW r
  PROVE  LET t == [s EXCEPT !.results[s.index] = r]
         IN  /\ Sound(t) /\ Current(t) = r /\ ~t.completed
             /\ t.index = s.index /\ t.answers = s.answers /\ t.intent = s.intent
             /\ Answered(t) <=> Answered(s)
<1> DEFINE t == [s EXCEPT !.results[s.index] = r]
<1>1. /\ t.index = s.index /\ t.answers = s.answers /\ t.intent = s.intent
      /\ t.completed = s.completed /\ t.history = s.history /\ t.follow_ups = s.follow_ups
      /\ t.results = [s.results EXCEPT ![s.index] = r]
  BY DEF InterviewState
<1>2. s.index \in Slots /\ s.index \in Nat /\ DOMAIN s.results = Slots
  BY SlotFacts DEF InterviewState
<1> HIDE DEF t
<1>3. \A i \in Slots : i < s.index => t.results[i] = s.results[i] /\ t.answers[i] = s.answers[i]
  BY <1>1, <1>2, SlotFacts
<1>4. Sound(t)
  <2>1. t.follow_ups <= MaxFollowUps
    BY <1>1 DEF Sound
  <2> QED
    BY <1>1, <1>3, <2>1, OpenIsSound
<1>5. Current(t) = r /\ (Answered(t) <=> Answered(s))
  BY <1>1, <1>2 DEF Current, Answered, Attempts
<1> QED
  BY <1>1, <1>4, <1>5 DEF t

LEMMA RecordGrades ==
  ASSUME TypeInv, RecordInv, Execution \/ Evaluation \/ WrittenEvaluation \/ Feedback
  PROVE  RecordInv'
<1>0. /\ work \in InterviewState /\ Sound(work) /\ Serves(pc, work)
      /\ ~work.completed /\ Asks(work)
      /\ handler = "start" => work.index = 0 /\ work.intent \notin Action /\ session = EmptyState
  BY DEF TypeInv, TypeOK, RecordInv, Execution, Evaluation, WrittenEvaluation, Feedback,
         Serves, Grading, Closing
<1>1. pc \notin {"idle", "prepare", "generate"}
  BY DEF Execution, Evaluation, WrittenEvaluation, Feedback
<1>2. ASSUME NEW node \in {"evaluation", "hint", "feedback", "reasoner"}, Goto(node, work),
             handler = "start" \/ Current(work) # NoResult
      PROVE  RecordInv'
  <2>1. Serves(node, work)
    BY <1>0, <1>2 DEF Serves, Grading, Closing
  <2> QED
    BY <1>0, <1>1, <1>2, <2>1, RecordGoto
<1>3. ASSUME NEW node \in {"evaluation", "hint", "feedback", "reasoner"}, NEW r, r # NoResult,
             Goto(node, [work EXCEPT !.results[work.index] = r])
      PROVE  RecordInv'
  <2> DEFINE t == [work EXCEPT !.results[work.index] = r]
  <2>1. /\ Sound(t) /\ Current(t) = r /\ ~t.completed
        /\ t.index = work.index /\ t.answers = work.answers /\ t.intent = work.intent
        /\ Answered(t) <=> Answered(work)
    BY <1>0, GradeIsSound
  <2>2. Goto(node, t)
    BY <1>3
  <2> HIDE DEF t
  <2>3. Asks(t)
    BY <1>0, <2>1 DEF Asks
  <2>4. Serves(node, t)
    BY <1>0, <1>3, <2>1, <2>3 DEF Serves, Grading, Closing
  <2> QED
    BY <1>1, <1>3, <2>1, <2>2, <2>4, RecordGoto
<1>4. CASE Execution
  <2>1. ~IsWritten(work)
    BY <1>0, <1>4 DEF Execution, Serves
  <2>2. CASE Answered(work) /\ ~Current(work).execution
    <3>1. PICK q \in ExecutionQuality :
            Goto("evaluation", [work EXCEPT !.results[work.index] =
                     [execution |-> TRUE, evaluation |-> @.evaluation,
                      quality |-> q, attempt |-> Attempts(work)]])
      BY <1>4, <2>1, <2>2 DEF Execution, Leave, Edge
    <3> DEFINE r == [execution |-> TRUE, evaluation |-> Current(work).evaluation,
                     quality |-> q, attempt |-> Attempts(work)]
    <3>2. Goto("evaluation", [work EXCEPT !.results[work.index] = r])
      BY <3>1 DEF Current
    <3>3. r.execution = TRUE /\ NoResult.execution = FALSE
      BY DEF NoResult
    <3>4. r # NoResult
      BY <3>3
    <3> QED
      BY <1>3, <3>2, <3>4
  <2>3. CASE ~(Answered(work) /\ ~Current(work).execution)
    <3>1. Goto("evaluation", work)
      BY <1>4, <2>3 DEF Execution, Leave, Edge
    <3>2. handler = "start" \/ Current(work) # NoResult
      BY <1>0, <2>3 DEF Asks, NoResult
    <3> QED
      BY <1>2, <3>1, <3>2
  <2> QED
    BY <2>2, <2>3
<1>5. CASE Evaluation
  <2>1. handler = "start" \/ Current(work) # NoResult
    BY <1>0, <1>5 DEF Evaluation, Serves, Grading
  <2>2. CASE Current(work).execution
    <3> DEFINE r == [Current(work) EXCEPT !.evaluation = TRUE]
    <3>1. Goto("hint", [work EXCEPT !.results[work.index] = r])
      BY <1>5, <2>2 DEF Evaluation, Leave, Edge, Current
    <3>2. r.evaluation = TRUE /\ NoResult.evaluation = FALSE
      BY <1>0, CurrentType DEF Result, NoResult
    <3>3. r # NoResult
      BY <3>2
    <3> QED
      BY <1>3, <3>1, <3>3
  <2>3. CASE ~Current(work).execution
    <3>1. Goto("hint", work)
      BY <1>5, <2>3 DEF Evaluation, Leave, Edge
    <3> QED
      BY <1>2, <2>1, <3>1
  <2> QED
    BY <2>2, <2>3
<1>6. CASE WrittenEvaluation
  <2>1. CASE Answered(work) /\ ~Current(work).evaluation
    <3>1. PICK q \in WrittenQuality :
            Goto("feedback", [work EXCEPT !.results[work.index] =
                     [execution |-> @.execution, evaluation |-> TRUE,
                      quality |-> q, attempt |-> Attempts(work)]])
      BY <1>6, <2>1 DEF WrittenEvaluation, Leave, Edge
    <3> DEFINE r == [execution |-> Current(work).execution, evaluation |-> TRUE,
                     quality |-> q, attempt |-> Attempts(work)]
    <3>2. Goto("feedback", [work EXCEPT !.results[work.index] = r])
      BY <3>1 DEF Current
    <3>3. r.evaluation = TRUE /\ NoResult.evaluation = FALSE
      BY DEF NoResult
    <3>4. r # NoResult
      BY <3>3
    <3> QED
      BY <1>3, <3>2, <3>4
  <2>2. CASE ~(Answered(work) /\ ~Current(work).evaluation)
    <3>1. Goto("feedback", work)
      BY <1>6, <2>2 DEF WrittenEvaluation, Leave, Edge
    <3>2. handler = "start" \/ Current(work) # NoResult
      BY <1>0, <2>2 DEF Asks, NoResult
    <3> QED
      BY <1>2, <3>1, <3>2
  <2> QED
    BY <2>1, <2>2
<1>7. CASE Feedback
  <2>1. handler = "start" \/ Current(work) # NoResult
    BY <1>0, <1>7 DEF Feedback, Serves, Grading
  <2>2. CASE Current(work) # NoResult
    <3> DEFINE t == [work EXCEPT !.bundle = Current(work).quality]
    <3>1. /\ t.index = work.index /\ t.results = work.results /\ t.answers = work.answers
          /\ t.completed = work.completed /\ t.history = work.history
          /\ t.follow_ups = work.follow_ups /\ t.intent = work.intent
      BY <1>0 DEF InterviewState
    <3>2. Goto("reasoner", t)
      BY <1>7, <2>2 DEF Feedback, Leave, Edge
    <3> HIDE DEF t
    <3>3. Sound(t)
      <4>1. t.follow_ups <= MaxFollowUps
        BY <1>0, <3>1 DEF Sound
      <4> QED
        BY <1>0, <3>1, <4>1, OpenIsSound
    <3>4. Asks(t) /\ Current(t) = Current(work)
      BY <1>0, <3>1 DEF Asks, Answered, Attempts, Current
    <3>5. Serves("reasoner", t)
      BY <1>0, <2>2, <3>1, <3>4 DEF Serves, Grading, Closing
    <3> QED
      BY <1>1, <3>1, <3>2, <3>3, <3>5, RecordGoto
  <2>3. CASE Current(work) = NoResult
    <3>1. Goto("reasoner", work)
      BY <1>7, <2>3 DEF Feedback, Leave, Edge
    <3> QED
      BY <1>2, <2>1, <3>1
  <2> QED
    BY <2>2, <2>3
<1> QED
  BY <1>4, <1>5, <1>6, <1>7

(* The question that is left behind has the result of its last answer.       *)
LEMMA ForwardIsSound ==
  ASSUME NEW s \in InterviewState, Placed(s), Has(s), NextArea(s), Sound(s), ~s.completed,
         Offered(s), Decide(s.bundle, Attempts(s)) = "NEXT"
  PROVE  LET t == Forward([s EXCEPT !.questions = @ + 1])
         IN  Sound(t) /\ t.awaiting /\ ~t.completed /\ t.answers = s.answers
<1> DEFINE t == Forward([s EXCEPT !.questions = @ + 1])
<1>1. /\ t.index = s.index + 1 /\ t.results = s.results /\ t.answers = s.answers
      /\ t.completed = s.completed /\ t.history = s.history /\ t.follow_ups = s.follow_ups
      /\ t.awaiting
  BY DEF Forward, MarkAsked, InterviewState
<1>2. /\ s.index \in Nat /\ Attempts(s) \in Nat /\ MaxAttempts \in Nat
      /\ Slots \subseteq Nat
  BY CurrentType, SlotFacts, LimitsAssumption
<1>3. /\ Current(s).evaluation /\ Current(s).attempt = Attempts(s)
      /\ Current(s).quality # "incorrect" \/ Attempts(s) >= MaxAttempts
  <2>1. Marked(s) /\ s.bundle = Current(s).quality
    BY DEF Offered
  <2>2. s.bundle # "incorrect" \/ ~(Attempts(s) < MaxAttempts)
    BY DEF Decide
  <2> QED
    BY <1>2, <2>1, <2>2 DEF Marked
<1> HIDE DEF t
<1>4. Past(t)
  <2> SUFFICES ASSUME NEW i \in Slots, i < t.index
               PROVE  /\ t.results[i].evaluation
                      /\ t.results[i].attempt = t.answers[i]
                      /\ t.results[i].quality # "incorrect" \/ t.answers[i] >= MaxAttempts
    BY DEF Past
  <2>1. CASE i = s.index
    BY <1>1, <1>3, <2>1 DEF Current, Attempts
  <2>2. CASE i # s.index
    <3>1. i \in Nat /\ i < s.index
      BY <1>1, <1>2, <2>2
    <3> QED
      BY <1>1, <3>1 DEF Sound, Past
  <2> QED
    BY <2>1, <2>2
<1>5. Whole(t) /\ t.follow_ups <= MaxFollowUps
  BY <1>1 DEF Sound, Whole
<1> QED
  BY <1>1, <1>4, <1>5 DEF Sound, t

LEMMA RecordNavigation ==
  ASSUME TypeInv, GradingInv, RecordInv, Navigation
  PROVE  RecordInv'
<1>0. /\ work \in InterviewState /\ Placed(work) /\ Has(work) /\ pc = "navigation"
      /\ work.index \in Slots /\ work.index \in Nat
      /\ Sound(work) /\ Serves("navigation", work) /\ ~work.completed
      /\ Offered(work) \/ (Ungraded(work) /\ work.intent \notin Action)
  BY StageFacts, SlotFacts
     DEF TypeInv, TypeOK, GradingInv, RecordInv, Navigation, InterviewState, Serves, Closing
<1>1. ASSUME NEW t, Leave(t), Sound(t), t.answers = work.answers, ~t.completed,
             handler = "start" => t.index = 0 /\ t.intent \notin Action,
             t.awaiting \/ ~OnLast(t) \/ (Offered(t) /\ handler = "report")
      PROVE  RecordInv'
  <2>1. Goto("question", t)
    BY <1>0, <1>1 DEF Leave, Edge
  <2>2. Serves("question", t)
    BY <1>0, <1>1 DEF Serves, Grading, Closing
  <2> QED
    BY <1>0, <1>1, <2>1, <2>2, RecordGoto
<1>2. CASE work.intent = "RETRY"
  <2> DEFINE t == Cleared(work)
  <2>1. Leave(t)
    BY <1>2 DEF Navigation
  <2>2. /\ t.index = work.index /\ t.answers = work.answers /\ t.completed = work.completed
        /\ t.history = work.history /\ t.follow_ups = work.follow_ups
        /\ t.intent = "NONE" /\ t.awaiting
        /\ t.results = [work.results EXCEPT ![work.index] = NoResult]
    BY <1>0 DEF Cleared, InterviewState
  <2>3. DOMAIN work.results = Slots
    BY <1>0 DEF InterviewState
  <2> HIDE DEF t
  <2>4. \A i \in Slots : i < work.index =>
          t.results[i] = work.results[i] /\ t.answers[i] = work.answers[i]
    BY <1>0, <2>2, <2>3, SlotFacts
  <2>5. Sound(t)
    <3>1. t.follow_ups <= MaxFollowUps
      BY <1>0, <2>2 DEF Sound
    <3> QED
      BY <1>0, <2>2, <2>4, <3>1, OpenIsSound
  <2>6. handler # "start"
    BY <1>0, <1>2 DEF Serves, Action
  <2> QED
    BY <1>0, <1>1, <2>1, <2>2, <2>5, <2>6
<1>3. CASE work.intent = "NEXT"
  <2>1. handler # "start" /\ Offered(work) /\ Decide(work.bundle, Attempts(work)) = "NEXT"
    BY <1>0, <1>3 DEF Serves, Action
  <2>2. CASE Leave(WithinGenerated(work))
    <3>1. Leave(Stay(work))
      BY <1>0, <2>2, NowhereToGo
    <3>2. SameRecord(work, Stay(work)) /\ Stay(work).awaiting
      BY <1>0 DEF Stay, MarkAsked, SameRecord, SameGrade, InterviewState
    <3>3. Sound(Stay(work)) /\ Stay(work).answers = work.answers /\ ~Stay(work).completed
      BY <1>0, <3>2, SameIsSound DEF SameRecord, SameGrade
    <3> QED
      BY <1>1, <2>1, <3>1, <3>2, <3>3
  <2>3. CASE NextArea(work) /\ Leave(Forward([work EXCEPT !.questions = @ + 1]))
    BY <1>0, <1>1, <2>1, <2>3, ForwardIsSound
  <2> QED
    BY <1>3, <2>2, <2>3 DEF Navigation, NavigateNext
<1>4. CASE work.intent = "GENERATE_REPORT"
  <2> DEFINE t == [work EXCEPT !.awaiting = FALSE, !.intent = "NONE"]
  <2>1. handler = "report" /\ Offered(work)
    BY <1>0, <1>4 DEF Serves, Action
  <2>2. SameRecord(work, t) /\ SameGrade(work, t)
    BY <1>0 DEF SameRecord, SameGrade, InterviewState
  <2>3. Leave(t)
    BY <1>4 DEF Navigation
  <2> HIDE DEF t
  <2>4. Sound(t) /\ Offered(t) /\ t.answers = work.answers /\ ~t.completed
    BY <1>0, <2>1, <2>2, SameIsSound, SameGradeFacts DEF SameRecord, SameGrade
  <2> QED
    BY <1>1, <2>1, <2>3, <2>4
<1>5. CASE work.intent \notin Action
  <2>1. handler = "start" /\ work.index = 0
    BY <1>0, <1>5 DEF Serves
  <2>2. ~OnLast(work)
    <3>1. work.planned_areas \in Plans
      BY <1>0 DEF Placed, Has
    <3>2. PlannedTotal(work) \in Nat /\ 2 <= PlannedTotal(work)
      BY <3>1, PlanFacts DEF PlannedTotal
    <3> QED
      BY <2>1, <3>2 DEF OnLast
  <2>3. Leave(work)
    BY <1>5 DEF Navigation, Action
  <2> QED
    BY <1>0, <1>1, <1>5, <2>1, <2>2, <2>3
<1> QED
  BY <1>2, <1>3, <1>4, <1>5 DEF Action

(* A completed interview has a graded result for each planned question.      *)
LEMMA CompletedIsGraded ==
  ASSUME NEW s \in InterviewState, Placed(s), Sound(s), s.completed
  PROVE  \A i \in Slots : i < PlannedTotal(s) =>
           s.results[i].evaluation /\ s.results[i].attempt = s.answers[i]
<1>1. /\ Offered(s) /\ s.questions = PlannedTotal(s)
      /\ s.index \in Nat /\ s.questions \in Nat /\ Slots \subseteq Nat
  BY CurrentType, SlotFacts DEF Sound, Whole, InterviewState
<1>2. Current(s).evaluation /\ Current(s).attempt = Attempts(s)
  BY <1>1 DEF Offered, Marked
<1> SUFFICES ASSUME NEW i \in Slots, i < PlannedTotal(s)
             PROVE  s.results[i].evaluation /\ s.results[i].attempt = s.answers[i]
  OBVIOUS
<1>3. CASE i = s.index
  BY <1>2, <1>3 DEF Current, Attempts
<1>4. CASE i # s.index
  <2>1. i < s.index
    BY <1>1, <1>4 DEF Placed
  <2> QED
    BY <2>1 DEF Sound, Past
<1> QED
  BY <1>3, <1>4

LEMMA RecordTail ==
  ASSUME TypeInv, RecordInv,
         Question \/ Completion \/ EvaluationAggregate \/ SessionClose \/ Report
  PROVE  RecordInv'
<1>0. /\ work \in InterviewState /\ Placed(work) /\ Has(work) /\ Sound(work)
      /\ work.index \in Nat /\ work.questions \in Nat /\ work.follow_ups \in Nat
      /\ Serves(pc, work)
      /\ pc \in {"question", "completion", "evaluation_aggregate", "session_close", "report"}
      /\ handler = "start" => work.index = 0 /\ work.intent \notin Action /\ session = EmptyState
  BY SlotFacts DEF TypeInv, TypeOK, RecordInv, Question, Completion, EvaluationAggregate,
                   SessionClose, Report, InterviewState, Serves
<1>1. ASSUME NEW node \in Closing \ {"idle"}, NEW t, Goto(node, t),
             Sound(t), t.answers = work.answers,
             t.index = work.index, t.intent \in {work.intent, "NONE"},
             node \in {"session_close", "report", "longitudinal_update"} => t.completed
      PROVE  RecordInv'
  <2>1. Serves(node, t)
    BY <1>0, <1>1 DEF Serves, Grading, Closing, Action
  <2> QED
    BY <1>0, <1>1, <2>1, RecordGoto DEF Closing
<1>2. SameRecord(work, work)
  BY DEF SameRecord, SameGrade
<1>3. CASE Question
  <2>1. ASSUME NEW t, Goto("completion", t), SameGrade(work, t), t.completed = work.completed,
               t.history = work.history, t.follow_ups <= MaxFollowUps,
               t.awaiting = work.awaiting, t.intent = work.intent
        PROVE  RecordInv'
    <3>1. ~work.completed /\ (handler = "start" => work.index = 0)
      BY <1>0, <1>3 DEF Question, Serves, Closing
    <3>2. Sound(t) /\ t.answers = work.answers /\ t.index = work.index
      BY <1>0, <2>1, <3>1, OpenIsSound DEF SameGrade
    <3>3. (Offered(t) <=> Offered(work)) /\ (OnLast(t) <=> OnLast(work))
      BY <2>1, SameGradeFacts DEF SameGrade, OnLast, PlannedTotal
    <3>4. work.awaiting \/ ~OnLast(work) \/ (Offered(work) /\ handler = "report")
      BY <1>0, <1>3 DEF Question, Serves
    <3>5. Serves("completion", t)
      BY <1>0, <2>1, <3>1, <3>2, <3>3, <3>4 DEF Serves, Grading, Closing
    <3> QED
      BY <1>0, <2>1, <3>2, <3>5, RecordGoto
  <2>2. work.follow_ups <= MaxFollowUps
    BY <1>0 DEF Sound
  <2>3. CASE Leave(work)
    <3>1. Goto("completion", work)
      BY <1>3, <2>3 DEF Question, Leave, Edge
    <3> QED
      BY <1>2, <2>1, <2>2, <3>1 DEF SameRecord
  <2>4. CASE Leave([work EXCEPT !.shown = @ + 1])
    <3> DEFINE t == [work EXCEPT !.shown = @ + 1]
    <3>1. Goto("completion", t)
      BY <1>3, <2>4 DEF Question, Leave, Edge
    <3>2. /\ SameGrade(work, t) /\ t.completed = work.completed /\ t.history = work.history
          /\ t.follow_ups = work.follow_ups /\ t.awaiting = work.awaiting
          /\ t.intent = work.intent
      BY <1>0 DEF SameGrade, InterviewState
    <3> HIDE DEF t
    <3> QED
      BY <2>1, <2>2, <3>1, <3>2
  <2>5. CASE ~Leave(work) /\ ~Leave([work EXCEPT !.shown = @ + 1])
    <3>1. PICK f \in FollowUpTurns(work) :
            Leave([work EXCEPT !.shown = @ + 1, !.last_follow_up = f,
                               !.follow_ups = IF f THEN @ + 1 ELSE @])
      BY <1>3, <2>5 DEF Question
    <3> DEFINE t == [work EXCEPT !.shown = @ + 1, !.last_follow_up = f,
                                 !.follow_ups = IF f THEN @ + 1 ELSE @]
    <3>2. Goto("completion", t)
      BY <1>3, <3>1 DEF Question, Leave, Edge
    <3>3. /\ SameGrade(work, t) /\ t.completed = work.completed /\ t.history = work.history
          /\ t.awaiting = work.awaiting /\ t.intent = work.intent
          /\ t.follow_ups = IF f THEN work.follow_ups + 1 ELSE work.follow_ups
      BY <1>0 DEF SameGrade, InterviewState
    <3>4. f => work.follow_ups < MaxFollowUps
      BY <3>1 DEF FollowUpTurns, PolicyFollowsUp, EligibleFollowUp
    <3> HIDE DEF t
    <3>5. t.follow_ups <= MaxFollowUps
      BY <1>0, <2>2, <3>3, <3>4, LimitsAssumption
    <3> QED
      BY <2>1, <3>2, <3>3, <3>5
  <2> QED
    BY <2>3, <2>4, <2>5
<1>4. CASE Completion
  <2> DEFINE t == [work EXCEPT !.completed = TRUE]
  <2>1. CASE Goto("evaluation_aggregate", work)
    BY <1>0, <1>1, <2>1 DEF Closing
  <2>2. CASE ~Goto("evaluation_aggregate", work)
    <3>1. /\ Goto("evaluation_aggregate", t)
          /\ OnLast(work) /\ work.questions >= PlannedTotal(work) /\ ~work.awaiting
      BY <1>4, <2>2 DEF Completion, Leave, Edge
    <3>2. ~work.completed /\ Offered(work)
      BY <1>0, <1>4, <3>1 DEF Completion, Serves, Closing
    <3>3. SameGrade(work, t) /\ t.completed /\ t.history = work.history
                             /\ t.follow_ups = work.follow_ups /\ t.intent = work.intent
      BY <1>0 DEF SameGrade, InterviewState
    <3> HIDE DEF t
    <3>4. Past(t) /\ t.follow_ups <= MaxFollowUps
      BY <1>0, <3>3 DEF Sound, Past, SameGrade
    <3>5. work.questions = PlannedTotal(work)
      <4>1. work.planned_areas \in Plans /\ work.questions <= Len(work.planned_areas)
        BY <1>0 DEF Placed, Has
      <4>2. PlannedTotal(work) = Len(work.planned_areas) /\ Len(work.planned_areas) \in Nat
        BY <4>1, PlanFacts DEF PlannedTotal
      <4> QED
        BY <1>0, <3>1, <4>1, <4>2
    <3>6. PlannedTotal(t) = PlannedTotal(work) /\ t.questions = work.questions /\ Offered(t)
      BY <3>2, <3>3, SameGradeFacts DEF SameGrade, PlannedTotal
    <3>7. ~t.history.closed
      BY <1>0, <3>2, <3>3 DEF Sound, Whole
    <3>8. Sound(t)
      BY <3>4, <3>5, <3>6, <3>7 DEF Sound, Whole
    <3> QED
      BY <1>1, <3>1, <3>3, <3>8 DEF Closing, SameGrade
  <2> QED
    BY <2>1, <2>2
<1>5. CASE EvaluationAggregate
  <2>1. CASE work.completed /\ Goto("session_close", work)
    BY <1>0, <1>1, <2>1 DEF Closing
  <2>2. CASE Goto("finish", work)
    BY <1>0, <1>1, <2>2 DEF Closing
  <2>3. ASSUME work.completed, NEW ok,
               Goto("session_close", [work EXCEPT !.scored = ok, !.intent = "NONE"])
        PROVE  RecordInv'
    <3> DEFINE t == [work EXCEPT !.scored = ok, !.intent = "NONE"]
    <3>1. SameRecord(work, t) /\ t.intent = "NONE" /\ t.completed = work.completed
      BY <1>0 DEF SameRecord, SameGrade, InterviewState
    <3>2. Goto("session_close", t)
      BY <2>3
    <3> HIDE DEF t
    <3>3. Sound(t)
      BY <1>0, <3>1, SameIsSound
    <3> QED
      BY <1>1, <2>3, <3>1, <3>2, <3>3 DEF Closing, SameRecord, SameGrade
  <2> QED
    BY <1>5, <2>1, <2>2, <2>3 DEF EvaluationAggregate
<1>6. CASE SessionClose
  <2>0. work.completed
    BY <1>0, <1>6 DEF SessionClose, Serves
  <2> DEFINE t == [work EXCEPT !.history = HistoryOf(work)]
  <2>1. CASE Goto("report", work)
    BY <1>0, <1>1, <2>0, <2>1 DEF Closing
  <2>2. CASE ~work.history.closed /\ Goto("report", t)
    <3>1. SameGrade(work, t) /\ t.completed = work.completed /\ t.intent = work.intent
            /\ t.history = HistoryOf(work) /\ t.follow_ups = work.follow_ups
      BY <1>0 DEF SameGrade, InterviewState
    <3> HIDE DEF t
    <3>2. Past(t) /\ t.follow_ups <= MaxFollowUps
      BY <1>0, <3>1 DEF Sound, Past, SameGrade
    <3>3. /\ PlannedTotal(t) = PlannedTotal(work) /\ t.questions = work.questions
          /\ Offered(t) <=> Offered(work)
      BY <3>1, SameGradeFacts DEF SameGrade, PlannedTotal
    <3>4. work.questions = PlannedTotal(work) /\ Offered(work)
      BY <1>0, <2>0 DEF Sound, Whole
    <3>5. \A i \in Slots : i < PlannedTotal(work) => work.results[i].evaluation
      BY <1>0, <2>0, CompletedIsGraded
    <3>6. HistoryOf(work).results = {i \in Slots : i < PlannedTotal(work)}
      BY <3>4, <3>5 DEF HistoryOf
    <3>7. Sound(t)
      BY <2>0, <3>1, <3>2, <3>3, <3>4, <3>6 DEF Sound, Whole
    <3> QED
      BY <1>1, <2>0, <2>2, <3>1, <3>7 DEF Closing, SameGrade
  <2> QED
    BY <1>6, <2>1, <2>2 DEF SessionClose, Leave, Edge
<1>7. CASE Report
  <2>0. work.completed
    BY <1>0, <1>7 DEF Report, Serves
  <2>1. PICK built \in {FALSE, work.history.closed} :
          Goto("longitudinal_update",
               [work EXCEPT !.report = @ \/ built, !.processing = FALSE])
    BY <1>7 DEF Report, Leave, Edge
  <2> DEFINE t == [work EXCEPT !.report = @ \/ built, !.processing = FALSE]
  <2>2. SameRecord(work, t) /\ t.intent = work.intent /\ t.completed = work.completed
    BY <1>0 DEF SameRecord, SameGrade, InterviewState
  <2>3. Goto("longitudinal_update", t)
    BY <2>1
  <2> HIDE DEF t
  <2>4. Sound(t)
    BY <1>0, <2>2, SameIsSound
  <2> QED
    BY <1>1, <2>0, <2>2, <2>3, <2>4 DEF Closing, SameRecord, SameGrade
<1> QED
  BY <1>3, <1>4, <1>5, <1>6, <1>7

(* What a failed graph gives back: nothing behind the current question is    *)
(* touched, and a running handler never began on a completed interview.      *)
LEMMA RecordRaises ==
  ASSUME TypeInv, RecordInv, GraphRaises
  PROVE  RecordInv'
<1>0. /\ session \in InterviewState /\ Sound(session) /\ ~session.completed
  BY DEF TypeInv, TypeOK, RecordInv, GraphRaises, CanRaise
<1> DEFINE t == [session EXCEPT !.answers[session.index] = @ + 1]
<1>1. t \in InterviewState
  BY <1>0, AnswerType
<1>2. Sound(t)
  <2>1. /\ t.index = session.index /\ t.completed = session.completed
        /\ t.history = session.history /\ t.follow_ups = session.follow_ups
        /\ t.results = session.results
        /\ \A i \in Slots : i < session.index => t.answers[i] = session.answers[i]
    BY <1>0, AnsweredOnce
  <2>2. session.follow_ups <= MaxFollowUps
    BY <1>0 DEF Sound
  <2> HIDE DEF t
  <2> QED
    BY <1>0, <2>1, <2>2, OpenIsSound
<1>3. BeforeGraph \in InterviewState /\ Sound(BeforeGraph)
  BY <1>0, <1>1, <1>2 DEF BeforeGraph
<1>4. Sound(Unlocked(BeforeGraph, TRUE))
  BY <1>3, LocksRecordNothing, SameIsSound
<1>5. /\ session' = Unlocked(BeforeGraph, TRUE) /\ work' = Unlocked(BeforeGraph, TRUE)
      /\ handler' = "none" /\ pc' = "idle"
  BY DEF GraphRaises, End
<1>6. Serves(pc, work)'
  BY <1>5 DEF Serves, Grading, Closing
<1> QED
  BY <1>4, <1>5, <1>6 DEF RecordInv, Kept

LEMMA RecordNext == TypeInv /\ GradingInv /\ RecordInv /\ [Next]_vars => RecordInv'
<1> SUFFICES ASSUME TypeInv, GradingInv, RecordInv, [Next]_vars PROVE RecordInv'
  OBVIOUS
<1>1. CASE UNCHANGED vars
  <2>1. session' = session /\ work' = work /\ handler' = handler /\ pc' = pc
    BY <1>1 DEF vars
  <2>2. BeforeGraph' = BeforeGraph
    BY <2>1 DEF BeforeGraph
  <2>3. Serves(pc, work)' <=> Serves(pc, work)
    BY <2>1 DEF Serves, Asks
  <2> QED
    BY <2>1, <2>2, <2>3 DEF RecordInv, Kept
<1>2. CASE UserStep
  BY <1>2, RecordUser
<1>3. CASE HandlerStep
  BY <1>3, RecordHandler, RecordRouting, RecordDecision, RecordGrades, RecordNavigation,
     RecordTail, RecordRaises DEF HandlerStep, GraphStep
<1> QED
  BY <1>1, <1>2, <1>3 DEF Next

(* Whatever was left behind stays as it was graded, in every copy.           *)
THEOREM RecordInvariant == Spec => []RecordInv
<1>1. Init => TypeInv /\ GradingInv /\ RecordInv
  BY TypeInvInit, GradingInit, RecordInit
<1>2. TypeInv /\ GradingInv /\ RecordInv /\ [Next]_vars => (TypeInv /\ GradingInv /\ RecordInv)'
  BY TypeInvNext, GradingNext, RecordNext
<1> QED
  BY <1>1, <1>2, PTL DEF Spec

-----------------------------------------------------------------------------
(* What follows.                                                             *)

LEMMA GradedHere == TypeInv /\ RecordInv => CompletedMeansAllGraded
<1> SUFFICES ASSUME TypeInv, RecordInv, session.completed
             PROVE  /\ session.questions = PlannedTotal(session)
                    /\ \A i \in 0 .. PlannedTotal(session) - 1 :
                         /\ session.results[i].evaluation
                         /\ session.results[i].attempt = session.answers[i]
  BY DEF CompletedMeansAllGraded
<1>1. session \in InterviewState /\ Placed(session) /\ Sound(session)
  BY DEF TypeInv, TypeOK, RecordInv
<1>2. session.questions = PlannedTotal(session)
  BY <1>1 DEF Sound, Whole
<1>3. PlannedTotal(session) \in Nat /\ PlannedTotal(session) <= MaxQuestions
  <2>1. CASE session.planned_areas \in Plans
    BY <2>1, PlanFacts DEF PlannedTotal
  <2>2. CASE session.planned_areas = <<>> /\ session.questions = 0
    BY <2>2, PlansAssumption DEF PlannedTotal
  <2> QED
    BY <1>1, <2>1, <2>2 DEF Placed
<1>4. \A i \in 0 .. PlannedTotal(session) - 1 : i \in Slots /\ i < PlannedTotal(session)
  BY <1>3, PlansAssumption DEF Slots
<1> QED
  BY <1>1, <1>2, <1>4, CompletedIsGraded

(* A completed interview has every planned question evaluated, each on its   *)
(* last answer, for plans of any length and any number of attempts.          *)
THEOREM EverythingIsGraded == Spec => []CompletedMeansAllGraded
BY GradedHere, TypeInvariant, RecordInvariant, PTL

(* The closed history has a result for every planned question and no other.  *)
THEOREM HistoryIsComplete == Spec => []HistoryIsWhole
<1>1. RecordInv => HistoryIsWhole
  BY DEF RecordInv, Sound, Whole, HistoryIsWhole
<1> QED
  BY <1>1, RecordInvariant, PTL

(* No question is left with an incorrect answer and attempts to spare.       *)
THEOREM NothingIsSkipped == Spec => []NoSkipping
<1>1. RecordInv => NoSkipping
  BY DEF RecordInv, Sound, Past, NoSkipping
<1> QED
  BY <1>1, RecordInvariant, PTL

(* The two pipelines of the question node share one budget of follow-ups.    *)
THEOREM FollowUpsAreBudgeted == Spec => []FollowUpBudget
<1>1. RecordInv => FollowUpBudget
  BY DEF RecordInv, Sound, FollowUpBudget
<1> QED
  BY <1>1, RecordInvariant, PTL

LEMMA HandlersRun == HandlerStep => pc # "idle"
BY DEF HandlerStep, GraphStep, GenerateFirst, StartFails, SubmitEmpty, SubmitAnswer, Finish,
       RouteEntry, RouteByQuestionType, Execution, Evaluation, WrittenEvaluation, Feedback,
       PassThrough, Decision, StartProcessing, Navigation, Question, Completion,
       EvaluationAggregate, SessionClose, Report, GraphRaises, CanRaise

(* A completed interview is changed by nothing but a new one.                *)
THEOREM ClosedStaysClosed == Spec => ClosedForGood
<1>1. RecordInv /\ [Next]_vars =>
        [session.completed =>
           \/ session' = EmptyState
           \/ /\ session'.completed
              /\ session'.history = session.history
              /\ session'.scored = session.scored
              /\ session'.report = session.report]_vars
  <2> SUFFICES ASSUME RecordInv, Next, session.completed
               PROVE  session' = EmptyState
    BY DEF vars
  <2>1. pc = "idle"
    BY DEF RecordInv
  <2>2. UserStep
    BY <2>1, HandlersRun DEF Next
  <2>3. UiPhase(session) \notin {"SETUP", "QUESTION", "FEEDBACK"}
    BY DEF UiPhase
  <2> QED
    BY <2>2, <2>3 DEF UserStep, StartInterview, Submit, Retry, NextQuestion, NewInterview, End
<1> QED
  BY <1>1, RecordInvariant, PTL DEF Spec, ClosedForGood

(* Every answer that was taken is given back, however the handler ends.      *)
THEOREM AnswersSurvive == Spec => AnswersAreKept
<1>1. TypeInv /\ RecordInv /\ [Next]_vars =>
        [handler' = "none" /\ session' # EmptyState =>
           \A i \in Slots : session'.answers[i] >= work.answers[i]]_vars
  <2> SUFFICES ASSUME TypeInv, RecordInv, Next, handler' = "none", session' # EmptyState
               PROVE  \A i \in Slots : session'.answers[i] >= work.answers[i]
    BY DEF vars
  <2>1. work \in InterviewState /\ session \in InterviewState
    BY DEF TypeInv, TypeOK
  <2>2. SubmitEmpty \/ Finish \/ GraphRaises
    <3>1. ~UserStep
      BY DEF UserStep, StartInterview, Submit, Retry, NextQuestion, NewInterview, Begin, End
    <3>2. HandlerStep /\ handler # "none"
      BY <3>1, HandlersRun DEF Next, RecordInv
    <3>3. ~GenerateFirst /\ ~StartFails /\ ~SubmitAnswer
      BY <3>2 DEF GenerateFirst, StartFails, SubmitAnswer, End
    <3>4. ASSUME NEW node, NEW t, Goto(node, t) PROVE FALSE
      BY <3>2, <3>4 DEF Goto
    <3>5. GraphStep => GraphRaises
      BY <3>4 DEF GraphStep, RouteEntry, RouteByQuestionType, Execution, Evaluation,
         WrittenEvaluation, Feedback, PassThrough, Decision, StartProcessing, Navigation,
         NavigateNext, Question, Completion, EvaluationAggregate, SessionClose, Report, Leave
    <3> QED
      BY <3>2, <3>3, <3>5 DEF HandlerStep
  <2>3. session'.answers = work.answers
    <3>1. CASE SubmitEmpty
      BY <2>1, <3>1 DEF SubmitEmpty, End, InterviewState
    <3>2. CASE Finish
      BY <2>1, <3>2 DEF Finish, End, Unlocked, InterviewState
    <3>3. CASE GraphRaises
      <4>1. handler # "none" /\ pc \notin {"prepare", "generate"}
        BY <3>3 DEF GraphRaises, CanRaise, RecordInv
      <4>2. work.answers = BeforeGraph.answers
        BY <4>1 DEF RecordInv, Kept
      <4>3. BeforeGraph \in InterviewState
        BY <2>1, AnswerType DEF BeforeGraph
      <4> QED
        BY <3>3, <4>2, <4>3 DEF GraphRaises, End, Unlocked, InterviewState
    <3> QED
      BY <2>2, <3>1, <3>2, <3>3
  <2> QED
    BY <2>1, <2>3 DEF InterviewState
<1> QED
  BY <1>1, TypeInvariant, RecordInvariant, PTL DEF Spec, AnswersAreKept

(* The completion node is passed after every navigation; it completes the    *)
(* interview of a handler that was asked for the report, and no other step   *)
(* of any handler completes one.                                             *)
THEOREM CompletionIsAskedFor == Spec => CompletionOnlyOnRequest
<1>1. TypeInv /\ RecordInv /\ [Next]_vars =>
        [~work.completed /\ work'.completed => handler = "report"]_vars
  <2> SUFFICES ASSUME TypeInv, RecordInv, Next, ~work.completed, work'.completed
               PROVE  handler = "report"
    BY DEF vars
  <2>1. work \in InterviewState /\ session \in InterviewState
    BY DEF TypeInv, TypeOK
  <2>2. CASE UserStep
    <3>1. session.completed => UiPhase(session) \notin {"SETUP", "QUESTION", "FEEDBACK"}
      BY DEF UiPhase
    <3>2. ~session.completed => \A i : ~Locked(session, i).completed
      BY <2>1, LocksRecordNothing DEF SameRecord
    <3> QED
      BY <2>2, <3>1, <3>2, EmptyIsSound
         DEF UserStep, StartInterview, Submit, Retry, NextQuestion, NewInterview, Begin, End
  <2>3. CASE Completion
    <3>1. OnLast(work) /\ ~work.awaiting
      BY <2>3 DEF Completion, Leave, Goto
    <3> QED
      BY <2>3, <3>1 DEF RecordInv, Serves, Completion
  <2>4. CASE GenerateFirst \/ StartFails \/ SubmitEmpty \/ SubmitAnswer \/ Finish
    <3>1. \A plan \in Plans : ~InitialState(plan).completed
      BY DEF InitialState, EmptyState
    <3>2. \A a : ~Unlocked(work, a).completed
      BY <2>1, LocksRecordNothing DEF SameRecord
    <3>3. /\ ~[work EXCEPT !.awaiting = TRUE, !.processing = FALSE].completed
          /\ ~[work EXCEPT !.answers[work.index] = @ + 1].completed
      BY <2>1 DEF InterviewState
    <3>4. CASE GenerateFirst \/ StartFails
      BY <3>1, <3>4, EmptyIsSound DEF GenerateFirst, StartFails, End
    <3>5. CASE SubmitEmpty \/ SubmitAnswer
      BY <3>3, <3>5 DEF SubmitEmpty, SubmitAnswer, End
    <3>6. CASE Finish
      BY <3>2, <3>6 DEF Finish, End
    <3> QED
      BY <2>4, <3>4, <3>5, <3>6
  <2>5. CASE GraphRaises
    <3>1. ~session.completed
      BY <2>5 DEF GraphRaises, CanRaise, RecordInv
    <3>2. BeforeGraph \in InterviewState /\ ~BeforeGraph.completed
      BY <2>1, <3>1, AnswerType DEF BeforeGraph, InterviewState
    <3>3. ~Unlocked(BeforeGraph, TRUE).completed
      BY <3>2 DEF Unlocked, InterviewState
    <3> QED
      BY <2>5, <3>3 DEF GraphRaises, End
  <2>6. CASE RouteEntry \/ RouteByQuestionType \/ PassThrough \/ Decision \/ StartProcessing
    BY <2>1, <2>6 DEF RouteEntry, RouteByQuestionType, PassThrough, Decision, StartProcessing,
                      Leave, Goto, InterviewState
  <2>7. CASE Execution \/ Evaluation \/ WrittenEvaluation \/ Feedback
    BY <2>1, <2>7 DEF Execution, Evaluation, WrittenEvaluation, Feedback, Leave, Goto,
                      InterviewState
  <2>8. CASE Navigation
    <3>1. /\ Stay(work).completed = work.completed
          /\ Forward([work EXCEPT !.questions = @ + 1]).completed = work.completed
          /\ Cleared(work).completed = work.completed
          /\ [work EXCEPT !.awaiting = FALSE, !.intent = "NONE"].completed = work.completed
      BY <2>1 DEF Stay, Forward, MarkAsked, Cleared, InterviewState
    <3>2. WithinGenerated(work) = Stay(work)
      BY <2>1, NowhereToGo DEF TypeInv
    <3> QED
      BY <2>8, <3>1, <3>2 DEF Navigation, NavigateNext, Leave, Goto
  <2>9. CASE Question \/ EvaluationAggregate \/ SessionClose \/ Report
    BY <2>1, <2>9 DEF Question, EvaluationAggregate, SessionClose, Report, Leave, Goto,
                      InterviewState
  <2> QED
    BY <2>2, <2>3, <2>4, <2>5, <2>6, <2>7, <2>8, <2>9 DEF Next, HandlerStep, GraphStep
<1> QED
  BY <1>1, TypeInvariant, RecordInvariant, PTL DEF Spec, CompletionOnlyOnRequest

-----------------------------------------------------------------------------
(* The refinement.                                                           *)

Before == {"entry", "start_processing", "navigation"}
Turned == {"question", "completion", "evaluation_aggregate", "session_close", "report",
           "longitudinal_update", "finish"}
Navigating == {"retry", "next", "report"}

AskedBy == [retry |-> "RETRY", next |-> "NEXT", report |-> "GENERATE_REPORT"]

(* The questions to come have no answers, and only a completed interview has *)
(* a report.                                                                 *)
Tidy(s) ==
  /\ \A i \in Slots : i > s.index => s.answers[i] = 0
  /\ s.report => s.completed

(* How a handler's copy stands to the session.                               *)
Linked(node, s) ==
  /\ handler = "start" /\ node # "generate" =>
       Ungraded(s) /\ s.planned_areas \in Plans /\ s.answers = EmptyState.answers
  /\ handler \in Navigating \cup {"submit"} =>
       Has(session) /\ s.planned_areas = session.planned_areas
  /\ handler = "submit" =>
       /\ node \in Grading \cup {"prepare", "entry", "finish"}
       /\ s.intent \notin Action
       /\ s.index = session.index
       /\ node = "finish" => Offered(s)
  /\ handler \in Navigating =>
       /\ Offered(session)
       /\ node \in Before \cup Turned
       /\ node \in Before => SameGrade(session, s) /\ s.intent = AskedBy[handler]
  /\ handler = "retry" =>
       /\ Attempts(session) < MaxAttempts
       /\ node \in Turned => Ungraded(s) /\ s.index = session.index /\ s.awaiting
  /\ handler \in {"next", "report"} => Decide(session.bundle, Attempts(session)) = "NEXT"
  /\ handler = "next" /\ node \in Turned =>
       /\ s.awaiting
       /\ SameGrade(session, s) \/ (s.index = session.index + 1 /\ Ungraded(s))
  /\ handler = "report" =>
       /\ OnLast(session)
       /\ node \in Turned => SameGrade(session, s)
       /\ node \in {"question", "completion"} => ~s.awaiting
       /\ node \in Turned \ {"question", "completion"} => s.completed

LinkInv ==
  /\ Tidy(session) /\ Tidy(work)
  /\ ~Has(session) => session = EmptyState
  /\ handler \notin {"none", "report"} => ~work.completed
  /\ Linked(pc, work)

-----------------------------------------------------------------------------
(* What the protocol sees of a state.                                        *)

View(s) ==
  [screen  |-> CASE s.report \/ s.completed -> "closed"
                 [] ~(s.report \/ s.completed) /\ ~Has(s) -> "setup"
                 [] OTHER -> IF s.allowed # {} /\ s.bundle # NoQuality
                             THEN "feedback" ELSE "question",
   current |-> s.index, total |-> PlannedTotal(s), tries |-> Attempts(s),
   verdict |-> s.bundle]

LEMMA ViewFacts ==
  ASSUME NEW s
  PROVE  /\ s.report \/ s.completed => View(s).screen = "closed"
         /\ ~(s.report \/ s.completed) /\ ~Has(s) => View(s).screen = "setup"
         /\ ~(s.report \/ s.completed) /\ Has(s) /\ Open(s) => View(s).screen = "question"
         /\ ~(s.report \/ s.completed) /\ Has(s) /\ Offered(s) => View(s).screen = "feedback"
         /\ View(s).current = s.index /\ View(s).total = PlannedTotal(s)
         /\ View(s).tries = Attempts(s) /\ View(s).verdict = s.bundle
<1>1. Offered(s) => s.allowed # {} /\ s.bundle # NoQuality
  BY DEF Offered, Marked, AllowedActions, ExecutionQuality, NoQuality
<1>2. Open(s) => ~(s.allowed # {} /\ s.bundle # NoQuality)
  BY DEF Open
<1> QED
  BY <1>1, <1>2 DEF View

LEMMA ViewOf ==
  /\ Screen = View(session).screen /\ session.index = View(session).current
  /\ PlannedTotal(session) = View(session).total
  /\ Attempts(session) = View(session).tries /\ session.bundle = View(session).verdict
BY DEF View, Screen

(* Locks are not part of the view.                                           *)
LEMMA SameView ==
  ASSUME NEW s, NEW t, SameGrade(s, t), t.completed = s.completed, t.report = s.report
  PROVE  View(t) = View(s)
BY DEF SameGrade, View, Has, PlannedTotal, Attempts

LEMMA StutterOfView == View(session)' = View(session) => UNCHANGED Protocol!protocol
<1> SUFFICES ASSUME View(session)' = View(session) PROVE UNCHANGED Protocol!protocol
  OBVIOUS
<1>1. /\ Screen' = View(session)'.screen /\ session'.index = View(session)'.current
      /\ PlannedTotal(session)' = View(session)'.total
      /\ Attempts(session)' = View(session)'.tries /\ session'.bundle = View(session)'.verdict
  BY DEF View, Screen, PlannedTotal, Attempts, Has
<1> QED
  BY <1>1, ViewOf DEF Protocol!protocol

LEMMA NextView ==
  ASSUME NEW t, session' = t
  PROVE  /\ Screen' = View(t).screen /\ session'.index = t.index
         /\ PlannedTotal(session)' = PlannedTotal(t) /\ Attempts(session)' = Attempts(t)
         /\ session'.bundle = t.bundle /\ View(session)' = View(t)
BY DEF View, Screen, PlannedTotal, Attempts, Has

LEMMA EmptyView ==
  /\ View(EmptyState).screen = "setup" /\ EmptyState.index = 0
  /\ PlannedTotal(EmptyState) = 0 /\ Attempts(EmptyState) = 0 /\ EmptyState.bundle = NoQuality
<1>1. /\ EmptyState.index = 0 /\ EmptyState.questions = 0 /\ EmptyState.planned_areas = <<>>
      /\ EmptyState.answers = [i \in Slots |-> 0] /\ EmptyState.bundle = NoQuality
      /\ ~EmptyState.report /\ ~EmptyState.completed
  BY DEF EmptyState
<1> QED
  BY <1>1, SlotFacts, ViewFacts DEF PlannedTotal, Attempts, Has

-----------------------------------------------------------------------------
(* The last step of a handler.                                               *)

LEMMA RefineFinish ==
  ASSUME TypeInv, GradingInv, RecordInv, LinkInv, Finish
  PROVE  Protocol!ProtocolStep \/ View(session)' = View(session)
<1> DEFINE t == Unlocked(work, IF handler = "report" THEN work.awaiting ELSE TRUE)
<1>0. /\ work \in InterviewState /\ session \in InterviewState /\ pc = "finish"
      /\ Placed(work) /\ Has(work) /\ Placed(session)
      /\ Tidy(session) /\ Tidy(work) /\ Sound(work) /\ Sound(session)
      /\ handler # "none" /\ ~session.completed /\ Linked("finish", work)
      /\ handler # "report" => ~work.completed
      /\ handler = "start" => work.index = 0 /\ session = EmptyState
      /\ handler = "submit" => Ungraded(session)
      /\ handler \in Handler
  BY DEF TypeInv, TypeOK, GradingInv, RecordInv, LinkInv, Finish, Serves
<1>1. session' = t
  BY DEF Finish, End
<1>2. /\ SameGrade(work, t) /\ t.completed = work.completed /\ t.report = work.report
  BY <1>0 DEF SameGrade, Unlocked, InterviewState
<1> HIDE DEF t
<1>3. /\ View(t) = View(work) /\ t.index = work.index /\ PlannedTotal(t) = PlannedTotal(work)
      /\ Attempts(t) = Attempts(work) /\ t.bundle = work.bundle
  BY <1>2, SameView, ViewFacts
<1>4. /\ Screen' = View(work).screen /\ session'.index = work.index
      /\ PlannedTotal(session)' = PlannedTotal(work) /\ Attempts(session)' = Attempts(work)
      /\ session'.bundle = work.bundle /\ View(session)' = View(work)
  BY <1>1, <1>3, NextView
<1>5. ~session.report /\ (~work.completed => ~work.report)
  BY <1>0 DEF Tidy
<1>6. /\ session.index \in Slots /\ session.index \in Nat /\ work.index \in Nat
      /\ session.answers \in [Slots -> Nat]
      /\ Attempts(session) \in Nat /\ MaxAttempts \in Nat
  BY <1>0, CurrentType, LimitsAssumption DEF InterviewState
<1>7. work.planned_areas = session.planned_areas /\ Has(session) =>
        /\ PlannedTotal(work) = PlannedTotal(session)
        /\ PlannedTotal(session) = Len(session.planned_areas)
        /\ Len(session.planned_areas) \in Nat
  <2> SUFFICES ASSUME work.planned_areas = session.planned_areas, Has(session)
               PROVE  /\ PlannedTotal(work) = PlannedTotal(session)
                      /\ PlannedTotal(session) = Len(session.planned_areas)
                      /\ Len(session.planned_areas) \in Nat
    OBVIOUS
  <2>1. session.planned_areas \in Plans
    BY <1>0 DEF Placed, Has
  <2> QED
    BY <2>1, PlanFacts DEF PlannedTotal
<1>8. CASE handler = "start"
  <2>1. Ungraded(work) /\ work.planned_areas \in Plans /\ work.answers = EmptyState.answers
    BY <1>0, <1>8 DEF Linked
  <2>2. View(work).screen = "question" /\ work.bundle = NoQuality
    BY <1>0, <1>5, <1>8, <2>1, ViewFacts DEF Ungraded, Open
  <2>3. PlannedTotal(work) = Len(work.planned_areas)
    BY <2>1, PlanFacts DEF PlannedTotal
  <2>4. Attempts(work) = 0
    BY <1>0, <1>8, <2>1, EmptyView DEF Attempts
  <2>5. /\ Screen = "setup" /\ session.index = 0 /\ Attempts(session) = 0
        /\ session.bundle = NoQuality
    BY <1>0, <1>8, EmptyView, ViewOf
  <2> QED
    BY <1>0, <1>4, <1>8, <2>1, <2>2, <2>3, <2>4, <2>5 DEF Protocol!ProtocolStep, Protocol!Start
<1>9. CASE handler = "submit"
  <2>1. /\ Has(session) /\ work.planned_areas = session.planned_areas
        /\ work.index = session.index /\ Offered(work) /\ Ungraded(session)
    BY <1>0, <1>9 DEF Linked
  <2>2. View(work).screen = "feedback" /\ work.bundle \in ExecutionQuality
    BY <1>0, <1>5, <1>9, <2>1, ViewFacts DEF Offered, Marked
  <2>3. Screen = "question"
    BY <1>0, <1>5, <2>1, ViewFacts, ViewOf DEF Ungraded
  <2>4. work.answers = [session EXCEPT !.answers[session.index] = @ + 1].answers
    BY <1>0, <1>9 DEF RecordInv, Kept, BeforeGraph
  <2>5. work.answers = [session.answers EXCEPT ![session.index] = @ + 1]
    BY <1>0, <2>4 DEF InterviewState
  <2>6. Attempts(work) = Attempts(session) + 1
    BY <1>6, <2>1, <2>5 DEF Attempts
  <2> QED
    BY <1>4, <1>7, <2>1, <2>2, <2>3, <2>6
       DEF Protocol!ProtocolStep, Protocol!Grade, Protocol!Answer
<1>10. ASSUME handler \in Navigating
       PROVE  /\ Has(session) /\ work.planned_areas = session.planned_areas
              /\ Offered(session) /\ Screen = "feedback" /\ work.answers = session.answers
  <2>1. /\ Has(session) /\ work.planned_areas = session.planned_areas /\ Offered(session)
    BY <1>0, <1>10 DEF Linked
  <2>2. Screen = "feedback"
    BY <1>0, <1>5, <2>1, ViewFacts, ViewOf
  <2>3. work.answers = session.answers
    BY <1>0, <1>10 DEF RecordInv, Kept, BeforeGraph, Navigating
  <2> QED
    BY <2>1, <2>2, <2>3
<1>11. CASE handler = "retry"
  <2>1. Attempts(session) < MaxAttempts /\ Ungraded(work) /\ work.index = session.index
    BY <1>0, <1>11 DEF Linked, Turned
  <2>2. View(work).screen = "question" /\ work.bundle = NoQuality
    BY <1>0, <1>5, <1>11, <2>1, ViewFacts DEF Ungraded, Open
  <2>3. Attempts(work) = Attempts(session)
    BY <1>10, <1>11, <2>1 DEF Attempts, Navigating
  <2> QED
    BY <1>4, <1>7, <1>10, <1>11, <2>1, <2>2, <2>3
       DEF Protocol!ProtocolStep, Protocol!TryAgain, Navigating
<1>12. ASSUME handler \in {"next", "report"}
       PROVE  session.bundle # "incorrect" \/ Attempts(session) >= MaxAttempts
  <2>1. Decide(session.bundle, Attempts(session)) = "NEXT"
    BY <1>0, <1>12 DEF Linked
  <2>2. session.bundle # "incorrect" \/ ~(Attempts(session) < MaxAttempts)
    BY <2>1 DEF Decide
  <2> QED
    BY <1>6, <2>2
<1>13. CASE handler = "next"
  <2>1. SameGrade(session, work) \/ (work.index = session.index + 1 /\ Ungraded(work))
    BY <1>0, <1>13 DEF Linked, Turned
  <2>2. CASE SameGrade(session, work)
    <3>1. ~work.report /\ ~session.report /\ ~work.completed /\ ~session.completed
      BY <1>0, <1>5, <1>13
    <3>2. work.completed = session.completed /\ work.report = session.report
      BY <1>0, <3>1 DEF InterviewState
    <3> QED
      BY <1>4, <2>2, <3>2, SameView
  <2>3. CASE work.index = session.index + 1 /\ Ungraded(work)
    <3>1. View(work).screen = "question" /\ work.bundle = NoQuality
      BY <1>0, <1>5, <1>13, <2>3, ViewFacts DEF Ungraded, Open
    <3>2. session.index + 1 < PlannedTotal(session)
      <4>1. work.questions = work.index + 1 /\ work.questions <= Len(session.planned_areas)
        BY <1>0, <1>10, <1>13 DEF Placed, Has, Navigating
      <4>2. /\ PlannedTotal(session) = Len(session.planned_areas)
            /\ Len(session.planned_areas) \in Nat
        BY <1>7, <1>10, <1>13 DEF Navigating
      <4> QED
        BY <1>6, <2>3, <4>1, <4>2
    <3>3. Attempts(work) = 0
      <4>1. work.index \in Slots /\ work.index > session.index
        BY <1>0, <1>6, <2>3 DEF InterviewState
      <4> QED
        BY <1>0, <1>10, <1>13, <4>1 DEF Tidy, Attempts, Navigating
    <3> QED
      BY <1>4, <1>7, <1>10, <1>12, <1>13, <2>3, <3>1, <3>2, <3>3
         DEF Protocol!ProtocolStep, Protocol!Advance, Protocol!MayLeave, Navigating
  <2> QED
    BY <2>1, <2>2, <2>3
<1>14. CASE handler = "report"
  <2>1. OnLast(session) /\ SameGrade(session, work) /\ work.completed
    BY <1>0, <1>14 DEF Linked, Turned
  <2>2. View(work).screen = "closed"
    BY <2>1, ViewFacts
  <2>3. /\ work.index = session.index /\ Attempts(work) = Attempts(session)
        /\ work.bundle = session.bundle
    BY <2>1 DEF SameGrade, Attempts
  <2>4. session.index + 1 = PlannedTotal(session)
    <3>1. session.questions = session.index + 1 /\ session.questions <= Len(session.planned_areas)
      BY <1>0, <1>10, <1>14 DEF Placed, Has, Navigating
    <3>2. /\ PlannedTotal(session) = Len(session.planned_areas)
          /\ Len(session.planned_areas) \in Nat
      BY <1>7, <1>10, <1>14 DEF Navigating
    <3> QED
      BY <1>6, <2>1, <3>1, <3>2 DEF OnLast
  <2> QED
    BY <1>4, <1>7, <1>10, <1>12, <1>14, <2>2, <2>3, <2>4
       DEF Protocol!ProtocolStep, Protocol!Close, Protocol!MayLeave, Navigating
<1> QED
  BY <1>0, <1>8, <1>9, <1>11, <1>13, <1>14 DEF Handler

(* A failed graph: an answer that is not graded, or nothing at all.          *)
LEMMA RefineRaises ==
  ASSUME TypeInv, GradingInv, RecordInv, LinkInv, GraphRaises
  PROVE  Protocol!ProtocolStep \/ View(session)' = View(session)
<1>0. /\ session \in InterviewState /\ handler # "none" /\ ~session.completed
      /\ Tidy(session)
      /\ handler = "submit" => Ungraded(session)
      /\ handler \in Navigating \cup {"submit"} => Has(session)
      /\ session.index \in Slots
  BY DEF TypeInv, TypeOK, GradingInv, RecordInv, LinkInv, Linked, GraphRaises, CanRaise,
         InterviewState
<1>1. session' = Unlocked(BeforeGraph, TRUE)
  BY DEF GraphRaises, End
<1>2. CASE handler = "submit"
  <2> DEFINE t == Unlocked([session EXCEPT !.answers[session.index] = @ + 1], TRUE)
  <2>1. session' = t
    BY <1>1, <1>2 DEF BeforeGraph
  <2>2. /\ t.planned_areas = session.planned_areas /\ t.questions = session.questions
        /\ t.index = session.index /\ t.bundle = session.bundle /\ t.allowed = session.allowed
        /\ t.completed = session.completed /\ t.report = session.report
        /\ t.answers = [session.answers EXCEPT ![session.index] = @ + 1]
    BY <1>0 DEF Unlocked, InterviewState
  <2>3. DOMAIN session.answers = Slots
    BY <1>0 DEF InterviewState
  <2> HIDE DEF t
  <2>4. /\ Has(session) /\ Open(session) /\ ~session.report
        /\ Has(t) /\ Open(t) /\ ~t.report /\ ~t.completed
    <3>1. Has(session) /\ Open(session)
      BY <1>0, <1>2 DEF Ungraded
    <3>2. ~session.report
      BY <1>0 DEF Tidy
    <3>3. Has(t) /\ Open(t)
      BY <2>2, <3>1 DEF Has, Open
    <3> QED
      BY <1>0, <2>2, <3>1, <3>2, <3>3
  <2>5. View(t).screen = "question" /\ Screen = "question"
    BY <1>0, <2>4, ViewFacts, ViewOf
  <2>6. /\ Attempts(t) = Attempts(session) + 1 /\ PlannedTotal(t) = PlannedTotal(session)
        /\ t.bundle = NoQuality
    BY <1>0, <2>2, <2>3, <2>4 DEF Attempts, PlannedTotal, Open
  <2>7. /\ Screen' = View(t).screen /\ session'.index = t.index
        /\ PlannedTotal(session)' = PlannedTotal(t) /\ Attempts(session)' = Attempts(t)
        /\ session'.bundle = t.bundle
    BY <2>1, NextView
  <2> QED
    BY <2>2, <2>5, <2>6, <2>7 DEF Protocol!ProtocolStep, Protocol!Fail, Protocol!Answer
<1>3. CASE handler # "submit"
  <2>1. session' = Unlocked(session, TRUE)
    BY <1>1, <1>3 DEF BeforeGraph
  <2>2. /\ SameGrade(session, Unlocked(session, TRUE))
        /\ Unlocked(session, TRUE).completed = session.completed
        /\ Unlocked(session, TRUE).report = session.report
    BY <1>0 DEF SameGrade, Unlocked, InterviewState
  <2> QED
    BY <2>1, <2>2, SameView, NextView
<1> QED
  BY <1>2, <1>3

LEMMA RefineUser ==
  ASSUME TypeInv, RecordInv, LinkInv, UserStep
  PROVE  Protocol!ProtocolStep \/ View(session)' = View(session)
<1>0. session \in InterviewState
  BY DEF TypeInv, TypeOK
<1>1. ASSUME NEW i, session' = Locked(session, i)
      PROVE  View(session)' = View(session)
  <2>1. /\ SameGrade(session, Locked(session, i))
        /\ Locked(session, i).completed = session.completed
        /\ Locked(session, i).report = session.report
    BY <1>0 DEF SameGrade, Locked, InterviewState
  <2> QED
    BY <1>1, <2>1, SameView, NextView
<1>2. CASE StartInterview
  <2>1. session = EmptyState
    BY <1>2, PhaseFacts DEF StartInterview, LinkInv
  <2> QED
    BY <1>2, <2>1, NextView DEF StartInterview, Begin
<1>3. CASE Submit \/ NextQuestion
  BY <1>1, <1>3 DEF Submit, NextQuestion, Begin
<1>4. CASE Retry
  BY <1>4, NextView DEF Retry, Begin
<1>5. CASE NewInterview
  <2>1. session' = EmptyState
    BY <1>5 DEF NewInterview, End
  <2>2. session.report \/ session.completed
    BY <1>5 DEF NewInterview, UiPhase
  <2>3. Screen = "closed"
    BY <2>2, ViewFacts, ViewOf
  <2>4. /\ Screen' = "setup" /\ session'.index = 0 /\ PlannedTotal(session)' = 0
        /\ Attempts(session)' = 0 /\ session'.bundle = NoQuality
    BY <2>1, EmptyView, NextView
  <2> QED
    BY <2>3, <2>4 DEF Protocol!ProtocolStep, Protocol!Restart
<1> QED
  BY <1>2, <1>3, <1>4, <1>5 DEF UserStep

LEMMA RefineNext ==
  TypeInv /\ GradingInv /\ RecordInv /\ LinkInv /\ [Next]_vars =>
    [Protocol!ProtocolStep]_(Protocol!protocol)
<1> SUFFICES ASSUME TypeInv, GradingInv, RecordInv, LinkInv, [Next]_vars
             PROVE  Protocol!ProtocolStep \/ View(session)' = View(session)
  BY StutterOfView
<1>1. ASSUME session' = session PROVE View(session)' = View(session)
  BY <1>1, NextView
<1>2. CASE UNCHANGED vars
  BY <1>1, <1>2 DEF vars
<1>3. CASE UserStep
  BY <1>3, RefineUser
<1>4. CASE Finish \/ GraphRaises
  BY <1>4, RefineFinish, RefineRaises
<1>5. CASE StartFails
  <2>1. session = EmptyState
    BY <1>5 DEF StartFails, RecordInv, Serves
  <2> QED
    BY <1>5, <2>1, NextView DEF StartFails, End
<1>6. CASE SubmitEmpty
  <2> DEFINE t == [session EXCEPT !.awaiting = TRUE, !.processing = FALSE]
  <2>1. session' = t
    BY <1>6 DEF SubmitEmpty, End, RecordInv, Serves
  <2>2. SameGrade(session, t) /\ t.completed = session.completed /\ t.report = session.report
    BY DEF SameGrade, InterviewState, TypeInv, TypeOK
  <2> HIDE DEF t
  <2> QED
    BY <2>1, <2>2, SameView, NextView
<1>7. CASE GenerateFirst \/ SubmitAnswer
  BY <1>1, <1>7 DEF GenerateFirst, SubmitAnswer
<1>8. CASE GraphStep /\ ~GraphRaises
  <2>1. ASSUME NEW node, NEW t, Goto(node, t) PROVE session' = session
    BY <2>1 DEF Goto
  <2>2. session' = session
    BY <1>8, <2>1 DEF GraphStep, RouteEntry, RouteByQuestionType, Execution, Evaluation,
       WrittenEvaluation, Feedback, PassThrough, Decision, StartProcessing, Navigation,
       NavigateNext, Question, Completion, EvaluationAggregate, SessionClose, Report, Leave
  <2> QED
    BY <1>1, <2>2
<1> QED
  BY <1>2, <1>3, <1>4, <1>5, <1>6, <1>7, <1>8 DEF Next, HandlerStep

-----------------------------------------------------------------------------
(* LinkInv is inductive.                                                     *)

LEMMA EmptyIsTidy == Tidy(EmptyState) /\ ~EmptyState.completed
<1>1. /\ ~EmptyState.report /\ ~EmptyState.completed
      /\ EmptyState.answers = [i \in Slots |-> 0]
  BY DEF EmptyState
<1> QED
  BY <1>1 DEF Tidy

LEMMA SameIsTidy ==
  ASSUME NEW s, NEW t, Tidy(s), t.index = s.index, t.answers = s.answers,
         t.report = s.report, t.completed = s.completed
  PROVE  Tidy(t)
BY DEF Tidy

LEMMA TidyLocks ==
  ASSUME NEW s \in InterviewState, Tidy(s)
  PROVE  /\ \A i : Tidy(Locked(s, i)) /\ SameGrade(s, Locked(s, i)) /\ Locked(s, i).intent = i
                   /\ Locked(s, i).completed = s.completed
         /\ \A a : Tidy(Unlocked(s, a)) /\ SameGrade(s, Unlocked(s, a))
                   /\ Unlocked(s, a).completed = s.completed
BY SameIsTidy DEF SameGrade, Locked, Unlocked, InterviewState

LEMMA LinkInit == Init => LinkInv
BY EmptyIsTidy DEF Init, LinkInv, Linked, Navigating

LEMMA LinkUser ==
  ASSUME TypeInv, GradingInv, LinkInv, UserStep
  PROVE  LinkInv'
<1>0. session \in InterviewState /\ Settled(session) /\ Tidy(session)
  BY DEF TypeInv, TypeOK, GradingInv, LinkInv
<1>1. CASE StartInterview \/ NewInterview
  <2>1. /\ session' = EmptyState /\ work' = EmptyState
        /\ (handler' = "start" /\ pc' = "generate") \/ (handler' = "none" /\ pc' = "idle")
    BY <1>1 DEF StartInterview, NewInterview, Begin, End
  <2>2. Linked(pc, work)'
    BY <2>1 DEF Linked, Navigating
  <2> QED
    BY <2>1, <2>2, EmptyIsTidy DEF LinkInv
<1>2. CASE Submit
  <2> DEFINE t == Locked(session, "SUBMIT")
  <2>1. session' = t /\ work' = t /\ handler' = "submit" /\ pc' = "prepare"
    BY <1>2 DEF Submit, Begin
  <2>2. Has(session) /\ ~session.completed
    BY <1>2, PhaseFacts DEF Submit
  <2>3. Tidy(t) /\ SameGrade(session, t) /\ t.intent = "SUBMIT" /\ ~t.completed
    BY <1>0, <2>2, TidyLocks
  <2> HIDE DEF t
  <2>4. Has(t)
    BY <2>2, <2>3 DEF Has, SameGrade
  <2>5. Linked(pc, work)'
    BY <2>1, <2>3, <2>4 DEF Linked, Navigating, Action
  <2> QED
    BY <2>1, <2>3, <2>4, <2>5 DEF LinkInv
<1>3. CASE Retry
  <2> DEFINE t == Locked(session, "RETRY")
  <2>1. session' = session /\ work' = t /\ handler' = "retry" /\ pc' = "entry"
    BY <1>3 DEF Retry, Begin
  <2>2. Has(session) /\ ~session.completed /\ Offered(session) /\ Attempts(session) < MaxAttempts
    BY <1>0, <1>3, PhaseFacts, SettledScreens DEF Retry
  <2>3. Tidy(t) /\ SameGrade(session, t) /\ t.intent = "RETRY" /\ ~t.completed
    BY <1>0, <2>2, TidyLocks
  <2> HIDE DEF t
  <2>4. t.planned_areas = session.planned_areas
    BY <2>3 DEF SameGrade
  <2>5. Linked(pc, work)'
    BY <2>1, <2>2, <2>3, <2>4 DEF Linked, Navigating, Before, Turned, AskedBy
  <2> QED
    BY <1>0, <2>1, <2>2, <2>3, <2>5 DEF LinkInv
<1>4. CASE NextQuestion
  <2> DEFINE intent == IF "GENERATE_REPORT" \in session.allowed
                       THEN "GENERATE_REPORT" ELSE "NEXT"
             t == Locked(session, intent)
  <2>1. session' = t /\ work' = t /\ pc' = "entry"
    BY <1>4 DEF NextQuestion, Begin
  <2>2. Has(session) /\ ~session.completed /\ Offered(session)
    BY <1>0, <1>4, PhaseFacts, SettledScreens DEF NextQuestion
  <2>3. Tidy(t) /\ SameGrade(session, t) /\ t.intent = intent /\ ~t.completed
    BY <1>0, <2>2, TidyLocks
  <2>4. handler' \in {"next", "report"} /\ intent = AskedBy[handler']
    BY <1>4 DEF NextQuestion, Begin, AskedBy
  <2>5. handler' = "report" => OnLast(session)
    BY <1>4, <2>2 DEF NextQuestion, Begin, Offered, AllowedActions
  <2>6. Decide(session.bundle, Attempts(session)) = "NEXT"
    BY <1>4, <2>2 DEF NextQuestion, Offered, AllowedActions, Decide
  <2> HIDE DEF t, intent
  <2>7. /\ Has(t) /\ Offered(t) /\ (OnLast(t) <=> OnLast(session))
        /\ t.bundle = session.bundle /\ Attempts(t) = Attempts(session)
    BY <2>2, <2>3, SameGradeFacts DEF SameGrade, Has, OnLast, PlannedTotal, Attempts
  <2>8. SameGrade(t, t)
    BY DEF SameGrade
  <2>9. Linked(pc, work)'
    BY <2>1, <2>3, <2>4, <2>5, <2>6, <2>7, <2>8 DEF Linked, Navigating, Before, Turned
  <2> QED
    BY <2>1, <2>3, <2>4, <2>7, <2>9 DEF LinkInv
<1> QED
  BY <1>1, <1>2, <1>3, <1>4 DEF UserStep

(* Between two screens there is nothing to link.                             *)
LEMMA LinkEnd ==
  ASSUME NEW t, End(t), Tidy(t), Has(t) \/ t = EmptyState
  PROVE  LinkInv'
<1>1. session' = t /\ work' = t /\ handler' = "none" /\ pc' = "idle"
  BY DEF End
<1>2. Linked(pc, work)'
  BY <1>1 DEF Linked, Navigating
<1> QED
  BY <1>1, <1>2 DEF LinkInv

LEMMA LinkHandler ==
  ASSUME TypeInv, GradingInv, RecordInv, LinkInv,
         GenerateFirst \/ StartFails \/ SubmitEmpty \/ SubmitAnswer \/ Finish
  PROVE  LinkInv'
<1>0. /\ work \in InterviewState /\ Tidy(work) /\ Tidy(session) /\ Linked(pc, work)
      /\ ~Has(session) => session = EmptyState
      /\ handler \notin {"none", "report"} => ~work.completed
      /\ pc \notin {"idle", "generate"} => Has(work)
      /\ work.index \in Slots /\ work.index \in Nat
  BY SlotFacts DEF TypeInv, TypeOK, LinkInv, InterviewState
<1>1. CASE GenerateFirst
  <2>1. PICK plan \in Plans : work' = InitialState(plan)
    BY <1>1 DEF GenerateFirst
  <2> DEFINE t == InitialState(plan)
  <2>2. session' = session /\ handler' = handler /\ pc' = "entry" /\ work' = t
    BY <1>1, <2>1 DEF GenerateFirst
  <2>3. handler = "start"
    BY <1>1 DEF GenerateFirst, RecordInv, Serves
  <2>4. /\ Ungraded(t) /\ t.planned_areas = plan /\ t.answers = EmptyState.answers
        /\ t.answers = [i \in Slots |-> 0] /\ ~t.report /\ ~t.completed
    BY SlotFacts DEF Ungraded, Open, Current, InitialState, EmptyState
  <2> HIDE DEF t
  <2>5. Tidy(t)
    BY <2>4 DEF Tidy
  <2>6. Linked(pc, work)'
    BY <2>2, <2>3, <2>4 DEF Linked, Navigating
  <2> QED
    BY <1>0, <2>2, <2>4, <2>5, <2>6 DEF LinkInv
<1>2. CASE StartFails
  BY <1>2, EmptyIsTidy, LinkEnd DEF StartFails
<1>3. CASE SubmitEmpty
  <2> DEFINE t == [work EXCEPT !.awaiting = TRUE, !.processing = FALSE]
  <2>1. /\ t.index = work.index /\ t.questions = work.questions /\ t.answers = work.answers
        /\ t.report = work.report /\ t.completed = work.completed
    BY <1>0 DEF InterviewState
  <2>2. End(t) /\ Has(work)
    BY <1>0, <1>3 DEF SubmitEmpty
  <2> HIDE DEF t
  <2>3. Tidy(t) /\ Has(t)
    BY <1>0, <2>1, <2>2, SameIsTidy DEF Has
  <2> QED
    BY <2>2, <2>3, LinkEnd
<1>4. CASE SubmitAnswer
  <2> DEFINE t == [work EXCEPT !.answers[work.index] = @ + 1]
  <2>1. /\ session' = session /\ work' = t /\ handler' = handler /\ pc = "prepare"
        /\ pc' = "entry"
    BY <1>4 DEF SubmitAnswer
  <2>2. handler = "submit"
    BY <2>1 DEF RecordInv, Serves
  <2>3. /\ t.index = work.index /\ t.planned_areas = work.planned_areas
        /\ t.intent = work.intent /\ t.report = work.report /\ t.completed = work.completed
        /\ t.answers = [work.answers EXCEPT ![work.index] = @ + 1]
    BY <1>0 DEF InterviewState
  <2>4. DOMAIN work.answers = Slots
    BY <1>0 DEF InterviewState
  <2> HIDE DEF t
  <2>5. Tidy(t)
    BY <1>0, <2>3, <2>4, SlotFacts DEF Tidy
  <2>6. Linked(pc, work)'
    BY <1>0, <2>1, <2>2, <2>3 DEF Linked, Navigating
  <2> QED
    BY <1>0, <2>1, <2>3, <2>5, <2>6 DEF LinkInv
<1>5. CASE Finish
  <2> DEFINE t == Unlocked(work, IF handler = "report" THEN work.awaiting ELSE TRUE)
  <2>1. End(t) /\ Has(work)
    BY <1>0, <1>5 DEF Finish
  <2>2. Tidy(t) /\ SameGrade(work, t)
    BY <1>0, TidyLocks
  <2> HIDE DEF t
  <2>3. Has(t)
    BY <2>1, <2>2 DEF Has, SameGrade
  <2> QED
    BY <2>1, <2>2, <2>3, LinkEnd
<1> QED
  BY <1>1, <1>2, <1>3, <1>4, <1>5

(* A graph step keeps LinkInv if it keeps the link.                          *)
LEMMA LinkGoto ==
  ASSUME LinkInv, NEW node, NEW t, Goto(node, t), Tidy(t),
         handler \notin {"none", "report"} => ~t.completed, Linked(node, t)
  PROVE  LinkInv'
<1>1. /\ work' = t /\ pc' = node /\ session' = session /\ handler' = handler
  BY DEF Goto
<1>2. Linked(pc, work)'
  BY <1>1 DEF Linked
<1> QED
  BY <1>1, <1>2 DEF LinkInv

(* Which handlers get where.                                                 *)
LEMMA WhoIsWhere ==
  ASSUME TypeInv, RecordInv, LinkInv, pc # "idle"
  PROVE  /\ handler \in Navigating \cup {"start", "submit"}
         /\ pc \in Grading => handler \in {"start", "submit"}
         /\ pc \in Before \ {"entry"} => handler # "submit"
         /\ pc \in Turned \ {"finish"} => handler # "submit"
<1>1. handler \in Handler /\ handler # "none"
  BY DEF TypeInv, TypeOK, RecordInv
<1>2. handler \in Navigating \cup {"start", "submit"}
  BY <1>1 DEF Handler, Navigating
<1> QED
  BY <1>2 DEF LinkInv, Linked, Navigating, Grading, Before, Turned

LEMMA LinkRouting ==
  ASSUME TypeInv, RecordInv, LinkInv,
         RouteEntry \/ RouteByQuestionType \/ PassThrough \/ StartProcessing
  PROVE  LinkInv'
<1>0. /\ work \in InterviewState /\ Tidy(work) /\ Linked(pc, work)
      /\ handler \notin {"none", "report"} => ~work.completed
      /\ pc # "idle"
  BY DEF TypeInv, TypeOK, LinkInv, RouteEntry, RouteByQuestionType, PassThrough, StartProcessing
<1>1. CASE RouteEntry
  <2> DEFINE node == IF work.intent \in Action THEN "start_processing" ELSE "router"
  <2>1. pc = "entry" /\ Goto(node, work)
    BY <1>1 DEF RouteEntry
  <2>2. handler \in Navigating => node = "start_processing"
    BY <1>0, <2>1 DEF Linked, Navigating, Before, AskedBy, Action
  <2>3. handler = "submit" => node = "router"
    BY <1>0 DEF Linked
  <2>4. node \in {"start_processing", "router"}
    OBVIOUS
  <2> HIDE DEF node
  <2>5. Linked(node, work)
    BY <1>0, <2>1, <2>2, <2>3, <2>4 DEF Linked, Grading, Before, Turned, Navigating
  <2> QED
    BY <1>0, <2>1, <2>5, LinkGoto
<1>2. CASE RouteByQuestionType
  <2> DEFINE node == IF IsWritten(work) THEN "written" ELSE "execution"
  <2>1. pc = "router" /\ Goto(node, work) /\ node \in {"written", "execution"}
    BY <1>2 DEF RouteByQuestionType
  <2>2. handler \in {"start", "submit"}
    BY <1>0, <2>1, WhoIsWhere DEF Grading
  <2> HIDE DEF node
  <2>3. Linked(node, work)
    BY <1>0, <2>1, <2>2 DEF Linked, Grading, Navigating
  <2> QED
    BY <1>0, <2>1, <2>3, LinkGoto
<1>3. CASE PassThrough
  <2>1. CASE pc \in {"hint", "reasoner"}
    <3>1. PICK node \in {"feedback", "decision"} : Goto(node, work)
      BY <1>3, <2>1 DEF PassThrough, Leave, Edge
    <3>2. handler \in {"start", "submit"}
      BY <1>0, <2>1, WhoIsWhere DEF Grading
    <3>3. Linked(node, work)
      BY <1>0, <2>1, <3>1, <3>2 DEF Linked, Grading, Navigating
    <3> QED
      BY <1>0, <3>1, <3>3, LinkGoto
  <2>2. CASE pc = "longitudinal_update"
    <3>1. Goto("finish", work)
      BY <1>3, <2>2 DEF PassThrough, Leave, Edge
    <3>2. handler # "submit"
      BY <1>0, <2>2, WhoIsWhere DEF Turned
    <3>3. Linked("finish", work)
      BY <1>0, <2>2, <3>2 DEF Linked, Turned, Before, Navigating
    <3> QED
      BY <1>0, <3>1, <3>3, LinkGoto
  <2> QED
    BY <1>3, <2>1, <2>2 DEF PassThrough
<1>4. CASE StartProcessing
  <2> DEFINE t == [work EXCEPT !.processing = TRUE]
  <2>1. pc = "start_processing" /\ Goto("navigation", t) /\ handler # "submit"
    BY <1>0, <1>4, WhoIsWhere DEF StartProcessing, Leave, Edge, Before
  <2>2. /\ SameGrade(work, t) /\ t.intent = work.intent
        /\ t.report = work.report /\ t.completed = work.completed
    BY <1>0 DEF SameGrade, InterviewState
  <2> HIDE DEF t
  <2>3. Tidy(t) /\ (Ungraded(work) => Ungraded(t))
    BY <1>0, <2>2, SameIsTidy, SameGradeFacts DEF SameGrade
  <2>4. SameGrade(session, work) => SameGrade(session, t)
    BY <2>2 DEF SameGrade
  <2>5. t.planned_areas = work.planned_areas /\ t.answers = work.answers
    BY <2>2 DEF SameGrade
  <2>6. Linked("navigation", t)
    BY <1>0, <2>1, <2>2, <2>3, <2>4, <2>5 DEF Linked, Turned, Before, Navigating
  <2> QED
    BY <1>0, <2>1, <2>2, <2>3, <2>6, LinkGoto
<1> QED
  BY <1>1, <1>2, <1>3, <1>4

LEMMA LinkGrades ==
  ASSUME TypeInv, RecordInv, LinkInv, Execution \/ Evaluation \/ WrittenEvaluation \/ Feedback
  PROVE  LinkInv'
<1>0. /\ work \in InterviewState /\ Tidy(work) /\ Linked(pc, work)
      /\ pc \in {"execution", "evaluation", "written", "feedback"}
      /\ work.index \in Slots
  BY DEF TypeInv, TypeOK, LinkInv, Execution, Evaluation, WrittenEvaluation, Feedback,
         InterviewState
<1>1. handler \in {"start", "submit"} /\ ~work.completed
  BY <1>0, WhoIsWhere DEF Grading, LinkInv
<1>2. CASE handler = "start"
  <2>1. Ungraded(work) /\ ~Answered(work)
    <3>1. work.answers = [i \in Slots |-> 0]
      BY <1>0, <1>2 DEF Linked, EmptyState
    <3> QED
      BY <1>0, <1>2, <3>1 DEF Linked, Answered, Attempts
  <2>2. ~Current(work).execution /\ Current(work) = NoResult
    BY <2>1 DEF Ungraded, NoResult
  <2>3. PICK node \in {"evaluation", "hint", "feedback", "reasoner"} : Goto(node, work)
    BY <2>1, <2>2 DEF Execution, Evaluation, WrittenEvaluation, Feedback, Leave, Edge
  <2>4. Linked(node, work)
    BY <1>0, <1>2 DEF Linked, Navigating
  <2> QED
    BY <1>0, <1>1, <2>3, <2>4, LinkGoto
<1>3. CASE handler = "submit"
  <2>1. ASSUME NEW node \in {"evaluation", "hint", "feedback", "reasoner"}, NEW t, Goto(node, t),
               t.planned_areas = work.planned_areas, t.index = work.index,
               t.answers = work.answers, t.intent = work.intent,
               t.report = work.report, t.completed = work.completed
        PROVE  LinkInv'
    <3>1. Tidy(t)
      BY <1>0, <2>1, SameIsTidy
    <3>2. Linked(node, t)
      BY <1>0, <1>3, <2>1 DEF Linked, Grading, Navigating
    <3> QED
      BY <1>1, <2>1, <3>1, <3>2, LinkGoto
  <2>2. CASE \E node \in {"evaluation", "hint", "feedback", "reasoner"} : Goto(node, work)
    BY <2>1, <2>2
  <2>3. ASSUME NEW node \in {"evaluation", "hint", "feedback", "reasoner"}, NEW r,
               Goto(node, [work EXCEPT !.results[work.index] = r])
        PROVE  LinkInv'
    <3> DEFINE t == [work EXCEPT !.results[work.index] = r]
    <3>1. /\ t.planned_areas = work.planned_areas /\ t.index = work.index
          /\ t.answers = work.answers /\ t.intent = work.intent
          /\ t.report = work.report /\ t.completed = work.completed
      BY <1>0 DEF InterviewState
    <3>2. Goto(node, t)
      BY <2>3
    <3> HIDE DEF t
    <3> QED
      BY <2>1, <3>1, <3>2
  <2>4. ASSUME NEW q, Goto("reasoner", [work EXCEPT !.bundle = q]) PROVE LinkInv'
    <3> DEFINE t == [work EXCEPT !.bundle = q]
    <3>1. /\ t.planned_areas = work.planned_areas /\ t.index = work.index
          /\ t.answers = work.answers /\ t.intent = work.intent
          /\ t.report = work.report /\ t.completed = work.completed
      BY <1>0 DEF InterviewState
    <3>2. Goto("reasoner", t)
      BY <2>4
    <3> HIDE DEF t
    <3> QED
      BY <2>1, <3>1, <3>2
  <2>5. CASE Execution
    <3>1. CASE Goto("evaluation", work)
      BY <2>2, <3>1
    <3>2. CASE ~Goto("evaluation", work)
      <4>1. PICK q \in ExecutionQuality :
              Goto("evaluation", [work EXCEPT !.results[work.index] =
                     [execution |-> TRUE, evaluation |-> @.evaluation,
                      quality |-> q, attempt |-> Attempts(work)]])
        BY <2>5, <3>2 DEF Execution, Leave, Edge
      <4> QED
        BY <2>3, <4>1
    <3> QED
      BY <3>1, <3>2
  <2>6. CASE Evaluation
    <3>1. \/ Goto("hint", work)
          \/ Goto("hint", [work EXCEPT !.results[work.index].evaluation = TRUE])
      BY <2>6 DEF Evaluation, Leave, Edge
    <3> QED
      BY <2>2, <2>3, <3>1
  <2>7. CASE WrittenEvaluation
    <3>1. CASE Goto("feedback", work)
      BY <2>2, <3>1
    <3>2. CASE ~Goto("feedback", work)
      <4>1. PICK q \in WrittenQuality :
              Goto("feedback", [work EXCEPT !.results[work.index] =
                     [execution |-> @.execution, evaluation |-> TRUE,
                      quality |-> q, attempt |-> Attempts(work)]])
        BY <2>7, <3>2 DEF WrittenEvaluation, Leave, Edge
      <4> QED
        BY <2>3, <4>1
    <3> QED
      BY <3>1, <3>2
  <2>8. CASE Feedback
    <3>1. Goto("reasoner", work) \/ Goto("reasoner", [work EXCEPT !.bundle = Current(work).quality])
      BY <2>8 DEF Feedback, Leave, Edge
    <3> QED
      BY <2>2, <2>4, <3>1
  <2> QED
    BY <2>5, <2>6, <2>7, <2>8
<1> QED
  BY <1>1, <1>2, <1>3

(* A submission is offered something in the end: its answer has a result.    *)
LEMMA LinkDecision ==
  ASSUME TypeInv, GradingInv, RecordInv, LinkInv, Decision
  PROVE  LinkInv'
<1>0. /\ work \in InterviewState /\ Tidy(work) /\ Linked("decision", work) /\ pc = "decision"
      /\ Serves("decision", work)
      /\ IF work.bundle = NoQuality THEN Current(work) = NoResult
         ELSE Marked(work) /\ work.bundle = Current(work).quality
  BY StageFacts DEF TypeInv, TypeOK, GradingInv, RecordInv, LinkInv, Decision
<1>1. handler \in {"start", "submit"} /\ ~work.completed
  BY <1>0, WhoIsWhere DEF Grading, LinkInv
<1>2. CASE handler = "start"
  <2>1. work.bundle = NoQuality
    BY <1>0, <1>2 DEF Linked, Ungraded, Open
  <2>2. PICK node \in {"finish", "navigation"} : Goto(node, work)
    BY <2>1 DEF Decision
  <2>3. Linked(node, work)
    BY <1>0, <1>2 DEF Linked, Navigating
  <2> QED
    BY <1>0, <1>1, <2>2, <2>3, LinkGoto
<1>3. CASE handler = "submit"
  <2> DEFINE t == [work EXCEPT !.allowed = AllowedActions(work), !.intent = "NONE",
                               !.awaiting = TRUE, !.processing = FALSE]
  <2>1. work.bundle # NoQuality
    BY <1>0, <1>3 DEF Serves, Grading
  <2>2. Goto("finish", t)
    BY <2>1 DEF Decision
  <2>3. /\ t.planned_areas = work.planned_areas /\ t.questions = work.questions
        /\ t.index = work.index /\ t.answers = work.answers /\ t.results = work.results
        /\ t.bundle = work.bundle /\ t.allowed = AllowedActions(work) /\ t.intent = "NONE"
        /\ t.report = work.report /\ t.completed = work.completed
    BY <1>0 DEF InterviewState
  <2> HIDE DEF t
  <2>4. /\ Current(t) = Current(work) /\ Attempts(t) = Attempts(work)
        /\ AllowedActions(t) = AllowedActions(work)
    BY <2>3 DEF Current, Attempts, AllowedActions, OnLast, PlannedTotal
  <2>5. Offered(t) /\ Tidy(t)
    BY <1>0, <2>1, <2>3, <2>4, SameIsTidy DEF Offered, Marked
  <2>6. Linked("finish", t)
    BY <1>0, <1>3, <2>3, <2>5 DEF Linked, Navigating, Action
  <2> QED
    BY <1>1, <2>2, <2>3, <2>5, <2>6, LinkGoto
<1> QED
  BY <1>1, <1>2, <1>3

LEMMA LinkNavigation ==
  ASSUME TypeInv, GradingInv, RecordInv, LinkInv, Navigation
  PROVE  LinkInv'
<1>0. /\ work \in InterviewState /\ Placed(work) /\ Fresh(work) /\ Tidy(work)
      /\ Linked("navigation", work) /\ Serves("navigation", work) /\ pc = "navigation"
      /\ work.index \in Slots /\ work.index \in Nat
      /\ handler # "none" /\ ~work.completed
  BY SlotFacts DEF TypeInv, TypeOK, GradingInv, RecordInv, LinkInv, Navigation, InterviewState,
                   Serves, Closing
<1>1. handler \in Navigating \cup {"start"}
  BY <1>0, WhoIsWhere DEF Before
<1>2. handler \in Navigating => SameGrade(session, work) /\ work.intent = AskedBy[handler]
  BY <1>0 DEF Linked, Before
<1>3. handler = "start" => work.intent \notin Action
  BY <1>0 DEF Serves
<1>4. ASSUME NEW t, Leave(t), Linked("question", t), Tidy(t), ~t.completed PROVE LinkInv'
  BY <1>0, <1>4, LinkGoto DEF Leave, Edge
<1>5. CASE handler = "start"
  <2>1. Leave(work)
    BY <1>3, <1>5 DEF Navigation, Action
  <2>2. Linked("question", work)
    BY <1>0, <1>5 DEF Linked, Navigating
  <2> QED
    BY <1>0, <1>4, <2>1, <2>2
<1>6. CASE handler = "retry"
  <2> DEFINE t == Cleared(work)
  <2>1. Leave(t)
    BY <1>2, <1>6 DEF Navigation, Navigating, AskedBy
  <2>2. /\ t.index = work.index /\ t.answers = work.answers /\ t.awaiting
        /\ t.planned_areas = work.planned_areas
        /\ t.report = work.report /\ t.completed = work.completed
        /\ t.bundle = NoQuality /\ t.allowed = {}
        /\ t.results = [work.results EXCEPT ![work.index] = NoResult]
        /\ DOMAIN work.results = Slots
    BY <1>0 DEF Cleared, InterviewState
  <2> HIDE DEF t
  <2>3. Ungraded(t) /\ Tidy(t)
    BY <1>0, <2>2, SameIsTidy DEF Ungraded, Open, Current
  <2>4. t.index = session.index
    BY <1>2, <1>6, <2>2 DEF SameGrade, Navigating
  <2>5. Linked("question", t)
    BY <1>0, <1>6, <2>2, <2>3, <2>4 DEF Linked, Navigating, Turned, Before
  <2> QED
    BY <1>0, <1>4, <2>1, <2>2, <2>3, <2>5
<1>7. CASE handler = "next"
  <2>1. work.intent = "NEXT" /\ SameGrade(session, work)
    BY <1>2, <1>7 DEF Navigating, AskedBy
  <2>2. CASE Leave(WithinGenerated(work))
    <3> DEFINE t == Stay(work)
    <3>1. Leave(t)
      BY <1>0, <2>2, NowhereToGo
    <3>2. /\ SameGrade(work, t) /\ t.awaiting
          /\ t.report = work.report /\ t.completed = work.completed
      BY <1>0 DEF Stay, MarkAsked, SameGrade, InterviewState
    <3> HIDE DEF t
    <3>3. Tidy(t) /\ SameGrade(session, t) /\ t.planned_areas = work.planned_areas
      BY <1>0, <2>1, <3>2, SameIsTidy DEF SameGrade
    <3>4. Linked("question", t)
      BY <1>0, <1>7, <3>2, <3>3 DEF Linked, Navigating, Turned, Before
    <3> QED
      BY <1>0, <1>4, <3>1, <3>2, <3>3, <3>4
  <2>3. CASE NextArea(work) /\ Leave(Forward([work EXCEPT !.questions = @ + 1]))
    <3> DEFINE t == Forward([work EXCEPT !.questions = @ + 1])
    <3>1. Leave(t) /\ t \in InterviewState
      BY <1>0, <2>3, GeneratedPlace DEF TypeInv
    <3>2. /\ t.index = work.index + 1 /\ t.results = work.results /\ t.awaiting
          /\ t.answers = work.answers /\ t.planned_areas = work.planned_areas
          /\ t.report = work.report /\ t.completed = work.completed
          /\ t.bundle = NoQuality /\ t.allowed = {}
      BY <1>0 DEF Forward, MarkAsked, InterviewState
    <3> HIDE DEF t
    <3>3. t.index \in Slots /\ t.index > work.index
      BY <1>0, <3>1, <3>2 DEF InterviewState
    <3>4. Ungraded(t)
      BY <1>0, <3>2, <3>3 DEF Fresh, Ungraded, Open, Current
    <3>5. Tidy(t)
      BY <1>0, <3>2, SlotFacts DEF Tidy
    <3>6. t.index = session.index + 1
      BY <2>1, <3>2 DEF SameGrade
    <3>7. Linked("question", t)
      BY <1>0, <1>7, <3>2, <3>4, <3>6 DEF Linked, Navigating, Turned, Before
    <3> QED
      BY <1>0, <1>4, <3>1, <3>2, <3>5, <3>7
  <2> QED
    BY <2>1, <2>2, <2>3 DEF Navigation, NavigateNext
<1>8. CASE handler = "report"
  <2> DEFINE t == [work EXCEPT !.awaiting = FALSE, !.intent = "NONE"]
  <2>1. Leave(t) /\ SameGrade(session, work)
    BY <1>2, <1>8 DEF Navigation, Navigating, AskedBy
  <2>2. /\ SameGrade(work, t) /\ ~t.awaiting
        /\ t.report = work.report /\ t.completed = work.completed
    BY <1>0 DEF SameGrade, InterviewState
  <2> HIDE DEF t
  <2>3. Tidy(t) /\ SameGrade(session, t) /\ t.planned_areas = work.planned_areas
    BY <1>0, <2>1, <2>2, SameIsTidy DEF SameGrade
  <2>4. Linked("question", t)
    BY <1>0, <1>8, <2>2, <2>3 DEF Linked, Navigating, Turned, Before
  <2> QED
    BY <1>0, <1>4, <2>1, <2>2, <2>3, <2>4
<1> QED
  BY <1>1, <1>5, <1>6, <1>7, <1>8 DEF Navigating

(* After the navigation nothing is graded or moved.                          *)
LEMMA LinkTurned ==
  ASSUME TypeInv, RecordInv, LinkInv, pc \in Turned \ {"finish"},
         NEW node \in Turned \ {"question"}, node = "completion" => pc = "question",
         NEW t, Goto(node, t), SameGrade(work, t), t.awaiting = work.awaiting,
         t.report => t.completed, handler # "report" => ~t.completed,
         handler = "report" /\ node # "completion" => t.completed
  PROVE  LinkInv'
<1>0. Linked(pc, work) /\ Tidy(work) /\ handler \in Navigating \cup {"start"}
  BY WhoIsWhere DEF LinkInv, Turned
<1>1. Tidy(t) /\ (Ungraded(work) => Ungraded(t))
  BY <1>0, SameGradeFacts DEF Tidy, SameGrade
<1>2. /\ t.planned_areas = work.planned_areas /\ t.answers = work.answers
      /\ t.index = work.index
      /\ SameGrade(session, work) => SameGrade(session, t)
  BY DEF SameGrade
<1>3. pc # "generate" /\ pc \notin Before /\ node \notin Before
  BY DEF Turned, Before
<1>4. CASE handler = "start"
  <2>1. Linked(node, t)
    BY <1>0, <1>1, <1>2, <1>3, <1>4 DEF Linked, Navigating
  <2> QED
    BY <1>1, <1>4, <2>1, LinkGoto
<1>5. CASE handler \in {"retry", "next"}
  <2>1. Linked(node, t)
    BY <1>0, <1>1, <1>2, <1>3, <1>5 DEF Linked, Navigating
  <2> QED
    BY <1>1, <1>5, <2>1, LinkGoto
<1>6. CASE handler = "report"
  <2>1. node = "completion" => ~work.awaiting
    BY <1>0, <1>6 DEF Linked, Turned
  <2>2. Linked(node, t)
    BY <1>0, <1>1, <1>2, <1>3, <1>6, <2>1 DEF Linked, Navigating
  <2> QED
    BY <1>1, <1>6, <2>2, LinkGoto
<1> QED
  BY <1>0, <1>4, <1>5, <1>6 DEF Navigating

LEMMA LinkTail ==
  ASSUME TypeInv, RecordInv, LinkInv,
         Question \/ Completion \/ EvaluationAggregate \/ SessionClose \/ Report
  PROVE  LinkInv'
<1>0. /\ work \in InterviewState /\ Placed(work) /\ Has(work) /\ Tidy(work)
      /\ Serves(pc, work) /\ Linked(pc, work)
      /\ pc \in {"question", "completion", "evaluation_aggregate", "session_close", "report"}
      /\ work.index \in Nat /\ work.questions \in Nat
  BY SlotFacts DEF TypeInv, TypeOK, RecordInv, LinkInv, Question, Completion,
                   EvaluationAggregate, SessionClose, Report, InterviewState
<1>1. /\ pc \in Turned \ {"finish"} /\ (work.report => work.completed)
      /\ handler # "report" => ~work.completed
      /\ handler = "report" /\ pc \notin {"question", "completion"} => work.completed
  <2>1. pc # "idle" /\ pc \in Turned \ {"finish"}
    BY <1>0 DEF Turned
  <2>2. handler # "none"
    BY <2>1 DEF RecordInv
  <2> QED
    BY <1>0, <2>1, <2>2 DEF LinkInv, Linked, Tidy
<1>2. SameGrade(work, work)
  BY DEF SameGrade
<1>3. CASE Question
  <2>1. ASSUME NEW t, Goto("completion", t), SameGrade(work, t), t.awaiting = work.awaiting,
               t.report = work.report, t.completed = work.completed
        PROVE  LinkInv'
    BY <1>1, <1>3, <2>1, LinkTurned DEF Question, Turned
  <2>2. CASE Leave(work)
    BY <1>2, <1>3, <2>1, <2>2 DEF Question, Leave, Edge
  <2>3. CASE Leave([work EXCEPT !.shown = @ + 1])
    <3> DEFINE t == [work EXCEPT !.shown = @ + 1]
    <3>1. Goto("completion", t)
      BY <1>3, <2>3 DEF Question, Leave, Edge
    <3>2. /\ SameGrade(work, t) /\ t.awaiting = work.awaiting
          /\ t.report = work.report /\ t.completed = work.completed
      BY <1>0 DEF SameGrade, InterviewState
    <3> HIDE DEF t
    <3> QED
      BY <2>1, <3>1, <3>2
  <2>4. CASE ~Leave(work) /\ ~Leave([work EXCEPT !.shown = @ + 1])
    <3>1. PICK f \in FollowUpTurns(work) :
            Leave([work EXCEPT !.shown = @ + 1, !.last_follow_up = f,
                               !.follow_ups = IF f THEN @ + 1 ELSE @])
      BY <1>3, <2>4 DEF Question
    <3> DEFINE t == [work EXCEPT !.shown = @ + 1, !.last_follow_up = f,
                                 !.follow_ups = IF f THEN @ + 1 ELSE @]
    <3>2. Goto("completion", t)
      BY <1>3, <3>1 DEF Question, Leave, Edge
    <3>3. /\ SameGrade(work, t) /\ t.awaiting = work.awaiting
          /\ t.report = work.report /\ t.completed = work.completed
      BY <1>0 DEF SameGrade, InterviewState
    <3> HIDE DEF t
    <3> QED
      BY <2>1, <3>2, <3>3
  <2> QED
    BY <2>2, <2>3, <2>4
<1>4. CASE Completion
  <2> DEFINE Last == /\ OnLast(work) /\ work.questions >= PlannedTotal(work) /\ ~work.awaiting
             t == [work EXCEPT !.completed = TRUE]
  <2>1. handler = "report" => Last
    <3>1. SUFFICES ASSUME handler = "report" PROVE Last
      OBVIOUS
    <3>2. ~work.awaiting /\ SameGrade(session, work) /\ OnLast(session)
      BY <1>0, <1>4, <3>1 DEF Linked, Turned, Completion
    <3>3. OnLast(work)
      BY <3>2 DEF SameGrade, OnLast, PlannedTotal
    <3>4. work.questions = work.index + 1 /\ work.planned_areas \in Plans
      BY <1>0 DEF Placed, Has
    <3>5. PlannedTotal(work) \in Nat
      BY <3>4, PlanFacts DEF PlannedTotal
    <3> QED
      BY <1>0, <3>2, <3>3, <3>4, <3>5 DEF OnLast
  <2>2. Last => handler = "report"
    BY <1>0, <1>4 DEF Serves, Completion
  <2>3. CASE Last
    <3>1. Goto("evaluation_aggregate", t)
      BY <1>4, <2>3 DEF Completion, Leave, Edge
    <3>2. SameGrade(work, t) /\ t.awaiting = work.awaiting /\ t.completed
      BY <1>0 DEF SameGrade, InterviewState
    <3> HIDE DEF t
    <3> QED
      BY <1>1, <2>2, <2>3, <3>1, <3>2, LinkTurned DEF Turned
  <2>4. CASE ~Last
    <3>1. Goto("evaluation_aggregate", work)
      BY <1>4, <2>4 DEF Completion, Leave, Edge
    <3> QED
      BY <1>1, <1>2, <2>1, <2>4, <3>1, LinkTurned DEF Turned
  <2> QED
    BY <2>3, <2>4
<1>5. CASE EvaluationAggregate
  <2>0. handler = "report" => work.completed
    BY <1>1, <1>5 DEF EvaluationAggregate
  <2>1. ASSUME NEW node \in {"session_close", "finish"}, Goto(node, work) PROVE LinkInv'
    BY <1>1, <1>2, <2>0, <2>1, LinkTurned DEF Turned
  <2>2. ASSUME NEW ok, Goto("session_close", [work EXCEPT !.scored = ok, !.intent = "NONE"])
        PROVE  LinkInv'
    <3> DEFINE t == [work EXCEPT !.scored = ok, !.intent = "NONE"]
    <3>1. /\ SameGrade(work, t) /\ t.awaiting = work.awaiting
          /\ t.report = work.report /\ t.completed = work.completed
      BY <1>0 DEF SameGrade, InterviewState
    <3>2. Goto("session_close", t)
      BY <2>2
    <3> HIDE DEF t
    <3> QED
      BY <1>1, <2>0, <3>1, <3>2, LinkTurned DEF Turned
  <2> QED
    BY <1>5, <2>1, <2>2 DEF EvaluationAggregate
<1>6. CASE SessionClose
  <2>0. work.completed
    BY <1>0, <1>6 DEF SessionClose, Serves
  <2> DEFINE t == [work EXCEPT !.history = HistoryOf(work)]
  <2>1. SameGrade(work, t) /\ t.awaiting = work.awaiting
          /\ t.report = work.report /\ t.completed = work.completed
    BY <1>0 DEF SameGrade, InterviewState
  <2>2. Goto("report", work) \/ Goto("report", t)
    BY <1>6 DEF SessionClose, Leave, Edge
  <2> HIDE DEF t
  <2> QED
    BY <1>1, <1>2, <2>0, <2>1, <2>2, LinkTurned DEF Turned
<1>7. CASE Report
  <2>0. work.completed
    BY <1>0, <1>7 DEF Report, Serves
  <2>1. PICK built \in {FALSE, work.history.closed} :
          Goto("longitudinal_update",
               [work EXCEPT !.report = @ \/ built, !.processing = FALSE])
    BY <1>7 DEF Report, Leave, Edge
  <2> DEFINE t == [work EXCEPT !.report = @ \/ built, !.processing = FALSE]
  <2>2. SameGrade(work, t) /\ t.awaiting = work.awaiting /\ t.completed = work.completed
    BY <1>0 DEF SameGrade, InterviewState
  <2>3. Goto("longitudinal_update", t)
    BY <2>1
  <2> HIDE DEF t
  <2> QED
    BY <1>1, <2>0, <2>2, <2>3, LinkTurned DEF Turned
<1> QED
  BY <1>3, <1>4, <1>5, <1>6, <1>7

(* No node raises while an interview starts: there is no answer yet.         *)
LEMMA LinkRaises ==
  ASSUME TypeInv, RecordInv, LinkInv, GraphRaises
  PROVE  LinkInv'
<1>0. /\ session \in InterviewState /\ Tidy(session) /\ ~session.completed
      /\ session.index \in Slots /\ DOMAIN session.answers = Slots
      /\ pc \in {"written", "feedback", "navigation"} /\ Linked(pc, work) /\ Serves(pc, work)
  BY DEF TypeInv, TypeOK, RecordInv, LinkInv, GraphRaises, CanRaise, InterviewState
<1>1. handler \in Navigating \cup {"submit"}
  <2>1. handler \in Navigating \cup {"start", "submit"}
    BY <1>0, WhoIsWhere
  <2>2. SUFFICES ASSUME handler = "start" PROVE FALSE
    BY <2>1
  <2>3. Ungraded(work) /\ work.answers = [i \in Slots |-> 0] /\ work.intent \notin Action
    BY <1>0, <2>2 DEF Linked, Serves, EmptyState
  <2>4. ~Answered(work) /\ Current(work) = NoResult
    BY <2>3 DEF Answered, Attempts, Ungraded, TypeInv, TypeOK, InterviewState
  <2> QED
    BY <2>3, <2>4 DEF GraphRaises, CanRaise, Action
<1>2. Has(session)
  BY <1>0, <1>1 DEF Linked
<1> DEFINE t == [session EXCEPT !.answers[session.index] = @ + 1]
<1>3. /\ t \in InterviewState /\ t.index = session.index /\ t.questions = session.questions
      /\ t.report = session.report /\ t.completed = session.completed
      /\ t.answers = [session.answers EXCEPT ![session.index] = @ + 1]
  <2>1. t \in InterviewState
    BY <1>0, AnswerType
  <2> QED
    BY <1>0, <2>1 DEF InterviewState
<1> HIDE DEF t
<1>4. Tidy(t) /\ Has(t)
  <2>1. session.index \in Nat
    BY <1>0, SlotFacts
  <2> QED
    BY <1>0, <1>2, <1>3, <2>1, SlotFacts DEF Tidy, Has
<1>5. BeforeGraph \in InterviewState /\ Tidy(BeforeGraph) /\ Has(BeforeGraph)
  BY <1>0, <1>2, <1>3, <1>4 DEF BeforeGraph, t
<1>6. /\ Tidy(Unlocked(BeforeGraph, TRUE))
      /\ SameGrade(BeforeGraph, Unlocked(BeforeGraph, TRUE))
  BY <1>5, TidyLocks
<1>7. Has(Unlocked(BeforeGraph, TRUE))
  BY <1>5, <1>6 DEF SameGrade, Has
<1> QED
  BY <1>6, <1>7, LinkEnd DEF GraphRaises

LEMMA LinkNext ==
  TypeInv /\ GradingInv /\ RecordInv /\ LinkInv /\ [Next]_vars => LinkInv'
<1> SUFFICES ASSUME TypeInv, GradingInv, RecordInv, LinkInv, [Next]_vars PROVE LinkInv'
  OBVIOUS
<1>1. CASE UNCHANGED vars
  <2>1. session' = session /\ work' = work /\ handler' = handler /\ pc' = pc
    BY <1>1 DEF vars
  <2>2. Linked(pc, work)' <=> Linked(pc, work)
    BY <2>1 DEF Linked
  <2> QED
    BY <2>1, <2>2 DEF LinkInv
<1>2. CASE UserStep
  BY <1>2, LinkUser
<1>3. CASE HandlerStep
  BY <1>3, LinkHandler, LinkRouting, LinkGrades, LinkDecision, LinkNavigation, LinkTail,
     LinkRaises DEF HandlerStep, GraphStep
<1> QED
  BY <1>1, <1>2, <1>3 DEF Next

(* A handler's copy is never further from the session than the protocol      *)
(* allows it to be.                                                          *)
THEOREM LinkInvariant == Spec => []LinkInv
<1>1. Init => TypeInv /\ GradingInv /\ RecordInv /\ LinkInv
  BY TypeInvInit, GradingInit, RecordInit, LinkInit
<1>2. TypeInv /\ GradingInv /\ RecordInv /\ LinkInv /\ [Next]_vars =>
        (TypeInv /\ GradingInv /\ RecordInv /\ LinkInv)'
  BY TypeInvNext, GradingNext, RecordNext, LinkNext
<1> QED
  BY <1>1, <1>2, PTL DEF Spec

(* Whatever the handlers, their locks, their failures and the graph do, the  *)
(* candidate sees an interview that follows the protocol: for plans of any   *)
(* length and any limit of attempts.                                         *)
THEOREM SessionImplementsProtocol == Spec => ImplementsProtocol
<1>1. Init => Protocol!Setup
  <2> SUFFICES ASSUME session = EmptyState PROVE Protocol!Setup
    BY DEF Init
  <2> QED
    BY EmptyView, ViewOf DEF Protocol!Setup
<1>2. Init => TypeInv /\ GradingInv /\ RecordInv /\ LinkInv
  BY TypeInvInit, GradingInit, RecordInit, LinkInit
<1>3. TypeInv /\ GradingInv /\ RecordInv /\ LinkInv /\ [Next]_vars =>
        (TypeInv /\ GradingInv /\ RecordInv /\ LinkInv)'
  BY TypeInvNext, GradingNext, RecordNext, LinkNext
<1>4. TypeInv /\ GradingInv /\ RecordInv /\ LinkInv /\ [Next]_vars =>
        [Protocol!ProtocolStep]_(Protocol!protocol)
  BY RefineNext
<1> QED
  BY <1>1, <1>2, <1>3, <1>4, PTL DEF Spec, ImplementsProtocol, Protocol!ProtocolSpec

-----------------------------------------------------------------------------
(* How many steps a handler has left at most: the graph has no way back.     *)
StepsLeft ==
  [idle |-> 0, finish |-> 1, longitudinal_update |-> 2, report |-> 3, session_close |-> 4,
   evaluation_aggregate |-> 5, completion |-> 6, question |-> 7, navigation |-> 8,
   start_processing |-> 9, decision |-> 9, reasoner |-> 10, feedback |-> 11, written |-> 12,
   hint |-> 12, evaluation |-> 13, execution |-> 14, router |-> 15, entry |-> 16,
   generate |-> 17, prepare |-> 17]

LEMMA EdgesLeadOn ==
  \A p \in DOMAIN Edge :
    p \in Step /\ Edge[p] \in Step /\ StepsLeft[Edge[p]] < StepsLeft[p]
BY DEF Edge, StepsLeft, Step, Node

LEMMA HandlersLeadOn ==
  ASSUME TypeInv, HandlerStep
  PROVE  StepsLeft[pc'] < StepsLeft[pc]
<1>1. ASSUME NEW t, pc \in DOMAIN Edge, Leave(t)
      PROVE  StepsLeft[pc'] < StepsLeft[pc]
  BY <1>1, EdgesLeadOn DEF Leave, Goto
<1>2. CASE Execution \/ Evaluation \/ WrittenEvaluation \/ Feedback \/ PassThrough
           \/ StartProcessing \/ Question \/ Completion \/ SessionClose \/ Report
  <2>1. pc \in DOMAIN Edge
    BY <1>2 DEF Execution, Evaluation, WrittenEvaluation, Feedback, PassThrough,
                StartProcessing, Question, Completion, SessionClose, Report, Edge
  <2>2. \E t : Leave(t)
    BY <1>2 DEF Execution, Evaluation, WrittenEvaluation, Feedback, PassThrough,
                StartProcessing, Question, Completion, SessionClose, Report
  <2> QED
    BY <1>1, <2>1, <2>2
<1>3. CASE Navigation
  <2>1. pc \in DOMAIN Edge
    BY <1>3 DEF Navigation, Edge
  <2>2. \E t : Leave(t)
    BY <1>3 DEF Navigation, NavigateNext
  <2> QED
    BY <1>1, <2>1, <2>2
<1>4. CASE RouteEntry \/ RouteByQuestionType \/ Decision \/ EvaluationAggregate
  BY <1>4 DEF RouteEntry, RouteByQuestionType, Decision, EvaluationAggregate, Goto, StepsLeft
<1>5. CASE GenerateFirst \/ SubmitAnswer
  BY <1>5 DEF GenerateFirst, SubmitAnswer, StepsLeft
<1>6. CASE pc' = "idle" /\ pc # "idle"
  BY <1>6 DEF TypeInv, TypeOK, Step, Node, StepsLeft
<1>7. CASE StartFails \/ SubmitEmpty \/ Finish \/ GraphRaises
  BY <1>6, <1>7 DEF StartFails, SubmitEmpty, Finish, GraphRaises, CanRaise, End
<1> QED
  BY <1>2, <1>3, <1>4, <1>5, <1>7 DEF HandlerStep, GraphStep

(* Every click is answered within seventeen steps, whatever the question,    *)
(* the verdict and the failures on the way: no edge of the graph leads back, *)
(* and no second handler begins on the copy of one that runs.  With the      *)
(* fairness of the handler this is why EveryClickReturns holds.              *)
THEOREM ClicksAreShort ==
  Spec => [][handler # "none" => StepsLeft[pc'] < StepsLeft[pc]]_vars
<1>1. TypeInv /\ [Next]_vars =>
        [handler # "none" => StepsLeft[pc'] < StepsLeft[pc]]_vars
  <2> SUFFICES ASSUME TypeInv, Next, handler # "none"
               PROVE  StepsLeft[pc'] < StepsLeft[pc]
    OBVIOUS
  <2>1. ~UserStep
    <3>1. UserStep => handler = "none"
      BY DEF UserStep, StartInterview, Submit, Retry, NextQuestion, NewInterview, Begin
    <3> QED
      BY <3>1
  <2> QED
    BY <2>1, HandlersLeadOn DEF Next
<1> QED
  BY <1>1, TypeInvariant, PTL DEF Spec
=============================================================================
