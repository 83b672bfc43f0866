--------------------------- MODULE InterviewSession ---------------------------
(***************************************************************************)
(* One browser session of the interview: the Gradio handlers of            *)
(* app/ui/state_handlers, the LangGraph they run (app/graph), and the      *)
(* InterviewState record that travels between them.                        *)
(*                                                                         *)
(* `session` is the value of gr.State, what the UI is drawn from.  A       *)
(* handler takes a copy of it (`work`), runs the graph on the copy one     *)
(* node at a time, and only the final yield writes the copy back.  A node  *)
(* that raises discards the copy: the handler's except branch answers.     *)
(*                                                                         *)
(* Questions are numbered by their position; an answer is the number of    *)
(* its attempt; a score is the Quality class the feedback derives from it. *)
(***************************************************************************)
EXTENDS Naturals, Sequences, FiniteSets

CONSTANTS
  Plans,           \* the possible values of planned_areas: types of the questions
  MaxQuestions,    \* an upper bound on the length of a plan
  MaxAttempts,     \* MAX_RETRY_ATTEMPTS, and MAX_ATTEMPTS of the UI (3)
  MaxFollowUps,    \* MAX_FOLLOW_UPS_PER_INTERVIEW (2)
  MaxSubmissions   \* bound of the model: answers submitted to one question

QuestionType == {"written", "exec"}      \* "exec" stands for CODING and DATABASE

Slots == 0 .. MaxQuestions - 1

(* INTERVIEW_LENGTHS starts at ten questions: a plan never has a single one. *)
ASSUME PlansAssumption ==
  /\ MaxQuestions \in Nat \ {0}
  /\ \A p \in Plans : p \in Seq(QuestionType) /\ Len(p) \in 2 .. MaxQuestions

ASSUME LimitsAssumption ==
  /\ MaxAttempts \in Nat \ {0}
  /\ MaxFollowUps \in Nat
  /\ MaxSubmissions \in Nat

-----------------------------------------------------------------------------
(* What the state is made of.                                                *)

ExecutionQuality == {"incorrect", "partial", "correct", "optimal"}
WrittenQuality   == {"incorrect", "partial", "correct"}
NoQuality        == "none"
Quality          == ExecutionQuality \cup {NoQuality}

Action == {"RETRY", "NEXT", "GENERATE_REPORT"}
Intent == Action \cup {"SUBMIT", "NONE"}

(* A QuestionResult; `attempt` is the attempt it grades (the code keeps no   *)
(* such field: it is what the properties compare with the answers).          *)
Result == [execution : BOOLEAN, evaluation : BOOLEAN,
           quality : Quality, attempt : Nat]
NoResult == [execution |-> FALSE, evaluation |-> FALSE,
             quality |-> NoQuality, attempt |-> 0]

(* A SessionHistory: the questions it has a result record for, and, for each *)
(* question, the attempt whose answer the transcript keeps (0: none).        *)
History == [closed : BOOLEAN, results : SUBSET Slots, transcript : [Slots -> Nat]]
NoHistory == [closed |-> FALSE, results |-> {}, transcript |-> [i \in Slots |-> 0]]

InterviewState ==
  [planned_areas  : Plans \cup {<<>>},
   questions      : Nat,               \* len(questions)
   index          : Slots,             \* current_question_index
   asked          : SUBSET Slots,      \* asked_question_ids
   answers        : [Slots -> Nat],    \* answers submitted to each question
   results        : [Slots -> Result], \* results_by_question
   shown          : Nat,               \* len(chat_history)
   awaiting       : BOOLEAN,           \* awaiting_user_input
   processing     : BOOLEAN,           \* is_processing
   intent         : Intent,
   allowed        : SUBSET Action,     \* allowed_actions
   bundle         : Quality,           \* last_feedback_bundle.overall_quality
   context        : Quality,           \* last_question_context.quality_rank
   follow_ups     : Nat,               \* follow_up_count
   last_follow_up : BOOLEAN,           \* last_humanizer_follow_up
   completed      : BOOLEAN,           \* is_completed
   scored         : BOOLEAN,           \* scoring_snapshot is set
   history        : History,           \* session_history
   report         : BOOLEAN]           \* report is set

(* InterviewState.create_empty() *)
EmptyState ==
  [planned_areas |-> <<>>, questions |-> 0, index |-> 0, asked |-> {},
   answers |-> [i \in Slots |-> 0], results |-> [i \in Slots |-> NoResult],
   shown |-> 0, awaiting |-> FALSE, processing |-> FALSE, intent |-> "NONE",
   allowed |-> {}, bundle |-> NoQuality, context |-> NoQuality,
   follow_ups |-> 0, last_follow_up |-> FALSE, completed |-> FALSE,
   scored |-> FALSE, history |-> NoHistory, report |-> FALSE]

(* InterviewState.create_initial() with the one question generated at start. *)
InitialState(plan) == [EmptyState EXCEPT !.planned_areas = plan, !.questions = 1]

VARIABLES
  session,    \* gr.State
  work,       \* the handler's copy; equal to session while no handler runs
  handler,    \* the Gradio handler that is running
  pc          \* the graph node (or handler step) that runs next

vars == <<session, work, handler, pc>>

Handler == {"none", "start", "submit", "retry", "next", "report"}
Node == {"entry", "router", "execution", "evaluation", "hint", "written",
         "feedback", "reasoner", "decision", "start_processing", "navigation",
         "question", "completion", "evaluation_aggregate", "session_close",
         "report", "longitudinal_update"}
Step == Node \cup {"idle", "generate", "prepare", "finish"}

-----------------------------------------------------------------------------
(* Reading the state.                                                        *)

Has(s) == s.index < s.questions            \* current_question is not None

(* Mutations - here and below, definitions with a suffix - are plausible     *)
(* bugs of the definition that follows them; nothing else uses them.         *)
PlannedTotal_Generated(s) == s.questions

PlannedTotal(s) == IF s.planned_areas # <<>> THEN Len(s.planned_areas)
                                             ELSE s.questions

OnLast(s)    == s.index >= PlannedTotal(s) - 1
Attempts(s)  == s.answers[s.index]
Answered(s)  == Attempts(s) > 0
Current(s)   == s.results[s.index]
IsWritten(s) == s.planned_areas[s.index + 1] = "written"

UiPhase_NoCompletion(s) ==
  IF ~Has(s) THEN "SETUP"
  ELSE IF s.processing THEN "PROCESSING"
  ELSE IF s.allowed # {} /\ s.bundle # NoQuality THEN "FEEDBACK" ELSE "QUESTION"

UiPhase(s) ==
  CASE s.report          -> "REPORT"
    [] ~s.report /\ s.completed -> "COMPLETION"
    [] ~s.report /\ ~s.completed /\ ~Has(s) -> "SETUP"
    [] OTHER -> IF s.processing THEN "PROCESSING"
                ELSE IF s.allowed # {} /\ s.bundle # NoQuality THEN "FEEDBACK"
                ELSE "QUESTION"

-----------------------------------------------------------------------------
(* Handlers: how one begins and how one ends.                                *)

(* A handler that first yields the locked state: that yield is `shown`.      *)
Begin(h, step, shown, copy) ==
  /\ handler = "none"
  /\ handler' = h
  /\ pc' = step
  /\ session' = shown
  /\ work' = copy

(* The last yield of a handler.                                              *)
End(s) ==
  /\ handler' = "none"
  /\ pc' = "idle"
  /\ session' = s
  /\ work' = s

Locked(s, intent) ==
  [s EXCEPT !.intent = intent, !.processing = TRUE, !.awaiting = FALSE]
Unlocked(s, awaiting) ==
  [s EXCEPT !.intent = "NONE", !.processing = FALSE, !.awaiting = awaiting]

StartInterview ==
  /\ UiPhase(session) = "SETUP"
  /\ Begin("start", "generate", EmptyState, EmptyState)

(* The question generator is called before there is a state to run on.       *)
GenerateFirst ==
  /\ pc = "generate"
  /\ \E plan \in Plans : work' = InitialState(plan)
  /\ pc' = "entry"
  /\ UNCHANGED <<session, handler>>

(* start_interview catches what the generation raises and shows the setup    *)
(* screen again; the graph's first run makes no call that could raise.       *)
StartFails ==
  /\ pc = "generate"
  /\ End(EmptyState)

Submit ==
  /\ UiPhase(session) = "QUESTION"
  /\ LET locked == Locked(session, "SUBMIT")
     IN  Begin("submit", "prepare", locked, locked)

SubmitEmpty ==
  /\ pc = "prepare"
  /\ End([work EXCEPT !.awaiting = TRUE, !.processing = FALSE])

SubmitAnswer ==
  /\ pc = "prepare"
  /\ Attempts(work) < MaxSubmissions
  /\ work' = [work EXCEPT !.answers[work.index] = @ + 1]
  /\ pc' = "entry"
  /\ UNCHANGED <<session, handler>>

(* The button is drawn from allowed_actions and from the UI's own attempt    *)
(* limit; the handler does not yield a locked state first.                   *)
Retry ==
  /\ UiPhase(session) = "FEEDBACK"
  /\ "RETRY" \in session.allowed
  /\ Attempts(session) < MaxAttempts
  /\ Begin("retry", "entry", session, Locked(session, "RETRY"))

NextQuestion ==
  /\ UiPhase(session) = "FEEDBACK"
  /\ session.allowed \cap {"NEXT", "GENERATE_REPORT"} # {}
  /\ LET isReport == "GENERATE_REPORT" \in session.allowed
         locked == Locked(session, IF isReport THEN "GENERATE_REPORT" ELSE "NEXT")
     IN  Begin(IF isReport THEN "report" ELSE "next", "entry", locked, locked)

NewInterview ==
  /\ handler = "none"
  /\ UiPhase(session) \in {"REPORT", "COMPLETION"}
  /\ End(EmptyState)

(* The graph returned: the handler unlocks the UI and yields.                *)
Finish ==
  /\ pc = "finish"
  /\ End(Unlocked(work, IF handler = "report" THEN work.awaiting ELSE TRUE))

-----------------------------------------------------------------------------
(* The graph.                                                                *)

(* The edges that do not look at the state.                                  *)
Edge == [execution |-> "evaluation", evaluation |-> "hint", hint |-> "feedback",
         written |-> "feedback", feedback |-> "reasoner", reasoner |-> "decision",
         start_processing |-> "navigation", navigation |-> "question",
         question |-> "completion", completion |-> "evaluation_aggregate",
         session_close |-> "report", report |-> "longitudinal_update",
         longitudinal_update |-> "finish"]

Goto(node, s) == pc' = node /\ work' = s /\ UNCHANGED <<session, handler>>
Leave(s) == Goto(Edge[pc], s)

RouteEntry ==
  /\ pc = "entry"
  /\ Goto(IF work.intent \in Action THEN "start_processing" ELSE "router", work)

RouteByQuestionType ==
  /\ pc = "router"
  /\ Goto(IF IsWritten(work) THEN "written" ELSE "execution", work)

(* A crash of the executor is a result too: INTERNAL_ERROR, "incorrect".     *)
Execution ==
  /\ pc = "execution"
  /\ IF Answered(work) /\ ~IsWritten(work) /\ ~Current(work).execution
     THEN \E q \in ExecutionQuality :
            Leave([work EXCEPT !.results[work.index] =
                     [execution |-> TRUE, evaluation |-> @.evaluation,
                      quality |-> q, attempt |-> Attempts(work)]])
     ELSE Leave(work)

Evaluation ==
  /\ pc = "evaluation"
  /\ Leave(IF Current(work).execution
           THEN [work EXCEPT !.results[work.index].evaluation = TRUE]
           ELSE work)

(* An unparsable reply scores 0, which is one more way to be "incorrect".    *)
WrittenEvaluation ==
  /\ pc = "written"
  /\ IF Answered(work) /\ ~Current(work).evaluation
     THEN \E q \in WrittenQuality :
            Leave([work EXCEPT !.results[work.index] =
                     [execution |-> @.execution, evaluation |-> TRUE,
                      quality |-> q, attempt |-> Attempts(work)]])
     ELSE Leave(work)

Feedback ==
  /\ pc = "feedback"
  /\ Leave(IF Current(work) # NoResult
           THEN [work EXCEPT !.bundle = Current(work).quality]
           ELSE work)

(* Nodes that write nothing this record keeps: the hint, the reasoner's      *)
(* memory, the longitudinal profile.                                         *)
PassThrough ==
  /\ pc \in {"hint", "reasoner", "longitudinal_update"}
  /\ Leave(work)

Decide_RetryAtLimit(quality, attempts) ==
  IF quality = "incorrect" /\ attempts <= MaxAttempts THEN "RETRY" ELSE "NEXT"
Decide_OneRetryLess(quality, attempts) ==
  IF quality = "incorrect" /\ attempts + 1 < MaxAttempts THEN "RETRY" ELSE "NEXT"

(* DecisionPolicy.decide                                                     *)
Decide(quality, attempts) ==
  IF quality = "incorrect" /\ attempts < MaxAttempts THEN "RETRY" ELSE "NEXT"

AllowedActions(s) ==
  IF Decide(s.bundle, Attempts(s)) = "RETRY" THEN {"RETRY"}
  ELSE {IF OnLast(s) THEN "GENERATE_REPORT" ELSE "NEXT"}
         \cup (IF Attempts(s) < MaxAttempts THEN {"RETRY"} ELSE {})

Decision ==
  /\ pc = "decision"
  /\ IF work.bundle # NoQuality
     THEN Goto("finish", [work EXCEPT !.allowed = AllowedActions(work), !.intent = "NONE",
                                      !.awaiting = TRUE, !.processing = FALSE])
     ELSE Goto(IF work.awaiting THEN "finish" ELSE "navigation", work)

StartProcessing ==
  /\ pc = "start_processing"
  /\ Leave([work EXCEPT !.processing = TRUE])

(* AdaptiveNavigationNode on NEXT: the next question is generated, or the    *)
(* generation fails and the node stays, or moves within what there is.       *)
NextArea(s) == s.index + 1 >= s.questions /\ s.questions < PlannedTotal(s)

MarkAsked(s) == [s EXCEPT !.asked = @ \cup {s.index}]

Forward_KeepsFeedback(s) ==
  [MarkAsked(s) EXCEPT !.index = @ + 1, !.context = s.bundle,
                       !.awaiting = TRUE, !.intent = "NONE"]

Forward(s) ==
  [MarkAsked(s) EXCEPT !.index = @ + 1, !.context = s.bundle, !.bundle = NoQuality,
                       !.allowed = {}, !.awaiting = TRUE, !.intent = "NONE"]
Stay(s) == [MarkAsked(s) EXCEPT !.awaiting = TRUE, !.intent = "NONE"]

WithinGenerated(s) == IF s.index + 1 < s.questions THEN Forward(s) ELSE Stay(s)

NavigateNext ==
  IF NextArea(work)
  THEN \/ Leave(Forward([work EXCEPT !.questions = @ + 1]))
       \/ Leave(WithinGenerated(work))
  ELSE Leave(WithinGenerated(work))

Cleared_KeepsResult(s) ==
  [s EXCEPT !.bundle = NoQuality, !.allowed = {}, !.awaiting = TRUE, !.intent = "NONE"]

Cleared(s) ==
  [s EXCEPT !.results[s.index] = NoResult, !.bundle = NoQuality, !.allowed = {},
            !.awaiting = TRUE, !.intent = "NONE"]

Navigation ==
  /\ pc = "navigation"
  /\ CASE work.intent = "RETRY" -> Leave(Cleared(work))
       [] work.intent = "NEXT"  -> NavigateNext
       [] work.intent = "GENERATE_REPORT" ->
            Leave([work EXCEPT !.awaiting = FALSE, !.intent = "NONE"])
       [] OTHER -> Leave(work)

(* What FollowUpSelector may choose from, given the number of questions it   *)
(* is called with: neither the first nor the last.  start_interview passes   *)
(* the number of questions that exist when it starts, which is one.          *)
FollowUpCandidates(total) == {i \in Slots : 0 < i /\ i + 1 < total}
EligibleIndices == FollowUpCandidates(1)

LastQuality(s) == IF s.bundle # NoQuality THEN s.bundle ELSE s.context

(* HumanizerPolicyEngine.decide = FOLLOW_UP: rank 4 is OPTIMAL alone.        *)
PolicyFollowsUp(s) ==
  /\ s.follow_ups < MaxFollowUps
  /\ ~s.last_follow_up
  /\ LastQuality(s) = "optimal"

EligibleFollowUp(s) == s.index \in EligibleIndices /\ s.follow_ups < MaxFollowUps

(* Whether the turn may be a follow-up: the LLM can fail in either pipeline, *)
(* and the guard can reject, which leaves the plain question.                *)
FollowUpTurns(s) ==
  {FALSE} \cup {f \in {TRUE} : PolicyFollowsUp(s) \/ EligibleFollowUp(s)}

Question ==
  /\ pc = "question"
  /\ IF ~Has(work) \/ work.index < work.shown THEN Leave(work)
     ELSE IF ~IsWritten(work) THEN Leave([work EXCEPT !.shown = @ + 1])
     ELSE \E followUp \in FollowUpTurns(work) :
            Leave([work EXCEPT !.shown = @ + 1, !.last_follow_up = followUp,
                               !.follow_ups = IF followUp THEN @ + 1 ELSE @])

Completion_OnArrival ==
  /\ pc = "completion"
  /\ Leave(IF OnLast(work) /\ work.questions >= PlannedTotal(work)
           THEN [work EXCEPT !.completed = TRUE]
           ELSE work)

Completion ==
  /\ pc = "completion"
  /\ Leave(IF OnLast(work) /\ work.questions >= PlannedTotal(work) /\ ~work.awaiting
           THEN [work EXCEPT !.completed = TRUE]
           ELSE work)

EvaluationAggregate_Loops ==
  /\ pc = "evaluation_aggregate"
  /\ IF ~work.completed THEN Goto("navigation", work)
     ELSE \E ok \in BOOLEAN : Goto("session_close", [work EXCEPT !.scored = ok, !.intent = "NONE"])

(* The scoring service may fail; then the interview closes without a score.  *)
EvaluationAggregate ==
  /\ pc = "evaluation_aggregate"
  /\ IF ~work.completed \/ work.scored
     THEN Goto(IF work.completed THEN "session_close" ELSE "finish", work)
     ELSE \E ok \in {FALSE, \E i \in Slots : work.results[i] # NoResult} :
            Goto("session_close", [work EXCEPT !.scored = ok, !.intent = "NONE"])

HistoryOf_ButLast(s) ==
  [closed |-> TRUE,
   results |-> {i \in Slots : i < s.index /\ s.results[i].evaluation},
   transcript |-> [i \in Slots |-> IF s.answers[i] > 0 THEN 1 ELSE 0]]

(* _build_question_results skips a question without an evaluation;           *)
(* _build_transcript takes the first answer to each question.                *)
HistoryOf(s) ==
  [closed |-> TRUE,
   results |-> {i \in Slots : i < s.questions /\ s.results[i].evaluation},
   transcript |-> [i \in Slots |-> IF s.answers[i] > 0 THEN 1 ELSE 0]]

SessionClose ==
  /\ pc = "session_close"
  /\ \/ Leave(IF work.history.closed THEN work
              ELSE [work EXCEPT !.history = HistoryOf(work)])
     \/ Leave(work)                      \* the pipeline failed or raised

Report ==
  /\ pc = "report"
  /\ \E built \in {FALSE, work.history.closed} :
       Leave([work EXCEPT !.report = @ \/ built, !.processing = FALSE])

(* A node raises: the evaluation LLM, the feedback builder, the enricher of  *)
(* a generated question.  The copy is lost; the handler's except branch      *)
(* unlocks what it held when it called the graph: for Submit the session     *)
(* with the new answer, for Next the session as it was.                      *)
CanRaise ==
  \/ pc = "written" /\ Answered(work) /\ ~Current(work).evaluation
  \/ pc = "feedback" /\ Current(work) # NoResult
  \/ pc = "navigation" /\ work.intent = "NEXT" /\ NextArea(work)

BeforeGraph_DropsAnswer == session

BeforeGraph ==
  IF handler = "submit" THEN [session EXCEPT !.answers[session.index] = @ + 1]
                        ELSE session

GraphRaises_RunsAgain == CanRaise /\ Goto("entry", BeforeGraph)

GraphRaises ==
  /\ CanRaise
  /\ End(Unlocked(BeforeGraph, TRUE))

-----------------------------------------------------------------------------
Init ==
  /\ session = EmptyState
  /\ work = EmptyState
  /\ handler = "none"
  /\ pc = "idle"

(* What the candidate does.                                                  *)
UserStep == StartInterview \/ Submit \/ Retry \/ NextQuestion \/ NewInterview

GraphStep ==
  \/ RouteEntry \/ RouteByQuestionType
  \/ Execution \/ Evaluation \/ WrittenEvaluation \/ Feedback \/ PassThrough
  \/ Decision \/ StartProcessing \/ Navigation \/ Question \/ Completion
  \/ EvaluationAggregate \/ SessionClose \/ Report \/ GraphRaises

HandlerStep ==
  \/ GenerateFirst \/ StartFails \/ SubmitEmpty \/ SubmitAnswer
  \/ GraphStep
  \/ Finish

Next == UserStep \/ HandlerStep

(* A handler that runs keeps running: it is a Python generator that Gradio   *)
(* iterates, and every call it makes returns or times out.  The candidate    *)
(* owes nothing.                                                             *)
Spec == Init /\ [][Next]_vars /\ WF_vars(HandlerStep)

-----------------------------------------------------------------------------
(* Types.                                                                    *)
TypeOK ==
  /\ session \in InterviewState
  /\ work \in InterviewState
  /\ handler \in Handler
  /\ pc \in Step

-----------------------------------------------------------------------------
(* Safety.                                                                   *)

(* What the feedback screen shows is the verdict on the last answer the      *)
(* candidate gave to the question on screen: never the verdict of an earlier *)
(* attempt, of a submission that failed, or of the previous question.        *)
FeedbackCoherent ==
  UiPhase(session) = "FEEDBACK" =>
    /\ session.bundle = Current(session).quality
    /\ Current(session).attempt = Attempts(session)

(* The feedback screen always leaves the candidate a button.  Retry is drawn *)
(* only below the attempt limit, and for a correct answer only when its      *)
(* score is under 100, which does not count as a way out; Next needs NEXT or *)
(* GENERATE_REPORT among the allowed actions.                                *)
NoDeadEnd ==
  UiPhase(session) = "FEEDBACK" =>
    \/ session.allowed \cap {"NEXT", "GENERATE_REPORT"} # {}
    \/ /\ "RETRY" \in session.allowed
       /\ Attempts(session) < MaxAttempts
       /\ session.bundle \notin {"correct", "optimal"}

(* An interview is only ever completed with every planned question asked,    *)
(* answered and evaluated, and the results it closes with are the ones of    *)
(* the last answers.                                                         *)
CompletedMeansAllGraded ==
  session.completed =>
    /\ session.questions = PlannedTotal(session)
    /\ \A i \in 0 .. PlannedTotal(session) - 1 :
         /\ session.results[i].evaluation
         /\ session.results[i].attempt = session.answers[i]

(* A closed history has a result record for every planned question: the      *)
(* question the candidate was on when asking for the report is not lost.     *)
HistoryIsWhole ==
  session.history.closed =>
    session.history.results = {i \in Slots : i < PlannedTotal(session)}

(* The candidate is never moved past a question whose answer is incorrect    *)
(* while attempts are left.                                                  *)
NoSkipping ==
  \A i \in Slots :
    i < session.index => \/ session.results[i].quality # "incorrect"
                         \/ session.answers[i] >= MaxAttempts

(* Follow-up turns stay within the interview's budget, whichever of the two  *)
(* pipelines of the question node made them.                                 *)
FollowUpBudget == work.follow_ups <= MaxFollowUps

-----------------------------------------------------------------------------
(* Action properties.                                                        *)

(* Only a handler that was asked for the report completes an interview.      *)
CompletionOnlyOnRequest ==
  [][~work.completed /\ work'.completed => handler = "report"]_vars

(* Single writers: the history, the score and the report are written once;   *)
(* what comes after is a new interview.                                      *)
ClosedForGood ==
  [][session.completed =>
       \/ session' = EmptyState
       \/ /\ session'.completed
          /\ session'.history = session.history
          /\ session'.scored = session.scored
          /\ session'.report = session.report]_vars

(* No submitted answer is lost: whatever the graph did and wherever it       *)
(* stopped, the handler gives back every answer it had taken, unless it      *)
(* gives back an empty session.                                              *)
AnswersAreKept ==
  [][handler' = "none" /\ session' # EmptyState =>
       \A i \in Slots : session'.answers[i] >= work.answers[i]]_vars

-----------------------------------------------------------------------------
(* Liveness.                                                                 *)

(* Every click is answered: a handler that starts yields its last state, so  *)
(* that the loader does not stay on screen.                                  *)
EveryClickReturns == handler # "none" ~> handler = "none"

-----------------------------------------------------------------------------
(* The interview the candidate sees implements the protocol: the handlers,   *)
(* locks and half-done graphs between two screens are stuttering steps.      *)

Screen ==
  CASE session.report \/ session.completed -> "closed"
    [] ~(session.report \/ session.completed) /\ ~Has(session) -> "setup"
    [] OTHER -> IF session.allowed # {} /\ session.bundle # NoQuality
                THEN "feedback" ELSE "question"

Protocol ==
  INSTANCE InterviewProtocol
    WITH Totals <- {Len(p) : p \in Plans}, Verdicts <- ExecutionQuality,
         Failing <- "incorrect", NoVerdict <- NoQuality,
         screen <- Screen, current <- session.index, total <- PlannedTotal(session),
         tries <- Attempts(session), verdict <- session.bundle

(* Every change of what the candidate sees is a step of InterviewProtocol:   *)
(* in particular no failure grades, skips, repeats or closes anything.       *)
ImplementsProtocol == Protocol!ProtocolSpec

-----------------------------------------------------------------------------
(* What the documents say and the code does not do.                          *)

(* adr-017:539: SessionHistory is "the complete historical record of one     *)
(* completed session": the answer it keeps is the one its result grades.     *)
TranscriptMatchesResults ==
  \A i \in session.history.results :
    session.history.transcript[i] = session.results[i].attempt
=============================================================================
