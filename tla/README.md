# AI Interview Simulator: specifications, model checks and proofs

The repository is a Gradio application that interviews a candidate. A handler of
the UI takes the session's `InterviewState`, runs a LangGraph over it, and yields
the state the next screen is drawn from. This directory holds TLA+ models of that
program, the TLC configurations that check them, and TLAPS proofs of the
properties that matter most.

## 1. The system

| Part | State it keeps | Operations | Talks to |
| --- | --- | --- | --- |
| UI handlers (`app/ui/state_handlers`) | none; the value of `gr.State` passes through | start, submit, retry, next / report, new interview | run the graph; draw screens with `UIStateMachine` |
| Interview graph (`app/graph`) | `InterviewState` (pydantic, copied on every update) | 17 nodes, routed by intent, question type, allowed actions | evaluation, feedback, generation, reasoner and close services |
| Humanizer (`services/humanizer`) | follow-up budget and flags inside `InterviewState` | rephrase, follow up | LLM |
| Execution (`infrastructure/execution`, `services/coding_engine`, `services/sql_engine`) | none | validate, route, run in a subprocess, compare | OS processes, SQLite |
| Evaluation and scoring (`services/*evaluation*`, `score_calculator`) | none | grade one answer; grade the interview | LLM |
| Reasoner (`services/interview_reasoner`) | evidence store, observation store, profile inside `InterviewState` | inject signals, detect, extract observations | feature engine, knowledge pipeline |
| Session close and report (`session_close_node`, `report_node`) | `SessionHistory`, report: written once | build history, narrative, coaching, report | longitudinal profile |
| Longitudinal profile (`infrastructure/longitudinal`) | one JSON file per candidate, shared by all sessions | get, build, save | file system |
| Replay (`app/ui/replay`) | `replay_runtime`: a closed history and a position in it | enter, move, exit | session history, the page |
| Question intelligence (`services/question_intelligence`, `services/question_corpus`) | retrieval memory inside `InterviewState`; a vector store | generate or select the next question | LLM, Chroma |
| LLM access (`infrastructure/llm`) | metrics | invoke, invoke JSON with repair and retry | provider |
| Process edge (`app/process_edge`, `infrastructure/health`) | draining flag, in-flight count, idle event | admit, release, drain, wait; readiness | uvicorn, signals |

What is hard about it: a handler is a generator that yields twice, so the screen is
drawn from a state the graph is still working on a copy of; any node may raise half
way and the handler answers with the state it held *before* the graph; the next
question does not exist until it is asked for, so "how many questions" has two
answers at every moment; two attempt limits, two follow-up pipelines and two ways to
be on the last question must agree; a closed interview must stay closed. Gradio runs the
handlers of different buttons at once over one `gr.State`. Between sessions: module
globals, files and locks that several threads use. An executed answer shares its process
and its standard output with the harness that grades it.

`PROJECT.json` lists every component, modelled or not, and the hazards with the
lines where they bite.

## 2. Modules

### InterviewSession: one browser session

`session` is the value of `gr.State`; `work` the copy the running handler's graph
works on; `handler` which handler that is; `pc` the graph node (or handler step)
that runs next. `InterviewState` is a record with the control fields of the class of
that name.

| In the module | In the code |
| --- | --- |
| `Begin`, `End` | first and last `yield` of a handler |
| `StartInterview`, `GenerateFirst`, `StartFails` | `start_interview`: clear, plan and generate, except branch |
| `Submit`, `SubmitEmpty`, `SubmitAnswer` | `submit_answer`: lock, empty-answer return, append and run |
| `Retry`, `NextQuestion`, `NewInterview` | the other handlers; their guards are the screens (`UiPhase`) and the buttons (`allowed`) |
| `Edge`, `RouteEntry`, `RouteByQuestionType` | `build_interview_graph` |
| `Execution` ... `Report` | one action per node, named after it |
| `GraphRaises` | an exception that leaves a node, and the handler's except branch |
| `Finish` | the tail of a handler after the graph returned |

Abstractions. Questions are positions; an answer is the number of its attempt; a
score is the quality class feedback derives from it; `Result.attempt` is a ghost
that remembers which attempt a result grades. A question's type comes from the plan,
which the code fixes at the start too. `hint`, `reasoner` and `longitudinal_update`
write nothing this record keeps and pass through. Only the adaptive mode is modelled:
`USE_BATCH_QUESTION_GENERATION` is `False` (`app/settings/constants.py:5`). One
handler runs at a time and a new interview starts only from a closed one; BrowserSession
lifts both.

`GraphRaises` is exact about what is lost: LangGraph works on copies, so an exception
leaves the session as the handler held it when it called the graph. For submit
that state has the new answer. Only the calls that no node protects can raise: the
evaluation LLM, the feedback builder, the enricher of a generated question.

### InterviewProtocol: what the candidate is promised

A state machine of a screen, a position, a total, the attempts and the verdict: an
answer is graded or visibly not graded; a question is left with a verdict that is not
failing, or with the attempts used up; the interview closes after the last planned
question. `ImplementsProtocol` in InterviewSession maps the session to it; handlers,
locks and half-done graphs are stuttering steps.

`MC_InterviewSession` holds the plans TLC uses, `ShortPlans`: three questions, every
neighbourhood of the two question types and a last question of each.

### BrowserSession: handlers that overlap, and the replay

EXTENDS InterviewSession with the page around it. A handler works on the copy it was
given, so only its yields meet those of others: the variables of InterviewSession are the
handler that computes, and its last yield waits in `late` until Gradio delivers it.

| In the module | In the code |
| --- | --- |
| `state` | the value of `gr.State`, what the next handler is given |
| `late` | for each listener, the last yield of its handler, not delivered yet |
| `page` | `report_section`, the replay section, whether the history list has an entry |
| `runtime` | `replay_runtime`: nothing, an error boundary, or a controller with a position |
| `overlapped` | history variable: a handler began on a screen another was about to replace |
| `Click`, `FirstYield` | a handler starts; all but `retry_answer` first yield a locked screen |
| `Compute`, `Deliver` | the graph runs; the last yield replaces whatever is there |
| `StartOver` | `new_interview`, from wherever the report section shows |
| `EnterFromReport`, `EnterFromHistory`, `NavigateForward`, `NavigateBackward`, `ExitReplay` | `replay_handlers`, `ReplayEntryPoint`, `ReplayViewController`, `ReplayLayoutCoordinator` |

Assumed of Gradio, which is external: a button is dead while its own handler is under way
(`trigger_mode` "once" per listener), a click is taken up at once and does not wait behind
other browsers, and the replay handlers, which neither yield twice nor call out, are
atomic. Computations are one after the other: they share nothing, so only the order
of their yields can be told apart.

### ExecutionResult, HarnessRun, SqlRun, Scoring, Answers: from an answer to a decision

`HarnessRun` is one run of a coding answer: the candidate's code and the generated harness
in one file, in one process, with one standard output that is parsed afterwards. `stage`
is where the child is, `stdout` what it printed, `truth` and `spoiled` are histories of what
really happened. `Load` ... `Summary`, `CandidateEnds` and `Timeout` follow the harness and the
sandbox, `Parsed` and `CodingResult` the parser. The candidate's code runs where the harness calls
it; there it may leave a line unfinished, end the process, never return, or print complete marker
lines of its own (`CandidatePrints`, any of the constant `Claims`), which the parser cannot tell
from the harness's. A line's `own` is history: `Honest` says that all are the harness's. An
exception has "Invalid signature" in its text or not, because the parser reads the text.
`Validated` is the validator of the grade together with the node that records an internal error
when it raises. `SqlRun` is one run of a SQL answer on an in-memory database, where
the candidate's statement and the reference share a cursor. Both end in an `ExecutionResult`.
`Scoring` is operators: score and quality of an execution, its signals, the dimension
scores, their weighted and gated mean, decision, level and hiring probability. `Answers`
composes the three: one question after the other, then the report.

Abstractions. How a test came out is modelled, not what it compares. What the candidate's code
does in threads or exit hooks of its own, by redefining names of the harness, or with output that
is not text is left out. Scores are integers
(sixtieths of a point, so that shares of up to six tests are exact) and round ties up.
Wording, percentile and the confidence of a score are left out.

### InterviewLength and QuestionSupply: which questions, and from where

`InterviewLength` is `interview_length_planner`: shares, floors and remainders, and the planned
areas. `QuestionSupply` is the path of one question: `start_interview` and the NEXT branch of
`AdaptiveNavigationNode`, the lazy adaptive service, the three pipelines with relaxation
stages, enrichment, retried generation, and the retrieval memory with its running average.
`process` holds the two module globals: the configured navigation node, and the counts of
first picks, which every session of the process shares (`OtherStart` is somebody else's).

Abstractions. The store is a constant, `Found`: what a search returns for a level, an area and
a stage. The formulas that rank candidates are left out, any may be first, except where the
pick tracker rotates equivalent ones. The pipelines' calls may raise, and the mapper may drop a
document as malformed, after a first pick of it was counted: a written area then generates, the others
try the next candidate. Theme, weak and covered domains, difficulty history, the
filter of duplicates within a session and the truncation of the scan only narrow `Found` and
are left out, as is the even split of HR interviews. Gradio 5.23 runs one call of a listener
at a time, so starts are serial (external).

### Reasoner: what an interview remembers

What `reasoner_node` accumulates while the interview goes on. `signals`, `history`,
`answered`, `observations` and `profile` are the evidence store, the reasoning history,
`session_metrics.questions_answered`, the observation store and the profile inside
`InterviewState`; `screen`, `question`, `attempts`, `asked` and `grades` are what it sees
of the interview, with the moves of the candidate that InterviewSession details.

| In the module | In the code |
| --- | --- |
| `Injected`, `HasEvaluation`, `Evaluated` | `_inject_evaluation_signals`, `EvaluationSignalWriter` |
| `Key`, `FilterNew` | `signal_idempotency` |
| `Bridged`, `Coverage`, `Consistency`, `Others` | `EvaluationSignalDetector`, `CoverageDetector`, `ConsistencyDetector`, the remaining detectors |
| `NewEvidence`, `AppendAll` | `ReasonerService._run_detectors`, `_propagate_evidence`, `EvidenceStore` |
| `WithEntry`, `Confidence` | `_append_reasoning_entry`, `reasoning_confidence` |
| `Observed`, `Fresh`, `Inserted` | `_run_observation_extraction`, `EvidenceSignalObservationRule`, `InMemoryObservationStore` |
| `Standing`, `Profiled` | `FeatureEngine` and its updaters' minima |
| `Reason`, `Skip`, `ReasonerFails` | a cycle, in which extraction and knowledge pipeline may each fail; one without an asked question; one that raised |

Abstractions. A score is its band (severe, weak, partial, strong): the writer tells no
more apart. Detectors not modelled one by one may emit any subset of `Patterns`; a
detector that raises is skipped by the service and is the empty subset. The order among a
detector's signals only decides what a full store drops, so it is arbitrary. An entry's
dominant dimension is dropped, which lets more pairs of entries count as a confidence
drop than the code does. A feature is the set of observations it stands on; its score and
confidence are not modelled.

### ShutdownDrain and DrainGate: leaving the process

`ShutdownDrainController` (`draining`, `in_flight`, `idle`, `last_outcome`, `lock`), the
requests inside `DrainMiddleware`, the SIGTERM handler and the lifespan's `finally` block.
The event loop and the signal handler share the main thread, so `try_admit` and `release`
are split where a signal can interrupt them (`Arrive`, `Count`, `Admit`; `Return`,
`Uncount`, `Released`) and the loop stands still while `handler` is true. `Sigterm` is the
delivery, `BeginDrain` the handler's `begin_drain` and `should_exit`, `Close` and
`GracefulEnd` uvicorn's own shutdown, `LifespanDrain`, `WaitForIdle` and `Stop` the rest.
uvicorn is external, modelled by its shutdown sequence. The model starts with the handler
installed; a second SIGTERM is delivered between handlers, never inside one.

DrainGate is the promise: requests enter while the gate is open, only leave once it is
shut, and the one report says "clean" exactly when nobody was left. `Gate` in
ShutdownDrain maps the controller to it.

### LongitudinalStore and ProfileRegister: between interviews

`longitudinal_update_node` of several interviews over the one profile file. `Close` is
`session_close_node`; `Load`, `Skip` and `Build` the node; `OpenTmp`, `WriteTmp` and
`Replace` the repository's `save`; `LoadFails` and `SaveFails` the exceptions the node
swallows, after which a temporary file may stay; `Crash` kills every session that is
closing and keeps the files. A kill of the process is modelled, a loss of power (the
code does not fsync) is not. ProfileRegister is the promise: a register each session
reads once and overwrites once, atomically, with what it read and its own entry.

## 3. Runs

| Run | What it shows |
| --- | --- |
| `session` | whole interviews: the properties below, and the refinement of InterviewProtocol |
| `browser` | overlapping handlers, late yields, starting over and replaying |
| `answers` | four questions graded by the two executors and the evaluation, then scored, for two roles |
| `supply` | interviews of two lengths whose questions are found one by one, beside other sessions |
| `reasoner` | the reasoner's memory over an interview with retries, failed gradings and failed cycles, until its stores are full |
| `drain` | three requests, two SIGTERMs, at the granularity of the lock: the controller implements DrainGate, and the drain ends |
| `longitudinal` | three interviews closing over one file, with failures and a kill at every step |
| `transcript`, `sigterm`, `wrong_question`, `not_recorded`, `own_seniority` | disagreements of the code with its own documents (section 5) |

The type invariants of InterviewSession, ShutdownDrain, LongitudinalStore and QuestionSupply are
proved (section 4) and not checked again. Every other invariant and action property of the passing
runs is both checked and proved; the five liveness properties are checked, and of each its safety
half is proved.

Properties of `session`:

- `FeedbackCoherent`: the feedback screen shows the verdict on the last answer to the
  question on screen. Hazard: results survive retries, failures and navigation.
- `NoDeadEnd`: the feedback screen has a button, although two attempt limits decide.
- `EveryClickReturns`: the loader is released on every path.
- `CompletedMeansAllGraded`, `HistoryIsWhole`, `CompletionOnlyOnRequest`: completion
  is decided by a node that runs after *every* navigation; it fires exactly for the
  report, with everything graded.
- `NoSkipping`: no incorrect answer is passed over early.
- `AnswersAreKept`, `ClosedForGood`: nothing submitted is lost; a closed interview
  does not change.
- `ImplementsProtocol`: all of it, as the candidate sees it.

Bounds. `MaxAttempts` is 3 in the code and 2 here: one attempt below the limit and one
at it are what the guards tell apart. `MaxSubmissions` = 3 exceeds it, so that attempts
pass the limit, as failed gradings make them do. Three questions give a first, a middle and
a last one.

Fairness. `WF_vars(HandlerStep)`: a handler that has started is iterated by Gradio to
its end, and every external call returns, raises or times out. The candidate is not
fair: nothing obliges anyone to click.

Properties of `browser`:

- `ScreensStayCoherent`: the invariants of `session`, of every screen that any order of
  deliveries leaves.
- `ReplayIsWhole`: a replay has a record for every question of its interview and stands at
  one of them, also after the state it came from is gone.
- `LocksKeepAnswers`: as long as nothing began while a retry was under way (which locks
  nothing) and nobody started over in the middle of a handler, no delivery takes back an
  answer or reopens a closed interview. The condition is not empty: without it TLC finds the
  retry that undoes an answer (section 5).
- `LoaderGoes`: a locked screen is always replaced by an unlocked one.

Bounds. Two written questions with retries (the types are mixed in `session`; here the
order of yields matters), two undelivered handlers and a third that computes. Fairness: a
handler returns (`Compute`), and the yields of each listener arrive (`Deliver`).

Properties of `answers`:

- `GradeIsEarned`: as long as no line of the solution's own starts with a marker, no grade
  credits more tests than came out right, and the validator takes it, wherever the solution leaves a
  line open, ends the process or hangs; `GradeIsTrue`: the grade of such a run that reached its end
  with no line left open before a marker is that of the tests as they came out. With a marker line of
  the solution's own both are false (section 5).
- `TypeOK` says besides the types that every recorded execution is one the validator takes, the
  solution's own marker lines included.
- `HiddenStaysHidden`: the harness shows one sample of the hidden tests at most.
- `VerdictsAgree`: the score and passed flag of `EvaluationNode` and the quality that feedback
  and hints compute again say the same of an executed answer, if the harness's lines alone made it.
- `BetterAnswersNeverHurt`: a better written answer never lowers the score the decision is
  made from. It is about written answers: of executed ones it is false (section 5).
- `CodeIsGraded`: every coding answer gets a grade, loops and exits included.

Bounds. Two visible and two hidden tests (first, later and last of each), two SQL tests, one
plan of four questions of all kinds, two roles with different weights, two written scores, on the two
sides of a gate. One marker line of the solution's own a run (`MaxClaims`), of two: a summary as
if all visible tests had passed, and one with more hidden tests passed than there are. That is
enough to make an undeserved success and a grade the validator refuses; the proofs are for any.
Deadlock is not checked: the interview ends, and an endless SQL statement stops the program.
Fairness: the sandbox keeps its timeout (`KillCode`; nothing else makes the child process step),
the grade of a process that ended is read, and the SQL executor's own steps are taken.

Properties of `supply`:

- `NoDocumentTwice`: through relaxation, fallbacks and failed enrichments no document is asked
  twice in an interview.
- `AverageIsTrue`: the running average, rounded every time from the rounded one, stays within
  a quarter thousandth per question of the scores' mean.
- `PicksRotate`: of two documents that are always equivalent, neither is ever two first picks
  ahead, whoever starts and whatever fails.
- `EachAreaGetsItsShare`: a whole interview has the chosen length, and every area less than
  two questions more or less than its share: one for rounding, one because the first question
  is of the easiest area.
- `EveryRequestEnds`: every start and every NEXT ends in a question or an error.

Bounds. Lengths 3 and 4 over three areas of 20, 40 and 40 percent (a floor of nothing and a
remainder), two levels, four documents with stages that find none, one and several;
`MaxStarts` = 3 and `MaxCounted` = 3 bound the process' life, which is why deadlock is not
checked. Fairness: `WF_vars(Supply)`, the steps of a request that has begun.

Properties of `reasoner`:

- `OneEvaluationPerIndex`, `KeysAreSettled`: a question graded again adds no second
  evaluation; a cycle only appends, and only signals whose key the store did not hold.
- `MissingIsReportedOnce`: a report of a missing dimension fills the gap it reports.
- `EvidenceIsObserved`: an extraction that adds anything catches up with the evidence of the
  current question. A cycle may fail before its extraction, or the extraction may fail and the
  cycle count its answer nevertheless (`reasoner_node.py:306-313`): what they leave behind is
  observed by the next extraction that succeeds at that question, if one comes, also when the store fills in the
  middle of a cycle.
- `ProfileOnlyGrows`: what a feature stands on is never lost within an interview.

Bounds. Three questions and two attempts, with a window of 2 that the third question
leaves; `MaxSignals` = 10 and `MaxEntries` = 3 (200 and 20 in the code) are reached, which
is what the boundary needs; two dimensions, one with evaluations and one without.
`MaxAttempts` also bounds the gradings that fail. `Patterns` has one positive signal, so
that evaluations can be contradicted. The reasoner cannot stop: there is no deadlock.

Properties of `drain`: `CountIsExact`, `NoAdmissionWhileDraining`, `CleanMeansIdle` (a clean
outcome leaves nobody behind, although the wait may time out at the moment the last request
leaves), `DrainEnds` and the refinement. `MaxSignals` bounds the SIGTERMs; three requests
let one be rejected, one run and one be inside the lock. Deadlock is not checked: the
process stops, or hangs in the way `sigterm` shows. Fairness: `WF` of the steps inside the
middleware's two critical sections and of the shutdown steps, which the event loop and
uvicorn run without waiting for anyone; a request may take forever, and the lifespan's
wait has a timeout.

Properties of `longitudinal`: `ProfileIsWhole` (a reader never meets half a file),
`OnlyRacersOverwrite` (a record is lost only to a session that loaded before there was a
profile) and the refinement. Three sessions are needed for a stale profile to be written over
a newer one; one kill (`MaxCrashes`) at any step leaves later sessions to run. Deadlock is not
checked: every session ends.

## 4. Proofs

`InterviewSession_proofs` proves for every set of plans and all limits:

- `TypeCorrectness`: `Spec => []TypeOK`, from `TypeInv`, which adds what keeps the index
  in the plan: while there is a question, `index < questions <= Len(planned_areas)`, and
  where `pc` may be for each handler.
- `FeedbackIsCoherent` and `FeedbackHasAWayOut`: `Spec => []FeedbackCoherent`,
  `Spec => []NoDeadEnd`. Neither is inductive: what makes the feedback screen right is
  established several nodes earlier. `GradingInv` says, node by node (`Stage`), what is
  already true of the working copy: before `evaluation` the result grades the
  current attempt, after `feedback` the bundle equals its quality, after `decision` the
  allowed actions are those of that bundle. Each node's proof is one step from its stage
  to the next.

Its second part: `EverythingIsGraded`, `HistoryIsComplete`, `NothingIsSkipped`,
`CompletionIsAskedFor`, `ClosedStaysClosed`, `AnswersSurvive` and `FollowUpsAreBudgeted`. A question
is only left from a feedback screen that offered to, so its result is that of its last answer.
`RecordInv` says so of both copies of the state (`Past` for the questions left, `Whole` for a closed
history), with what a running handler relies on at each node (`Serves`) and what it may not have
lost (`Kept`).

Its third part is the refinement: `SessionImplementsProtocol`, `Spec => ImplementsProtocol`.
Most steps are stuttering, and the one step that is not, a handler's last yield, replaces
the whole session. `LinkInv` says how the working copy stands to the session it
will replace, so that each last yield is one step of the protocol or a stutter. Last,
`ClicksAreShort`: no step of a handler leads back in the graph, so it ends within seventeen
(`StepsLeft`).

`BrowserSession_proofs`, for any number of pending handlers: `ScreensAreCoherent`, `ReplaysAreWhole`,
`LocksSuffice`. What the invariants above say of an idle session depends on that session alone
(`Good`, `EndIsGood`): any good state may be given to the next handler, and every yield, delivered
or not, is good. `Alone` says why the locks suffice: the screen of a handler under way is `Held`,
it offers nothing to click, so without an overlap there is one handler at most; what it yields is
`After` the state it was given. `Blank` (a history is empty until it is closed) and `Whole` make
a replay's records those of a whole plan. `LoadersAreOwed` and `LocksAreReleased`: a locked screen
has a handler under way, all that handlers leave behind unlocks, and nothing locks it again before.

`Answers_proofs`, for any number of tests, any plan, roles and scores:

- `OneSampleAtMost`, `NoTestIsGivenAway`, `TheGradeIsTrue`. `RunInv` holds of any run: the types, and
  the one sample. The others are about runs without a marker line of the solution's own, and
  such a line stays printed (`HonestBefore`), so their invariants are needed as long as the run is
  honest only (`HonestInv`). `EarnedInv`: the lines of passed tests are as many as the visible
  tests that passed, the totals never exceed the counters, and each is printed once. `TruthInv`: as
  long as no line is lost, the lines with an error are there exactly if a visible test raised, and
  the same of "Invalid signature".
- `EveryGradeIsConsistent`: `Spec => []TypeOK`. Of any run `RecordedGrade` says that what is recorded
  passes the validator, and of an honest one that it is a verdict: `CountInv` (the totals are those of
  the question, the lines of tests one more than its visible tests at most), `SqlInv` (the same for
  the SQL run) and `GradedInv` carry this to every result.
- `VerdictsAreOne`, under `FewTests`: fewer than fifty tests. It is not true of more: a fast run gains
  two points, as much as one test of fifty, and scores full marks with one failure. The code
  generates three hidden tests (`start.py:136`, `start.py:184`) and asks its prompts for visible ones
  without bounding them.
- `BetterNeverHurts`: raising one written score changes no other (`ReportInv` ties the report
  to the results it was made from); sums are monotone (SumFacts), and so is every rounding and both
  gates, which is checked against each combination of gates before and after.
- `RunsAreShort`: a coding answer is recorded after at most one step per test and five more, but for
  the lines the solution prints.

`SumFacts` has the lemmas on sums over finite sets. The library's induction theorems cannot be
instantiated here (they take an operator), so it starts from an induction over sets: a set of numbers
that has 0 and the successor of each of its members has them all. The folds of the community modules are unfolded by it.

`QuestionSupply_proofs`, for any corpus, levels and lengths: `TypesAreKept`, `NothingIsAskedTwice`
(the memory a handler works with holds every document asked, and its pool none of them),
`TheAverageIsTrue` (each rounding adds at most half a thousandth times the number of scores to the
error of the sum) and `FirstPicksRotate`. `SharesAreKept` is about the planner: floors and remainders
add up to the length (`CountsAddUp`), every area gets its floor or one more (`CountsFollowShares`),
the planned areas list each area that often (`PlannedIsListed`), and an interview follows its plan but
for its first question (`PlanInv`). `RequestsAreShort`: a request takes at most one step per
document, one per attempt and four more.

`ShutdownDrain_proofs`, for any finite set of requests and any number of signals:
`TypesAreKept`, `InFlightIsExact`, `EventIsTrue`, `CleanIsClean`, `DrainStopsAdmission` and
`DrainRefinesGate`. The invariant `Inv` says who is inside the lock (`LockInv`), what the event
is between its two updates (`IdleInv`), and what `draining` and the outcome tell of the
server (`DrainInv`, `OutcomeInv`). The count is a cardinality: `Move` says how the counted
requests change when one moves, and each action adds or removes at most one. `StuckForGood`: out of
`SelfDeadlock`, the state that `DrainEnds` excepts, nothing leads. `ProcessMovesOn`: every step takes a
request, the shutdown or the signals towards the end, and none takes any of them back.

`Reasoner_proofs`, for any number of questions, dimensions, patterns and sizes of the
stores: `EvaluatedOnce`, `MissingOnce` and `EvidenceIsSettled` rest on `EvidenceInv` and on two
descriptions of what happens to the store: `Grown`, an append of signals that are new when
they come one by one, and `Cycled`, an injection followed by two appends of the same new
signals. The detectors' results are bridged to them by lemmas that each returns only
signals whose key is not in the store. `ConfidenceRises` and `HistoryInStep` rest on
`HistoryInv`: the two properties are only inductive together, since no entry is above the
confidence of the count, which the last entry has. `StoresAreTyped`, `EvidenceGetsObserved`,
`ProfilesOnlyGrow`, `NewestObservationsAreActive` and `ObservationsHaveEvidence` are about the
extraction: `Observed` is described by what the provers can use (`InOrder`: the chosen signals, each
once, in the order of the store), `NewestIsActive` by the position of each observation among those of its
type and question, and what a feature stands on only by observations, which are never removed. A step
observes, misses (its extraction failed: the profile may still be computed anew), leaves the observations or forgets them.

`LongitudinalStore_proofs`, for any sessions and crashes: `WholeProfile`, `TrendsNeverShow`,
`RacersOverwrite`, `StoreRefinesRegister`. `SavedInv` carries them: a session that is saving
loaded no profile at all, since any entry has its index.

Assumptions are those on the constants: limits are positive, plans are not empty, sets of
requests, documents, dimensions and patterns are finite. Two say more. The planner's weights sum to
one (`SharesAssumption`; `app/settings/constants.py:45-53`). And a length is long enough
(`EnoughAssumption`): the easiest area has at least one question, and the guaranteed ones do not exceed the
length. The code offers 10, 20 and 30 (`app/ui/layout/layout_builder.py:17`), which are; of a shorter one the plan may leave
out the area that the interview starts with. Each module with an assumption is checked by a run, so
TLC evaluates it.

Left to TLC: liveness, since fairness and ENABLED are out of the provers' reach. Of each of the five
liveness properties the half that is about safety is proved: for `EveryClickReturns`, `CodeIsGraded`,
`EveryRequestEnds` and `DrainEnds` a measure that falls with every step (but for the lines a
solution prints), for `LoaderGoes` an
invariant that says whose yield ends the wait. What remains for TLC is that such a step can always be
taken. The properties of section 5 are false, so there is nothing of them to prove.

## 5. What the code does that its documents do not say

Each of these is a run with a counterexample:

1. `TranscriptMatchesResults` (`transcript`): after a retry the closed history shows the first
   answer beside the grade of the last.
2. `SigtermStopsTheProcess` (`sigterm`): `begin_drain` takes a lock in a Python signal handler, on
   the thread that may be holding it. A SIGTERM that interrupts `try_admit` or `release` hangs
   the process: neither the drain nor the exit happens.
3. `SignalsDescribeTheirQuestion` (`wrong_question`): the evaluation stored under question k is
   that of question k-1, because a question counts as asked only when navigation leaves it.
4. `EverySessionIsRecorded` (`not_recorded`): all interviews have index 0 of one candidate, so the
   second is taken for a repetition of the first and never stored.
5. `OwnSeniority` (`own_seniority`): after somebody else's start an interview goes on at that
   person's level, since the configured navigation node is one for the process.

Met while modelling, and in the models, but not stated as runs:

- The interview. Follow-ups happen at indices the selector did not permit: the permitted set is
  computed when one question exists, hence always empty, and the pipeline that is actually used
  does not look at it. After a failed generation the candidate is offered NEXT again, not the
  report that the comment at `adaptive_navigation_node.py:194` promises.
- Overlapping handlers. `retry_answer` (`navigation.py:36-40`, comment "LOCK UI") yields nothing
  before it works, so a retry that is overtaken can take back an answer or reopen a closed
  interview, against RI-07
  (`docs/master-plan/V1.2-RUNTIME-INTEGRATION-BLUEPRINT.md:439`, "SessionHistory is written exactly
  once per completed session").
- Replay. Leaving it always shows the report section, whatever screen it was entered from, and the
  screen it computes is not used, against I-C10-02
  (`docs/master-plan/epics/EPIC-04-DOMAIN-CONTRACTS.md:376`): Start New Interview can then discard
  an interview under way. From the history list it always shows the error panel: the default
  loader of `ui_bindings.py` returns nothing. An empty history would raise while composing.
- The reasoner. Two functions append the signals of a cycle, so each is stored twice
  (`reasoner_node.py:350`); features also stand on superseded observations
  (`feature_engine.py:234`); the confidence of the history never drops, so the detectors of drops
  are dead code; a cycle that fails keeps the evaluation it injected although
  `reasoner_node.py:18` says the original state is returned; a failed extraction at the last grading of a
  question leaves its signals unobserved for good (`reasoner_node.py:306-313`); `ReasoningHistory` has entries for
  the start and for retries, not one per answered question; `questions_answered` counts attempts;
  the comments at `evaluation_signal_writer.py:35-36` swap two bands.
- Grading code. The parser counts every line that starts with a marker, whoever printed it
  (`harness_output_parser.py:38-90`): a solution that prints a `__VISIBLE__` and a `__HIDDEN__`
  summary and ends the process is graded by them, and one whose counts contradict each other
  makes the validator raise and is recorded as an internal error. An exception of the solution whose
  text contains "Invalid signature" is read as a complaint about the parameters, so the grade says
  failed tests, not a runtime error (`harness_output_parser.py:112-138`). An unfinished line of the candidate's swallows the result line of the next test,
  so a failing visible test disappears and the grade can be a success; `exit(0)` in the middle is
  graded on the tests that ran; without an entry point there is one line for all visible tests; a
  wrong value without a JSON form is a runtime error; a failure of the sandbox is blamed on the
  answer; a syntax error is never reported as one.
- Grading SQL. There is no time limit, and a statement that writes changes what the reference and
  the later tests return.
- Scoring. `INEFFICIENT` is unreachable in `compute_quality`; with 50 tests or more, a fast run
  with one failure is `OPTIMAL`; negative execution signals are added as credit
  (`signal_extractor.py:53-79`), so failing a visible test can raise the overall score; the hiring
  probability uses the scores before normalisation, and is 0 for backend engineers without system
  design while the decision may be to hire; `decision_engine.py:75` computes a downgrade that line
  81 overwrites.
- Question supply. The theme anchor is dropped by both updates of the memory; the first question
  is of the easiest area while the plan is overwritten in declared order (`start.py:166`), so one
  area gets a question more and the first declared one fewer; a failed NEXT keeps the updated
  memory, so the same score is counted again; the relaxation stages never drop the area
  (`question-intelligence.md:102` says they do); generation starts while unasked documents remain,
  because they are filtered after the search; the pool of 5 of a fresh start is never reached with
  a search depth of 3.

## 6. Plan

Done: the interview with its promise, the overlapping handlers and the replay, with their proofs, the
execution and scoring of answers, the supply of questions with its planner, the reasoner, the
drain, the longitudinal store.

Left:

1. Session close: the pipeline's assembly of history, profile, narrative and coaching, to
   replace the single steps of InterviewSession.
2. Theorems that need a second look at the model: the guards under which each handler can always take
   a step, stated without ENABLED, to close the gap to the liveness properties.

Hazards no property covers, each with its reason in `PROJECT.json`: a Next that waits in the
queue of its listener and runs on the question screen (`navigation.py:62`), the endless SQL
statement (`sql_executor.py:70`), the statement that writes (`sql_executor.py:60`). The models have
the second and the third as steps; no document says what should happen.

### Not modelled

- LLM access: `invoke_json` has one caller in the interview, the narrative
  (`services/narrative_service.py`), with two attempts: a bounded loop within one call. Everywhere
  else the interview sees of a provider that a call returns, returns something unusable, or raises,
  which the actions that call it have as alternatives.
- Readiness probes, configuration, telemetry: no state of the interview.
- Narrative, coaching, hints, explanations, presentation, prompts: functions from records to
  wording or HTML. Which buttons there are is modelled.
- Corpus ingestion and the offline scripts under `scripts/`: audits and builders run by hand over
  files; with the presentation they are most of the repository's lines, which is why the mapped
  lines are a small share of it.
- The batch mode of generation and planning: switched off by a constant.
