------------------------------ MODULE Answers -------------------------------
(***************************************************************************)
(* The answers of one interview, graded one after the other and then       *)
(* scored: ExecutionNode and EvaluationNode over the two executors, the    *)
(* evaluation of a written answer, and the aggregation of the report.      *)
(*                                                                         *)
(* Attempts are those of InterviewSession: a retry discards the result, so *)
(* only the last attempt of a question reaches the report.                 *)
(***************************************************************************)
EXTENDS HarnessRun, SqlRun, Scoring

CONSTANTS
  Plan,            \* the questions: a sequence of [kind, dim]
  Roles,           \* the roles a candidate may interview for
  WrittenScores    \* scores a written evaluation may give, of FullScore

ASSUME PlanAssumption ==
  Plan \in Seq([kind : {"coding", "database", "written"}, dim : Dimensions])
ASSUME RolesAssumption == Roles \subseteq DOMAIN RoleWeights
ASSUME ScoresAssumption == WrittenScores \subseteq 0 .. FullScore

VARIABLES
  results,         \* results_by_question, in the order of the plan
  report           \* the scoring snapshot, when there is one

vars == <<run, sql, results, report>>

NoReport == [role |-> "none", raw |-> 0, adjusted |-> 0, decision |-> 0, level |-> 0, probability |-> 0]
NoExecution == Ungraded("internal_error")

(* The question that is being answered.                                      *)
Current == Len(results) + 1
IsAnswering(kind) == Current <= Len(Plan) /\ Plan[Current].kind = kind

(* honest is history: the grade was read from the harness's lines alone.     *)
Executed(e) ==
  [dim |-> Plan[Current].dim, executed |-> TRUE, execution |-> e, honest |-> Honest,
   evaluated |-> TRUE, score |-> ExecutedScore(e)]

Written(evaluated, score) ==
  [dim |-> Plan[Current].dim, executed |-> FALSE, execution |-> NoExecution, honest |-> TRUE,
   evaluated |-> evaluated, score |-> score]

(* The validator of ExecutionResult raises for a grade that is not           *)
(* consistent, and the node records an internal error for what is raised.    *)
Validated_AsParsed(e) == e

Validated(e) == IF Consistent(e) THEN e ELSE Ungraded("internal_error")

Record(r) == results' = Append(results, r)

-----------------------------------------------------------------------------
(* ExecutionNode and EvaluationNode for a coding question.                   *)
SubmitCode ==
  /\ IsAnswering("coding")
  /\ StartRun
  /\ UNCHANGED <<sql, results, report>>

RunCode ==
  /\ RunStep
  /\ UNCHANGED <<sql, results, report>>

GradeCode ==
  /\ stage \in Ended
  /\ \E parsed \in {CodingResult} : \E grade \in {Validated(parsed)} : Record(Executed(grade))
  /\ BecomeRun(IdleRun)
  /\ UNCHANGED <<sql, report>>

(* The same for a database question.                                         *)
SubmitSql ==
  /\ IsAnswering("database")
  /\ StartSql
  /\ UNCHANGED <<run, results, report>>

RunSql ==
  /\ SqlStep
  /\ UNCHANGED <<run, results, report>>

GradeSql ==
  /\ sql_stage \in {"done", "raised"}
  /\ Record(Executed(SqlResult))
  /\ BecomeSql("idle", NoStatement)
  /\ UNCHANGED <<run, report>>

(* The engine raises: the node records an internal error for it.             *)
ExecutionUnavailable ==
  /\ IsAnswering("coding") \/ IsAnswering("database")
  /\ stage = "idle" /\ sql_stage = "idle"
  /\ Record(Executed(Ungraded("internal_error")))
  /\ UNCHANGED <<run, sql, report>>

(* WrittenEvaluationNode; without an evaluation - the call raised - the      *)
(* question stays without.                                                   *)
AnswerWritten ==
  /\ IsAnswering("written")
  /\ \/ \E s \in WrittenScores : Record(Written(TRUE, s))
     \/ Record(Written(FALSE, 0))
  /\ UNCHANGED <<run, sql, report>>

(* EvaluationAggregateNode: without any evaluation, or when the service      *)
(* raises, there is no snapshot.  The role is that of the setup; nothing     *)
(* before this reads it.                                                     *)
Reported == report # NoReport

AggregateReport ==
  /\ Current > Len(Plan) /\ ~Reported
  /\ ScoredDimensions(results) # {}
  /\ \E role \in Roles : report' = Snapshot(results, role)
  /\ UNCHANGED <<run, sql, results>>

Init ==
  /\ stage = "idle" /\ test = 1 /\ passed = [visible |-> 0, hidden |-> 0] /\ emitted = FALSE
  /\ stdout = <<>> /\ spilled = FALSE /\ returncode = 0 /\ truth = <<>> /\ spoiled = FALSE
  /\ sql_stage = "idle" /\ statement = NoStatement /\ seeded = TRUE /\ sql_results = <<>>
  /\ results = <<>>
  /\ report = NoReport

Next ==
  \/ SubmitCode \/ RunCode \/ GradeCode
  \/ SubmitSql \/ RunSql \/ GradeSql
  \/ ExecutionUnavailable \/ AnswerWritten \/ AggregateReport

(* The node is one call: its thread goes on, and subprocess.run keeps its    *)
(* timeout.  Nothing makes the child process go on, or the candidate answer. *)
KillCode == Timeout /\ UNCHANGED <<sql, results, report>>

Fairness == WF_vars(KillCode) /\ WF_vars(GradeCode) /\ WF_vars(RunSql) /\ WF_vars(GradeSql)

Spec == Init /\ [][Next]_vars /\ Fairness

-----------------------------------------------------------------------------
(* Properties.                                                               *)

TypeOK ==
  /\ stage \in {"idle"} \cup Running \cup Ended
  /\ test \in 1 .. Tests + 1
  /\ passed \in [visible : 0 .. Visible, hidden : 0 .. Hidden]
  /\ emitted \in BOOLEAN /\ spilled \in BOOLEAN /\ spoiled \in BOOLEAN
  /\ stdout \in Seq(Line_)
  /\ returncode \in {0, 1}
  /\ truth \in Seq(Outcome)
  /\ sql_stage \in SqlStage /\ statement \in Statement /\ seeded \in BOOLEAN
  /\ sql_results \in Seq(TestStatus)
  /\ report.role \in Roles \cup {"none"}
  /\ Len(results) <= Len(Plan)
  /\ \A i \in DOMAIN results : Consistent(results[i].execution)
  /\ report.decision \in 0 .. 3 /\ report.level \in 0 .. 3

(* As long as no line but the harness's looks like one of its own, the grade *)
(* of a finished coding answer is one the validator takes, and it never      *)
(* credits a test that the solution did not pass, wherever the solution      *)
(* leaves a line open, ends the process or hangs.  If besides it ran to the  *)
(* end and left no line open before a marker, the grade is the truth: every  *)
(* test counted, success exactly when all came out right, a runtime error    *)
(* exactly when a visible one raised and none raised with "Invalid           *)
(* signature" in the text, which makes it a failed test.                     *)
RightTests == CountOf({"right"}, truth)

GradeIsEarned ==
  stage \in Ended /\ Honest => Consistent(CodingResult) /\ CodingResult.passed <= RightTests

GradeIsTrue ==
  stage = "exited" /\ Len(truth) = Tests /\ Completed /\ Honest /\ ~spoiled =>
    LET CameOut(outcomes) == \E i \in 1 .. Visible : truth[i] \in outcomes
    IN /\ CodingResult.passed = RightTests /\ CodingResult.total = Tests
       /\ CodingResult.status = "success" <=> RightTests = Tests
       /\ CodingResult.status = "runtime_error" <=>
            CameOut({"raises"}) /\ ~CameOut({"signature"})

(* execution_result.py:49: never reveals the full hidden suite, only a       *)
(* single example - however many hidden tests fail, and even when the parser *)
(* cannot see the line.                                                      *)
IsSample(i) == stdout[i].marker = "sample" /\ stdout[i].own

HiddenStaysHidden ==
  \A i, j \in DOMAIN stdout : IsSample(i) /\ IsSample(j) => i = j

(* The three verdicts on one executed answer agree: EvaluationNode's score   *)
(* and passed flag, and the quality that hints and feedback recompute - for  *)
(* any time but a slow one, where a right answer is CORRECT at best.  A      *)
(* solution that prints markers may have more tests counted as passed than   *)
(* there are, and an error among them: its verdicts need not agree.          *)
VerdictsAgree ==
  \A i \in DOMAIN results :
    results[i].executed /\ results[i].honest =>
      LET e == results[i].execution
          ok == e.status = "success"
      IN /\ ok <=> results[i].score = FullScore
         /\ ok <=> Quality(e, "plain") = "optimal"
         /\ ok <=> Quality(e, "fast") = "optimal"
         /\ ok => Quality(e, "slow") = "correct"

(* A better written answer never lowers the score that is decided on.        *)
Rescored(i, s) == [results EXCEPT ![i].score = s]

BetterAnswersNeverHurt ==
  Reported =>
    \A i \in DOMAIN results, s \in WrittenScores :
      ~results[i].executed /\ results[i].evaluated /\ results[i].score <= s =>
        report.adjusted <= AdjustedScore(Rescored(i, s), report.role)

(* Every coding answer is graded: whatever the solution prints or does, the  *)
(* child process is ended and a result recorded.  SQL answers have no time   *)
(* limit.                                                                    *)
CodeIsGraded == \A n \in {m \in DOMAIN Plan : Plan[m].kind = "coding"} :
  (stage # "idle" /\ Current = n) ~> (Current = n + 1)
=============================================================================
