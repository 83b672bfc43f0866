------------------------------ MODULE Scoring -------------------------------
(***************************************************************************)
(* From graded questions to the verdict of the report, as operators: the   *)
(* evaluation of one answer, its quality, the execution signals, the       *)
(* dimension scores, their weighted mean, the gates and the decision.      *)
(*                                                                         *)
(* A question's score is in 1/60 of a point, so that the share of passed   *)
(* tests is exact for up to six tests; the code rounds afterwards, as here,*)
(* to tenths of a point (signals to hundredths).  Round takes ties up:     *)
(* binary floats may take them either way.  The percentile and the         *)
(* confidence, an error function and a variance, are left out; so is the   *)
(* signal of slow runs, that only concerns SYSTEM_DESIGN, which no         *)
(* executed question has: it never reaches a score.                        *)
(***************************************************************************)
EXTENDS ExecutionResult, Integers, FiniteSets, FiniteSetsExt

Round(a, b) == (2 * a + b) \div (2 * b)

Least(a, b) == IF a <= b THEN a ELSE b
Most(a, b) == IF a >= b THEN a ELSE b

SumOf(f(_), S) == MapThenSumSet(f, S)

-----------------------------------------------------------------------------
(* One answer.                                                               *)

FullScore == 60 * 100

(* EvaluationNode.                                                           *)
ExecutedScore(e) ==
  IF e.total > 0 THEN (e.passed * FullScore) \div e.total
  ELSE IF e.status = "success" THEN FullScore ELSE 0

(* compute_quality, of an execution faster than EXECUTION_FAST_MS, slower    *)
(* than EXECUTION_SLOW_MS, or neither.  Mutations - here and below,          *)
(* definitions with a suffix - are plausible bugs of the definition that     *)
(* follows them; nothing else uses them.                                     *)
Time == {"fast", "plain", "slow"}

TimedScore_NotCapped(e, time) ==
  LET exact == (e.passed * FullScore) \div e.total
  IN CASE time = "slow" -> exact - 5 * 60
       [] time = "fast" -> exact + 2 * 60
       [] OTHER -> exact

TimedScore(e, time) ==
  LET exact == (e.passed * FullScore) \div e.total
      timed == CASE time = "slow" -> exact - 5 * 60
                 [] time = "fast" -> exact + 2 * 60
                 [] OTHER -> exact
  IN Most(0, Least(FullScore, timed))

Quality(e, time) ==
  IF e.total = 0 THEN "incorrect"
  ELSE LET s == TimedScore(e, time)
       IN IF s = FullScore THEN (IF time = "slow" THEN "inefficient" ELSE "optimal")
          ELSE IF s >= 80 * 60 THEN "correct"
          ELSE IF s >= 50 * 60 THEN "partial" ELSE "incorrect"

(* ExecutionAnalyzer.                                                        *)
ErrorType(e) ==
  IF e.status = "failed_tests" /\ CountOf({"signature"}, e.tests) > 0 THEN "signature"
  ELSE IF e.status = "runtime_error" \/ CountOf({"error"}, e.tests) > 0 THEN "runtime"
  ELSE IF CountOf({"failed"}, e.tests) > 0 THEN "logic" ELSE "unknown"

IsPerfect(e) == e.status # "runtime_error" /\ e.total > 0 /\ e.passed = e.total

PassRateIsHigh(e) ==
  e.status # "runtime_error" /\ e.total > 0 /\ 10 * e.passed > 7 * e.total

-----------------------------------------------------------------------------
(* Execution signals, in hundredths.  SignalExtractor takes the kind of the  *)
(* error, each test that failed and each that met an error for signals of    *)
(* the same sign as a perfect run.                                           *)
Dimensions == {"technical_depth", "problem_solving", "system_design", "communication"}

Signal(e, dim) ==
  LET failed == CountOf({"failed"}, e.tests)
      errors == CountOf({"error", "signature"}, e.tests)
      solving == (IF ErrorType(e) = "logic" THEN 60 ELSE 0)
                 + 20 * failed
                 + (IF e.total > 0 THEN Round(40 * failed, e.total) ELSE 0)
                 + (IF IsPerfect(e) THEN 60 ELSE IF PassRateIsHigh(e) THEN 40 ELSE 0)
      depth == (IF ErrorType(e) \in {"runtime", "signature"} THEN 60 ELSE 0)
               + 30 * errors
               + (IF IsPerfect(e) THEN 40 ELSE 0)
  IN CASE dim = "problem_solving" -> Least(100, solving)
       [] dim = "technical_depth" -> Least(100, depth)
       [] OTHER -> 0

(* The interview: a sequence of graded questions, each with its dimension,   *)
(* whether it was executed, its execution, and whether and how it was        *)
(* evaluated.                                                                *)
SumSignals(rs, dim) ==
  Least(100, SumOf(LAMBDA i : Signal(rs[i].execution, dim), {i \in DOMAIN rs : rs[i].executed}))

ExecutedDimensions(rs) == {rs[i].dim : i \in {j \in DOMAIN rs : rs[j].executed}}

-----------------------------------------------------------------------------
(* Dimension scores, in tenths.                                              *)
Evaluated(rs, dim) == {i \in DOMAIN rs : rs[i].evaluated /\ rs[i].dim = dim}

ScoredDimensions(rs) == {rs[i].dim : i \in {j \in DOMAIN rs : rs[j].evaluated}}

BaseScore(rs, dim) ==
  Round(SumOf(LAMBDA i : rs[i].score, Evaluated(rs, dim)), 6 * Cardinality(Evaluated(rs, dim)))

(* Strategy B: only a dimension with an executed question is blended.        *)
EnrichedScore(rs, dim) ==
  IF dim \in ExecutedDimensions(rs)
  THEN Round(7 * BaseScore(rs, dim) + 30 * SumSignals(rs, dim), 10)
  ELSE BaseScore(rs, dim)

-----------------------------------------------------------------------------
(* ROLE_WEIGHTS, in percent.                                                 *)
RoleWeights == [
  backend_engineer   |-> [technical_depth |-> 35, system_design |-> 30, problem_solving |-> 20, communication |-> 15],
  frontend_engineer  |-> [technical_depth |-> 30, system_design |-> 20, problem_solving |-> 25, communication |-> 25],
  fullstack_engineer |-> [technical_depth |-> 30, system_design |-> 25, problem_solving |-> 25, communication |-> 20],
  devops_engineer    |-> [technical_depth |-> 30, system_design |-> 30, problem_solving |-> 20, communication |-> 20],
  data_engineer      |-> [technical_depth |-> 35, system_design |-> 25, problem_solving |-> 25, communication |-> 15],
  ml_engineer        |-> [technical_depth |-> 40, system_design |-> 20, problem_solving |-> 25, communication |-> 15],
  qa_engineer        |-> [technical_depth |-> 25, system_design |-> 15, problem_solving |-> 30, communication |-> 30],
  other              |-> [technical_depth |-> 25, system_design |-> 25, problem_solving |-> 25, communication |-> 25]]

(* WeightNormalizationStep: the weights of the dimensions that were scored   *)
(* are scaled to one.  Contributions are in hundredths.                      *)
TotalWeight(role, dims) == SumOf(LAMBDA d : RoleWeights[role][d], dims)

Contribution(rs, role, dim) ==
  Round(10 * EnrichedScore(rs, dim) * RoleWeights[role][dim],
        TotalWeight(role, ScoredDimensions(rs)))

RawScore(rs, role) ==
  Round(SumOf(LAMBDA d : Contribution(rs, role, d), ScoredDimensions(rs)), 10)

(* DecisionEngine: two gates, each of which lowers the score.                *)
Gated_Above(rs, dim, threshold) ==
  dim \in ScoredDimensions(rs) /\ EnrichedScore(rs, dim) >= threshold

Gated(rs, dim, threshold) ==
  dim \in ScoredDimensions(rs) /\ EnrichedScore(rs, dim) < threshold

AdjustedScore(rs, role) ==
  LET design == IF Gated(rs, "system_design", 600)
                THEN Round(9 * RawScore(rs, role), 10) ELSE RawScore(rs, role)
  IN IF Gated(rs, "technical_depth", 500) THEN Round(95 * design, 100) ELSE design

(* The decision is a rank: NO_HIRE, LEAN_NO_HIRE, LEAN_HIRE, HIRE.  The      *)
(* downgrade of the policy is computed and thrown away.                      *)
HireDecision(adjusted) ==
  IF adjusted >= 850 THEN 3 ELSE IF adjusted >= 700 THEN 2 ELSE IF adjusted >= 600 THEN 1 ELSE 0

(* The level: POOR, AVERAGE, STRONG, EXCELLENT.                              *)
Level(adjusted) ==
  IF adjusted < 500 THEN 0 ELSE IF adjusted < 650 THEN 1 ELSE IF adjusted < 800 THEN 2 ELSE 3

(* InterviewScoringEngine: the probability comes from the scores before the  *)
(* signals, weighed without normalising; 0 for a backend engineer without a  *)
(* system design question.                                                   *)
BaseOverall(rs, role) ==
  Round(SumOf(LAMBDA d : Round(BaseScore(rs, d) * RoleWeights[role][d], 10),
              ScoredDimensions(rs)), 10)

Weakest(rs) ==
  CHOOSE s \in {BaseScore(rs, d) : d \in ScoredDimensions(rs)} :
    \A d \in ScoredDimensions(rs) : s <= BaseScore(rs, d)

HiringProbability(rs, role) ==
  IF role = "backend_engineer" /\ "system_design" \notin ScoredDimensions(rs) THEN 0
  ELSE Most(0, Least(1000, BaseOverall(rs, role) + (CASE Weakest(rs) < 700 -> 0 - 50
                                                      [] Weakest(rs) > 900 -> 30
                                                      [] OTHER -> 0)))

(* ScoringSnapshot; there is none when nothing was evaluated.                *)
Snapshot(rs, role) ==
  LET adjusted == AdjustedScore(rs, role)
  IN [role |-> role, raw |-> RawScore(rs, role), adjusted |-> adjusted,
      decision |-> HireDecision(adjusted), level |-> Level(adjusted),
      probability |-> HiringProbability(rs, role)]
=============================================================================
