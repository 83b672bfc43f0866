------------------------------- MODULE SqlRun -------------------------------
(***************************************************************************)
(* One run of a SQL answer: an in-memory database is seeded, and for each  *)
(* test the candidate's statement and the test's reference query run on    *)
(* the same cursor, one after the other.  A statement that writes changes  *)
(* what its own reference, and every later test, is computed from.         *)
(* Nothing limits how long a statement runs.                               *)
(*                                                                         *)
(* Rows are not modelled: a statement that only reads is the set of tests  *)
(* whose reference it equals on the seeded data.                           *)
(***************************************************************************)
EXTENDS ExecutionResult, FiniteSets

CONSTANT SqlTests        \* number of test cases of the question

ASSUME SqlTestsAssumption == SqlTests \in Nat

VARIABLES
  sql_stage,     \* where SQLExecutor.execute is
  statement,     \* the candidate's statement
  seeded,        \* the database still holds what was seeded
  sql_results    \* test_results

sql == <<sql_stage, statement, seeded, sql_results>>

SqlStage == {"idle", "seeding", "testing", "spinning", "done", "raised"}

Statement ==
  [kind : {"reads", "writes", "broken", "endless"}, right : SUBSET (1 .. SqlTests)]

NoStatement == [kind |-> "reads", right |-> {}]

BecomeSql(s, st) ==
  /\ sql_stage' = s
  /\ statement' = st
  /\ seeded' = TRUE
  /\ sql_results' = <<>>

-----------------------------------------------------------------------------
StartSql ==
  /\ sql_stage = "idle"
  /\ \E st \in Statement :
       /\ st.kind # "reads" => st.right = {}
       /\ BecomeSql("seeding", st)

Seed ==
  /\ sql_stage = "seeding"
  /\ sql_stage' = "testing"
  /\ UNCHANGED <<statement, seeded, sql_results>>

(* The question's schema or its data is not valid SQL.                       *)
SeedFails ==
  /\ sql_stage = "seeding"
  /\ sql_stage' = "raised"
  /\ UNCHANGED <<statement, seeded, sql_results>>

(* How a test comes out.  After a write, what the reference returns and      *)
(* whether the statement can run a second time depend on the data.           *)
SqlOutcomes(t) ==
  CASE statement.kind = "reads" -> {IF t \in statement.right THEN "passed" ELSE "failed"}
    [] statement.kind = "writes" -> {"passed", "failed", "error"}
    [] OTHER -> {"error"}

SqlTest ==
  LET t == Len(sql_results) + 1
  IN /\ sql_stage = "testing" /\ t <= SqlTests
     /\ statement.kind # "endless"
     /\ \E outcome \in SqlOutcomes(t) : sql_results' = Append(sql_results, outcome)
     /\ seeded' = (seeded /\ statement.kind # "writes")
     /\ UNCHANGED <<sql_stage, statement>>

(* cursor.execute does not come back.                                        *)
Spin ==
  /\ sql_stage = "testing" /\ Len(sql_results) < SqlTests
  /\ statement.kind = "endless"
  /\ sql_stage' = "spinning"
  /\ UNCHANGED <<statement, seeded, sql_results>>

Aggregate ==
  /\ sql_stage = "testing" /\ Len(sql_results) = SqlTests
  /\ sql_stage' = "done"
  /\ UNCHANGED <<statement, seeded, sql_results>>

SqlStep == Seed \/ SeedFails \/ SqlTest \/ Spin \/ Aggregate

-----------------------------------------------------------------------------
(* The grade.  No test is no success.                                        *)
SqlSuccess(p, total) == p = total /\ total > 0

SqlResult ==
  LET p == CountOf({"passed"}, sql_results)
      total == Len(sql_results)
  IN IF sql_stage = "raised" THEN Ungraded("runtime_error")
     ELSE Result(IF SqlSuccess(p, total) THEN "success" ELSE "failed_tests",
                 p, total, sql_results)
=============================================================================
