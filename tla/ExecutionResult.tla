--------------------------- MODULE ExecutionResult ---------------------------
(***************************************************************************)
(* The grade both executors return: a status, the tests passed of those    *)
(* counted, and the status of each test reported, by the place of its      *)
(* report.  A test reported as "signature" is an error whose text is        *)
(* "Invalid signature".                                                     *)
(***************************************************************************)
EXTENDS Naturals, Sequences, FiniteSets

TestStatus == {"passed", "failed", "error", "signature"}

ExecutionStatus == {"success", "failed_tests", "runtime_error", "timeout", "internal_error"}

Result(status, p, total, tests) ==
  [status |-> status, passed |-> p, total |-> total, tests |-> tests]

Ungraded(status) == Result(status, 0, 0, <<>>)

CountOf(statuses, tests) == Cardinality({t \in DOMAIN tests : tests[t] \in statuses})

(* What ExecutionResult's validator raises for, the counts that pydantic     *)
(* bounds included; `success` and `error` follow from the status.            *)
Consistent(e) ==
  /\ e.status \in ExecutionStatus
  /\ e.passed \in Nat /\ e.total \in Nat /\ e.passed <= e.total
=============================================================================
