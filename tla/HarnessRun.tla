----------------------------- MODULE HarnessRun -----------------------------
(***************************************************************************)
(* One run of a coding answer: the candidate's code and the test harness   *)
(* are one Python file, executed in a child process, and the grade is read *)
(* back from what the process printed.  The candidate's code shares the    *)
(* standard output and the process with the harness: it may leave a line   *)
(* unfinished, print a line that the parser takes for one of the           *)
(* harness's, end the process, or never return.                            *)
(*                                                                         *)
(* What a test compares is not modelled, only how it came out.  The        *)
(* candidate's code runs where the harness calls it: what it does in       *)
(* threads of its own, after the summary, or by redefining names of the    *)
(* harness is left out, and so is output that is not text.                 *)
(***************************************************************************)
EXTENDS ExecutionResult, FiniteSetsExt

CONSTANTS
  Visible,       \* number of visible tests of the question
  Hidden,        \* number of its hidden tests
  Claims,        \* the marker lines its solution may print, without their places
  MaxClaims      \* how many of them it prints in one run

ASSUME TestsAssumption == Visible \in Nat /\ Hidden \in Nat /\ Visible + Hidden > 0

VARIABLES
  stage,         \* where the child process is
  test,          \* the test it is about to run, visible ones first
  passed,        \* visible_passed and hidden_passed of the harness
  emitted,       \* __hidden_failure_emitted__
  stdout,        \* the lines printed
  spilled,       \* the candidate's code left a line unfinished
  returncode,    \* 0, or 1 for any other, that of a sandbox failure included
  truth,         \* how each test run so far really came out (history)
  spoiled        \* a marker was printed behind an unfinished line (history)

run == <<stage, test, passed, emitted, stdout, spilled, returncode, truth, spoiled>>

Tests == Visible + Hidden

(* "killed" by the timeout; "hung" inside the candidate's code.              *)
Running == {"loading", "resolving", "testing", "hung"}
Ended == {"exited", "killed"}

(* A call of the candidate's code: the comparison holds, or not, or an       *)
(* exception is raised - by the call, or because a wrong value has no JSON   *)
(* form - with "Invalid signature" in its text or without.  For a hidden     *)
(* test the harness makes no difference between the last three.              *)
Outcome == {"right", "wrong", "raises", "signature"}
HiddenOutcome == {"right", "wrong"}

(* A printed line: a marker with its payload, whether the parser sees it -   *)
(* it looks at the start of a line - and whether the harness printed it      *)
(* (history).  The candidate's own lines say what they like; one the parser  *)
(* cannot read it skips, so that a claim can be read.                        *)
Marker == {"test", "visible", "hidden", "sample", "result", "warning"}
Claim == {c \in [marker : Marker, status : TestStatus \cup {"none"}, passed : Int, total : Int] :
            c.marker = "test" => c.status # "none"}
Line_ == [marker : Marker, status : TestStatus \cup {"none"}, passed : Int, total : Int,
          seen : BOOLEAN, own : BOOLEAN]

Line(marker, status, p, total, seen) ==
  [marker |-> marker, status |-> status, passed |-> p, total |-> total,
   seen |-> seen, own |-> TRUE]
Claimed(c) ==
  [marker |-> c.marker, status |-> c.status, passed |-> c.passed, total |-> c.total,
   seen |-> TRUE, own |-> FALSE]

ASSUME ClaimsAssumption == Claims \subseteq Claim /\ MaxClaims \in Nat

IdleRun ==
  [stage |-> "idle", test |-> 1, passed |-> [visible |-> 0, hidden |-> 0],
   emitted |-> FALSE, stdout |-> <<>>, spilled |-> FALSE, returncode |-> 0,
   truth |-> <<>>, spoiled |-> FALSE]

BecomeRun(r) ==
  /\ stage' = r.stage /\ test' = r.test /\ passed' = r.passed /\ emitted' = r.emitted
  /\ stdout' = r.stdout /\ spilled' = r.spilled /\ returncode' = r.returncode
  /\ truth' = r.truth /\ spoiled' = r.spoiled

(* print: the newline it adds ends the line the candidate left open.  A      *)
(* marker behind an open line is not at its start; the parser sees it all    *)
(* the same when what stands before it is the marker, too.                   *)
Emit(lines, left) ==
  /\ stdout' = stdout \o lines
  /\ spilled' = FALSE
  /\ spoiled' = (spoiled \/ left)

Silent(left) ==
  /\ spilled' = left
  /\ UNCHANGED <<stdout, spoiled>>

Seen(left) == IF left THEN BOOLEAN ELSE {TRUE}

(* The harness's lines alone, none of the candidate's that looks like them.  *)
Honest == \A i \in DOMAIN stdout : stdout[i].own

Exit(code) == stage' = "exited" /\ returncode' = code

-----------------------------------------------------------------------------
(* The child process.                                                        *)

(* ExecutionSandbox.execute starts it.                                       *)
StartRun == stage = "idle" /\ BecomeRun([IdleRun EXCEPT !.stage = "loading"])

(* The candidate's code is running: its top level, the constructor of its    *)
(* class, or its function for a test.                                        *)
CandidateRuns ==
  \/ stage \in {"loading", "resolving"}
  \/ stage = "testing" /\ test <= Tests

(* It prints a line of its own that starts with a marker.  Any other output  *)
(* only matters by the line it leaves open, which is for the step that       *)
(* comes back from the candidate's code.                                     *)
CandidatePrints ==
  /\ CandidateRuns
  /\ Cardinality({i \in DOMAIN stdout : ~stdout[i].own}) < MaxClaims
  /\ \E c \in Claims : Emit(<<Claimed(c)>>, FALSE)
  /\ UNCHANGED <<stage, test, passed, emitted, returncode, truth>>

(* It ends the process, by sys.exit for one, or does not return.  The        *)
(* harness catches Exception only.                                           *)
CandidateEnds ==
  /\ CandidateRuns
  /\ \/ \E code \in {0, 1} : Exit(code)
     \/ stage' = "hung" /\ UNCHANGED returncode
  /\ UNCHANGED <<test, passed, emitted, stdout, spilled, truth, spoiled>>

(* The candidate's top-level code runs first.                                *)
Load ==
  /\ stage = "loading"
  /\ stage' = "resolving"
  /\ \E left \in BOOLEAN : Silent(left)
  /\ UNCHANGED <<test, passed, emitted, returncode, truth>>

(* It raises, is not Python at all, or the sandbox could not start a process.*)
LoadFails ==
  /\ stage = "loading"
  /\ Exit(1)
  /\ UNCHANGED <<test, passed, emitted, stdout, spilled, truth, spoiled>>

(* The entry point is found, with other parameter names than the question's  *)
(* when a warning is printed.                                                *)
Resolve ==
  /\ stage = "resolving"
  /\ stage' = "testing"
  /\ \E left \in BOOLEAN :
       \/ Silent(left)
       \/ \E seen \in Seen(left) : Emit(<<Line("warning", "none", 0, 0, seen)>>, left)
  /\ UNCHANGED <<test, passed, emitted, returncode, truth>>

(* There is none, or it takes another number of parameters.                  *)
ResolveFails ==
  /\ stage = "resolving"
  /\ Exit(0)
  /\ \E status \in {"error", "signature"}, left \in BOOLEAN :
       \E seen \in Seen(left) :
         Emit(<<Line("test", status, 0, 0, seen),
                 Line("visible", "none", 0, Visible, TRUE),
                 Line("hidden", "none", 0, Hidden, TRUE)>>, left)
  /\ UNCHANGED <<test, passed, emitted, truth>>

(* What a visible test prints for each outcome.  The text of an exception is *)
(* printed, and read as the harness's own complaint about the parameters     *)
(* when it says "Invalid signature".                                         *)
VisibleStatus(outcome) ==
  CASE outcome = "right" -> "passed"
    [] outcome = "wrong" -> "failed"
    [] outcome = "signature" -> "signature"
    [] OTHER -> "error"

VisibleTest ==
  /\ stage = "testing" /\ test <= Visible
  /\ \E outcome \in Outcome, left \in BOOLEAN :
       /\ passed' = IF outcome = "right" THEN [passed EXCEPT !.visible = @ + 1] ELSE passed
       /\ truth' = Append(truth, outcome)
       /\ \E seen \in Seen(left) :
            Emit(<<Line("test", VisibleStatus(outcome), 0, 0, seen)>>, left)
  /\ test' = test + 1
  /\ UNCHANGED <<stage, emitted, returncode>>

(* A hidden test is only counted; the first that does not pass is printed.   *)
(* Mutations - here and below, definitions with a suffix - are plausible     *)
(* bugs of the definition that follows them; nothing else uses them.         *)
HiddenTest_EachShown ==
  /\ stage = "testing" /\ Visible < test /\ test <= Tests
  /\ \E outcome \in HiddenOutcome, left \in BOOLEAN :
       /\ passed' = IF outcome = "right" THEN [passed EXCEPT !.hidden = @ + 1] ELSE passed
       /\ truth' = Append(truth, outcome)
       /\ IF outcome = "right"
          THEN Silent(left)
          ELSE \E seen \in Seen(left) : Emit(<<Line("sample", "none", 0, 0, seen)>>, left)
  /\ test' = test + 1
  /\ UNCHANGED <<stage, returncode, emitted>>

HiddenTest ==
  /\ stage = "testing" /\ Visible < test /\ test <= Tests
  /\ \E outcome \in HiddenOutcome, left \in BOOLEAN :
       /\ passed' = IF outcome = "right" THEN [passed EXCEPT !.hidden = @ + 1] ELSE passed
       /\ truth' = Append(truth, outcome)
       /\ emitted' = (emitted \/ outcome # "right")
       /\ IF outcome = "right" \/ emitted
          THEN Silent(left)
          ELSE \E seen \in Seen(left) : Emit(<<Line("sample", "none", 0, 0, seen)>>, left)
  /\ test' = test + 1
  /\ UNCHANGED <<stage, returncode>>

Summary ==
  /\ stage = "testing" /\ test > Tests
  /\ \E seen \in Seen(spilled) :
       Emit(<<Line("visible", "none", passed.visible, Visible, seen),
               Line("hidden", "none", passed.hidden, Hidden, TRUE),
               Line("result", "none", passed.visible + passed.hidden, Tests, TRUE)>>, spilled)
  /\ Exit(0)
  /\ UNCHANGED <<test, passed, emitted, truth>>

(* subprocess.run kills the process after its five seconds.                  *)
Timeout_NotInCandidate ==
  /\ stage \in Running \ {"hung"}
  /\ stage' = "killed"
  /\ UNCHANGED <<test, passed, emitted, stdout, spilled, returncode, truth, spoiled>>

Timeout ==
  /\ stage \in Running
  /\ stage' = "killed"
  /\ UNCHANGED <<test, passed, emitted, stdout, spilled, returncode, truth, spoiled>>

RunStep ==
  \/ CandidatePrints \/ CandidateEnds
  \/ Load \/ LoadFails \/ Resolve \/ ResolveFails
  \/ VisibleTest \/ HiddenTest \/ Summary \/ Timeout

-----------------------------------------------------------------------------
(* CodingExecutor and HarnessOutputParser: the grade.                        *)

(* The lines a marker is recognised on.                                      *)
Marked(marker) == {i \in DOMAIN stdout : stdout[i].marker = marker /\ stdout[i].seen}

(* The counts of an aggregate marker: the last line wins, and it is 0 of 0   *)
(* when there is none.                                                       *)
Counts(marker) ==
  IF Marked(marker) = {} THEN [passed |-> 0, total |-> 0]
  ELSE LET last == Max(Marked(marker))
       IN [passed |-> stdout[last].passed, total |-> stdout[last].total]

Statuses == [i \in Marked("test") |-> stdout[i].status]

(* The structured lines cover the visible tests, when there are any; the     *)
(* hidden ones come from their aggregate.                                    *)
Totals_VisibleOnly(tests) ==
  [passed |-> CountOf({"passed"}, tests), total |-> Cardinality(DOMAIN tests)]

Totals_BothMarkers(tests) ==
  [passed |-> CountOf({"passed"}, tests) + Counts("visible").passed + Counts("hidden").passed,
   total |-> Cardinality(DOMAIN tests) + Counts("visible").total + Counts("hidden").total]

Totals(tests) ==
  LET seen == IF DOMAIN tests # {}
              THEN [passed |-> CountOf({"passed"}, tests), total |-> Cardinality(DOMAIN tests)]
              ELSE Counts("visible")
  IN [passed |-> seen.passed + Counts("hidden").passed,
      total |-> seen.total + Counts("hidden").total]

ParsedStatus(tests, totals) ==
  CASE totals.total = 0 -> "internal_error"
    [] totals.total # 0 /\ CountOf({"signature"}, tests) > 0 -> "failed_tests"
    [] totals.total # 0 /\ CountOf({"signature"}, tests) = 0 /\ CountOf({"error"}, tests) > 0
         -> "runtime_error"
    [] OTHER -> IF totals.passed = totals.total THEN "success" ELSE "failed_tests"

Parsed ==
  LET totals == Totals(Statuses)
  IN Result(ParsedStatus(Statuses, totals), totals.passed, totals.total, Statuses)

(* "__RESULT__" is looked for anywhere in the output, at a start or not.     *)
Completed == \E i \in DOMAIN stdout : stdout[i].marker = "result"

CodingResult ==
  IF stage = "killed" THEN Ungraded("timeout")
  ELSE IF returncode # 0 /\ ~Completed THEN Ungraded("runtime_error")
  ELSE Parsed

=============================================================================
