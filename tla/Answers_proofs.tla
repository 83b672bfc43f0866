--------------------------- MODULE Answers_proofs ---------------------------
(***************************************************************************)
(* Proofs about the answers of an interview, for any number of visible and *)
(* hidden tests, any plan, any roles and any marker lines a solution may   *)
(* print of its own.  The grade is read from printed lines, so the first   *)
(* invariants relate the lines to what the tests really did, as long as    *)
(* they are the harness's; the later ones follow a grade into the results  *)
(* and the results into the report, whose score is a rounded sum of        *)
(* rounded sums.                                                           *)
(***************************************************************************)
EXTENDS Answers, SumFacts, SequenceTheorems

(* The places of the lines of a set, and three such sets.                    *)
Where(s, K) == {i \in DOMAIN s : s[i] \in K}

TestLines == {l \in Line_ : l.marker = "test"}
PassedLines == {l \in TestLines : l.status = "passed"}

Aggregates == {"visible", "hidden", "result"}

(* Types of the run; no more tests passed than were run.                     *)
RunTypes ==
  /\ stage \in {"idle"} \cup Running \cup Ended
  /\ test \in 1 .. Tests + 1
  /\ passed \in [visible : Nat, hidden : Nat]
  /\ emitted \in BOOLEAN /\ spilled \in BOOLEAN /\ spoiled \in BOOLEAN
  /\ stdout \in Seq(Line_)
  /\ returncode \in {0, 1}
  /\ truth \in Seq(Outcome)
  /\ passed.visible <= Visible /\ passed.visible < test
  /\ passed.hidden = 0 \/ passed.hidden + Visible < test

(* A sample is printed once by the harness, and remembered.                  *)
SampleInv ==
  /\ \A i \in DOMAIN stdout : IsSample(i) => emitted
  /\ HiddenStaysHidden

RunInv == RunTypes /\ SampleInv

(* As long as no line of the candidate's looks like one of the harness: what *)
(* was printed of the passed tests is not more than what passed.             *)
EarnedInv ==
  /\ Cardinality(Where(stdout, PassedLines)) = passed.visible
  /\ RightTests = passed.visible + passed.hidden
  /\ \A i \in DOMAIN stdout :
       /\ stdout[i].marker = "visible" => stdout[i].passed \in 0 .. passed.visible
       /\ stdout[i].marker = "hidden" => stdout[i].passed \in 0 .. passed.hidden
       /\ stdout[i].marker \in Aggregates => stage \in Ended
  /\ \A i, j \in DOMAIN stdout :
       stdout[i].marker = stdout[j].marker /\ stdout[i].marker \in Aggregates => i = j

-----------------------------------------------------------------------------
(* Lines.                                                                    *)

LEMMA TestsType ==
  /\ Visible \in Nat /\ Hidden \in Nat
  /\ Tests \in Nat /\ Tests = Visible + Hidden /\ Tests > 0
BY TestsAssumption DEF Tests

LEMMA ClaimedType ==
  ASSUME NEW c \in Claims
  PROVE  /\ <<Claimed(c)>> \in Seq(Line_) /\ DOMAIN <<Claimed(c)>> = {1}
         /\ <<Claimed(c)>>[1].own = FALSE
<1>1. c \in Claim
  BY ClaimsAssumption
<1>2. Claimed(c) \in Line_ /\ Claimed(c).own = FALSE
  BY <1>1 DEF Claimed, Claim, Line_
<1> QED
  BY <1>2

(* What the harness prints before its own end is one line.                   *)
LEMMA OneLine ==
  ASSUME NEW l \in Line_
  PROVE  <<l>> \in Seq(Line_) /\ DOMAIN <<l>> = {1} /\ <<l>>[1] = l
OBVIOUS

(* The lines of the two ways to end the harness.                             *)
LEMMA ThreeLines ==
  ASSUME NEW a \in Line_, NEW b \in Line_, NEW c \in Line_
  PROVE  /\ <<a, b, c>> \in Seq(Line_)
         /\ DOMAIN <<a, b, c>> = 1 .. 3
         /\ <<a, b, c>>[1] = a /\ <<a, b, c>>[2] = b /\ <<a, b, c>>[3] = c
OBVIOUS

LEMMA WhatIsSeen ==
  ASSUME NEW left \in BOOLEAN, NEW seen \in Seen(left)
  PROVE  seen \in BOOLEAN /\ (~left => seen = TRUE)
BY DEF Seen

(* A line of the longer output is an old one in its place or a new one.      *)
LEMMA Longer ==
  ASSUME NEW s \in Seq(Line_), NEW more \in Seq(Line_)
  PROVE  /\ s \o more \in Seq(Line_)
         /\ DOMAIN s = 1 .. Len(s) /\ DOMAIN more = 1 .. Len(more)
         /\ Len(s) \in Nat /\ Len(more) \in Nat
         /\ DOMAIN (s \o more) = 1 .. Len(s) + Len(more)
         /\ \A i \in DOMAIN s : (s \o more)[i] = s[i]
         /\ \A k \in DOMAIN more : (s \o more)[Len(s) + k] = more[k]
         /\ \A i \in DOMAIN (s \o more) :
              i \in DOMAIN s \/ (i - Len(s) \in DOMAIN more /\ (s \o more)[i] = more[i - Len(s)])
<1>1. /\ s \o more \in Seq(Line_)
      /\ Len(s \o more) = Len(s) + Len(more)
      /\ \A i \in 1 .. Len(s) + Len(more) :
           (s \o more)[i] = IF i <= Len(s) THEN s[i] ELSE more[i - Len(s)]
  BY ConcatProperties
<1>2. /\ DOMAIN s = 1 .. Len(s) /\ DOMAIN more = 1 .. Len(more)
      /\ Len(s) \in Nat /\ Len(more) \in Nat
      /\ DOMAIN (s \o more) = 1 .. Len(s) + Len(more)
  BY <1>1, LenProperties
<1>3. \A i \in DOMAIN s : (s \o more)[i] = s[i]
  BY <1>1, <1>2
<1>4. \A k \in DOMAIN more : (s \o more)[Len(s) + k] = more[k]
  <2>1. TAKE k \in DOMAIN more
  <2>2. Len(s) + k \in 1 .. Len(s) + Len(more) /\ ~(Len(s) + k <= Len(s)) /\ Len(s) + k - Len(s) = k
    BY <1>2
  <2> QED
    BY <1>1, <2>2
<1>5. \A i \in DOMAIN (s \o more) :
        i \in DOMAIN s \/ (i - Len(s) \in DOMAIN more /\ (s \o more)[i] = more[i - Len(s)])
  BY <1>1, <1>2
<1> QED
  BY <1>1, <1>2, <1>3, <1>4, <1>5

LEMMA WhereIsFinite ==
  ASSUME NEW s \in Seq(Line_), NEW K
  PROVE  IsFiniteSet(Where(s, K)) /\ Cardinality(Where(s, K)) \in Nat
<1>1. Len(s) \in Nat /\ DOMAIN s = 1 .. Len(s)
  BY LenProperties
<1>2. IsFiniteSet(1 .. Len(s))
  BY <1>1, FS_Interval
<1>3. Where(s, K) \in SUBSET (1 .. Len(s))
  BY <1>1 DEF Where
<1>4. IsFiniteSet(Where(s, K))
  BY <1>2, <1>3, FS_Subset
<1> QED
  BY <1>4, FS_CardinalityType

(* Lines outside a set do not move its places, one inside adds a place.      *)
LEMMA NoneMore ==
  ASSUME NEW s \in Seq(Line_), NEW more \in Seq(Line_), NEW K,
         \A k \in DOMAIN more : more[k] \notin K
  PROVE  Where(s \o more, K) = Where(s, K)
BY Longer DEF Where

LEMMA OneMore ==
  ASSUME NEW s \in Seq(Line_), NEW l \in Line_, NEW K, l \in K
  PROVE  Cardinality(Where(s \o <<l>>, K)) = Cardinality(Where(s, K)) + 1
<1>1. <<l>> \in Seq(Line_) /\ Len(<<l>>) = 1 /\ <<l>>[1] = l
  OBVIOUS
<1>2. Where(s \o <<l>>, K) = Where(s, K) \cup {Len(s) + 1}
  BY <1>1, Longer DEF Where
<1>3. Len(s) + 1 \notin Where(s, K)
  BY <1>1, Longer DEF Where
<1> QED
  BY <1>2, <1>3, WhereIsFinite, FS_AddElement

LEMMA OneMoreTruth ==
  ASSUME NEW s \in Seq(Outcome), NEW o \in Outcome
  PROVE  CountOf({"right"}, Append(s, o)) =
           CountOf({"right"}, s) + (IF o = "right" THEN 1 ELSE 0)
<1> DEFINE Right(u) == {k \in DOMAIN u : u[k] \in {"right"}}
<1>1. /\ Len(s) \in Nat /\ DOMAIN s = 1 .. Len(s)
      /\ DOMAIN Append(s, o) = 1 .. Len(s) + 1
      /\ \A k \in 1 .. Len(s) : Append(s, o)[k] = s[k]
      /\ Append(s, o)[Len(s) + 1] = o
  BY AppendProperties, LenProperties
<1>2. Right(Append(s, o)) = Right(s) \cup (IF o = "right" THEN {Len(s) + 1} ELSE {})
  BY <1>1
<1>3. Right(s) \in SUBSET (1 .. Len(s)) /\ Len(s) + 1 \notin Right(s)
  BY <1>1
<1>4. IsFiniteSet(1 .. Len(s))
  BY <1>1, FS_Interval
<1>5. CountOf({"right"}, s) = Cardinality(Right(s))
      /\ CountOf({"right"}, Append(s, o)) = Cardinality(Right(Append(s, o)))
  BY DEF CountOf
<1> HIDE DEF Right
<1>6. IsFiniteSet(Right(s))
  BY <1>3, <1>4, FS_Subset
<1>7. Cardinality(Right(s)) \in Nat
  BY <1>6, FS_CardinalityType
<1>8. CASE o = "right"
  BY <1>2, <1>3, <1>5, <1>6, <1>8, FS_AddElement
<1>9. CASE o # "right"
  BY <1>2, <1>5, <1>7, <1>9
<1> QED
  BY <1>8, <1>9

-----------------------------------------------------------------------------
(* The types, and the sample, in any run.                                    *)

(* Lines are printed, and none of them shows a test for the harness.         *)
LEMMA LinesWithoutSample ==
  ASSUME RunInv, NEW lines \in Seq(Line_), NEW left \in BOOLEAN, Emit(lines, left),
         \A k \in DOMAIN lines : ~(lines[k].marker = "sample" /\ lines[k].own),
         emitted => emitted'
  PROVE  stdout' \in Seq(Line_) /\ spilled' \in BOOLEAN /\ spoiled' \in BOOLEAN /\ SampleInv'
<1>1. /\ stdout \in Seq(Line_) /\ stdout' = stdout \o lines
      /\ spilled' \in BOOLEAN /\ spoiled' \in BOOLEAN
  BY DEF RunInv, RunTypes, Emit
<1>2. /\ stdout' \in Seq(Line_)
      /\ \A i \in DOMAIN stdout : stdout'[i] = stdout[i]
      /\ \A i \in DOMAIN stdout' :
           i \in DOMAIN stdout
           \/ (i - Len(stdout) \in DOMAIN lines /\ stdout'[i] = lines[i - Len(stdout)])
  BY <1>1, Longer
<1>3. \A i \in DOMAIN stdout' : IsSample(i)' => i \in DOMAIN stdout /\ IsSample(i)
  BY <1>2 DEF IsSample
<1>4. SampleInv'
  BY <1>3 DEF RunInv, SampleInv, HiddenStaysHidden
<1> QED
  BY <1>1, <1>2, <1>4

LEMMA NothingPrinted ==
  ASSUME RunInv, stdout' = stdout, emitted => emitted'
  PROVE  SampleInv'
BY DEF RunInv, SampleInv, HiddenStaysHidden, IsSample

(* A step that counts no test.                                               *)
LEMMA UncountedStep ==
  ASSUME RunInv, UNCHANGED <<test, passed, emitted, truth>>,
         stage' \in {"idle"} \cup Running \cup Ended, returncode' \in {0, 1},
         stdout' \in Seq(Line_), spilled' \in BOOLEAN, spoiled' \in BOOLEAN, SampleInv'
  PROVE  RunInv'
BY DEF RunInv, RunTypes, Line_

LEMMA FreshRun ==
  ASSUME NEW r \in {IdleRun, [IdleRun EXCEPT !.stage = "loading"]}, BecomeRun(r)
  PROVE  RunInv' /\ EarnedInv'
<1>1. /\ stage' \in {"idle", "loading"} /\ test' = 1
      /\ passed' = [visible |-> 0, hidden |-> 0]
      /\ emitted' = FALSE /\ stdout' = <<>> /\ spilled' = FALSE
      /\ returncode' = 0 /\ truth' = <<>> /\ spoiled' = FALSE
  BY DEF BecomeRun, IdleRun
<1>2. stdout' \in Seq(Line_) /\ truth' \in Seq(Outcome) /\ DOMAIN stdout' = {} /\ DOMAIN truth' = {}
  BY <1>1, EmptySeq
<1>3. Where(stdout', PassedLines') = {} /\ {k \in DOMAIN truth' : truth'[k] \in {"right"}} = {}
  BY <1>2 DEF Where
<1>4. Cardinality({}) = 0
  BY FS_EmptySet
<1>5. RunTypes'
  <2>1. /\ test' \in 1 .. Tests + 1 /\ passed' \in [visible : Nat, hidden : Nat]
        /\ passed'.visible <= Visible /\ passed'.visible < test' /\ passed'.hidden = 0
    BY <1>1, TestsType
  <2>2. stage' \in {"idle"} \cup Running
    BY <1>1 DEF Running
  <2> QED
    BY <1>1, <1>2, <2>1, <2>2 DEF RunTypes
<1>6. SampleInv'
  BY <1>2 DEF SampleInv, HiddenStaysHidden
<1>7. EarnedInv'
  BY <1>1, <1>2, <1>3, <1>4 DEF EarnedInv, RightTests, CountOf
<1> QED
  BY <1>5, <1>6, <1>7 DEF RunInv

LEMMA QuietTypes ==
  ASSUME RunInv, Load \/ LoadFails \/ CandidateEnds \/ Timeout
  PROVE  RunInv'
<1>1. /\ UNCHANGED <<test, passed, emitted, stdout, truth>>
      /\ stage' \in {"idle"} \cup Running \cup Ended /\ returncode' \in {0, 1}
      /\ spilled' \in BOOLEAN /\ spoiled' \in BOOLEAN
  BY DEF Load, Silent, LoadFails, CandidateEnds, Timeout, Exit, RunInv, RunTypes, Running, Ended
<1>2. stdout' \in Seq(Line_) /\ SampleInv'
  BY <1>1, NothingPrinted DEF RunInv, RunTypes
<1> QED
  BY <1>1, <1>2, UncountedStep

LEMMA CandidatePrintsTypes ==
  ASSUME RunInv, CandidatePrints
  PROVE  RunInv'
<1>1. PICK c \in Claims : Emit(<<Claimed(c)>>, FALSE)
  BY DEF CandidatePrints
<1> DEFINE lines == <<Claimed(c)>>
<1>2. lines \in Seq(Line_) /\ DOMAIN lines = {1} /\ lines[1].own = FALSE
  BY ClaimedType
<1>3. Emit(lines, FALSE)
  BY <1>1
<1> HIDE DEF lines
<1>4. UNCHANGED <<stage, test, passed, emitted, returncode, truth>>
  BY DEF CandidatePrints
<1>5. stdout' \in Seq(Line_) /\ spilled' \in BOOLEAN /\ spoiled' \in BOOLEAN /\ SampleInv'
  BY <1>2, <1>3, <1>4, LinesWithoutSample
<1> QED
  BY <1>4, <1>5, UncountedStep DEF RunInv, RunTypes

(* What a step of the harness prints.                                        *)
LEMMA WarningLine ==
  ASSUME NEW seen \in BOOLEAN
  PROVE  LET l == Line("warning", "none", 0, 0, seen)
         IN l \in Line_ /\ l.marker = "warning" /\ l.own = TRUE /\ l.seen = seen
<1>1. "warning" \in Marker /\ "none" \in TestStatus \cup {"none"} /\ 0 \in Int
  BY DEF Marker
<1> QED
  BY <1>1 DEF Line, Line_

LEMMA SampleLine ==
  ASSUME NEW seen \in BOOLEAN
  PROVE  LET l == Line("sample", "none", 0, 0, seen)
         IN l \in Line_ /\ l.marker = "sample" /\ l.own = TRUE /\ l.seen = seen
<1>1. "sample" \in Marker /\ "none" \in TestStatus \cup {"none"} /\ 0 \in Int
  BY DEF Marker
<1> QED
  BY <1>1 DEF Line, Line_

LEMMA TestLine ==
  ASSUME NEW status \in TestStatus, NEW seen \in BOOLEAN
  PROVE  LET l == Line("test", status, 0, 0, seen)
         IN l \in Line_ /\ l.marker = "test" /\ l.status = status /\ l.own = TRUE /\ l.seen = seen
<1>1. "test" \in Marker /\ status \in TestStatus \cup {"none"} /\ 0 \in Int
  BY DEF Marker
<1> QED
  BY <1>1 DEF Line, Line_

(* The three lines of a harness that finds no function, and of its summary.  *)
NoFunction(left, a, b, c) ==
  /\ Emit(<<a, b, c>>, left)
  /\ a.marker = "test" /\ a.status \in {"error", "signature"} /\ (~left => a.seen = TRUE)
  /\ b.marker = "visible" /\ b.passed = 0 /\ b.total = Visible /\ b.seen = TRUE
  /\ c.marker = "hidden" /\ c.passed = 0 /\ c.total = Hidden /\ c.seen = TRUE

Summed(left, a, b, c) ==
  /\ Emit(<<a, b, c>>, left)
  /\ a.marker = "visible" /\ a.passed = passed.visible /\ a.total = Visible
  /\ ~left => a.seen = TRUE
  /\ b.marker = "hidden" /\ b.passed = passed.hidden /\ b.total = Hidden /\ b.seen = TRUE
  /\ c.marker = "result" /\ c.passed = passed.visible + passed.hidden /\ c.total = Tests
  /\ c.seen = TRUE

LEMMA NoFunctionLines ==
  ASSUME ResolveFails
  PROVE  \E left \in BOOLEAN, a, b, c \in Line_ : NoFunction(left, a, b, c)
<1>0. PICK status \in {"error", "signature"}, left \in BOOLEAN :
        \E seen \in Seen(left) :
          Emit(<<Line("test", status, 0, 0, seen),
                 Line("visible", "none", 0, Visible, TRUE),
                 Line("hidden", "none", 0, Hidden, TRUE)>>, left)
  BY DEF ResolveFails
<1>1. PICK seen \in Seen(left) :
        Emit(<<Line("test", status, 0, 0, seen),
               Line("visible", "none", 0, Visible, TRUE),
               Line("hidden", "none", 0, Hidden, TRUE)>>, left)
  BY <1>0
<1> DEFINE a == Line("test", status, 0, 0, seen)
           b == Line("visible", "none", 0, Visible, TRUE)
           c == Line("hidden", "none", 0, Hidden, TRUE)
<1>2. status \in TestStatus /\ seen \in BOOLEAN /\ (~left => seen = TRUE)
  BY WhatIsSeen DEF TestStatus
<1>3. a \in Line_ /\ a.marker = "test" /\ a.status = status /\ a.seen = seen
  BY <1>2, TestLine
<1>4. /\ "visible" \in Marker /\ "hidden" \in Marker /\ "none" \in TestStatus \cup {"none"}
      /\ 0 \in Int /\ Visible \in Int /\ Hidden \in Int
  BY TestsType DEF Marker
<1>5. /\ b \in Line_ /\ b.marker = "visible" /\ b.passed = 0 /\ b.total = Visible /\ b.seen = TRUE
      /\ c \in Line_ /\ c.marker = "hidden" /\ c.passed = 0 /\ c.total = Hidden /\ c.seen = TRUE
  BY <1>4 DEF Line, Line_
<1>6. Emit(<<a, b, c>>, left)
  BY <1>1
<1> HIDE DEF a, b, c
<1> QED
  BY <1>2, <1>3, <1>5, <1>6 DEF NoFunction

LEMMA SummaryLines ==
  ASSUME RunInv, Summary
  PROVE  \E left \in BOOLEAN, a, b, c \in Line_ : Summed(left, a, b, c)
<1>1. PICK seen \in Seen(spilled) :
        Emit(<<Line("visible", "none", passed.visible, Visible, seen),
               Line("hidden", "none", passed.hidden, Hidden, TRUE),
               Line("result", "none", passed.visible + passed.hidden, Tests, TRUE)>>, spilled)
  BY DEF Summary
<1> DEFINE a == Line("visible", "none", passed.visible, Visible, seen)
           b == Line("hidden", "none", passed.hidden, Hidden, TRUE)
           c == Line("result", "none", passed.visible + passed.hidden, Tests, TRUE)
<1>2. spilled \in BOOLEAN
  BY DEF RunInv, RunTypes
<1>3. seen \in BOOLEAN /\ (~spilled => seen = TRUE)
  BY <1>2, WhatIsSeen
<1>4. /\ "visible" \in Marker /\ "hidden" \in Marker /\ "result" \in Marker
      /\ "none" \in TestStatus \cup {"none"} /\ Visible \in Int /\ Hidden \in Int /\ Tests \in Int
      /\ passed.visible \in Int /\ passed.hidden \in Int
      /\ passed.visible + passed.hidden \in Int
  BY TestsType DEF Marker, RunInv, RunTypes
<1>5. /\ a \in Line_ /\ a.marker = "visible" /\ a.passed = passed.visible /\ a.total = Visible
      /\ a.seen = seen
  BY <1>3, <1>4 DEF Line, Line_
<1>6. /\ b \in Line_ /\ b.marker = "hidden" /\ b.passed = passed.hidden /\ b.total = Hidden
      /\ b.seen = TRUE
  BY <1>4 DEF Line, Line_
<1>7. /\ c \in Line_ /\ c.marker = "result" /\ c.passed = passed.visible + passed.hidden
      /\ c.total = Tests /\ c.seen = TRUE
  BY <1>4 DEF Line, Line_
<1>8. Emit(<<a, b, c>>, spilled)
  BY <1>1
<1> HIDE DEF a, b, c
<1> QED
  BY <1>2, <1>3, <1>5, <1>6, <1>7, <1>8 DEF Summed

(* The line of a visible test, and the one a hidden test may print.          *)
VisibleLine(outcome, left, l) ==
  /\ passed' = IF outcome = "right" THEN [passed EXCEPT !.visible = @ + 1] ELSE passed
  /\ truth' = Append(truth, outcome)
  /\ Emit(<<l>>, left)
  /\ l.marker = "test" /\ l.status = VisibleStatus(outcome) /\ (~left => l.seen = TRUE)

LEMMA VisibleTestLine ==
  ASSUME VisibleTest
  PROVE  \E outcome \in Outcome, left \in BOOLEAN, l \in Line_ : VisibleLine(outcome, left, l)
<1>1. PICK outcome \in Outcome, left \in BOOLEAN :
        /\ passed' = IF outcome = "right" THEN [passed EXCEPT !.visible = @ + 1] ELSE passed
        /\ truth' = Append(truth, outcome)
        /\ \E seen \in Seen(left) : Emit(<<Line("test", VisibleStatus(outcome), 0, 0, seen)>>, left)
  BY DEF VisibleTest
<1>2. PICK seen \in Seen(left) : Emit(<<Line("test", VisibleStatus(outcome), 0, 0, seen)>>, left)
  BY <1>1
<1> DEFINE l == Line("test", VisibleStatus(outcome), 0, 0, seen)
<1>3. VisibleStatus(outcome) \in TestStatus
  BY DEF VisibleStatus, Outcome, TestStatus
<1>4. seen \in BOOLEAN /\ (~left => seen = TRUE)
  BY WhatIsSeen
<1>5. l \in Line_ /\ l.marker = "test" /\ l.status = VisibleStatus(outcome) /\ l.seen = seen
  BY <1>3, <1>4, TestLine
<1>6. Emit(<<l>>, left)
  BY <1>2
<1> HIDE DEF l
<1> QED
  BY <1>1, <1>4, <1>5, <1>6 DEF VisibleLine

Counted(outcome) ==
  /\ passed' = IF outcome = "right" THEN [passed EXCEPT !.hidden = @ + 1] ELSE passed
  /\ truth' = Append(truth, outcome)
  /\ emitted' = (emitted \/ outcome # "right")

HiddenLine(left, l) ==
  /\ ~emitted /\ emitted'
  /\ Emit(<<l>>, left)
  /\ l.marker = "sample" /\ (~left => l.seen = TRUE)

LEMMA HiddenTestLine ==
  ASSUME RunInv, HiddenTest
  PROVE  \E outcome \in Outcome, left \in BOOLEAN :
           Counted(outcome) /\ (Silent(left) \/ \E l \in Line_ : HiddenLine(left, l))
<1>1. PICK outcome \in HiddenOutcome, left \in BOOLEAN :
        /\ Counted(outcome)
        /\ IF outcome = "right" \/ emitted
           THEN Silent(left)
           ELSE \E seen \in Seen(left) : Emit(<<Line("sample", "none", 0, 0, seen)>>, left)
  BY DEF HiddenTest, Counted
<1>2. outcome \in Outcome
  BY DEF Outcome, HiddenOutcome
<1>3. CASE outcome = "right" \/ emitted
  BY <1>1, <1>2, <1>3
<1>4. CASE ~(outcome = "right" \/ emitted)
  <2>1. PICK seen \in Seen(left) : Emit(<<Line("sample", "none", 0, 0, seen)>>, left)
    BY <1>1, <1>4
  <2> DEFINE l == Line("sample", "none", 0, 0, seen)
  <2>2. seen \in BOOLEAN /\ (~left => seen = TRUE)
    BY WhatIsSeen
  <2>3. l \in Line_ /\ l.marker = "sample" /\ l.seen = seen
    BY <2>2, SampleLine
  <2>4. Emit(<<l>>, left)
    BY <2>1
  <2> HIDE DEF l
  <2>5. ~emitted /\ emitted'
    BY <1>1, <1>4 DEF Counted, RunInv, RunTypes
  <2>6. HiddenLine(left, l)
    BY <2>2, <2>3, <2>4, <2>5 DEF HiddenLine
  <2> QED
    BY <1>1, <1>2, <2>3, <2>6
<1> QED
  BY <1>3, <1>4

(* A warning, or nothing, is printed when the function is found.             *)
Warned(left, l) ==
  Emit(<<l>>, left) /\ l.marker = "warning" /\ (~left => l.seen = TRUE)

LEMMA ResolveLine ==
  ASSUME Resolve
  PROVE  \E left \in BOOLEAN : Silent(left) \/ \E l \in Line_ : Warned(left, l)
<1>1. PICK left \in BOOLEAN :
        \/ Silent(left)
        \/ \E seen \in Seen(left) : Emit(<<Line("warning", "none", 0, 0, seen)>>, left)
  BY DEF Resolve
<1>2. CASE Silent(left)
  BY <1>2
<1>3. ASSUME NEW seen \in Seen(left), Emit(<<Line("warning", "none", 0, 0, seen)>>, left)
      PROVE  \E l \in Line_ : Warned(left, l)
  <2> DEFINE l == Line("warning", "none", 0, 0, seen)
  <2>1. seen \in BOOLEAN /\ (~left => seen = TRUE)
    BY WhatIsSeen
  <2>2. l \in Line_ /\ l.marker = "warning" /\ l.seen = seen
    BY <2>1, WarningLine
  <2>3. Emit(<<l>>, left)
    BY <1>3
  <2> HIDE DEF l
  <2> QED
    BY <2>1, <2>2, <2>3 DEF Warned
<1> QED
  BY <1>1, <1>2, <1>3

-----------------------------------------------------------------------------
(* The types after each step.                                                *)
LEMMA ResolveTypes ==
  ASSUME RunInv, Resolve
  PROVE  RunInv'
<1>1. /\ UNCHANGED <<test, passed, emitted, returncode, truth>>
      /\ stage' \in {"idle"} \cup Running \cup Ended /\ returncode' \in {0, 1}
  BY DEF Resolve, Running, RunInv, RunTypes
<1>2. PICK left \in BOOLEAN : Silent(left) \/ \E l \in Line_ : Warned(left, l)
  BY ResolveLine
<1>3. CASE Silent(left)
  <2>1. /\ stdout' = stdout /\ stdout' \in Seq(Line_)
        /\ spilled' \in BOOLEAN /\ spoiled' \in BOOLEAN
    BY <1>3 DEF Silent, RunInv, RunTypes
  <2>2. SampleInv'
    BY <1>1, <2>1, NothingPrinted
  <2> QED
    BY <1>1, <2>1, <2>2, UncountedStep
<1>4. ASSUME NEW l \in Line_, Warned(left, l) PROVE RunInv'
  <2>1. <<l>> \in Seq(Line_) /\ DOMAIN <<l>> = {1} /\ <<l>>[1] = l
    BY OneLine
  <2>2. Emit(<<l>>, left) /\ l.marker = "warning"
    BY <1>4 DEF Warned
  <2>3. stdout' \in Seq(Line_) /\ spilled' \in BOOLEAN /\ spoiled' \in BOOLEAN /\ SampleInv'
    BY <1>1, <2>1, <2>2, LinesWithoutSample
  <2> QED
    BY <1>1, <2>3, UncountedStep
<1> QED
  BY <1>2, <1>3, <1>4

LEMMA EndTypes ==
  ASSUME RunInv, ResolveFails \/ Summary
  PROVE  RunInv'
<1>1. /\ UNCHANGED <<test, passed, emitted, truth>>
      /\ stage' \in {"idle"} \cup Running \cup Ended /\ returncode' \in {0, 1}
  BY DEF ResolveFails, Summary, Exit, Ended
<1>2. PICK left \in BOOLEAN, a \in Line_, b \in Line_, c \in Line_ :
        /\ Emit(<<a, b, c>>, left)
        /\ a.marker # "sample" /\ b.marker # "sample" /\ c.marker # "sample"
  <2>1. CASE ResolveFails
    BY <2>1, NoFunctionLines DEF NoFunction
  <2>2. CASE Summary
    BY <2>2, SummaryLines DEF Summed
  <2> QED
    BY <2>1, <2>2
<1> DEFINE lines == <<a, b, c>>
<1>3. /\ lines \in Seq(Line_) /\ DOMAIN lines = 1 .. 3
      /\ lines[1] = a /\ lines[2] = b /\ lines[3] = c
  BY ThreeLines
<1>4. Emit(lines, left)
  BY <1>2
<1> HIDE DEF lines
<1>5. \A k \in DOMAIN lines : ~(lines[k].marker = "sample" /\ lines[k].own)
  <2>1. \A k \in 1 .. 3 : k = 1 \/ k = 2 \/ k = 3
    OBVIOUS
  <2> QED
    BY <1>2, <1>3, <2>1
<1>6. stdout' \in Seq(Line_) /\ spilled' \in BOOLEAN /\ spoiled' \in BOOLEAN /\ SampleInv'
  BY <1>1, <1>3, <1>4, <1>5, LinesWithoutSample
<1> QED
  BY <1>1, <1>6, UncountedStep

LEMMA VisibleTestTypes ==
  ASSUME RunInv, VisibleTest
  PROVE  RunInv'
<1>1. PICK outcome \in Outcome, left \in BOOLEAN, l \in Line_ : VisibleLine(outcome, left, l)
  BY VisibleTestLine
<1>2. /\ test \in Nat /\ test <= Visible /\ stage' = stage /\ test' = test + 1
      /\ returncode' = returncode /\ emitted' = emitted /\ truth \in Seq(Outcome)
  BY TestsType DEF RunInv, RunTypes, VisibleTest
<1>3. <<l>> \in Seq(Line_) /\ DOMAIN <<l>> = {1} /\ <<l>>[1] = l
  BY OneLine
<1>4. Emit(<<l>>, left) /\ l.marker = "test"
  BY <1>1 DEF VisibleLine
<1>5. stdout' \in Seq(Line_) /\ spilled' \in BOOLEAN /\ spoiled' \in BOOLEAN /\ SampleInv'
  BY <1>2, <1>3, <1>4, LinesWithoutSample
<1>6. /\ passed'.hidden = passed.hidden /\ passed' \in [visible : Nat, hidden : Nat]
      /\ passed'.visible = passed.visible + (IF outcome = "right" THEN 1 ELSE 0)
  BY <1>1 DEF VisibleLine, RunInv, RunTypes
<1>7. truth' \in Seq(Outcome)
  BY <1>1, <1>2, AppendProperties DEF VisibleLine
<1>8. /\ test' \in 1 .. Tests + 1
      /\ passed'.visible <= Visible /\ passed'.visible < test'
      /\ passed'.hidden = 0 \/ passed'.hidden + Visible < test'
  BY <1>2, <1>6, TestsType DEF RunInv, RunTypes
<1> QED
  BY <1>2, <1>5, <1>6, <1>7, <1>8 DEF RunInv, RunTypes

LEMMA HiddenTestTypes ==
  ASSUME RunInv, HiddenTest
  PROVE  RunInv'
<1>1. PICK outcome \in Outcome, left \in BOOLEAN :
        Counted(outcome) /\ (Silent(left) \/ \E l \in Line_ : HiddenLine(left, l))
  BY HiddenTestLine
<1>2. /\ stdout \in Seq(Line_) /\ truth \in Seq(Outcome) /\ test \in Nat
      /\ Visible < test /\ test <= Tests
      /\ stage' = stage /\ test' = test + 1 /\ returncode' = returncode
  BY TestsType DEF RunInv, RunTypes, HiddenTest
<1>3. /\ passed'.visible = passed.visible /\ passed' \in [visible : Nat, hidden : Nat]
      /\ passed'.hidden = passed.hidden + (IF outcome = "right" THEN 1 ELSE 0)
  BY <1>1 DEF Counted, RunInv, RunTypes
<1>4. emitted' \in BOOLEAN /\ (emitted => emitted')
  BY <1>1 DEF Counted, RunInv, RunTypes
<1>5. /\ test' \in 1 .. Tests + 1
      /\ passed'.visible <= Visible /\ passed'.visible < test'
      /\ passed'.hidden = 0 \/ passed'.hidden + Visible < test'
  BY <1>2, <1>3, TestsType DEF RunInv, RunTypes
<1>6. truth' \in Seq(Outcome)
  BY <1>1, <1>2, AppendProperties DEF Counted
<1>7. ASSUME stdout' \in Seq(Line_), spilled' \in BOOLEAN, spoiled' \in BOOLEAN, SampleInv'
      PROVE  RunInv'
  BY <1>2, <1>3, <1>4, <1>5, <1>6, <1>7 DEF RunInv, RunTypes
<1>8. CASE Silent(left)
  <2>1. /\ stdout' = stdout /\ stdout' \in Seq(Line_)
        /\ spilled' \in BOOLEAN /\ spoiled' \in BOOLEAN
    BY <1>8 DEF Silent, RunInv, RunTypes
  <2>2. SampleInv'
    BY <1>4, <2>1, NothingPrinted
  <2> QED
    BY <1>7, <2>1, <2>2
<1>9. ASSUME NEW l \in Line_, HiddenLine(left, l) PROVE RunInv'
  <2>1. <<l>> \in Seq(Line_) /\ DOMAIN <<l>> = {1} /\ <<l>>[1] = l
    BY OneLine
  <2>2. /\ stdout' = stdout \o <<l>> /\ spilled' \in BOOLEAN /\ spoiled' \in BOOLEAN
        /\ ~emitted /\ emitted' = TRUE
    BY <1>4, <1>9 DEF HiddenLine, Emit, RunInv, RunTypes
  <2>3. /\ stdout' \in Seq(Line_)
        /\ \A i \in DOMAIN stdout : stdout'[i] = stdout[i]
        /\ \A i \in DOMAIN stdout' :
             i \in DOMAIN stdout \/ (i - Len(stdout) = 1 /\ stdout'[i] = l)
        /\ DOMAIN stdout' \subseteq Int /\ Len(stdout) \in Nat
    BY <1>2, <2>1, <2>2, Longer
  <2>4. \A i \in DOMAIN stdout : ~IsSample(i)
    BY <2>2 DEF RunInv, SampleInv
  <2>5. \A i \in DOMAIN stdout' : IsSample(i)' => i - Len(stdout) = 1
    BY <2>3, <2>4 DEF IsSample
  <2>6. \A i, j \in DOMAIN stdout' : IsSample(i)' /\ IsSample(j)' => i = j
    BY <2>3, <2>5
  <2>7. SampleInv'
    BY <2>2, <2>6 DEF SampleInv, HiddenStaysHidden
  <2> QED
    BY <1>7, <2>2, <2>3, <2>7
<1> QED
  BY <1>1, <1>8, <1>9

LEMMA RunStepKeepsTypes ==
  ASSUME RunInv, RunStep
  PROVE  RunInv'
BY QuietTypes, CandidatePrintsTypes, ResolveTypes, EndTypes, VisibleTestTypes, HiddenTestTypes
   DEF RunStep

(* What the other actions do to a run.                                       *)
LEMMA RunActions ==
  ASSUME [Next]_vars
  PROVE  \/ RunStep \/ UNCHANGED run
         \/ \E r \in {IdleRun, [IdleRun EXCEPT !.stage = "loading"]} : BecomeRun(r)
<1>1. CASE SubmitCode \/ GradeCode
  BY <1>1 DEF SubmitCode, StartRun, GradeCode
<1> QED
  BY <1>1
     DEF Next, vars, RunCode, SubmitSql, RunSql, GradeSql, ExecutionUnavailable, AnswerWritten,
         AggregateReport

LEMMA InitialRun ==
  ASSUME Init
  PROVE  RunInv /\ EarnedInv
<1>1. stdout \in Seq(Line_) /\ truth \in Seq(Outcome) /\ DOMAIN stdout = {} /\ DOMAIN truth = {}
  BY EmptySeq DEF Init
<1>2. Where(stdout, PassedLines) = {} /\ {k \in DOMAIN truth : truth[k] \in {"right"}} = {}
  BY <1>1 DEF Where
<1>3. Cardinality({}) = 0
  BY FS_EmptySet
<1>4. RunTypes
  <2>1. /\ test \in 1 .. Tests + 1 /\ passed \in [visible : Nat, hidden : Nat]
        /\ passed.visible <= Visible /\ passed.visible < test /\ passed.hidden = 0
    BY TestsType DEF Init
  <2> QED
    BY <1>1, <2>1 DEF Init, RunTypes
<1>5. SampleInv
  BY <1>1 DEF SampleInv, HiddenStaysHidden
<1>6. EarnedInv
  BY <1>1, <1>2, <1>3 DEF Init, EarnedInv, RightTests, CountOf
<1> QED
  BY <1>4, <1>5, <1>6 DEF RunInv

LEMMA RunInvariant == Spec => []RunInv
<1>1. Init => RunInv
  BY InitialRun
<1>2. RunInv /\ [Next]_vars => RunInv'
  <2>1. SUFFICES ASSUME RunInv, [Next]_vars PROVE RunInv'
    OBVIOUS
  <2>2. CASE UNCHANGED run
    BY <2>1, <2>2 DEF run, RunInv, RunTypes, SampleInv, HiddenStaysHidden, IsSample, Line_
  <2> QED
    BY <2>1, <2>2, RunActions, RunStepKeepsTypes, FreshRun
<1> QED
  BY <1>1, <1>2, PTL DEF Spec

(* However many hidden tests fail and whatever the solution prints, one      *)
(* sample of them at most is ever shown by the harness.                      *)
THEOREM OneSampleAtMost == Spec => []HiddenStaysHidden
<1>1. RunInv => HiddenStaysHidden
  BY DEF RunInv, SampleInv
<1> QED
  BY <1>1, RunInvariant, PTL

-----------------------------------------------------------------------------
(* What an honest run has printed is earned.                                 *)

(* Nothing is printed or counted.                                            *)
LEMMA QuietEarned ==
  ASSUME EarnedInv, stage \notin Ended, UNCHANGED <<passed, stdout, truth>>
  PROVE  EarnedInv'
<1>1. \A i \in DOMAIN stdout : stdout[i].marker \notin Aggregates
  BY DEF EarnedInv
<1> QED
  BY <1>1 DEF EarnedInv, RightTests, Where, PassedLines, TestLines, Line_, Aggregates

(* Lines are printed that count no test.                                     *)
LEMMA NeutralLines ==
  ASSUME RunInv, EarnedInv, stage \notin Ended, NEW lines \in Seq(Line_), NEW left \in BOOLEAN,
         Emit(lines, left),
         \A k \in DOMAIN lines : lines[k] \notin PassedLines,
         \A k \in DOMAIN lines : lines[k].marker \in Aggregates => stage' \in Ended,
         \A k \in DOMAIN lines : lines[k].marker = "visible" => lines[k].passed \in 0 .. passed.visible,
         \A k \in DOMAIN lines : lines[k].marker = "hidden" => lines[k].passed \in 0 .. passed.hidden,
         \A k, n \in DOMAIN lines :
           lines[k].marker = lines[n].marker /\ lines[k].marker \in Aggregates => k = n,
         UNCHANGED <<passed, truth>>
  PROVE  EarnedInv'
<1>1. stdout \in Seq(Line_) /\ stdout' = stdout \o lines
  BY DEF RunInv, RunTypes, Emit
<1>2. /\ \A i \in DOMAIN stdout : stdout'[i] = stdout[i]
      /\ \A i \in DOMAIN stdout' :
           i \in DOMAIN stdout
           \/ (i - Len(stdout) \in DOMAIN lines /\ stdout'[i] = lines[i - Len(stdout)])
      /\ DOMAIN stdout' \subseteq Int /\ Len(stdout) \in Nat
  BY <1>1, Longer
<1>3. Cardinality(Where(stdout, PassedLines))' = passed'.visible
  BY <1>1, NoneMore DEF EarnedInv, PassedLines, TestLines, Line_
<1>4. \A i \in DOMAIN stdout' :
        /\ stdout'[i].marker = "visible" => stdout'[i].passed \in 0 .. passed'.visible
        /\ stdout'[i].marker = "hidden" => stdout'[i].passed \in 0 .. passed'.hidden
        /\ stdout'[i].marker \in Aggregates => stage' \in Ended
  BY <1>2 DEF EarnedInv
<1>5. \A i, j \in DOMAIN stdout' :
        stdout'[i].marker = stdout'[j].marker /\ stdout'[i].marker \in Aggregates => i = j
  <2>1. TAKE i, j \in DOMAIN stdout'
  <2>2. HAVE stdout'[i].marker = stdout'[j].marker /\ stdout'[i].marker \in Aggregates
  <2>3. i \notin DOMAIN stdout /\ j \notin DOMAIN stdout
    BY <1>2, <2>2 DEF EarnedInv
  <2>4. i - Len(stdout) = j - Len(stdout)
    BY <1>2, <2>2, <2>3
  <2> QED
    BY <1>2, <2>4
<1> QED
  BY <1>3, <1>4, <1>5 DEF EarnedInv, RightTests, Aggregates

LEMMA ResolveEarned ==
  ASSUME RunInv, EarnedInv, Resolve
  PROVE  EarnedInv'
<1>1. stage \notin Ended /\ UNCHANGED <<passed, truth>>
  BY DEF Resolve, Ended
<1>2. PICK left \in BOOLEAN : Silent(left) \/ \E l \in Line_ : Warned(left, l)
  BY ResolveLine
<1>3. CASE Silent(left)
  BY <1>1, <1>3, QuietEarned DEF Silent
<1>4. ASSUME NEW l \in Line_, Warned(left, l) PROVE EarnedInv'
  <2>1. <<l>> \in Seq(Line_) /\ DOMAIN <<l>> = {1} /\ <<l>>[1] = l
    BY OneLine
  <2>2. Emit(<<l>>, left) /\ l.marker = "warning"
    BY <1>4 DEF Warned
  <2> QED
    BY <1>1, <2>1, <2>2, NeutralLines DEF Aggregates, PassedLines, TestLines
<1> QED
  BY <1>2, <1>3, <1>4

LEMMA ResolveFailsEarned ==
  ASSUME RunInv, EarnedInv, ResolveFails
  PROVE  EarnedInv'
<1>1. PICK left \in BOOLEAN, a \in Line_, b \in Line_, c \in Line_ : NoFunction(left, a, b, c)
  BY NoFunctionLines
<1> DEFINE lines == <<a, b, c>>
<1>2. /\ lines \in Seq(Line_) /\ DOMAIN lines = {1, 2, 3}
      /\ lines[1] = a /\ lines[2] = b /\ lines[3] = c
  BY ThreeLines
<1>3. Emit(lines, left)
  BY <1>1 DEF NoFunction
<1> HIDE DEF lines
<1>4. /\ a.marker = "test" /\ a.status # "passed"
      /\ b.marker = "visible" /\ b.passed = 0 /\ c.marker = "hidden" /\ c.passed = 0
  BY <1>1 DEF NoFunction
<1>5. stage \notin Ended /\ stage' \in Ended /\ UNCHANGED <<passed, truth>>
  BY DEF ResolveFails, Exit, Ended
<1>6. 0 \in 0 .. passed.visible /\ 0 \in 0 .. passed.hidden
  BY DEF RunInv, RunTypes
<1>7. \A k \in DOMAIN lines : lines[k] \notin PassedLines
  BY <1>2, <1>4 DEF PassedLines, TestLines
<1>8. \A k \in DOMAIN lines : lines[k].marker \in {"visible", "hidden"} => lines[k].passed = 0
  BY <1>2, <1>4
<1>9. \A k, n \in DOMAIN lines :
        lines[k].marker = lines[n].marker /\ lines[k].marker \in Aggregates => k = n
  BY <1>2, <1>4 DEF Aggregates
<1> QED
  BY <1>2, <1>3, <1>5, <1>6, <1>7, <1>8, <1>9, NeutralLines

LEMMA SummaryEarned ==
  ASSUME RunInv, EarnedInv, Summary
  PROVE  EarnedInv'
<1>1. PICK left \in BOOLEAN, a \in Line_, b \in Line_, c \in Line_ : Summed(left, a, b, c)
  BY SummaryLines
<1> DEFINE lines == <<a, b, c>>
<1>2. /\ lines \in Seq(Line_) /\ DOMAIN lines = {1, 2, 3}
      /\ lines[1] = a /\ lines[2] = b /\ lines[3] = c
  BY ThreeLines
<1>3. Emit(lines, left)
  BY <1>1 DEF Summed
<1> HIDE DEF lines
<1>4. /\ a.marker = "visible" /\ a.passed = passed.visible
      /\ b.marker = "hidden" /\ b.passed = passed.hidden /\ c.marker = "result"
  BY <1>1 DEF Summed
<1>5. stage \notin Ended /\ stage' \in Ended /\ UNCHANGED <<passed, truth>>
  BY DEF Summary, Exit, Ended
<1>6. passed.visible \in 0 .. passed.visible /\ passed.hidden \in 0 .. passed.hidden
  BY DEF RunInv, RunTypes
<1>7. \A k \in DOMAIN lines : lines[k] \notin PassedLines
  BY <1>2, <1>4 DEF PassedLines, TestLines
<1>8. \A k \in DOMAIN lines :
        /\ lines[k].marker = "visible" => lines[k].passed \in 0 .. passed.visible
        /\ lines[k].marker = "hidden" => lines[k].passed \in 0 .. passed.hidden
  BY <1>2, <1>4, <1>6
<1>9. \A k, n \in DOMAIN lines :
        lines[k].marker = lines[n].marker /\ lines[k].marker \in Aggregates => k = n
  BY <1>2, <1>4
<1> QED
  BY <1>2, <1>3, <1>5, <1>7, <1>8, <1>9, NeutralLines

LEMMA VisibleTestEarned ==
  ASSUME RunInv, EarnedInv, VisibleTest
  PROVE  EarnedInv'
<1>1. PICK outcome \in Outcome, left \in BOOLEAN, l \in Line_ : VisibleLine(outcome, left, l)
  BY VisibleTestLine
<1>2. /\ stdout \in Seq(Line_) /\ stdout' = stdout \o <<l>> /\ truth \in Seq(Outcome)
      /\ l.marker = "test" /\ stage = "testing" /\ stage' = stage
  BY <1>1 DEF VisibleLine, Emit, RunInv, RunTypes, VisibleTest
<1>3. l.status = "passed" <=> outcome = "right"
  BY <1>1 DEF VisibleLine, VisibleStatus, Outcome
<1>4. <<l>> \in Seq(Line_) /\ DOMAIN <<l>> = {1} /\ <<l>>[1] = l
  BY OneLine
<1>5. /\ \A i \in DOMAIN stdout : stdout'[i] = stdout[i]
      /\ \A i \in DOMAIN stdout' : i \in DOMAIN stdout \/ stdout'[i] = l
  BY <1>2, <1>4, Longer
<1>6. /\ passed'.hidden = passed.hidden
      /\ passed'.visible = passed.visible + (IF outcome = "right" THEN 1 ELSE 0)
      /\ outcome # "right" => passed' = passed
  BY <1>1 DEF VisibleLine, RunInv, RunTypes
<1>7. Cardinality(Where(stdout, PassedLines))' = passed'.visible
  <2>0. PassedLines' = PassedLines
    BY DEF PassedLines, TestLines, Line_
  <2>1. CASE outcome = "right"
    <3>1. l \in PassedLines
      BY <1>2, <1>3, <2>1 DEF PassedLines, TestLines
    <3> QED
      BY <1>2, <1>6, <2>0, <2>1, <3>1, OneMore DEF EarnedInv
  <2>2. CASE outcome # "right"
    <3>1. \A k \in DOMAIN <<l>> : <<l>>[k] \notin PassedLines
      BY <1>3, <1>4, <2>2 DEF PassedLines, TestLines
    <3>2. Where(stdout \o <<l>>, PassedLines) = Where(stdout, PassedLines)
      BY <1>2, <1>4, <3>1, NoneMore
    <3> QED
      BY <1>2, <1>6, <2>0, <2>2, <3>2 DEF EarnedInv
  <2> QED
    BY <2>1, <2>2
<1>8. RightTests' = passed'.visible + passed'.hidden
  <2>1. RightTests' = RightTests + (IF outcome = "right" THEN 1 ELSE 0)
    BY <1>1, <1>2, OneMoreTruth DEF RightTests, VisibleLine
  <2> QED
    BY <1>6, <2>1 DEF EarnedInv, RunInv, RunTypes
<1>9. \A i \in DOMAIN stdout' : stdout'[i].marker \notin Aggregates
  BY <1>2, <1>5 DEF EarnedInv, Aggregates, Ended
<1> QED
  BY <1>7, <1>8, <1>9 DEF EarnedInv, Aggregates

LEMMA HiddenTestEarned ==
  ASSUME RunInv, EarnedInv, HiddenTest
  PROVE  EarnedInv'
<1>1. PICK outcome \in Outcome, left \in BOOLEAN :
        Counted(outcome) /\ (Silent(left) \/ \E l \in Line_ : HiddenLine(left, l))
  BY HiddenTestLine
<1>2. stdout \in Seq(Line_) /\ truth \in Seq(Outcome) /\ stage = "testing"
  BY DEF RunInv, RunTypes, HiddenTest
<1>3. /\ passed'.visible = passed.visible
      /\ passed'.hidden = passed.hidden + (IF outcome = "right" THEN 1 ELSE 0)
  BY <1>1 DEF Counted, RunInv, RunTypes
<1>4. RightTests' = passed'.visible + passed'.hidden
  <2>1. RightTests' = RightTests + (IF outcome = "right" THEN 1 ELSE 0)
    BY <1>1, <1>2, OneMoreTruth DEF RightTests, Counted
  <2> QED
    BY <1>3, <2>1 DEF EarnedInv, RunInv, RunTypes
<1>5. PassedLines' = PassedLines
  BY DEF PassedLines, TestLines, Line_
<1>6. \A i \in DOMAIN stdout : stdout[i].marker \notin Aggregates
  BY <1>2 DEF EarnedInv, Ended
<1>7. CASE Silent(left)
  BY <1>3, <1>4, <1>5, <1>6, <1>7 DEF Silent, EarnedInv, Where, Aggregates
<1>8. ASSUME NEW l \in Line_, HiddenLine(left, l) PROVE EarnedInv'
  <2>1. <<l>> \in Seq(Line_) /\ DOMAIN <<l>> = {1} /\ <<l>>[1] = l
    BY OneLine
  <2>2. stdout' = stdout \o <<l>> /\ l.marker = "sample"
    BY <1>8 DEF HiddenLine, Emit
  <2>3. /\ \A i \in DOMAIN stdout : stdout'[i] = stdout[i]
        /\ \A i \in DOMAIN stdout' : i \in DOMAIN stdout \/ stdout'[i] = l
    BY <1>2, <2>1, <2>2, Longer
  <2>4. Where(stdout \o <<l>>, PassedLines) = Where(stdout, PassedLines)
    <3>1. \A k \in DOMAIN <<l>> : <<l>>[k] \notin PassedLines
      BY <2>1, <2>2 DEF PassedLines, TestLines
    <3> QED
      BY <1>2, <2>1, <3>1, NoneMore
  <2>5. \A i \in DOMAIN stdout' : stdout'[i].marker \notin Aggregates
    BY <1>6, <2>2, <2>3 DEF Aggregates
  <2> QED
    BY <1>3, <1>4, <1>5, <2>2, <2>4, <2>5 DEF EarnedInv, Aggregates
<1> QED
  BY <1>1, <1>7, <1>8

(* A step of an honest run that stays honest.                                *)
HonestStep ==
  \/ Load \/ LoadFails \/ CandidateEnds \/ Timeout
  \/ Resolve \/ ResolveFails \/ VisibleTest \/ HiddenTest \/ Summary

LEMMA EarnedStep ==
  ASSUME RunInv, EarnedInv, HonestStep
  PROVE  EarnedInv'
<1>1. CASE Load \/ LoadFails \/ CandidateEnds \/ Timeout
  <2>1. stage \notin Ended /\ UNCHANGED <<passed, stdout, truth>>
    BY <1>1 DEF Load, Silent, LoadFails, CandidateEnds, CandidateRuns, Timeout, Running, Ended
  <2> QED
    BY <2>1, QuietEarned
<1> QED
  BY <1>1, ResolveEarned, ResolveFailsEarned, VisibleTestEarned, HiddenTestEarned, SummaryEarned
     DEF HonestStep

(* A line of the candidate's stays printed.                                  *)
LEMMA HonestBefore ==
  ASSUME RunInv, RunStep, Honest'
  PROVE  Honest /\ HonestStep
<1>1. stdout \in Seq(Line_)
  BY DEF RunInv, RunTypes
<1>2. ASSUME NEW lines \in Seq(Line_), stdout' = stdout \o lines
      PROVE  Honest /\ \A k \in DOMAIN lines : lines[k].own
  <2>1. /\ \A i \in DOMAIN stdout : i \in DOMAIN stdout' /\ stdout'[i] = stdout[i]
        /\ \A k \in DOMAIN lines :
             Len(stdout) + k \in DOMAIN stdout' /\ stdout'[Len(stdout) + k] = lines[k]
    BY <1>1, <1>2, Longer
  <2> QED
    BY <2>1 DEF Honest
<1>3. ASSUME UNCHANGED stdout PROVE Honest
  BY <1>3 DEF Honest
<1>4. ASSUME NEW l \in Line_, NEW left \in BOOLEAN, Emit(<<l>>, left) PROVE Honest
  <2>1. <<l>> \in Seq(Line_)
    BY OneLine
  <2> QED
    BY <1>2, <1>4, <2>1 DEF Emit
<1>5. ASSUME NEW a \in Line_, NEW b \in Line_, NEW c \in Line_, NEW left \in BOOLEAN,
             Emit(<<a, b, c>>, left)
      PROVE  Honest
  <2>1. <<a, b, c>> \in Seq(Line_)
    BY ThreeLines
  <2> QED
    BY <1>2, <1>5, <2>1 DEF Emit
<1>6. ~CandidatePrints
  <2>1. SUFFICES ASSUME NEW c \in Claims, Emit(<<Claimed(c)>>, FALSE) PROVE FALSE
    BY DEF CandidatePrints
  <2> DEFINE lines == <<Claimed(c)>>
  <2>2. lines \in Seq(Line_) /\ DOMAIN lines = {1} /\ lines[1].own = FALSE
    BY ClaimedType
  <2>3. stdout' = stdout \o lines
    BY <2>1 DEF Emit
  <2> HIDE DEF lines
  <2>4. 1 \in DOMAIN lines /\ lines[1].own
    BY <1>2, <2>2, <2>3
  <2> QED
    BY <2>2, <2>4
<1>7. HonestStep
  BY <1>6 DEF RunStep, HonestStep
<1>8. CASE Load \/ LoadFails \/ CandidateEnds \/ Timeout
  BY <1>3, <1>7, <1>8 DEF Load, Silent, LoadFails, CandidateEnds, Timeout
<1>9. CASE Resolve
  BY <1>3, <1>4, <1>7, <1>9, ResolveLine DEF Silent, Warned
<1>10. CASE ResolveFails
  <2>1. PICK left \in BOOLEAN, a \in Line_, b \in Line_, c \in Line_ : NoFunction(left, a, b, c)
    BY <1>10, NoFunctionLines
  <2> QED
    BY <1>5, <1>7, <2>1 DEF NoFunction
<1>11. CASE Summary
  <2>1. PICK left \in BOOLEAN, a \in Line_, b \in Line_, c \in Line_ : Summed(left, a, b, c)
    BY <1>11, SummaryLines
  <2> QED
    BY <1>5, <1>7, <2>1 DEF Summed
<1>12. CASE VisibleTest
  <2>1. PICK outcome \in Outcome, left \in BOOLEAN, l \in Line_ : VisibleLine(outcome, left, l)
    BY <1>12, VisibleTestLine
  <2> QED
    BY <1>4, <1>7, <2>1 DEF VisibleLine
<1>13. CASE HiddenTest
  <2>1. PICK left \in BOOLEAN : Silent(left) \/ \E l \in Line_ : HiddenLine(left, l)
    BY <1>13, HiddenTestLine
  <2> QED
    BY <1>3, <1>4, <1>7, <2>1 DEF HiddenLine, Silent
<1> QED
  BY <1>7, <1>8, <1>9, <1>10, <1>11, <1>12, <1>13 DEF HonestStep

(* The largest place of a set of one place is that place.                    *)
LEMMA OnlyPlace ==
  ASSUME NEW S \in SUBSET Nat, NEW x \in S, \A y \in S : y = x
  PROVE  Max(S) = x
<1>1. x \in S /\ \A y \in S : x >= y
  OBVIOUS
<1>2. Max(S) \in S
  BY <1>1 DEF Max
<1> QED
  BY <1>2

LEMMA AggregateIsBounded ==
  ASSUME RunInv, EarnedInv, NEW m \in {"visible", "hidden"}
  PROVE  /\ Counts(m).passed \in Nat
         /\ m = "visible" => Counts(m).passed <= passed.visible
         /\ m = "hidden" => Counts(m).passed <= passed.hidden
<1>1. passed.visible \in Nat /\ passed.hidden \in Nat /\ stdout \in Seq(Line_)
  BY DEF RunInv, RunTypes
<1>2. CASE Marked(m) = {}
  BY <1>1, <1>2 DEF Counts
<1>3. CASE Marked(m) # {}
  <2>1. PICK x \in Marked(m) : TRUE
    BY <1>3
  <2>2. Marked(m) \in SUBSET Nat /\ x \in DOMAIN stdout /\ stdout[x].marker = m
    BY <1>1, <2>1, LenProperties DEF Marked
  <2>3. \A y \in Marked(m) : y = x
    BY <2>2 DEF EarnedInv, Marked, Aggregates
  <2>4. Max(Marked(m)) = x
    BY <2>1, <2>2, <2>3, OnlyPlace
  <2>5. Counts(m).passed = stdout[x].passed
    BY <1>3, <2>4 DEF Counts
  <2> QED
    BY <1>1, <2>2, <2>5 DEF EarnedInv
<1> QED
  BY <1>2, <1>3

(* The grade never counts a test the solution did not pass.                  *)
LEMMA CreditIsEarned ==
  ASSUME RunInv, EarnedInv
  PROVE  CodingResult.passed <= RightTests
<1>1. /\ RightTests = passed.visible + passed.hidden
      /\ passed.visible \in Nat /\ passed.hidden \in Nat
      /\ Cardinality(Where(stdout, PassedLines)) = passed.visible
  BY DEF RunInv, RunTypes, EarnedInv
<1>2. /\ Counts("visible").passed \in Nat /\ Counts("visible").passed <= passed.visible
      /\ Counts("hidden").passed \in Nat /\ Counts("hidden").passed <= passed.hidden
  BY AggregateIsBounded
<1>3. CountOf({"passed"}, Statuses) \in Nat /\ CountOf({"passed"}, Statuses) <= passed.visible
  <2> DEFINE Printed == {t \in DOMAIN Statuses : Statuses[t] \in {"passed"}}
  <2>1. Printed \subseteq Where(stdout, PassedLines)
    <3>1. SUFFICES ASSUME NEW t \in Printed PROVE t \in Where(stdout, PassedLines)
      OBVIOUS
    <3>2. t \in DOMAIN stdout /\ stdout[t].marker = "test" /\ stdout[t].status = "passed"
      BY <3>1 DEF Statuses, Marked
    <3>3. stdout[t] \in Line_
      BY <3>2, LenProperties, ElementOfSeq DEF RunInv, RunTypes
    <3> QED
      BY <3>2, <3>3 DEF Where, PassedLines, TestLines
  <2>2. CountOf({"passed"}, Statuses) = Cardinality(Printed)
    BY DEF CountOf
  <2> HIDE DEF Printed
  <2>3. IsFiniteSet(Where(stdout, PassedLines))
    BY WhereIsFinite DEF RunInv, RunTypes
  <2>4. IsFiniteSet(Printed) /\ Cardinality(Printed) <= Cardinality(Where(stdout, PassedLines))
    BY <2>1, <2>3, FS_Subset
  <2> QED
    BY <1>1, <2>2, <2>4, FS_CardinalityType
<1>4. Totals(Statuses).passed <= RightTests
  BY <1>1, <1>2, <1>3 DEF Totals
<1>5. CodingResult.passed \in {0, Totals(Statuses).passed}
  BY DEF CodingResult, Ungraded, Parsed, Result
<1> QED
  BY <1>1, <1>4, <1>5

-----------------------------------------------------------------------------
(* What the printed lines say is also what happened, once the tests are      *)
(* being run and as long as the candidate's code leaves no line open.        *)
HasResult == \E i \in DOMAIN stdout : stdout[i].marker = "result"
Tested == stage = "testing" \/ HasResult

StatusLines(st) == {l \in TestLines : l.status = st}
CameOut(o) == \E k \in DOMAIN truth : k <= Visible /\ truth[k] = o
Unfit == {"raises", "signature"}
Shown(m, p, t) ==
  \E i \in DOMAIN stdout : stdout[i].marker = m /\ stdout[i].passed = p /\ stdout[i].total = t

TruthInv ==
  /\ test = Len(truth) + 1
  /\ ~spoiled => \A i \in DOMAIN stdout : stdout[i].seen = TRUE
  /\ stage \in {"loading", "resolving"} => truth = <<>> /\ Where(stdout, TestLines) = {}
  /\ Tested =>
       /\ Cardinality(Where(stdout, TestLines)) = Least(Len(truth), Visible)
       /\ \A o \in Unfit : Where(stdout, StatusLines(VisibleStatus(o))) # {} <=> CameOut(o)
  /\ HasResult => Shown("visible", passed.visible, Visible) /\ Shown("hidden", passed.hidden, Hidden)

LEMMA SameLines ==
  TestLines' = TestLines /\ \A st : StatusLines(st)' = StatusLines(st)
BY DEF TestLines, StatusLines, Line_

LEMMA FreshTruth ==
  ASSUME NEW r \in {IdleRun, [IdleRun EXCEPT !.stage = "loading"]}, BecomeRun(r)
  PROVE  TruthInv'
<1>1. stage' \in {"idle", "loading"} /\ test' = 1 /\ stdout' = <<>> /\ truth' = <<>>
  BY DEF BecomeRun, IdleRun
<1>2. DOMAIN stdout' = {} /\ Len(truth') = 0
  BY <1>1
<1> QED
  BY <1>1, <1>2 DEF TruthInv, HasResult, Tested, Where

(* Nothing was tested, and nothing printed of a test.                        *)
LEMMA NothingTested ==
  ASSUME truth = <<>>, Where(stdout, TestLines) = {}
  PROVE  /\ Cardinality(Where(stdout, TestLines)) = Least(Len(truth), Visible)
         /\ \A o \in Unfit : Where(stdout, StatusLines(VisibleStatus(o))) # {} <=> CameOut(o)
<1>1. Cardinality({}) = 0 /\ Len(truth) = 0 /\ DOMAIN truth = {}
  BY FS_EmptySet
<1>2. Least(Len(truth), Visible) = 0
  BY <1>1, TestsType DEF Least
<1>3. \A o : ~CameOut(o) /\ Where(stdout, StatusLines(VisibleStatus(o))) = {}
  BY <1>1 DEF CameOut, Where, StatusLines
<1> QED
  BY <1>1, <1>2, <1>3

LEMMA QuietTruth ==
  ASSUME EarnedInv, TruthInv, stage \in Running, stage' \in Running \cup Ended,
         UNCHANGED <<test, passed, stdout, truth, spoiled>>,
         stage' = "testing" => stage = "resolving",
         stage' \in {"loading", "resolving"} => stage \in {"loading", "resolving"}
  PROVE  TruthInv'
<1>1. HasResult' = HasResult /\ ~HasResult
  BY DEF HasResult, EarnedInv, Aggregates, Running, Ended
<1>2. CASE stage' # "testing"
  BY <1>1, <1>2, SameLines DEF TruthInv, Tested, HasResult, Where, Shown
<1>3. CASE stage' = "testing"
  <2>1. truth = <<>> /\ Where(stdout, TestLines) = {}
    BY <1>3 DEF TruthInv
  <2>2. /\ Cardinality(Where(stdout, TestLines)) = Least(Len(truth), Visible)
        /\ \A o \in Unfit : Where(stdout, StatusLines(VisibleStatus(o))) # {} <=> CameOut(o)
    BY <2>1, NothingTested
  <2>3. \A o : CameOut(o)' = CameOut(o) /\ VisibleStatus(o)' = VisibleStatus(o)
    BY DEF CameOut, VisibleStatus
  <2> QED
    BY <1>1, <1>3, <2>1, <2>2, <2>3, SameLines DEF TruthInv, Tested, HasResult, Where
<1> QED
  BY <1>2, <1>3

(* What an Emit leaves to be seen.                                           *)
LEMMA EmitSeen ==
  ASSUME RunInv, TruthInv, NEW lines \in Seq(Line_), NEW left \in BOOLEAN, Emit(lines, left),
         ~left => \A k \in DOMAIN lines : lines[k].seen = TRUE
  PROVE  ~spoiled' => \A i \in DOMAIN stdout' : stdout'[i].seen = TRUE
<1>1. SUFFICES ASSUME ~spoiled', NEW i \in DOMAIN stdout' PROVE stdout'[i].seen = TRUE
  OBVIOUS
<1>2. ~spoiled /\ ~left /\ stdout \in Seq(Line_) /\ stdout' = stdout \o lines
  BY <1>1 DEF Emit, RunInv, RunTypes
<1>3. i \in DOMAIN stdout \/ (i - Len(stdout) \in DOMAIN lines /\ stdout'[i] = lines[i - Len(stdout)])
  BY <1>1, <1>2, Longer
<1>4. \A n \in DOMAIN stdout : stdout'[n] = stdout[n] /\ stdout[n].seen = TRUE
  BY <1>2, Longer DEF TruthInv
<1> QED
  BY <1>2, <1>3, <1>4

LEMMA LoadingTruth ==
  ASSUME RunInv, EarnedInv, TruthInv, Load \/ LoadFails \/ CandidateEnds \/ Timeout
  PROVE  TruthInv'
<1>1. CASE Load
  <2>1. spoiled' = spoiled /\ stage = "loading" /\ stage' = "resolving"
    BY <1>1 DEF Load, Silent
  <2>2. UNCHANGED <<test, passed, stdout, truth>>
    BY <1>1 DEF Load, Silent
  <2> QED
    BY <2>1, <2>2, QuietTruth DEF Running
<1>2. CASE LoadFails
  BY <1>2, QuietTruth DEF LoadFails, Exit, Running, Ended
<1>3. CASE CandidateEnds
  BY <1>3, QuietTruth DEF CandidateEnds, CandidateRuns, Exit, Running, Ended
<1>4. CASE Timeout
  BY <1>4, QuietTruth DEF Timeout, Running, Ended
<1> QED
  BY <1>1, <1>2, <1>3, <1>4

(* The end is not reported before it is reached.                             *)
LEMMA NoResultYet ==
  ASSUME EarnedInv, stage \notin Ended
  PROVE  \A i \in DOMAIN stdout : stdout[i].marker # "result"
BY DEF EarnedInv, Aggregates

LEMMA ResolveTruth ==
  ASSUME RunInv, EarnedInv, TruthInv, Resolve
  PROVE  TruthInv'
<1>1. /\ stage = "resolving" /\ stage' = "testing" /\ UNCHANGED <<test, passed, truth>>
      /\ truth = <<>> /\ Where(stdout, TestLines) = {}
  BY DEF Resolve, TruthInv
<1>2. PICK left \in BOOLEAN : Silent(left) \/ \E l \in Line_ : Warned(left, l)
  BY ResolveLine
<1>3. CASE Silent(left)
  BY <1>1, <1>3, QuietTruth DEF Silent, Running
<1>4. ASSUME NEW l \in Line_, Warned(left, l) PROVE TruthInv'
  <2>1. Emit(<<l>>, left) /\ l.marker = "warning" /\ (~left => l.seen = TRUE)
    BY <1>4 DEF Warned
  <2>2. <<l>> \in Seq(Line_) /\ DOMAIN <<l>> = {1} /\ <<l>>[1] = l
    BY OneLine
  <2>3. stdout \in Seq(Line_) /\ stdout' = stdout \o <<l>>
    BY <2>1 DEF RunInv, RunTypes, Emit
  <2>4. ~spoiled' => \A i \in DOMAIN stdout' : stdout'[i].seen = TRUE
    BY <2>1, <2>2, EmitSeen
  <2>5. Where(stdout', TestLines') = {} /\ truth' = <<>>
    <3>1. \A k \in DOMAIN <<l>> : <<l>>[k] \notin TestLines
      BY <2>1, <2>2 DEF TestLines
    <3> QED
      BY <1>1, <2>2, <2>3, <3>1, NoneMore, SameLines
  <2>6. Cardinality(Where(stdout', TestLines')) = Least(Len(truth'), Visible)
    <3>1. Cardinality({}) = 0 /\ Len(truth') = 0
      BY <2>5, FS_EmptySet
    <3> QED
      BY <2>5, <3>1, TestsType DEF Least
  <2>7. \A o \in Unfit : Where(stdout', StatusLines(VisibleStatus(o))') = {} /\ ~CameOut(o)'
    <3>1. DOMAIN truth' = {}
      BY <2>5
    <3> QED
      BY <2>5, <3>1 DEF Where, StatusLines, CameOut
  <2>8. ~HasResult'
    <3>1. \A i \in DOMAIN stdout : stdout[i].marker # "result"
      BY <1>1, NoResultYet DEF Ended
    <3> QED
      BY <2>1, <2>2, <2>3, <3>1, Longer DEF HasResult
  <2> QED
    BY <1>1, <2>4, <2>5, <2>6, <2>7, <2>8 DEF TruthInv, Tested
<1> QED
  BY <1>2, <1>3, <1>4

LEMMA ResolveFailsTruth ==
  ASSUME RunInv, EarnedInv, TruthInv, ResolveFails
  PROVE  TruthInv'
<1>1. PICK left \in BOOLEAN, a \in Line_, b \in Line_, c \in Line_ : NoFunction(left, a, b, c)
  BY NoFunctionLines
<1> DEFINE lines == <<a, b, c>>
<1>2. /\ lines \in Seq(Line_) /\ DOMAIN lines = {1, 2, 3}
      /\ lines[1] = a /\ lines[2] = b /\ lines[3] = c
  BY ThreeLines
<1>3. Emit(lines, left)
  BY <1>1 DEF NoFunction
<1> HIDE DEF lines
<1>4. /\ a.marker = "test" /\ b.marker = "visible" /\ c.marker = "hidden"
      /\ ~left => a.seen = TRUE /\ b.seen = TRUE /\ c.seen = TRUE
  BY <1>1 DEF NoFunction
<1>5. stdout \in Seq(Line_) /\ stdout' = stdout \o lines
  BY <1>3 DEF Emit, RunInv, RunTypes
<1>6. ~spoiled' => \A i \in DOMAIN stdout' : stdout'[i].seen = TRUE
  BY <1>2, <1>3, <1>4, EmitSeen
<1>7. stage = "resolving" /\ stage' = "exited" /\ UNCHANGED <<test, passed, truth>>
  BY DEF ResolveFails, Exit
<1>8. \A i \in DOMAIN stdout : stdout[i].marker # "result"
  BY <1>7, NoResultYet DEF Ended
<1>9. ~HasResult'
  BY <1>2, <1>4, <1>5, <1>8, Longer DEF HasResult
<1> QED
  BY <1>6, <1>7, <1>9 DEF TruthInv, Tested

LEMMA VisibleTestTruth ==
  ASSUME RunInv, EarnedInv, TruthInv, VisibleTest
  PROVE  TruthInv'
<1>1. PICK outcome \in Outcome, left \in BOOLEAN, l \in Line_ : VisibleLine(outcome, left, l)
  BY VisibleTestLine
<1>2. /\ truth' = Append(truth, outcome) /\ Emit(<<l>>, left)
      /\ l.marker = "test" /\ l.status = VisibleStatus(outcome) /\ (~left => l.seen = TRUE)
  BY <1>1 DEF VisibleLine
<1>3. <<l>> \in Seq(Line_) /\ DOMAIN <<l>> = {1} /\ <<l>>[1] = l
  BY OneLine
<1>4. /\ stdout \in Seq(Line_) /\ stdout' = stdout \o <<l>> /\ truth \in Seq(Outcome)
      /\ stage = "testing" /\ stage' = stage /\ test' = test + 1 /\ test <= Visible
      /\ test = Len(truth) + 1 /\ Tested
  BY <1>2 DEF Emit, RunInv, RunTypes, VisibleTest, TruthInv, Tested
<1>5. ~spoiled' => \A i \in DOMAIN stdout' : stdout'[i].seen = TRUE
  BY <1>2, <1>3, EmitSeen
<1>6. /\ Len(truth) \in Nat /\ DOMAIN truth = 1 .. Len(truth)
      /\ Len(truth') = Len(truth) + 1 /\ DOMAIN truth' = 1 .. Len(truth) + 1
      /\ \A k \in 1 .. Len(truth) : truth'[k] = truth[k]
      /\ truth'[Len(truth) + 1] = outcome
  BY <1>2, <1>4, AppendProperties, LenProperties
<1>7. Cardinality(Where(stdout', TestLines)) = Least(Len(truth'), Visible)
  <2>1. l \in TestLines
    BY <1>2 DEF TestLines
  <2>2. Cardinality(Where(stdout', TestLines)) = Cardinality(Where(stdout, TestLines)) + 1
    BY <1>4, <2>1, OneMore
  <2>3. Cardinality(Where(stdout, TestLines)) = Least(Len(truth), Visible)
    BY <1>4 DEF TruthInv
  <2> QED
    BY <1>4, <1>6, <2>2, <2>3, TestsType DEF Least
<1>8. ASSUME NEW o \in Unfit
      PROVE  Where(stdout', StatusLines(VisibleStatus(o))) # {} <=> CameOut(o)'
  <2>1. Where(stdout, StatusLines(VisibleStatus(o))) # {} <=> CameOut(o)
    BY <1>4 DEF TruthInv
  <2>2. VisibleStatus(outcome) = VisibleStatus(o) <=> outcome = o
    BY DEF VisibleStatus, Outcome, Unfit
  <2>3. CASE outcome = o
    <3>1. CameOut(o)'
      BY <1>4, <1>6, <2>3 DEF CameOut
    <3>2. Len(stdout) + 1 \in Where(stdout', StatusLines(VisibleStatus(o)))
      BY <1>2, <1>3, <1>4, <2>3, Longer DEF Where, StatusLines, TestLines
    <3> QED
      BY <3>1, <3>2
  <2>4. CASE outcome # o
    <3>1. CameOut(o)' <=> CameOut(o)
      BY <1>6, <2>4 DEF CameOut
    <3>2. \A k \in DOMAIN <<l>> : <<l>>[k] \notin StatusLines(VisibleStatus(o))
      BY <1>2, <1>3, <2>2, <2>4 DEF StatusLines
    <3>3. Where(stdout', StatusLines(VisibleStatus(o))) = Where(stdout, StatusLines(VisibleStatus(o)))
      BY <1>3, <1>4, <3>2, NoneMore
    <3> QED
      BY <2>1, <3>1, <3>3
  <2> QED
    BY <2>3, <2>4
<1>9. ~HasResult'
  <2>1. \A i \in DOMAIN stdout : stdout[i].marker # "result"
    BY <1>4, NoResultYet DEF Ended
  <2> QED
    BY <1>2, <1>3, <1>4, <2>1, Longer DEF HasResult
<1> QED
  BY <1>4, <1>5, <1>6, <1>7, <1>8, <1>9, SameLines DEF TruthInv

LEMMA HiddenTestTruth ==
  ASSUME RunInv, EarnedInv, TruthInv, HiddenTest
  PROVE  TruthInv'
<1>1. PICK outcome \in Outcome, left \in BOOLEAN :
        Counted(outcome) /\ (Silent(left) \/ \E l \in Line_ : HiddenLine(left, l))
  BY HiddenTestLine
<1>2. /\ stdout \in Seq(Line_) /\ truth \in Seq(Outcome) /\ Visible < test
      /\ stage = "testing" /\ stage' = stage /\ test' = test + 1
      /\ test = Len(truth) + 1 /\ Tested
  BY DEF RunInv, RunTypes, HiddenTest, TruthInv, Tested
<1>3. /\ Len(truth) \in Nat /\ DOMAIN truth = 1 .. Len(truth)
      /\ Len(truth') = Len(truth) + 1 /\ DOMAIN truth' = 1 .. Len(truth) + 1
      /\ \A k \in 1 .. Len(truth) : truth'[k] = truth[k]
  BY <1>1, <1>2, AppendProperties, LenProperties DEF Counted
<1>4. \A o : CameOut(o)' <=> CameOut(o)
  BY <1>2, <1>3, TestsType DEF CameOut
<1>5. Least(Len(truth'), Visible) = Least(Len(truth), Visible)
  BY <1>2, <1>3, TestsType DEF Least
<1>6. \A i \in DOMAIN stdout : stdout[i].marker # "result"
  BY <1>2, NoResultYet DEF Ended
<1>7. ASSUME ~spoiled' => \A i \in DOMAIN stdout' : stdout'[i].seen = TRUE,
             \A K \in {TestLines} \cup {StatusLines(VisibleStatus(o)) : o \in Unfit} :
               Where(stdout', K) = Where(stdout, K),
             ~HasResult'
      PROVE  TruthInv'
  <2>1. /\ Where(stdout', TestLines) = Where(stdout, TestLines)
        /\ \A o \in Unfit : Where(stdout', StatusLines(VisibleStatus(o)))
                              = Where(stdout, StatusLines(VisibleStatus(o)))
    BY <1>7
  <2> QED
    BY <1>2, <1>3, <1>4, <1>5, <1>7, <2>1, SameLines DEF TruthInv, Tested
<1>8. CASE Silent(left)
  <2>1. stdout' = stdout /\ spoiled' = spoiled
    BY <1>8 DEF Silent
  <2>2. ~HasResult'
    BY <1>6, <2>1 DEF HasResult
  <2> QED
    BY <1>7, <2>1, <2>2 DEF TruthInv
<1>9. ASSUME NEW l \in Line_, HiddenLine(left, l) PROVE TruthInv'
  <2>1. Emit(<<l>>, left) /\ l.marker = "sample" /\ (~left => l.seen = TRUE)
    BY <1>9 DEF HiddenLine
  <2>2. <<l>> \in Seq(Line_) /\ DOMAIN <<l>> = {1} /\ <<l>>[1] = l
    BY OneLine
  <2>3. stdout' = stdout \o <<l>>
    BY <2>1 DEF Emit
  <2>4. ~spoiled' => \A i \in DOMAIN stdout' : stdout'[i].seen = TRUE
    BY <2>1, <2>2, EmitSeen
  <2>5. \A k \in DOMAIN <<l>> : <<l>>[k] \notin TestLines
    BY <2>1, <2>2 DEF TestLines
  <2>6. \A K \in {TestLines} \cup {StatusLines(VisibleStatus(o)) : o \in Unfit} :
          Where(stdout', K) = Where(stdout, K)
    BY <1>2, <2>2, <2>3, <2>5, NoneMore DEF StatusLines
  <2>7. ~HasResult'
    BY <1>2, <1>6, <2>1, <2>2, <2>3, Longer DEF HasResult
  <2> QED
    BY <1>7, <2>4, <2>6, <2>7
<1> QED
  BY <1>1, <1>8, <1>9

LEMMA SummaryTruth ==
  ASSUME RunInv, EarnedInv, TruthInv, Summary
  PROVE  TruthInv'
<1>1. PICK left \in BOOLEAN, a \in Line_, b \in Line_, c \in Line_ : Summed(left, a, b, c)
  BY SummaryLines
<1> DEFINE lines == <<a, b, c>>
<1>2. /\ lines \in Seq(Line_) /\ DOMAIN lines = {1, 2, 3}
      /\ lines[1] = a /\ lines[2] = b /\ lines[3] = c
  BY ThreeLines
<1>3. Emit(lines, left)
  BY <1>1 DEF Summed
<1> HIDE DEF lines
<1>4. /\ a.marker = "visible" /\ a.passed = passed.visible /\ a.total = Visible
      /\ b.marker = "hidden" /\ b.passed = passed.hidden /\ b.total = Hidden
      /\ c.marker = "result"
      /\ ~left => a.seen = TRUE /\ b.seen = TRUE /\ c.seen = TRUE
  BY <1>1 DEF Summed
<1>5. /\ stdout \in Seq(Line_) /\ stdout' = stdout \o lines
      /\ stage = "testing" /\ stage' = "exited" /\ UNCHANGED <<test, passed, truth>> /\ Tested
  BY <1>3 DEF Emit, RunInv, RunTypes, Summary, Exit, Tested
<1>6. ~spoiled' => \A i \in DOMAIN stdout' : stdout'[i].seen = TRUE
  BY <1>2, <1>3, <1>4, EmitSeen
<1>7. \A k \in DOMAIN lines : lines[k] \notin TestLines
  BY <1>2, <1>4 DEF TestLines
<1>8. /\ Where(stdout', TestLines) = Where(stdout, TestLines)
      /\ \A st : Where(stdout', StatusLines(st)) = Where(stdout, StatusLines(st))
  BY <1>2, <1>5, <1>7, NoneMore DEF StatusLines
<1>9. \A o : CameOut(o)' <=> CameOut(o)
  BY <1>5 DEF CameOut
<1>10. /\ Len(stdout) + 1 \in DOMAIN stdout' /\ stdout'[Len(stdout) + 1] = a
       /\ Len(stdout) + 2 \in DOMAIN stdout' /\ stdout'[Len(stdout) + 2] = b
  BY <1>2, <1>5, Longer
<1>11. Shown("visible", passed.visible, Visible)' /\ Shown("hidden", passed.hidden, Hidden)'
  BY <1>4, <1>5, <1>10 DEF Shown
<1> QED
  BY <1>5, <1>6, <1>8, <1>9, <1>11, SameLines DEF TruthInv

LEMMA TruthStep ==
  ASSUME RunInv, EarnedInv, TruthInv, HonestStep
  PROVE  TruthInv'
BY LoadingTruth, ResolveTruth, ResolveFailsTruth, VisibleTestTruth, HiddenTestTruth, SummaryTruth
   DEF HonestStep


(* The counts of a marker that was printed once, at the start of its line.   *)
LEMMA CountsOfShown ==
  ASSUME RunInv, EarnedInv, TruthInv, ~spoiled, NEW m \in {"visible", "hidden"}, NEW p, NEW t,
         Shown(m, p, t)
  PROVE  Counts(m).passed = p /\ Counts(m).total = t
<1>1. PICK x \in DOMAIN stdout :
        stdout[x].marker = m /\ stdout[x].passed = p /\ stdout[x].total = t
  BY DEF Shown
<1>2. x \in Marked(m)
  BY <1>1 DEF Marked, TruthInv
<1>3. Marked(m) \in SUBSET Nat
  BY LenProperties DEF Marked, RunInv, RunTypes
<1>4. \A y \in Marked(m) : y = x
  BY <1>1 DEF EarnedInv, Marked, Aggregates
<1>5. Max(Marked(m)) = x
  BY <1>2, <1>3, <1>4, OnlyPlace
<1> QED
  BY <1>1, <1>2, <1>5 DEF Counts

(* The reported tests of a status are the printed lines with that status.    *)
LEMMA CountsOfStatuses ==
  ASSUME RunInv, TruthInv, ~spoiled, NEW st
  PROVE  /\ DOMAIN Statuses = Where(stdout, TestLines)
         /\ CountOf({st}, Statuses) = Cardinality(Where(stdout, StatusLines(st)))
<1>1. \A i \in DOMAIN stdout : stdout[i] \in Line_ /\ stdout[i].seen = TRUE
  BY LenProperties, ElementOfSeq DEF RunInv, RunTypes, TruthInv
<1>2. DOMAIN Statuses = Where(stdout, TestLines)
  BY <1>1 DEF Statuses, Marked, Where, TestLines
<1>3. {t \in DOMAIN Statuses : Statuses[t] \in {st}} = Where(stdout, StatusLines(st))
  BY <1>1 DEF Statuses, Marked, Where, TestLines, StatusLines
<1> QED
  BY <1>2, <1>3 DEF CountOf

(* A test that did not come out right is missing from the right ones.        *)
LEMMA NotAllRight ==
  ASSUME RunInv, NEW k \in DOMAIN truth, truth[k] # "right"
  PROVE  RightTests # Len(truth)
<1> DEFINE Right == {n \in DOMAIN truth : truth[n] \in {"right"}}
<1>1. Len(truth) \in Nat /\ DOMAIN truth = 1 .. Len(truth)
  BY LenProperties DEF RunInv, RunTypes
<1>2. IsFiniteSet(1 .. Len(truth)) /\ Cardinality(1 .. Len(truth)) = Len(truth)
  <2> DEFINE Length == Len(truth)
  <2>1. Length \in Int /\ 1 \in Int /\ Length >= 0
    BY <1>1
  <2> HIDE DEF Length, Right
  <2>2. IsFiniteSet(1 .. Length)
        /\ Cardinality(1 .. Length) = IF 1 > Length THEN 0 ELSE Length - 1 + 1
    BY <2>1, FS_Interval
  <2>3. Cardinality(1 .. Length) = Length
    BY <2>1, <2>2
  <2> QED
    BY <2>2, <2>3 DEF Length
<1>3. Right \in SUBSET (1 .. Len(truth)) /\ Right # 1 .. Len(truth)
  BY <1>1
<1>4. RightTests = Cardinality(Right)
  BY DEF RightTests, CountOf
<1> HIDE DEF Right
<1> QED
  BY <1>2, <1>3, <1>4, FS_Subset

(* A solution that ran to its end and kept the standard output clean gets    *)
(* the grade it earned.                                                      *)
LEMMA CleanGrade ==
  ASSUME RunInv, EarnedInv, TruthInv, stage = "exited", Len(truth) = Tests, Completed, ~spoiled
  PROVE  /\ CodingResult.passed = RightTests /\ CodingResult.total = Tests
         /\ CodingResult.status = "success" <=> RightTests = Tests
         /\ CodingResult.status = "runtime_error" <=> CameOut("raises") /\ ~CameOut("signature")
<1>1. HasResult /\ Tested /\ CodingResult = Parsed
  BY DEF Completed, HasResult, Tested, CodingResult
<1>2. /\ Counts("visible").passed = passed.visible /\ Counts("visible").total = Visible
      /\ Counts("hidden").passed = passed.hidden /\ Counts("hidden").total = Hidden
  BY <1>1, CountsOfShown DEF TruthInv
<1>3. /\ passed.visible \in Nat /\ passed.hidden \in Nat
      /\ RightTests = passed.visible + passed.hidden
  BY DEF RunInv, RunTypes, EarnedInv
<1>4. StatusLines("passed") = PassedLines
  BY DEF StatusLines, PassedLines
<1>5. /\ CountOf({"passed"}, Statuses) = passed.visible
      /\ CountOf({"error"}, Statuses) = Cardinality(Where(stdout, StatusLines("error")))
      /\ CountOf({"signature"}, Statuses) = Cardinality(Where(stdout, StatusLines("signature")))
      /\ DOMAIN Statuses = Where(stdout, TestLines)
  BY <1>4, CountsOfStatuses DEF EarnedInv
<1>6. Cardinality(DOMAIN Statuses) = Visible
  <2>1. Least(Tests, Visible) = Visible
    BY TestsType DEF Least
  <2> QED
    BY <1>1, <1>5, <2>1 DEF TruthInv
<1>7. IsFiniteSet(DOMAIN Statuses)
  BY <1>5, WhereIsFinite DEF RunInv, RunTypes
<1>8. DOMAIN Statuses = {} <=> Visible = 0
  BY <1>6, <1>7, FS_EmptySet
<1>9. Totals(Statuses).passed = RightTests /\ Totals(Statuses).total = Tests
  BY <1>2, <1>3, <1>5, <1>6, <1>8, TestsType DEF Totals
<1>10. \A st : Cardinality(Where(stdout, StatusLines(st))) > 0
                 <=> Where(stdout, StatusLines(st)) # {}
  <2> TAKE st
  <2>1. stdout \in Seq(Line_)
    BY DEF RunInv, RunTypes
  <2>2. IsFiniteSet(Where(stdout, StatusLines(st)))
        /\ Cardinality(Where(stdout, StatusLines(st))) \in Nat
    BY <2>1, WhereIsFinite
  <2>3. Cardinality(Where(stdout, StatusLines(st))) = 0 <=> Where(stdout, StatusLines(st)) = {}
    BY <2>2, FS_EmptySet
  <2> QED
    BY <2>2, <2>3
<1>11. /\ Where(stdout, StatusLines("error")) # {} <=> CameOut("raises")
       /\ Where(stdout, StatusLines("signature")) # {} <=> CameOut("signature")
  <2>1. VisibleStatus("raises") = "error" /\ VisibleStatus("signature") = "signature"
    BY DEF VisibleStatus
  <2>2. "raises" \in Unfit /\ "signature" \in Unfit
    BY DEF Unfit
  <2> QED
    BY <1>1, <2>1, <2>2 DEF TruthInv
<1>12. /\ CountOf({"error"}, Statuses) > 0 <=> CameOut("raises")
       /\ CountOf({"signature"}, Statuses) > 0 <=> CameOut("signature")
       /\ CountOf({"signature"}, Statuses) = 0 <=> ~CameOut("signature")
  <2>1. Cardinality(Where(stdout, StatusLines("signature"))) \in Nat
    BY WhereIsFinite DEF RunInv, RunTypes
  <2> QED
    BY <1>5, <1>10, <1>11, <2>1
<1>13. \A o \in Unfit : CameOut(o) => RightTests # Tests
  BY NotAllRight DEF CameOut, Unfit
<1>14. /\ CodingResult.passed = RightTests /\ CodingResult.total = Tests
       /\ CodingResult.status = ParsedStatus(Statuses, Totals(Statuses))
  BY <1>1, <1>9 DEF Parsed, Result
<1>15. CASE CameOut("signature")
  <2>1. ParsedStatus(Statuses, Totals(Statuses)) = "failed_tests"
    BY <1>9, <1>12, <1>15, TestsType DEF ParsedStatus
  <2> QED
    BY <1>13, <1>14, <1>15, <2>1 DEF Unfit
<1>16. CASE ~CameOut("signature") /\ CameOut("raises")
  <2>1. ParsedStatus(Statuses, Totals(Statuses)) = "runtime_error"
    BY <1>9, <1>12, <1>16, TestsType DEF ParsedStatus
  <2> QED
    BY <1>13, <1>14, <1>16, <2>1 DEF Unfit
<1>17. CASE ~CameOut("signature") /\ ~CameOut("raises")
  <2>1. ~(CountOf({"error"}, Statuses) > 0) /\ ~(CountOf({"signature"}, Statuses) > 0)
    BY <1>12, <1>17
  <2>2. ParsedStatus(Statuses, Totals(Statuses)) =
          IF RightTests = Tests THEN "success" ELSE "failed_tests"
    BY <1>9, <2>1, TestsType DEF ParsedStatus
  <2> QED
    BY <1>14, <1>17, <2>2
<1> QED
  BY <1>15, <1>16, <1>17

-----------------------------------------------------------------------------
(* What is graded of an honest run is consistent.                            *)

(* The counters of the harness, and the lines that count as tests.           *)
SoundLine(l) ==
  /\ l.marker = "visible" => l.passed \in 0 .. Visible /\ l.total = Visible
  /\ l.marker = "hidden" => l.passed \in 0 .. Hidden /\ l.total = Hidden

CountInv ==
  /\ \A i \in DOMAIN stdout : SoundLine(stdout[i])
  /\ Cardinality(Where(stdout, TestLines)) <= Visible + 1

LEMMA SoundLines ==
  ASSUME RunInv, CountInv, NEW lines \in Seq(Line_), stdout' = stdout \o lines,
         \A k \in DOMAIN lines : SoundLine(lines[k])
  PROVE  \A i \in DOMAIN stdout' : SoundLine(stdout'[i])
<1>1. stdout \in Seq(Line_)
  BY DEF RunInv, RunTypes
<1>2. \A i \in DOMAIN stdout' :
        \/ stdout'[i] = stdout[i] /\ i \in DOMAIN stdout
        \/ i - Len(stdout) \in DOMAIN lines /\ stdout'[i] = lines[i - Len(stdout)]
  BY <1>1, Longer
<1> QED
  BY <1>2 DEF CountInv

LEMMA OneSoundLine ==
  ASSUME RunInv, CountInv, NEW l \in Line_, l.marker \notin {"visible", "hidden"},
         NEW left \in BOOLEAN, Emit(<<l>>, left)
  PROVE  \A i \in DOMAIN stdout' : SoundLine(stdout'[i])
<1>1. <<l>> \in Seq(Line_) /\ DOMAIN <<l>> = {1} /\ <<l>>[1] = l
  BY OneLine
<1>2. \A k \in DOMAIN <<l>> : SoundLine(<<l>>[k])
  BY <1>1 DEF SoundLine
<1> QED
  BY <1>1, <1>2, SoundLines DEF Emit

LEMMA ThreeSoundLines ==
  ASSUME RunInv, CountInv, NEW a \in Line_, NEW b \in Line_, NEW c \in Line_,
         SoundLine(a), SoundLine(b), SoundLine(c), NEW left \in BOOLEAN, Emit(<<a, b, c>>, left)
  PROVE  \A i \in DOMAIN stdout' : SoundLine(stdout'[i])
<1> DEFINE lines == <<a, b, c>>
<1>1. /\ lines \in Seq(Line_) /\ DOMAIN lines = {1, 2, 3}
      /\ lines[1] = a /\ lines[2] = b /\ lines[3] = c
  BY ThreeLines
<1>2. stdout' = stdout \o lines
  BY DEF Emit
<1> HIDE DEF lines
<1>3. \A k \in DOMAIN lines : SoundLine(lines[k])
  BY <1>1
<1> QED
  BY <1>1, <1>2, <1>3, SoundLines

(* The lines of each step of the harness.                                    *)
LEMMA PrintsSoundLines ==
  ASSUME RunInv, CountInv, HonestStep
  PROVE  \A i \in DOMAIN stdout' : SoundLine(stdout'[i])
<1>1. CASE UNCHANGED stdout
  BY <1>1 DEF CountInv, SoundLine
<1>2. CASE Resolve
  BY <1>1, <1>2, ResolveLine, OneSoundLine DEF Silent, Warned
<1>3. CASE VisibleTest
  <2>1. PICK outcome \in Outcome, left \in BOOLEAN, l \in Line_ : VisibleLine(outcome, left, l)
    BY <1>3, VisibleTestLine
  <2> QED
    BY <2>1, OneSoundLine DEF VisibleLine
<1>4. CASE HiddenTest
  <2>1. PICK left \in BOOLEAN : Silent(left) \/ \E l \in Line_ : HiddenLine(left, l)
    BY <1>4, HiddenTestLine
  <2> QED
    BY <1>1, <2>1, OneSoundLine DEF Silent, HiddenLine
<1>5. CASE ResolveFails
  <2>1. PICK left \in BOOLEAN, a \in Line_, b \in Line_, c \in Line_ : NoFunction(left, a, b, c)
    BY <1>5, NoFunctionLines
  <2>2. SoundLine(a) /\ SoundLine(b) /\ SoundLine(c)
    BY <2>1, TestsType DEF NoFunction, SoundLine
  <2> QED
    BY <2>1, <2>2, ThreeSoundLines DEF NoFunction
<1>6. CASE Summary
  <2>1. PICK left \in BOOLEAN, a \in Line_, b \in Line_, c \in Line_ : Summed(left, a, b, c)
    BY <1>6, SummaryLines
  <2>2. passed.visible \in 0 .. Visible /\ passed.hidden \in 0 .. Hidden
    <3>1. test <= Tests + 1 /\ test \in Nat /\ passed.hidden \in Nat /\ passed.visible \in Nat
          /\ passed.visible <= Visible
          /\ (passed.hidden = 0 \/ passed.hidden + Visible < test)
      BY TestsType DEF RunInv, RunTypes
    <3> QED
      BY <3>1, TestsType
  <2>3. SoundLine(a) /\ SoundLine(b) /\ SoundLine(c)
    BY <2>1, <2>2 DEF Summed, SoundLine
  <2> QED
    BY <2>1, <2>3, ThreeSoundLines DEF Summed
<1> QED
  BY <1>1, <1>2, <1>3, <1>4, <1>5, <1>6
     DEF HonestStep, Load, LoadFails, CandidateEnds, Timeout, Silent

LEMMA CountStep ==
  ASSUME RunInv, RunInv', TruthInv, TruthInv', CountInv, HonestStep
  PROVE  CountInv'
<1>1. \A i \in DOMAIN stdout' : SoundLine(stdout'[i])
  BY PrintsSoundLines
<1>2. TestLines' = TestLines /\ (Visible + 1)' = Visible + 1
      /\ (\A i \in DOMAIN stdout : SoundLine(stdout[i]))' <=> \A i \in DOMAIN stdout' : SoundLine(stdout'[i])
  BY DEF TestLines, Line_, SoundLine
<1>3. CASE stdout' = stdout
  BY <1>1, <1>2, <1>3 DEF CountInv, Where
<1>4. CASE Tested'
  <2>1. Cardinality(Where(stdout', TestLines)) = Least(Len(truth'), Visible)
    BY <1>2, <1>4 DEF TruthInv
  <2>2. Len(truth') \in Nat
    BY LenProperties DEF RunInv, RunTypes
  <2>3. Least(Len(truth'), Visible) <= Visible + 1
    BY <2>2, TestsType DEF Least
  <2> QED
    BY <1>1, <1>2, <2>1, <2>3 DEF CountInv
<1>5. CASE ResolveFails
  <2>1. PICK left \in BOOLEAN, a \in Line_, b \in Line_, c \in Line_ : NoFunction(left, a, b, c)
    BY <1>5, NoFunctionLines
  <2> DEFINE lines == <<a, b, c>>
  <2>2. lines \in Seq(Line_) /\ DOMAIN lines = {1, 2, 3} /\ lines[2] = b /\ lines[3] = c
    BY ThreeLines
  <2>3. stdout' = stdout \o lines
    BY <2>1 DEF NoFunction, Emit
  <2> HIDE DEF lines
  <2>4. stdout \in Seq(Line_) /\ Where(stdout, TestLines) = {}
    BY <1>5 DEF ResolveFails, TruthInv, RunInv, RunTypes
  <2>5. lines[2] \notin TestLines /\ lines[3] \notin TestLines
    BY <2>1, <2>2 DEF NoFunction, TestLines
  <2>6. Where(stdout', TestLines) \subseteq {Len(stdout) + 1}
    <3> SUFFICES ASSUME NEW i \in DOMAIN stdout', stdout'[i] \in TestLines
                 PROVE  i = Len(stdout) + 1
      BY DEF Where
    <3>1. /\ Len(stdout) \in Nat
          /\ DOMAIN stdout' = 1 .. Len(stdout) + Len(lines) /\ Len(lines) \in Nat
          /\ \A n \in DOMAIN stdout : stdout'[n] = stdout[n]
          /\ i \in DOMAIN stdout
             \/ (i - Len(stdout) \in DOMAIN lines /\ stdout'[i] = lines[i - Len(stdout)])
      BY <2>2, <2>3, <2>4, Longer
    <3>2. i \notin DOMAIN stdout
      BY <2>4, <3>1 DEF Where
    <3>3. i - Len(stdout) \in {1, 2, 3} /\ i \in Int
      BY <2>2, <3>1, <3>2
    <3>4. i - Len(stdout) # 2 /\ i - Len(stdout) # 3
      BY <2>5, <3>1, <3>2
    <3>5. i - Len(stdout) = 1
      BY <3>3, <3>4
    <3> QED
      BY <3>1, <3>3, <3>5
  <2>7. Cardinality(Where(stdout', TestLines)) <= 1
    <3>1. IsFiniteSet({Len(stdout) + 1}) /\ Cardinality({Len(stdout) + 1}) = 1
      BY FS_Singleton
    <3> QED
      BY <2>6, <3>1, FS_Subset
  <2>8. Cardinality(Where(stdout', TestLines)) \in Nat
    BY <2>2, <2>3, <2>4, Longer, WhereIsFinite
  <2>9. Cardinality(Where(stdout', TestLines)) <= Visible + 1
    BY <2>7, <2>8, TestsType
  <2> QED
    BY <1>1, <1>2, <2>9 DEF CountInv
<1>6. CASE Summary
  <2>1. PICK left \in BOOLEAN, a \in Line_, b \in Line_, c \in Line_ : Summed(left, a, b, c)
    BY <1>6, SummaryLines
  <2> DEFINE lines == <<a, b, c>>
  <2>2. lines \in Seq(Line_) /\ DOMAIN lines = {1, 2, 3} /\ lines[3] = c
    BY ThreeLines
  <2>3. stdout' = stdout \o lines /\ c.marker = "result" /\ stdout \in Seq(Line_)
    BY <2>1 DEF Summed, Emit, RunInv, RunTypes
  <2> HIDE DEF lines
  <2>4. Len(stdout) + 3 \in DOMAIN stdout' /\ stdout'[Len(stdout) + 3] = c
    <3>1. /\ DOMAIN lines = 1 .. Len(lines) /\ Len(lines) \in Nat /\ Len(stdout) \in Nat
          /\ DOMAIN stdout' = 1 .. Len(stdout) + Len(lines)
          /\ \A k \in DOMAIN lines : stdout'[Len(stdout) + k] = lines[k]
      BY <2>2, <2>3, Longer
    <3>2. 3 \in DOMAIN lines /\ 3 <= Len(lines)
      BY <2>2, <3>1
    <3> QED
      BY <2>2, <3>1, <3>2
  <2>5. Tested'
    BY <2>3, <2>4 DEF Tested, HasResult
  <2> QED
    BY <1>4, <2>5
<1> QED
  BY <1>3, <1>4, <1>5, <1>6
     DEF HonestStep, Load, LoadFails, CandidateEnds, Timeout, Silent, Resolve, VisibleTest,
         HiddenTest, Tested

(* What holds of the output as long as no line of it is the candidate's that *)
(* looks like one of the harness's.                                          *)
HonestInv == Honest => EarnedInv /\ TruthInv /\ CountInv

LEMMA FreshCounts ==
  ASSUME stdout' = <<>>
  PROVE  CountInv'
<1>1. DOMAIN stdout' = {} /\ Where(stdout', TestLines') = {} /\ Cardinality({}) = 0
  BY FS_EmptySet DEF Where
<1> QED
  BY <1>1, TestsType DEF CountInv

LEMMA HonestInvariant == Spec => []HonestInv
<1>1. Init => HonestInv
  <2>1. SUFFICES ASSUME Init PROVE TruthInv /\ CountInv
    BY InitialRun DEF HonestInv
  <2>2. DOMAIN stdout = {} /\ Len(truth) = 0 /\ Where(stdout, TestLines) = {} /\ Cardinality({}) = 0
    BY <2>1, FS_EmptySet DEF Init, Where
  <2>3. TruthInv
    BY <2>1, <2>2 DEF Init, TruthInv, HasResult, Tested
  <2>4. CountInv
    BY <2>2, TestsType DEF CountInv
  <2> QED
    BY <2>3, <2>4
<1>2. ASSUME RunInv, RunInv', HonestInv, [Next]_vars, Honest' PROVE (EarnedInv /\ TruthInv /\ CountInv)'
  <2>1. CASE RunStep
    <3>1. Honest /\ HonestStep
      BY <1>2, <2>1, HonestBefore
    <3>2. EarnedInv /\ TruthInv /\ CountInv
      BY <1>2, <3>1 DEF HonestInv
    <3>3. EarnedInv'
      BY <1>2, <3>1, <3>2, EarnedStep
    <3>4. TruthInv'
      BY <1>2, <3>1, <3>2, TruthStep
    <3> QED
      BY <1>2, <3>1, <3>2, <3>3, <3>4, CountStep
  <2>2. CASE UNCHANGED run
    <3>1. Honest /\ EarnedInv /\ TruthInv /\ CountInv
      BY <1>2, <2>2 DEF HonestInv, Honest, run
    <3>2. EarnedInv'
      BY <2>2, <3>1 DEF EarnedInv, run, RightTests, Where, PassedLines, TestLines, Line_, Aggregates
    <3>3. TruthInv'
      BY <2>2, <3>1, SameLines DEF TruthInv, run, HasResult, Tested, Where, CameOut, Shown
    <3>4. CountInv'
      BY <2>2, <3>1, SameLines DEF CountInv, SoundLine, run, Where
    <3> QED
      BY <3>2, <3>3, <3>4
  <2>3. ASSUME NEW r \in {IdleRun, [IdleRun EXCEPT !.stage = "loading"]}, BecomeRun(r)
        PROVE  (EarnedInv /\ TruthInv /\ CountInv)'
    <3>1. stdout' = <<>>
      BY <2>3 DEF BecomeRun, IdleRun
    <3>2. CountInv'
      BY <3>1, FreshCounts
    <3> QED
      BY <2>3, <3>2, FreshRun, FreshTruth
  <2> QED
    BY <1>2, <2>1, <2>2, <2>3, RunActions
<1>3. RunInv /\ RunInv' /\ HonestInv /\ [Next]_vars => HonestInv'
  BY <1>2 DEF HonestInv
<1> QED
  BY <1>1, <1>3, RunInvariant, PTL DEF Spec

(* As long as no line but the harness's looks like one of its own, a         *)
(* solution that ran to its end and left no line open gets the grade that    *)
(* its tests came out with.                                                  *)
THEOREM TheGradeIsTrue == Spec => []GradeIsTrue
<1>1. ASSUME RunInv, HonestInv PROVE GradeIsTrue
  <2>1. SUFFICES ASSUME stage = "exited", Len(truth) = Tests, Completed, Honest, ~spoiled
                 PROVE  /\ CodingResult.passed = RightTests /\ CodingResult.total = Tests
                        /\ CodingResult.status = "success" <=> RightTests = Tests
                        /\ CodingResult.status = "runtime_error" <=>
                             CameOut("raises") /\ ~CameOut("signature")
    <3>1. DOMAIN truth = 1 .. Len(truth)
      BY <1>1, LenProperties DEF RunInv, RunTypes
    <3>2. Len(truth) = Tests =>
            \A o : CameOut(o) <=> \E i \in 1 .. Visible : truth[i] \in {o}
      BY <3>1, TestsType DEF CameOut
    <3> QED
      BY <3>2 DEF GradeIsTrue
  <2> QED
    BY <1>1, <2>1, CleanGrade DEF HonestInv
<1> QED
  BY <1>1, RunInvariant, HonestInvariant, PTL

(* An execution, and an answer as the report sees it.                        *)
TestReports ==
  UNION {[D -> TestStatus \cup {"none"}] : D \in {E \in SUBSET Nat : IsFiniteSet(E)}}

Execution == [status : ExecutionStatus, passed : Nat, total : Nat, tests : TestReports]

GradedAnswer ==
  [dim : Dimensions, executed : BOOLEAN, execution : Execution, honest : BOOLEAN,
   evaluated : BOOLEAN, score : 0 .. FullScore]

(* A success is that every test passed, of at least one.                     *)
IsVerdict(e) ==
  /\ e.passed <= e.total
  /\ e.status = "success" <=> e.total > 0 /\ e.passed = e.total
  /\ e.total <= Tests + 1 \/ e.total <= SqlTests

LEMMA CountsOfReports ==
  ASSUME NEW tests, IsFiniteSet(DOMAIN tests), NEW A
  PROVE  /\ CountOf(A, tests) \in Nat /\ Cardinality(DOMAIN tests) \in Nat
         /\ CountOf(A, tests) <= Cardinality(DOMAIN tests)
         /\ CountOf(A, tests) = Cardinality(DOMAIN tests) => \A t \in DOMAIN tests : tests[t] \in A
         /\ (\A t \in DOMAIN tests : tests[t] \notin A) => CountOf(A, tests) = 0
<1> DEFINE Those == {t \in DOMAIN tests : tests[t] \in A}
<1>1. Those \in SUBSET DOMAIN tests
  OBVIOUS
<1>2. CountOf(A, tests) = Cardinality(Those)
  BY DEF CountOf
<1>3. (\A t \in DOMAIN tests : tests[t] \notin A) => Those = {}
  OBVIOUS
<1>4. Those = DOMAIN tests => \A t \in DOMAIN tests : tests[t] \in A
  OBVIOUS
<1> HIDE DEF Those
<1>5. /\ IsFiniteSet(Those) /\ Cardinality(Those) <= Cardinality(DOMAIN tests)
      /\ Cardinality(Those) = Cardinality(DOMAIN tests) => Those = DOMAIN tests
  BY <1>1, FS_Subset
<1>6. Cardinality(Those) \in Nat /\ Cardinality(DOMAIN tests) \in Nat /\ Cardinality({}) = 0
  BY <1>5, FS_CardinalityType, FS_EmptySet
<1> QED
  BY <1>2, <1>3, <1>4, <1>5, <1>6

LEMMA CountsAreSound ==
  ASSUME RunInv, EarnedInv, CountInv, NEW m \in {"visible", "hidden"}
  PROVE  /\ Counts(m).passed \in Nat /\ Counts(m).total \in Nat
         /\ Counts(m).passed <= Counts(m).total
         /\ Counts(m).total <= (IF m = "visible" THEN Visible ELSE Hidden)
<1>1. CASE Marked(m) = {}
  BY <1>1, TestsType DEF Counts
<1>2. CASE Marked(m) # {}
  <2>1. PICK x \in Marked(m) : TRUE
    BY <1>2
  <2>2. stdout \in Seq(Line_)
    BY DEF RunInv, RunTypes
  <2>3. Marked(m) \in SUBSET Nat /\ x \in DOMAIN stdout /\ stdout[x].marker = m
    BY <2>1, <2>2, LenProperties DEF Marked
  <2>4. \A y \in Marked(m) : y = x
    BY <2>3 DEF EarnedInv, Marked, Aggregates
  <2>5. Max(Marked(m)) = x
    BY <2>1, <2>3, <2>4, OnlyPlace
  <2>6. Counts(m).passed = stdout[x].passed /\ Counts(m).total = stdout[x].total
    BY <1>2, <2>5 DEF Counts
  <2>7. SoundLine(stdout[x])
    BY <2>3 DEF CountInv
  <2>8. /\ stdout[x].passed \in Nat /\ stdout[x].total \in Nat
        /\ stdout[x].passed <= stdout[x].total
        /\ stdout[x].total = IF m = "visible" THEN Visible ELSE Hidden
    BY <2>3, <2>7, TestsType DEF SoundLine
  <2> QED
    BY <2>6, <2>8, TestsType
<1> QED
  BY <1>1, <1>2

LEMMA StatusesAreReports ==
  ASSUME RunInv
  PROVE  /\ Statuses \in TestReports /\ IsFiniteSet(DOMAIN Statuses)
         /\ DOMAIN Statuses \subseteq Where(stdout, TestLines)
<1>1. stdout \in Seq(Line_)
  BY DEF RunInv, RunTypes
<1>2. \A i \in DOMAIN stdout : i \in Nat /\ stdout[i] \in Line_
  BY <1>1, LenProperties, ElementOfSeq
<1>3. DOMAIN Statuses \subseteq Where(stdout, TestLines)
  BY <1>2 DEF Statuses, Marked, Where, TestLines
<1>4. IsFiniteSet(DOMAIN Statuses)
  BY <1>1, <1>3, WhereIsFinite, FS_Subset
<1>5. DOMAIN Statuses \in SUBSET Nat
  BY <1>2 DEF Statuses, Marked
<1>6. Statuses \in [DOMAIN Statuses -> TestStatus \cup {"none"}]
  BY <1>2 DEF Statuses, Marked, Line_
<1> QED
  BY <1>3, <1>4, <1>5, <1>6 DEF TestReports

LEMMA NoReports == <<>> \in TestReports
<1>1. <<>> \in [{} -> TestStatus \cup {"none"}] /\ {} \in SUBSET Nat
  OBVIOUS
<1>2. IsFiniteSet({})
  BY FS_EmptySet
<1> QED
  BY <1>1, <1>2 DEF TestReports

LEMMA UngradedVerdict ==
  ASSUME NEW st \in ExecutionStatus \ {"success"}
  PROVE  Ungraded(st) \in Execution /\ IsVerdict(Ungraded(st))
BY NoReports, TestsType DEF Ungraded, Result, Execution, IsVerdict, ExecutionStatus

LEMMA ParsedVerdict ==
  ASSUME RunInv, EarnedInv, CountInv
  PROVE  Parsed \in Execution /\ IsVerdict(Parsed)
<1> DEFINE reported == Cardinality(DOMAIN Statuses)
           right == CountOf({"passed"}, Statuses)
           totals == Totals(Statuses)
           seen == IF DOMAIN Statuses # {} THEN [passed |-> right, total |-> reported]
                   ELSE Counts("visible")
<1>1. /\ Statuses \in TestReports /\ IsFiniteSet(DOMAIN Statuses)
      /\ DOMAIN Statuses \subseteq Where(stdout, TestLines)
  BY StatusesAreReports
<1>2. /\ right \in Nat /\ reported \in Nat /\ right <= reported
      /\ right = reported => \A t \in DOMAIN Statuses : Statuses[t] \in {"passed"}
  BY <1>1, CountsOfReports
<1>3. /\ CountOf({"signature"}, Statuses) \in Nat /\ CountOf({"error"}, Statuses) \in Nat
      /\ (\A t \in DOMAIN Statuses : Statuses[t] \in {"passed"}) =>
            CountOf({"signature"}, Statuses) = 0 /\ CountOf({"error"}, Statuses) = 0
  BY <1>1, CountsOfReports
<1>4. reported <= Visible + 1
  <2>1. IsFiniteSet(Where(stdout, TestLines)) /\ Cardinality(Where(stdout, TestLines)) \in Nat
    BY WhereIsFinite DEF RunInv, RunTypes
  <2>2. reported <= Cardinality(Where(stdout, TestLines))
    BY <1>1, <2>1, FS_Subset
  <2> QED
    BY <1>2, <2>1, <2>2, TestsType DEF CountInv
<1>5. /\ Counts("visible").passed \in Nat /\ Counts("visible").total \in Nat
      /\ Counts("visible").passed <= Counts("visible").total
      /\ Counts("visible").total <= Visible
  BY CountsAreSound
<1>6. /\ Counts("hidden").passed \in Nat /\ Counts("hidden").total \in Nat
      /\ Counts("hidden").passed <= Counts("hidden").total
      /\ Counts("hidden").total <= Hidden
  BY CountsAreSound
<1>7. totals = [passed |-> seen.passed + Counts("hidden").passed,
                total |-> seen.total + Counts("hidden").total]
  BY DEF Totals
<1> HIDE DEF totals, right, reported
<1>8. /\ seen.passed \in Nat /\ seen.total \in Nat /\ seen.passed <= seen.total
      /\ seen.total <= Visible + 1
  BY <1>2, <1>4, <1>5, TestsType
<1>9. seen.passed = seen.total => \A t \in DOMAIN Statuses : Statuses[t] \in {"passed"}
  BY <1>2
<1> HIDE DEF seen
<1>10. /\ totals.passed \in Nat /\ totals.total \in Nat /\ totals.passed <= totals.total
       /\ totals.total <= Tests + 1
       /\ totals.passed = totals.total => seen.passed = seen.total
  BY <1>6, <1>7, <1>8, TestsType
<1>11. /\ Parsed.status = ParsedStatus(Statuses, totals)
       /\ Parsed.passed = totals.passed /\ Parsed.total = totals.total
       /\ Parsed = [status |-> ParsedStatus(Statuses, totals), passed |-> totals.passed,
                    total |-> totals.total, tests |-> Statuses]
  BY DEF Parsed, Result, totals
<1>12. CASE totals.total = 0
  <2>1. ParsedStatus(Statuses, totals) = "internal_error"
    BY <1>12 DEF ParsedStatus
  <2> QED
    BY <1>1, <1>10, <1>11, <1>12, <2>1 DEF Execution, ExecutionStatus, IsVerdict
<1>13. CASE totals.total > 0 /\ totals.passed = totals.total
  <2>1. CountOf({"signature"}, Statuses) = 0 /\ CountOf({"error"}, Statuses) = 0
    BY <1>3, <1>9, <1>10, <1>13
  <2>2. ParsedStatus(Statuses, totals) = "success"
    BY <1>10, <1>13, <2>1 DEF ParsedStatus
  <2> QED
    BY <1>1, <1>10, <1>11, <1>13, <2>2 DEF Execution, ExecutionStatus, IsVerdict
<1>14. CASE totals.total > 0 /\ totals.passed # totals.total
  <2>1. ParsedStatus(Statuses, totals) \in {"failed_tests", "runtime_error"}
    <3>1. CASE CountOf({"signature"}, Statuses) > 0
      BY <1>10, <1>14, <3>1 DEF ParsedStatus
    <3>2. CASE CountOf({"signature"}, Statuses) = 0 /\ CountOf({"error"}, Statuses) > 0
      BY <1>10, <1>14, <3>2 DEF ParsedStatus
    <3>3. CASE CountOf({"signature"}, Statuses) = 0 /\ CountOf({"error"}, Statuses) = 0
      BY <1>10, <1>14, <3>3 DEF ParsedStatus
    <3> QED
      BY <1>3, <3>1, <3>2, <3>3
  <2> QED
    BY <1>1, <1>10, <1>11, <1>14, <2>1 DEF Execution, ExecutionStatus, IsVerdict
<1> QED
  BY <1>10, <1>12, <1>13, <1>14

LEMMA CodingVerdict ==
  ASSUME RunInv, EarnedInv, CountInv
  PROVE  CodingResult \in Execution /\ IsVerdict(CodingResult)
<1>1. CodingResult \in {Ungraded("timeout"), Ungraded("runtime_error"), Parsed}
  BY DEF CodingResult
<1>2. {"timeout", "runtime_error"} \subseteq ExecutionStatus \ {"success"}
  BY DEF ExecutionStatus
<1> QED
  BY <1>1, <1>2, UngradedVerdict, ParsedVerdict

LEMMA VerdictIsConsistent ==
  ASSUME NEW e \in Execution, IsVerdict(e)
  PROVE  Consistent(e)
BY DEF Execution, IsVerdict, Consistent

(* The recorded grade of a coding answer: an execution of any run, and that  *)
(* of its lines when the run is honest.                                      *)
LEMMA RecordedGrade ==
  ASSUME RunInv, HonestInv
  PROVE  LET grade == Validated(CodingResult)
         IN /\ grade \in Execution /\ Consistent(grade)
            /\ Honest => IsVerdict(grade)
<1>1. Ungraded("internal_error") \in Execution /\ IsVerdict(Ungraded("internal_error"))
  BY UngradedVerdict DEF ExecutionStatus
<1>2. Consistent(Ungraded("internal_error"))
  BY <1>1, VerdictIsConsistent
<1>3. CASE ~Consistent(CodingResult)
  <2>1. Validated(CodingResult) = Ungraded("internal_error")
    BY <1>3 DEF Validated
  <2> QED
    BY <1>1, <1>2, <2>1
<1>4. CASE Consistent(CodingResult)
  <2>1. Validated(CodingResult) = CodingResult
    BY <1>4 DEF Validated
  <2>2. CodingResult \in Execution
    <3>1. CodingResult.tests \in TestReports
      BY NoReports, StatusesAreReports DEF CodingResult, Ungraded, Parsed, Result
    <3>2. CodingResult = [status |-> CodingResult.status, passed |-> CodingResult.passed,
                          total |-> CodingResult.total, tests |-> CodingResult.tests]
      BY DEF CodingResult, Ungraded, Parsed, Result
    <3> QED
      BY <1>4, <3>1, <3>2 DEF Consistent, Execution
  <2>3. Honest => IsVerdict(CodingResult)
    BY CodingVerdict DEF HonestInv
  <2> QED
    BY <1>4, <2>1, <2>2, <2>3
<1> QED
  BY <1>3, <1>4

(* As long as no line but the harness's looks like one of its own, no way in *)
(* which the solution ends, hangs or leaves lines open is credited with a    *)
(* test that did not come out right, and the validator takes the grade.      *)
THEOREM NoTestIsGivenAway == Spec => []GradeIsEarned
<1>1. ASSUME RunInv, HonestInv, Honest
      PROVE  Consistent(CodingResult) /\ CodingResult.passed <= RightTests
  <2>1. EarnedInv /\ CountInv
    BY <1>1 DEF HonestInv
  <2>2. Consistent(CodingResult)
    BY <1>1, <2>1, CodingVerdict, VerdictIsConsistent
  <2>3. CodingResult.passed <= RightTests
    BY <1>1, <2>1, CreditIsEarned
  <2> QED
    BY <2>2, <2>3
<1>2. RunInv /\ HonestInv => GradeIsEarned
  BY <1>1 DEF GradeIsEarned
<1> QED
  BY <1>2, RunInvariant, HonestInvariant, PTL

-----------------------------------------------------------------------------
(* The run of a SQL answer.                                                  *)
SqlInv ==
  /\ sql_stage \in SqlStage /\ statement \in Statement /\ seeded \in BOOLEAN
  /\ sql_results \in Seq(TestStatus) /\ Len(sql_results) <= SqlTests

LEMMA SqlVerdict ==
  ASSUME SqlInv
  PROVE  SqlResult \in Execution /\ IsVerdict(SqlResult)
<1> DEFINE p == CountOf({"passed"}, sql_results)
           total == Len(sql_results)
<1>1. sql_results \in Seq(TestStatus) /\ total \in Nat /\ DOMAIN sql_results = 1 .. total
      /\ total <= SqlTests /\ SqlTests \in Nat
  BY LenProperties, SqlTestsAssumption DEF SqlInv
<1>2. IsFiniteSet(DOMAIN sql_results) /\ Cardinality(DOMAIN sql_results) = total
  <2> HIDE DEF total
  <2>1. total \in Int /\ 1 \in Int /\ total >= 0
    BY <1>1
  <2>2. IsFiniteSet(1 .. total)
        /\ Cardinality(1 .. total) = IF 1 > total THEN 0 ELSE total - 1 + 1
    BY <2>1, FS_Interval
  <2>3. Cardinality(1 .. total) = total
    BY <2>1, <2>2
  <2> QED
    BY <1>1, <2>2, <2>3
<1>3. p \in Nat /\ p <= total
  BY <1>2, CountsOfReports
<1>4. sql_results \in TestReports
  <2>1. sql_results \in [1 .. total -> TestStatus \cup {"none"}]
    BY <1>1, ElementOfSeq
  <2>2. 1 .. total \in SUBSET Nat
    BY <1>1
  <2> HIDE DEF total
  <2> QED
    BY <1>1, <1>2, <2>1, <2>2 DEF TestReports
<1>5. CASE sql_stage = "raised"
  <2>1. SqlResult = Ungraded("runtime_error") /\ "runtime_error" \in ExecutionStatus \ {"success"}
    BY <1>5 DEF SqlResult, ExecutionStatus
  <2> QED
    BY <2>1, UngradedVerdict
<1>6. CASE sql_stage # "raised"
  <2> DEFINE st == IF SqlSuccess(p, total) THEN "success" ELSE "failed_tests"
  <2>1. SqlResult = [status |-> st, passed |-> p, total |-> total, tests |-> sql_results]
    BY <1>6 DEF SqlResult, Result
  <2>2. st \in ExecutionStatus /\ (st = "success" <=> p = total /\ total > 0)
    BY DEF SqlSuccess, ExecutionStatus
  <2> HIDE DEF p, total, st
  <2>3. SqlResult \in Execution
    BY <1>1, <1>3, <1>4, <2>1, <2>2 DEF Execution
  <2>4. IsVerdict(SqlResult)
    BY <1>1, <1>3, <2>1, <2>2 DEF IsVerdict
  <2> QED
    BY <2>3, <2>4
<1> QED
  BY <1>5, <1>6

LEMMA FreshSql ==
  ASSUME NEW s \in SqlStage, NEW st \in Statement, BecomeSql(s, st)
  PROVE  SqlInv'
<1>1. sql_results' = <<>> /\ <<>> \in Seq(TestStatus) /\ Len(<<>>) = 0
  BY EmptySeq DEF BecomeSql
<1> QED
  BY <1>1, SqlTestsAssumption DEF BecomeSql, SqlInv, SqlStage, Statement, TestStatus

LEMMA SqlStepKeepsInv ==
  ASSUME SqlInv, SqlStep
  PROVE  SqlInv'
<1>1. CASE Seed \/ SeedFails \/ Spin \/ Aggregate
  BY <1>1 DEF SqlInv, Seed, SeedFails, Spin, Aggregate, SqlStage, Statement, TestStatus
<1>2. CASE SqlTest
  <2>1. PICK outcome \in SqlOutcomes(Len(sql_results) + 1) :
          sql_results' = Append(sql_results, outcome)
    BY <1>2 DEF SqlTest
  <2>2. outcome \in TestStatus
    BY <2>1 DEF SqlOutcomes, TestStatus
  <2>3. sql_results \in Seq(TestStatus) /\ Len(sql_results) \in Nat
        /\ Len(sql_results) + 1 <= SqlTests
    BY <1>2, LenProperties DEF SqlInv, SqlTest
  <2>4. sql_results' \in Seq(TestStatus) /\ Len(sql_results') <= SqlTests
    BY <2>1, <2>2, <2>3, AppendProperties
  <2>5. seeded' \in BOOLEAN /\ UNCHANGED <<sql_stage, statement>>
    BY <1>2 DEF SqlTest, SqlInv
  <2> QED
    BY <2>4, <2>5 DEF SqlInv, SqlStage, Statement, TestStatus
<1> QED
  BY <1>1, <1>2 DEF SqlStep

LEMMA SqlInvariant == Spec => []SqlInv
<1>0. NoStatement \in Statement
  BY DEF NoStatement, Statement
<1>1. Init => SqlInv
  <2>1. <<>> \in Seq(TestStatus) /\ Len(<<>>) = 0
    BY EmptySeq
  <2> QED
    BY <1>0, <2>1, SqlTestsAssumption DEF Init, SqlInv, SqlStage
<1>2. SqlInv /\ [Next]_vars => SqlInv'
  <2> SUFFICES ASSUME SqlInv, [Next]_vars PROVE SqlInv'
    OBVIOUS
  <2>1. CASE SubmitSql
    BY <2>1, FreshSql DEF SubmitSql, StartSql, SqlStage
  <2>2. CASE RunSql
    BY <2>2, SqlStepKeepsInv DEF RunSql
  <2>3. CASE GradeSql
    BY <1>0, <2>3, FreshSql DEF GradeSql, SqlStage
  <2>4. CASE UNCHANGED sql
    BY <2>4 DEF sql, SqlInv, SqlStage, Statement, TestStatus
  <2> QED
    BY <2>1, <2>2, <2>3, <2>4
       DEF Next, vars, SubmitCode, RunCode, GradeCode, ExecutionUnavailable, AnswerWritten,
           AggregateReport
<1> QED
  BY <1>1, <1>2, PTL DEF Spec

-----------------------------------------------------------------------------
(* Shares.                                                                   *)
LEMMA DivBounds ==
  ASSUME NEW a \in Int, NEW b \in Int, b > 0
  PROVE  a \div b \in Int /\ b * (a \div b) <= a /\ a < b * (a \div b) + b
OBVIOUS

LEMMA ProductGrows ==
  ASSUME NEW a \in Int, NEW b \in Int, NEW c \in Int, a <= b, 0 <= c
  PROVE  c * a <= c * b /\ c * a \in Int /\ c * b \in Int
OBVIOUS

(* The share of passed tests is whole exactly when all passed; with fewer    *)
(* than fifty tests a missing one costs more than the bonus of a fast run.   *)
LEMMA ShareOfTests ==
  ASSUME NEW p \in Nat, NEW t \in Nat, t > 0, p <= t
  PROVE  /\ (p * FullScore) \div t \in 0 .. FullScore
         /\ (p * FullScore) \div t = FullScore <=> p = t
         /\ p < t /\ t < 50 => (p * FullScore) \div t + 2 * 60 < FullScore
<1> DEFINE q == (p * FullScore) \div t
<1>1. FullScore = 6000 /\ p * FullScore \in Int
  BY DEF FullScore
<1>2. q \in Int /\ t * q <= p * 6000 /\ p * 6000 < t * q + t
  BY <1>1, DivBounds
<1> HIDE DEF q
<1>3. q >= 0
  <2>1. SUFFICES ASSUME q <= -1 PROVE FALSE
    BY <1>2
  <2>2. t * q <= t * (-1)
    BY <1>2, <2>1, ProductGrows
  <2> QED
    BY <1>2, <2>2
<1>4. q <= 6000
  <2>1. SUFFICES ASSUME 6001 <= q PROVE FALSE
    BY <1>2
  <2>2. t * 6001 <= t * q
    BY <1>2, <2>1, ProductGrows
  <2> QED
    BY <1>2, <2>2
<1>5. q = 6000 <=> p = t
  <2>1. CASE p = t
    <3>1. SUFFICES ASSUME q <= 5999 PROVE FALSE
      BY <1>2, <1>4, <2>1
    <3>2. t * q <= t * 5999
      BY <1>2, <3>1, ProductGrows
    <3> QED
      BY <1>2, <2>1, <3>2
  <2>2. CASE q = 6000
    BY <1>2, <2>2
  <2> QED
    BY <2>1, <2>2
<1>6. p < t /\ t < 50 => q + 120 < 6000
  <2>1. SUFFICES ASSUME p < t, t < 50, 5880 <= q PROVE FALSE
    BY <1>2
  <2>2. t * 5880 <= t * q
    BY <1>2, <2>1, ProductGrows
  <2> QED
    BY <1>2, <2>1, <2>2
<1> QED
  BY <1>1, <1>2, <1>3, <1>4, <1>5, <1>6 DEF q

-----------------------------------------------------------------------------
(* The answers, one after the other.                                         *)
IsGraded(r) ==
  /\ Consistent(r.execution)
  /\ r.honest => IsVerdict(r.execution)
  /\ r.executed => r.score = ExecutedScore(r.execution)

GradedInv ==
  /\ results \in Seq(GradedAnswer) /\ Len(results) <= Len(Plan)
  /\ \A i \in DOMAIN results : IsGraded(results[i])
  /\ stage # "idle" => IsAnswering("coding")
  /\ sql_stage # "idle" => IsAnswering("database")

(* The report is made of all the answers, and none is added after it.        *)
ReportInv ==
  \/ report = NoReport
  \/ /\ Current > Len(Plan) /\ ScoredDimensions(results) # {}
     /\ \E role \in Roles : report = Snapshot(results, role)

LEMMA PlannedQuestion ==
  ASSUME results \in Seq(GradedAnswer), NEW kind, IsAnswering(kind)
  PROVE  /\ Len(results) \in Nat /\ Len(Plan) \in Nat
         /\ Current = Len(results) + 1 /\ Current <= Len(Plan)
         /\ Plan[Current].dim \in Dimensions
<1>1. Plan \in Seq([kind : {"coding", "database", "written"}, dim : Dimensions])
  BY PlanAssumption
<1>2. Len(results) \in Nat /\ Len(Plan) \in Nat /\ Current = Len(results) + 1
  BY <1>1, LenProperties DEF Current
<1>3. Current \in 1 .. Len(Plan)
  BY <1>2 DEF IsAnswering
<1>4. Plan[Current] \in [kind : {"coding", "database", "written"}, dim : Dimensions]
  BY <1>1, <1>3, ElementOfSeq
<1> QED
  BY <1>2, <1>3, <1>4

LEMMA ExecutedIsGraded ==
  ASSUME NEW e \in Execution, Consistent(e), Honest => IsVerdict(e), Plan[Current].dim \in Dimensions
  PROVE  Executed(e) \in GradedAnswer /\ IsGraded(Executed(e))
<1>1. e.passed \in Nat /\ e.total \in Nat /\ e.passed <= e.total
  BY DEF Consistent
<1>2. ExecutedScore(e) \in 0 .. FullScore
  <2>1. FullScore \in Nat
    BY DEF FullScore
  <2>2. e.total > 0 => (e.passed * FullScore) \div e.total \in 0 .. FullScore
    BY <1>1, ShareOfTests
  <2> QED
    BY <1>1, <2>1, <2>2 DEF ExecutedScore
<1>3. Honest \in BOOLEAN
  BY DEF Honest
<1>4. /\ Executed(e).dim = Plan[Current].dim /\ Executed(e).executed = TRUE
      /\ Executed(e).execution = e /\ Executed(e).honest = Honest
      /\ Executed(e).evaluated = TRUE /\ Executed(e).score = ExecutedScore(e)
  BY DEF Executed
<1>5. Executed(e) \in GradedAnswer
  BY <1>2, <1>3 DEF Executed, GradedAnswer
<1>6. IsGraded(Executed(e))
  BY <1>4 DEF IsGraded
<1> QED
  BY <1>5, <1>6

LEMMA WrittenIsGraded ==
  ASSUME NEW evaluated \in BOOLEAN, NEW score \in 0 .. FullScore, Plan[Current].dim \in Dimensions
  PROVE  Written(evaluated, score) \in GradedAnswer /\ IsGraded(Written(evaluated, score))
<1>1. NoExecution \in Execution /\ IsVerdict(NoExecution)
  BY UngradedVerdict DEF NoExecution, ExecutionStatus
<1>2. Consistent(NoExecution)
  BY <1>1, VerdictIsConsistent
<1> QED
  BY <1>1, <1>2 DEF Written, GradedAnswer, IsGraded

LEMMA RecordKeepsGrades ==
  ASSUME GradedInv, NEW r \in GradedAnswer, IsGraded(r), Record(r), Current <= Len(Plan)
  PROVE  /\ results' \in Seq(GradedAnswer) /\ Len(results') <= Len(Plan)
         /\ \A i \in DOMAIN results' : IsGraded(results'[i])
<1>1. results \in Seq(GradedAnswer) /\ results' = Append(results, r)
  BY DEF GradedInv, Record
<1>2. /\ Len(results) \in Nat /\ DOMAIN results = 1 .. Len(results)
      /\ results' \in Seq(GradedAnswer) /\ Len(results') = Len(results) + 1
      /\ DOMAIN results' = 1 .. Len(results) + 1
      /\ \A i \in 1 .. Len(results) : results'[i] = results[i]
      /\ results'[Len(results) + 1] = r
  BY <1>1, AppendProperties, LenProperties
<1>3. Len(results') <= Len(Plan)
  BY <1>2 DEF Current
<1>4. \A i \in DOMAIN results' : IsGraded(results'[i])
  BY <1>2 DEF GradedInv
<1> QED
  BY <1>2, <1>3, <1>4

LEMMA SameGrades ==
  ASSUME GradedInv, UNCHANGED results
  PROVE  /\ (results \in Seq(GradedAnswer))' /\ (Len(results) <= Len(Plan))'
         /\ (\A i \in DOMAIN results : IsGraded(results[i]))'
BY DEF GradedInv, IsGraded, IsVerdict, Consistent, ExecutedScore, GradedAnswer, Execution,
       TestReports

LEMMA GradedStep ==
  ASSUME RunInv, HonestInv, SqlInv, GradedInv, [Next]_vars
  PROVE  GradedInv'
<1>0. results \in Seq(GradedAnswer) /\ Len(results) \in Nat /\ Len(Plan) \in Nat
  BY LenProperties, PlanAssumption DEF GradedInv
<1>1. ASSUME NEW kind1, IsAnswering(kind1), NEW kind2, IsAnswering(kind2) PROVE kind1 = kind2
  BY <1>1 DEF IsAnswering
<1>2. CASE UNCHANGED results
  <2>1. /\ (results \in Seq(GradedAnswer))' /\ (Len(results) <= Len(Plan))'
        /\ (\A i \in DOMAIN results : IsGraded(results[i]))'
    BY <1>2, SameGrades
  <2>2. \A kind : IsAnswering(kind)' <=> IsAnswering(kind)
    BY <1>2 DEF IsAnswering, Current
  <2>3. stage' # "idle" => IsAnswering("coding")
    <3>1. CASE SubmitCode
      BY <3>1 DEF SubmitCode
    <3>2. CASE UNCHANGED stage
      BY <3>2 DEF GradedInv
    <3>3. CASE RunStep
      <4>1. stage # "idle"
        BY <3>3 DEF RunStep, CandidatePrints, CandidateEnds, CandidateRuns, Load, LoadFails, Resolve,
           ResolveFails, VisibleTest, HiddenTest, Summary, Timeout, Running
      <4> QED
        BY <4>1 DEF GradedInv
    <3>4. CASE GradeCode
      BY <3>4 DEF GradeCode, BecomeRun, IdleRun
    <3> QED
      BY <3>1, <3>2, <3>3, <3>4
         DEF Next, vars, run, RunCode, SubmitSql, RunSql, GradeSql, ExecutionUnavailable,
             AnswerWritten, AggregateReport
  <2>4. sql_stage' # "idle" => IsAnswering("database")
    BY <1>2 DEF GradedInv, Next, vars, sql, SubmitCode, RunCode, GradeCode, BecomeSql,
       SubmitSql, RunSql, GradeSql, ExecutionUnavailable, AnswerWritten, AggregateReport,
       SqlStep, Seed, SeedFails, SqlTest, Spin, Aggregate
  <2> QED
    BY <2>1, <2>2, <2>3, <2>4 DEF GradedInv
<1>3. ASSUME NEW kind, IsAnswering(kind), NEW r \in GradedAnswer, IsGraded(r), Record(r),
             stage' = "idle", sql_stage' = "idle"
      PROVE  GradedInv'
  <2>1. Current <= Len(Plan)
    BY <1>3 DEF IsAnswering
  <2>2. /\ results' \in Seq(GradedAnswer) /\ Len(results') <= Len(Plan)
        /\ \A i \in DOMAIN results' : IsGraded(results'[i])
    BY <1>3, <2>1, RecordKeepsGrades
  <2> QED
    BY <1>3, <2>2 DEF GradedInv, IsGraded, IsVerdict, Consistent, ExecutedScore, GradedAnswer,
                       Execution, TestReports
<1>4. CASE GradeCode
  <2>1. IsAnswering("coding") /\ sql_stage = "idle"
    BY <1>1, <1>4 DEF GradeCode, GradedInv, Ended
  <2>2. stage' = "idle" /\ sql_stage' = "idle"
    BY <1>4, <2>1 DEF GradeCode, BecomeRun, IdleRun, sql
  <2> DEFINE grade == Validated(CodingResult)
  <2>3. grade \in Execution /\ Consistent(grade) /\ (Honest => IsVerdict(grade))
    BY RecordedGrade
  <2>4. Record(Executed(grade))
    BY <1>4 DEF GradeCode
  <2> HIDE DEF grade
  <2>5. Executed(grade) \in GradedAnswer /\ IsGraded(Executed(grade))
    BY <1>0, <2>1, <2>3, PlannedQuestion, ExecutedIsGraded
  <2> QED
    BY <1>3, <2>1, <2>2, <2>4, <2>5
<1>5. CASE GradeSql
  <2>1. IsAnswering("database") /\ stage = "idle"
    BY <1>1, <1>5 DEF GradeSql, GradedInv
  <2>2. stage' = "idle" /\ sql_stage' = "idle"
    BY <1>5, <2>1 DEF GradeSql, BecomeSql, run
  <2>3. Executed(SqlResult) \in GradedAnswer /\ IsGraded(Executed(SqlResult))
    BY <1>0, <2>1, SqlVerdict, VerdictIsConsistent, PlannedQuestion, ExecutedIsGraded
  <2> QED
    BY <1>3, <1>5, <2>1, <2>2, <2>3 DEF GradeSql
<1>6. CASE ExecutionUnavailable
  <2>1. PICK kind \in {"coding", "database"} : IsAnswering(kind)
    BY <1>6 DEF ExecutionUnavailable
  <2>2. stage' = "idle" /\ sql_stage' = "idle" /\ Record(Executed(Ungraded("internal_error")))
    BY <1>6 DEF ExecutionUnavailable, run, sql
  <2>3. /\ Executed(Ungraded("internal_error")) \in GradedAnswer
        /\ IsGraded(Executed(Ungraded("internal_error")))
    BY <1>0, <2>1, UngradedVerdict, VerdictIsConsistent, PlannedQuestion, ExecutedIsGraded
       DEF ExecutionStatus
  <2> QED
    BY <1>3, <2>1, <2>2, <2>3
<1>7. CASE AnswerWritten
  <2>1. IsAnswering("written") /\ stage = "idle" /\ sql_stage = "idle"
    BY <1>1, <1>7 DEF AnswerWritten, GradedInv
  <2>2. stage' = "idle" /\ sql_stage' = "idle"
    BY <1>7, <2>1 DEF AnswerWritten, run, sql
  <2>3. PICK evaluated \in BOOLEAN, score \in 0 .. FullScore : Record(Written(evaluated, score))
    <3>1. 0 \in 0 .. FullScore
      BY DEF FullScore
    <3> QED
      BY <1>7, <3>1, ScoresAssumption DEF AnswerWritten
  <2>4. Written(evaluated, score) \in GradedAnswer /\ IsGraded(Written(evaluated, score))
    BY <1>0, <2>1, PlannedQuestion, WrittenIsGraded
  <2> QED
    BY <1>3, <2>1, <2>2, <2>3, <2>4
<1> QED
  BY <1>2, <1>4, <1>5, <1>6, <1>7
     DEF Next, vars, SubmitCode, RunCode, SubmitSql, RunSql, AggregateReport

LEMMA GradedInvariant == Spec => []GradedInv
<1>1. Init => GradedInv
  <2>1. <<>> \in Seq(GradedAnswer) /\ Len(<<>>) = 0 /\ DOMAIN <<>> = {} /\ Len(Plan) \in Nat
    BY EmptySeq, LenProperties, PlanAssumption
  <2> QED
    BY <2>1 DEF Init, GradedInv
<1>2. RunInv /\ HonestInv /\ SqlInv /\ GradedInv /\ [Next]_vars => GradedInv'
  BY GradedStep
<1> QED
  BY <1>1, <1>2, RunInvariant, HonestInvariant, SqlInvariant, PTL DEF Spec

LEMMA ReportInvariant == Spec => []ReportInv
<1>1. Init => ReportInv
  BY DEF Init, ReportInv
<1>2. GradedInv /\ ReportInv /\ [Next]_vars => ReportInv'
  <2> SUFFICES ASSUME GradedInv, ReportInv, [Next]_vars PROVE ReportInv'
    OBVIOUS
  <2>1. CASE AggregateReport
    BY <2>1 DEF AggregateReport, ReportInv, Current
  <2>2. CASE UNCHANGED <<results, report>>
    BY <2>2 DEF ReportInv, Current
  <2>3. CASE UNCHANGED report /\ Current <= Len(Plan)
    <3>1. ~(Current > Len(Plan))
      BY <2>3, LenProperties, PlanAssumption DEF Current, GradedInv
    <3> QED
      BY <2>3, <3>1 DEF ReportInv
  <2>4. CASE GradeCode \/ GradeSql
    BY <2>3, <2>4 DEF GradeCode, GradeSql, GradedInv, Ended, IsAnswering
  <2>5. CASE ExecutionUnavailable \/ AnswerWritten
    BY <2>3, <2>5 DEF ExecutionUnavailable, AnswerWritten, IsAnswering
  <2> QED
    BY <2>1, <2>2, <2>4, <2>5 DEF Next, vars, SubmitCode, RunCode, SubmitSql, RunSql
<1> QED
  BY <1>1, <1>2, GradedInvariant, PTL DEF Spec

(* Every variable has its type; what is recorded for a question, whatever    *)
(* its solution printed, is what the validator of an execution accepts - an  *)
(* internal error where it refused - and there is one for each at most.      *)
THEOREM EveryGradeIsConsistent == Spec => []TypeOK
<1>1. RunInv /\ SqlInv /\ GradedInv /\ ReportInv => TypeOK
  <2> SUFFICES ASSUME RunInv, SqlInv, GradedInv, ReportInv PROVE TypeOK
    OBVIOUS
  <2>1. passed \in [visible : 0 .. Visible, hidden : 0 .. Hidden]
    BY TestsType DEF RunInv, RunTypes
  <2>2. \A i \in DOMAIN results : Consistent(results[i].execution)
    <3>1. \A i \in DOMAIN results : results[i] \in GradedAnswer /\ IsGraded(results[i])
      BY LenProperties, ElementOfSeq DEF GradedInv
    <3> QED
      BY <3>1 DEF IsGraded
  <2>3. /\ report.role \in Roles \cup {"none"}
        /\ report.decision \in 0 .. 3 /\ report.level \in 0 .. 3
    BY DEF ReportInv, NoReport, Snapshot, HireDecision, Level
  <2> QED
    BY <2>1, <2>2, <2>3 DEF RunInv, RunTypes, SqlInv, GradedInv, TypeOK
<1> QED
  BY <1>1, RunInvariant, SqlInvariant, GradedInvariant, ReportInvariant, PTL

(* Fewer than fifty tests, one of which is the failure to find the function: *)
(* a fast answer gains two points, as much as one test of fifty.             *)
FewTests == Tests + 1 < 50 /\ SqlTests < 50

(* The verdicts on an executed answer agree, when the lines it was graded by *)
(* are the harness's.                                                        *)
THEOREM VerdictsAreOne == ASSUME FewTests PROVE Spec => []VerdictsAgree
<1>1. ASSUME GradedInv PROVE VerdictsAgree
  <2>1. SUFFICES ASSUME NEW i \in DOMAIN results, results[i].executed, results[i].honest
                 PROVE  LET e == results[i].execution
                            ok == e.status = "success"
                        IN /\ ok <=> results[i].score = FullScore
                           /\ ok <=> Quality(e, "plain") = "optimal"
                           /\ ok <=> Quality(e, "fast") = "optimal"
                           /\ ok => Quality(e, "slow") = "correct"
    BY DEF VerdictsAgree
  <2> DEFINE e == results[i].execution
             exact == (e.passed * FullScore) \div e.total
  <2>2. results[i] \in GradedAnswer /\ IsGraded(results[i])
    BY <1>1, LenProperties, ElementOfSeq DEF GradedInv
  <2>3. /\ e.passed \in Nat /\ e.total \in Nat /\ e.passed <= e.total /\ e.total < 50
        /\ e.status = "success" <=> e.total > 0 /\ e.passed = e.total
        /\ results[i].score = ExecutedScore(e)
    <3>1. e.total \in Nat
      BY <2>2 DEF GradedAnswer, Execution
    <3>2. e.total < 50
      BY <2>1, <2>2, <3>1, TestsType, SqlTestsAssumption DEF IsGraded, IsVerdict, FewTests
    <3> QED
      BY <2>1, <2>2, <3>2 DEF GradedAnswer, Execution, IsGraded, IsVerdict
  <2> HIDE DEF e
  <2>4. CASE e.total = 0
    BY <2>3, <2>4 DEF ExecutedScore, Quality, FullScore, e
  <2>5. CASE e.total > 0
    <3>1. /\ exact \in 0 .. 6000 /\ (exact = 6000 <=> e.passed = e.total)
          /\ e.passed < e.total => exact + 120 < 6000
      <4>1. /\ exact \in 0 .. FullScore /\ (exact = FullScore <=> e.passed = e.total)
            /\ e.passed < e.total /\ e.total < 50 => exact + 2 * 60 < FullScore
        BY <2>3, <2>5, ShareOfTests
      <4> HIDE DEF exact
      <4>2. FullScore = 6000
        BY DEF FullScore
      <4> QED
        BY <2>3, <4>1, <4>2
    <3>2. /\ TimedScore(e, "plain") = Most(0, Least(6000, exact))
          /\ TimedScore(e, "fast") = Most(0, Least(6000, exact + 120))
          /\ TimedScore(e, "slow") = Most(0, Least(6000, exact - 300))
      BY DEF TimedScore, FullScore
    <3>3. results[i].score = exact /\ FullScore = 6000
      BY <2>3, <2>5 DEF ExecutedScore, FullScore
    <3> HIDE DEF exact
    <3>4. /\ TimedScore(e, "plain") = 6000 <=> e.passed = e.total
          /\ TimedScore(e, "fast") = 6000 <=> e.passed = e.total
          /\ e.passed = e.total => TimedScore(e, "slow") = 5700
      <4>1. exact \in Int /\ 0 <= exact /\ exact <= 6000
        BY <3>1
      <4>2. TimedScore(e, "plain") = exact
        BY <3>2, <4>1 DEF Most, Least
      <4>3. TimedScore(e, "fast") = IF 6000 <= exact + 120 THEN 6000 ELSE exact + 120
        BY <3>2, <4>1 DEF Most, Least
      <4>4. exact = 6000 => TimedScore(e, "slow") = 5700
        BY <3>2, <4>1 DEF Most, Least
      <4> QED
        BY <2>3, <3>1, <4>1, <4>2, <4>3, <4>4
    <3>5. \A time : Quality(e, time) =
            (IF TimedScore(e, time) = 6000 THEN (IF time = "slow" THEN "inefficient" ELSE "optimal")
             ELSE IF TimedScore(e, time) >= 4800 THEN "correct"
             ELSE IF TimedScore(e, time) >= 3000 THEN "partial" ELSE "incorrect")
      BY <2>3, <2>5, <3>3 DEF Quality
    <3>6. e.status = "success" <=> e.passed = e.total
      BY <2>3, <2>5
    <3>7. e.status = "success" <=> results[i].score = FullScore
      BY <3>1, <3>3, <3>6
    <3>8. e.status = "success" <=> Quality(e, "plain") = "optimal"
      BY <3>4, <3>5, <3>6
    <3>9. e.status = "success" <=> Quality(e, "fast") = "optimal"
      BY <3>4, <3>5, <3>6
    <3>10. e.status = "success" => Quality(e, "slow") = "correct"
      BY <3>4, <3>5, <3>6
    <3> QED
      BY <3>7, <3>8, <3>9, <3>10 DEF e
  <2> QED
    BY <2>3, <2>4, <2>5
<1> QED
  BY <1>1, GradedInvariant, PTL

-----------------------------------------------------------------------------
(* Rounding.                                                                 *)
LEMMA RoundGrows ==
  ASSUME NEW a \in Int, NEW c \in Int, a <= c, NEW b \in Nat, b > 0
  PROVE  /\ Round(a, b) \in Int /\ Round(c, b) \in Int /\ Round(a, b) <= Round(c, b)
         /\ a >= 0 => Round(a, b) >= 0
<1>1. 2 * a + b \in Int /\ 2 * c + b \in Int /\ 2 * a + b <= 2 * c + b /\ 2 * b \in Int /\ 2 * b > 0
  OBVIOUS
<1> DEFINE x == 2 * a + b
           y == 2 * c + b
           z == 2 * b
<1>2. a >= 0 => x >= 0
  OBVIOUS
<1> HIDE DEF x, y, z
<1>3. x \div z \in Int /\ y \div z \in Int /\ x \div z <= y \div z /\ (x >= 0 => x \div z >= 0)
  BY <1>1 DEF x, y, z
<1> QED
  BY <1>2, <1>3 DEF Round, x, y, z

LEMMA RoundDown ==
  ASSUME NEW a \in Nat
  PROVE  /\ Round(9 * a, 10) \in Nat /\ Round(9 * a, 10) <= a
         /\ Round(95 * a, 100) \in Nat /\ Round(95 * a, 100) <= a
<1>1. (18 * a + 10) \div 20 \in Nat /\ (18 * a + 10) \div 20 <= a
  OBVIOUS
<1>2. (190 * a + 100) \div 200 \in Nat /\ (190 * a + 100) \div 200 <= a
  OBVIOUS
<1>3. 2 * (9 * a) + 10 = 18 * a + 10 /\ 2 * (95 * a) + 100 = 190 * a + 100
  OBVIOUS
<1> QED
  BY <1>1, <1>2, <1>3 DEF Round

-----------------------------------------------------------------------------
(* The sums of the score.                                                    *)
LEMMA FewDimensions ==
  ASSUME NEW D \in SUBSET Dimensions
  PROVE  IsFiniteSet(D)
<1>1. IsFiniteSet({})
  BY FS_EmptySet
<1>2. IsFiniteSet({} \cup {"technical_depth"})
  BY <1>1, FS_AddElement
<1>3. IsFiniteSet(({} \cup {"technical_depth"}) \cup {"problem_solving"})
  BY <1>2, FS_AddElement
<1>4. IsFiniteSet((({} \cup {"technical_depth"}) \cup {"problem_solving"}) \cup {"system_design"})
  BY <1>3, FS_AddElement
<1>5. IsFiniteSet(((({} \cup {"technical_depth"}) \cup {"problem_solving"}) \cup {"system_design"})
                  \cup {"communication"})
  BY <1>4, FS_AddElement
<1>6. Dimensions = ((({} \cup {"technical_depth"}) \cup {"problem_solving"}) \cup {"system_design"})
                  \cup {"communication"}
  BY DEF Dimensions
<1> QED
  BY <1>5, <1>6, FS_Subset

LEMMA WeightsArePositive ==
  ASSUME NEW role \in DOMAIN RoleWeights, NEW d \in Dimensions
  PROVE  RoleWeights[role][d] \in Nat /\ RoleWeights[role][d] > 0
BY DEF RoleWeights, Dimensions

LEMMA SignalIsNatural ==
  ASSUME NEW e \in Execution, NEW dim
  PROVE  Signal(e, dim) \in Nat
<1> DEFINE failed == CountOf({"failed"}, e.tests)
           errors == CountOf({"error", "signature"}, e.tests)
<1>1. IsFiniteSet(DOMAIN e.tests) /\ e.total \in Nat
  BY DEF Execution, TestReports
<1>2. failed \in Nat /\ errors \in Nat
  BY <1>1, CountsOfReports
<1> HIDE DEF failed, errors
<1>3. e.total > 0 => Round(40 * failed, e.total) \in Nat
  <2> SUFFICES ASSUME e.total > 0 PROVE Round(40 * failed, e.total) \in Nat
    OBVIOUS
  <2>1. 40 * failed \in Int /\ 40 * failed <= 40 * failed /\ 40 * failed >= 0
    BY <1>2
  <2>2. Round(40 * failed, e.total) \in Int /\ Round(40 * failed, e.total) >= 0
    BY <1>1, <2>1, RoundGrows
  <2> QED
    BY <2>2
<1> DEFINE solving == (IF ErrorType(e) = "logic" THEN 60 ELSE 0)
                      + 20 * failed
                      + (IF e.total > 0 THEN Round(40 * failed, e.total) ELSE 0)
                      + (IF IsPerfect(e) THEN 60 ELSE IF PassRateIsHigh(e) THEN 40 ELSE 0)
           depth == (IF ErrorType(e) \in {"runtime", "signature"} THEN 60 ELSE 0)
                    + 30 * errors
                    + (IF IsPerfect(e) THEN 40 ELSE 0)
<1>4. solving \in Nat
  BY <1>2, <1>3
<1>5. depth \in Nat
  BY <1>2
<1>6. Signal(e, dim) = (CASE dim = "problem_solving" -> Least(100, solving)
                          [] dim = "technical_depth" -> Least(100, depth)
                          [] OTHER -> 0)
  BY DEF Signal, failed, errors
<1> HIDE DEF solving, depth
<1> QED
  BY <1>4, <1>5, <1>6 DEF Least

Interviews == Seq(GradedAnswer)

LEMMA AnswersAre ==
  ASSUME NEW rs \in Interviews, NEW S \in SUBSET DOMAIN rs
  PROVE  IsFiniteSet(S) /\ \A i \in S : rs[i] \in GradedAnswer
<1>1. Len(rs) \in Nat /\ DOMAIN rs = 1 .. Len(rs) /\ \A i \in DOMAIN rs : rs[i] \in GradedAnswer
  BY LenProperties, ElementOfSeq DEF Interviews
<1>2. IsFiniteSet(1 .. Len(rs))
  BY <1>1, FS_Interval
<1> QED
  BY <1>1, <1>2, FS_Subset

LEMMA ScoreIsNatural ==
  ASSUME NEW r \in GradedAnswer
  PROVE  r.score \in Nat
<1>1. r.score \in 0 .. FullScore
  BY DEF GradedAnswer
<1>2. FullScore \in Nat
  BY DEF FullScore
<1>3. \A n \in Nat : 0 .. n \subseteq Nat
  OBVIOUS
<1>4. 0 .. FullScore \subseteq Nat
  BY <1>2, <1>3
<1> QED
  BY <1>1, <1>4

LEMMA BaseIsSum ==
  ASSUME NEW rs \in Interviews, NEW dim
  PROVE  LET E == Evaluated(rs, dim)
         IN \E g : /\ IsSum([i \in E |-> rs[i].score], E, g)
                   /\ BaseScore(rs, dim) = Round(g[E], 6 * Cardinality(E))
<1> DEFINE E == Evaluated(rs, dim)
           f == [i \in E |-> rs[i].score]
           Recursion(h) == h = [s \in SUBSET E |->
                                  IF s = {} THEN 0 ELSE rs[Pick(s)].score + h[s \ {Pick(s)}]]
<1>1. E \in SUBSET DOMAIN rs
  BY DEF Evaluated
<1>2. IsFiniteSet(E) /\ f \in [E -> Int]
  <2> HIDE DEF E
  <2>1. IsFiniteSet(E) /\ \A i \in E : rs[i] \in GradedAnswer
    BY <1>1, AnswersAre
  <2>2. \A i \in E : rs[i].score \in Int
    BY <2>1, ScoreIsNatural
  <2> QED
    BY <2>1, <2>2
<1>3. \A s \in SUBSET E : s # {} => f[Pick(s)] = rs[Pick(s)].score
  BY DEF Pick
<1>4. BaseScore(rs, dim) = Round((CHOOSE h : Recursion(h))[E], 6 * Cardinality(E))
  BY DEF BaseScore, SumOf, MapThenSumSet, MapThenFoldSet, Pick
<1>5. \A h : IsRecursion(f, E, h) <=> Recursion(h)
  <2> HIDE DEF f, E
  <2> QED
    BY <1>3 DEF IsRecursion
<1> HIDE DEF Recursion, f, E
<1>6. Recursion(CHOOSE h : Recursion(h))
  BY <1>2, <1>5, SumExists
<1>7. IsSum(f, E, CHOOSE h : Recursion(h))
  BY <1>2, <1>5, <1>6, SumExists
<1> QED
  BY <1>4, <1>7 DEF f, E

LEMMA SignalsAreSum ==
  ASSUME NEW rs \in Interviews, NEW dim
  PROVE  LET E == {i \in DOMAIN rs : rs[i].executed}
         IN /\ IsFiniteSet(E) /\ [i \in E |-> Signal(rs[i].execution, dim)] \in [E -> Nat]
            /\ \E g : /\ IsSum([i \in E |-> Signal(rs[i].execution, dim)], E, g)
                      /\ SumSignals(rs, dim) = Least(100, g[E])
<1> DEFINE E == {i \in DOMAIN rs : rs[i].executed}
           f == [i \in E |-> Signal(rs[i].execution, dim)]
           Recursion(h) == h = [s \in SUBSET E |->
                                  IF s = {} THEN 0
                                  ELSE Signal(rs[Pick(s)].execution, dim) + h[s \ {Pick(s)}]]
<1>1. E \in SUBSET DOMAIN rs
  OBVIOUS
<1>2. IsFiniteSet(E) /\ f \in [E -> Nat]
  <2>1. IsFiniteSet(E) /\ \A i \in E : rs[i] \in GradedAnswer
    BY <1>1, AnswersAre
  <2>2. \A i \in E : Signal(rs[i].execution, dim) \in Nat
    BY <2>1, SignalIsNatural DEF GradedAnswer
  <2> QED
    BY <2>1, <2>2
<1>3. \A s \in SUBSET E : s # {} => f[Pick(s)] = Signal(rs[Pick(s)].execution, dim)
  BY DEF Pick
<1>4. SumSignals(rs, dim) = Least(100, (CHOOSE h : Recursion(h))[E])
  BY DEF SumSignals, SumOf, MapThenSumSet, MapThenFoldSet, Pick
<1>5. \A h : IsRecursion(f, E, h) <=> Recursion(h)
  <2> HIDE DEF f, E
  <2> QED
    BY <1>3 DEF IsRecursion
<1> HIDE DEF Recursion, f, E
<1>6. f \in [E -> Int]
  BY <1>2
<1>7. Recursion(CHOOSE h : Recursion(h))
  BY <1>2, <1>5, <1>6, SumExists
<1>8. IsSum(f, E, CHOOSE h : Recursion(h))
  BY <1>2, <1>5, <1>6, <1>7, SumExists
<1> QED
  BY <1>2, <1>4, <1>8 DEF f, E

LEMMA WeightIsPositive ==
  ASSUME NEW role \in DOMAIN RoleWeights, NEW D \in SUBSET Dimensions, D # {}
  PROVE  TotalWeight(role, D) \in Nat /\ TotalWeight(role, D) > 0
<1> DEFINE f == [d \in D |-> RoleWeights[role][d]]
           Recursion(h) == h = [s \in SUBSET D |->
                                  IF s = {} THEN 0
                                  ELSE RoleWeights[role][Pick(s)] + h[s \ {Pick(s)}]]
<1>1. IsFiniteSet(D) /\ f \in [D -> Nat] /\ f \in [D -> Int] /\ \A d \in D : f[d] > 0
  BY FewDimensions, WeightsArePositive
<1>2. \A s \in SUBSET D : s # {} => f[Pick(s)] = RoleWeights[role][Pick(s)]
  BY DEF Pick
<1>3. TotalWeight(role, D) = (CHOOSE h : Recursion(h))[D]
  BY DEF TotalWeight, SumOf, MapThenSumSet, MapThenFoldSet, Pick
<1>4. \A h : IsRecursion(f, D, h) <=> Recursion(h)
  <2> HIDE DEF f
  <2> QED
    BY <1>2 DEF IsRecursion
<1> HIDE DEF Recursion, f
<1>5. Recursion(CHOOSE h : Recursion(h))
  BY <1>1, <1>4, SumExists
<1>6. IsSum(f, D, CHOOSE h : Recursion(h))
  BY <1>1, <1>4, <1>5, SumExists
<1>7. PICK d \in D : TRUE
  OBVIOUS
<1>8. TotalWeight(role, D) \in Nat /\ f[d] <= TotalWeight(role, D)
  BY <1>1, <1>3, <1>6, SumOfNaturals
<1>9. f[d] \in Nat /\ f[d] > 0
  BY <1>1
<1> QED
  BY <1>8, <1>9

LEMMA RawIsSum ==
  ASSUME NEW rs \in Interviews, NEW role,
         [d \in ScoredDimensions(rs) |-> Contribution(rs, role, d)] \in [ScoredDimensions(rs) -> Int]
  PROVE  LET D == ScoredDimensions(rs)
         IN \E g : /\ IsSum([d \in D |-> Contribution(rs, role, d)], D, g)
                   /\ RawScore(rs, role) = Round(g[D], 10)
<1> DEFINE D == ScoredDimensions(rs)
           f == [d \in D |-> Contribution(rs, role, d)]
           Recursion(h) == h = [s \in SUBSET D |->
                                  IF s = {} THEN 0
                                  ELSE Contribution(rs, role, Pick(s)) + h[s \ {Pick(s)}]]
<1>1. IsFiniteSet(D) /\ f \in [D -> Int]
  <2>1. D \in SUBSET Dimensions
    <3>1. \A i \in DOMAIN rs : rs[i] \in GradedAnswer
      BY AnswersAre
    <3> QED
      BY <3>1 DEF ScoredDimensions, GradedAnswer
  <2> QED
    BY <2>1, FewDimensions
<1>2. \A s \in SUBSET D : s # {} => f[Pick(s)] = Contribution(rs, role, Pick(s))
  BY DEF Pick
<1>3. RawScore(rs, role) = Round((CHOOSE h : Recursion(h))[D], 10)
  BY DEF RawScore, SumOf, MapThenSumSet, MapThenFoldSet, Pick
<1>4. \A h : IsRecursion(f, D, h) <=> Recursion(h)
  <2> HIDE DEF f, D
  <2> QED
    BY <1>2 DEF IsRecursion
<1> HIDE DEF Recursion, f, D
<1>5. Recursion(CHOOSE h : Recursion(h))
  BY <1>1, <1>4, SumExists
<1>6. IsSum(f, D, CHOOSE h : Recursion(h))
  BY <1>1, <1>4, <1>5, SumExists
<1> QED
  BY <1>3, <1>6 DEF f, D

(* The same interview, with written answers that are at least as good.       *)
Improves(rs, better) ==
  /\ better \in Interviews /\ DOMAIN better = DOMAIN rs
  /\ \A i \in DOMAIN rs :
       /\ better[i].dim = rs[i].dim /\ better[i].executed = rs[i].executed
       /\ better[i].execution = rs[i].execution /\ better[i].evaluated = rs[i].evaluated
       /\ rs[i].score <= better[i].score

LEMMA SameQuestions ==
  ASSUME NEW rs \in Interviews, NEW better, Improves(rs, better)
  PROVE  /\ ScoredDimensions(better) = ScoredDimensions(rs)
         /\ ExecutedDimensions(better) = ExecutedDimensions(rs)
         /\ \A dim : Evaluated(better, dim) = Evaluated(rs, dim)
         /\ ScoredDimensions(rs) \in SUBSET Dimensions
         /\ {i \in DOMAIN better : better[i].executed} = {i \in DOMAIN rs : rs[i].executed}
<1>1. ScoredDimensions(better) = ScoredDimensions(rs)
  BY DEF Improves, ScoredDimensions
<1>2. ExecutedDimensions(better) = ExecutedDimensions(rs)
  BY DEF Improves, ExecutedDimensions
<1>3. \A dim : Evaluated(better, dim) = Evaluated(rs, dim)
  BY DEF Improves, Evaluated
<1>4. ScoredDimensions(rs) \in SUBSET Dimensions
  <2>1. \A i \in DOMAIN rs : rs[i] \in GradedAnswer
    BY AnswersAre
  <2> QED
    BY <2>1 DEF ScoredDimensions, GradedAnswer
<1>5. {i \in DOMAIN better : better[i].executed} = {i \in DOMAIN rs : rs[i].executed}
  BY DEF Improves
<1> QED
  BY <1>1, <1>2, <1>3, <1>4, <1>5

LEMMA SignalsStay ==
  ASSUME NEW rs \in Interviews, NEW better, Improves(rs, better), NEW dim
  PROVE  SumSignals(rs, dim) \in Nat /\ SumSignals(better, dim) = SumSignals(rs, dim)
<1> DEFINE E == {i \in DOMAIN rs : rs[i].executed}
           B == {i \in DOMAIN better : better[i].executed}
           f == [i \in E |-> Signal(rs[i].execution, dim)]
           e == [i \in B |-> Signal(better[i].execution, dim)]
<1>1. better \in Interviews /\ B = E
  BY SameQuestions DEF Improves
<1>2. \A i \in E : f[i] = e[i]
  BY <1>1 DEF Improves
<1>3. IsFiniteSet(E) /\ f \in [E -> Nat]
  BY SignalsAreSum
<1>4. PICK g : IsSum(f, E, g) /\ SumSignals(rs, dim) = Least(100, g[E])
  BY SignalsAreSum
<1>5. PICK h : IsSum(e, B, h) /\ SumSignals(better, dim) = Least(100, h[B])
  BY <1>1, SignalsAreSum
<1> HIDE DEF E, B, f, e
<1>6. g[E] = h[E]
  <2>1. E \subseteq B /\ E \in SUBSET E
    BY <1>1
  <2> QED
    BY <1>2, <1>3, <1>4, <1>5, <2>1, SumsAgree
<1>7. g[E] \in Nat
  BY <1>3, <1>4, SumOfNaturals
<1> QED
  BY <1>1, <1>4, <1>5, <1>6, <1>7 DEF Least

LEMMA BaseGrows ==
  ASSUME NEW rs \in Interviews, NEW better, Improves(rs, better), NEW dim \in ScoredDimensions(rs)
  PROVE  /\ BaseScore(rs, dim) \in Nat /\ BaseScore(better, dim) \in Nat
         /\ BaseScore(rs, dim) <= BaseScore(better, dim)
<1> DEFINE E == Evaluated(rs, dim)
           B == Evaluated(better, dim)
           f == [i \in E |-> rs[i].score]
           e == [i \in B |-> better[i].score]
           n == 6 * Cardinality(E)
<1>1. better \in Interviews /\ B = E
  BY SameQuestions DEF Improves
<1>2. E \in SUBSET DOMAIN rs /\ B \in SUBSET DOMAIN better
  BY DEF Evaluated
<1>3. PICK g : IsSum(f, E, g) /\ BaseScore(rs, dim) = Round(g[E], n)
  BY BaseIsSum
<1>4. PICK h : IsSum(e, B, h) /\ BaseScore(better, dim) = Round(h[B], 6 * Cardinality(B))
  BY <1>1, BaseIsSum
<1>5. E # {}
  BY DEF ScoredDimensions, Evaluated
<1>6. \A i \in E : f[i] <= e[i]
  BY <1>1, <1>2 DEF Improves
<1>7. f \in [E -> Nat] /\ e \in [B -> Nat] /\ IsFiniteSet(E)
  <2> HIDE DEF E, B
  <2>1. IsFiniteSet(E) /\ \A i \in E : rs[i] \in GradedAnswer
    BY <1>2, AnswersAre
  <2>2. \A i \in B : better[i] \in GradedAnswer
    BY <1>1, <1>2, AnswersAre
  <2>3. \A r \in GradedAnswer : r.score \in Nat
    BY ScoreIsNatural
  <2>4. f \in [E -> Nat]
    BY <2>1, <2>3
  <2>5. e \in [B -> Nat]
    BY <2>2, <2>3
  <2> QED
    BY <2>1, <2>4, <2>5
<1> HIDE DEF E, B, f, e
<1>8. Cardinality(E) \in Nat /\ Cardinality(E) > 0
  BY <1>5, <1>7, FS_EmptySet, FS_CardinalityType
<1>9. n \in Nat /\ n > 0
  BY <1>8
<1> HIDE DEF n
<1>10. g[E] \in Nat /\ h[E] \in Nat
  BY <1>1, <1>3, <1>4, <1>7, SumOfNaturals
<1>11. g[E] <= h[E]
  <2>1. f \in [E -> Int] /\ e \in [E -> Int] /\ IsSum(e, E, h)
    BY <1>1, <1>4, <1>7
  <2> QED
    BY <1>3, <1>6, <1>7, <2>1, SumIsMonotone
<1>12. /\ Round(g[E], n) \in Int /\ Round(h[E], n) \in Int /\ Round(g[E], n) <= Round(h[E], n)
       /\ Round(g[E], n) >= 0
  BY <1>9, <1>10, <1>11, RoundGrows
<1>13. BaseScore(better, dim) = Round(h[E], n)
  BY <1>1, <1>4 DEF n
<1> QED
  BY <1>3, <1>12, <1>13

LEMMA EnrichedGrows ==
  ASSUME NEW rs \in Interviews, NEW better, Improves(rs, better), NEW dim \in ScoredDimensions(rs)
  PROVE  /\ EnrichedScore(rs, dim) \in Nat /\ EnrichedScore(better, dim) \in Nat
         /\ EnrichedScore(rs, dim) <= EnrichedScore(better, dim)
<1>1. /\ BaseScore(rs, dim) \in Nat /\ BaseScore(better, dim) \in Nat
      /\ BaseScore(rs, dim) <= BaseScore(better, dim)
  BY BaseGrows
<1>2. SumSignals(rs, dim) \in Nat /\ SumSignals(better, dim) = SumSignals(rs, dim)
  BY SignalsStay
<1>3. dim \in ExecutedDimensions(better) <=> dim \in ExecutedDimensions(rs)
  BY SameQuestions
<1> DEFINE a == 7 * BaseScore(rs, dim) + 30 * SumSignals(rs, dim)
           c == 7 * BaseScore(better, dim) + 30 * SumSignals(better, dim)
<1>4. a \in Int /\ c \in Int /\ a <= c /\ a >= 0
  BY <1>1, <1>2
<1>5. EnrichedScore(rs, dim) = IF dim \in ExecutedDimensions(rs) THEN Round(a, 10)
                               ELSE BaseScore(rs, dim)
  BY DEF EnrichedScore
<1>6. EnrichedScore(better, dim) = IF dim \in ExecutedDimensions(better) THEN Round(c, 10)
                                   ELSE BaseScore(better, dim)
  BY DEF EnrichedScore
<1> HIDE DEF a, c
<1>7. Round(a, 10) \in Int /\ Round(c, 10) \in Int /\ Round(a, 10) <= Round(c, 10) /\ Round(a, 10) >= 0
  BY <1>4, RoundGrows
<1> QED
  BY <1>1, <1>3, <1>5, <1>6, <1>7

LEMMA ContributionGrows ==
  ASSUME NEW rs \in Interviews, NEW better, Improves(rs, better),
         NEW role \in DOMAIN RoleWeights, NEW dim \in ScoredDimensions(rs)
  PROVE  /\ Contribution(rs, role, dim) \in Nat /\ Contribution(better, role, dim) \in Nat
         /\ Contribution(rs, role, dim) <= Contribution(better, role, dim)
<1> DEFINE w == RoleWeights[role][dim]
           t == TotalWeight(role, ScoredDimensions(rs))
           a == 10 * EnrichedScore(rs, dim) * w
           c == 10 * EnrichedScore(better, dim) * w
<1>1. dim \in Dimensions /\ ScoredDimensions(rs) \in SUBSET Dimensions
      /\ ScoredDimensions(better) = ScoredDimensions(rs)
  BY SameQuestions
<1>2. w \in Nat /\ w > 0
  BY <1>1, WeightsArePositive
<1>3. t \in Nat /\ t > 0
  BY <1>1, WeightIsPositive
<1>4. a \in Int /\ c \in Int /\ a <= c /\ a >= 0
  <2> DEFINE x == 10 * EnrichedScore(rs, dim)
             y == 10 * EnrichedScore(better, dim)
  <2>1. x \in Nat /\ y \in Nat /\ x <= y
    BY EnrichedGrows
  <2> HIDE DEF x, y, w
  <2>2. w * x <= w * y /\ w * x \in Int /\ w * y \in Int /\ w * 0 <= w * x
    BY <1>2, <2>1, ProductGrows
  <2>3. x * w = w * x /\ y * w = w * y /\ w * 0 = 0
    BY <1>2, <2>1
  <2> QED
    BY <2>2, <2>3 DEF x, y
<1>5. Contribution(rs, role, dim) = Round(a, t) /\ Contribution(better, role, dim) = Round(c, t)
  BY <1>1 DEF Contribution
<1> HIDE DEF a, c, t
<1>6. Round(a, t) \in Int /\ Round(c, t) \in Int /\ Round(a, t) <= Round(c, t) /\ Round(a, t) >= 0
  BY <1>3, <1>4, RoundGrows
<1> QED
  BY <1>5, <1>6

LEMMA RawGrows ==
  ASSUME NEW rs \in Interviews, NEW better, Improves(rs, better), NEW role \in DOMAIN RoleWeights
  PROVE  /\ RawScore(rs, role) \in Nat /\ RawScore(better, role) \in Nat
         /\ RawScore(rs, role) <= RawScore(better, role)
<1> DEFINE D == ScoredDimensions(rs)
           B == ScoredDimensions(better)
           f == [d \in D |-> Contribution(rs, role, d)]
           e == [d \in B |-> Contribution(better, role, d)]
<1>1. better \in Interviews /\ B = D /\ D \in SUBSET Dimensions
  BY SameQuestions DEF Improves
<1>2. /\ f \in [D -> Nat] /\ e \in [B -> Nat]
      /\ f \in [D -> Int] /\ e \in [B -> Int]
      /\ \A d \in D : f[d] <= e[d]
  BY <1>1, ContributionGrows
<1>3. PICK g : IsSum(f, D, g) /\ RawScore(rs, role) = Round(g[D], 10)
  BY <1>2, RawIsSum
<1>4. PICK h : IsSum(e, B, h) /\ RawScore(better, role) = Round(h[B], 10)
  BY <1>1, <1>2, RawIsSum
<1>5. IsFiniteSet(D)
  BY <1>1, FewDimensions
<1> HIDE DEF D, B, f, e
<1>6. g[D] \in Nat /\ h[D] \in Nat
  BY <1>1, <1>2, <1>3, <1>4, <1>5, SumOfNaturals
<1>7. g[D] <= h[D]
  <2>1. e \in [D -> Int] /\ IsSum(e, D, h)
    BY <1>1, <1>2, <1>4
  <2> QED
    BY <1>2, <1>3, <1>5, <2>1, SumIsMonotone
<1>8. /\ Round(g[D], 10) \in Int /\ Round(h[D], 10) \in Int
      /\ Round(g[D], 10) <= Round(h[D], 10) /\ Round(g[D], 10) >= 0
  BY <1>6, <1>7, RoundGrows
<1> QED
  BY <1>1, <1>3, <1>4, <1>8

(* A gate lowers the score, and a better interview passes every gate the     *)
(* other passes.                                                             *)
LEMMA AdjustedGrows ==
  ASSUME NEW rs \in Interviews, NEW better, Improves(rs, better), NEW role \in DOMAIN RoleWeights
  PROVE  AdjustedScore(rs, role) <= AdjustedScore(better, role)
<1>1. /\ RawScore(rs, role) \in Nat /\ RawScore(better, role) \in Nat
      /\ RawScore(rs, role) <= RawScore(better, role)
  BY RawGrows
<1>2. ASSUME NEW dim, NEW threshold \in Nat, Gated(better, dim, threshold)
      PROVE  Gated(rs, dim, threshold)
  <2>1. dim \in ScoredDimensions(rs)
    BY <1>2, SameQuestions DEF Gated
  <2>2. /\ EnrichedScore(rs, dim) \in Nat /\ EnrichedScore(better, dim) \in Nat
        /\ EnrichedScore(rs, dim) <= EnrichedScore(better, dim)
    BY <2>1, EnrichedGrows
  <2> QED
    BY <1>2, <2>1, <2>2 DEF Gated
<1> DEFINE x == IF Gated(rs, "system_design", 600) THEN Round(9 * RawScore(rs, role), 10)
                ELSE RawScore(rs, role)
           y == IF Gated(better, "system_design", 600) THEN Round(9 * RawScore(better, role), 10)
                ELSE RawScore(better, role)
<1>3. x \in Nat /\ y \in Nat /\ x <= y
  <2> DEFINE p == RawScore(rs, role)
             q == RawScore(better, role)
  <2>1. /\ Round(9 * p, 10) \in Nat /\ Round(9 * p, 10) <= p
        /\ Round(9 * q, 10) \in Nat
    BY <1>1, RoundDown
  <2>2. Round(9 * p, 10) <= Round(9 * q, 10)
    BY <1>1, RoundGrows
  <2>3. Gated(better, "system_design", 600) => Gated(rs, "system_design", 600)
    BY <1>2
  <2> HIDE DEF p, q
  <2> QED
    BY <1>1, <2>1, <2>2, <2>3 DEF p, q
<1>4. /\ AdjustedScore(rs, role) =
           IF Gated(rs, "technical_depth", 500) THEN Round(95 * x, 100) ELSE x
      /\ AdjustedScore(better, role) =
           IF Gated(better, "technical_depth", 500) THEN Round(95 * y, 100) ELSE y
  BY DEF AdjustedScore
<1> HIDE DEF x, y
<1>5. /\ Round(95 * x, 100) \in Nat /\ Round(95 * x, 100) <= x
      /\ Round(95 * y, 100) \in Nat
  BY <1>3, RoundDown
<1>6. Round(95 * x, 100) <= Round(95 * y, 100)
  BY <1>3, RoundGrows
<1>7. Gated(better, "technical_depth", 500) => Gated(rs, "technical_depth", 500)
  BY <1>2
<1> QED
  BY <1>3, <1>4, <1>5, <1>6, <1>7

(* The score the decision is made on never falls when a written answer is    *)
(* graded higher: for every plan, every role and all answers.                *)
THEOREM BetterNeverHurts == Spec => []BetterAnswersNeverHurt
<1>1. ASSUME GradedInv, ReportInv PROVE BetterAnswersNeverHurt
  <2>1. SUFFICES ASSUME Reported, NEW i \in DOMAIN results, NEW s \in WrittenScores,
                        results[i].score <= s
                 PROVE  report.adjusted <= AdjustedScore(Rescored(i, s), report.role)
    BY DEF BetterAnswersNeverHurt
  <2>2. PICK role \in Roles : report = Snapshot(results, role)
    BY <1>1, <2>1 DEF ReportInv, Reported
  <2>3. report.adjusted = AdjustedScore(results, role) /\ report.role = role
        /\ role \in DOMAIN RoleWeights
    BY <2>2, RolesAssumption DEF Snapshot
  <2>4. results \in Interviews /\ Improves(results, Rescored(i, s))
    <3>1. results \in Interviews
      BY <1>1 DEF GradedInv, Interviews
    <3>2. /\ Len(results) \in Nat /\ DOMAIN results = 1 .. Len(results)
          /\ \A k \in DOMAIN results : results[k] \in GradedAnswer
      BY <3>1, LenProperties, ElementOfSeq DEF Interviews
    <3>3. [results[i] EXCEPT !.score = s] \in GradedAnswer
          /\ [results[i] EXCEPT !.score = s].score = s
      BY <3>2, ScoresAssumption DEF GradedAnswer
    <3>4. /\ DOMAIN Rescored(i, s) = DOMAIN results
          /\ Rescored(i, s) = [k \in 1 .. Len(results) |->
                                 IF k = i THEN [results[i] EXCEPT !.score = s] ELSE results[k]]
      BY <3>2 DEF Rescored
    <3>5. Rescored(i, s) \in Interviews
      BY <3>2, <3>3, <3>4 DEF Interviews
    <3>6. \A k \in DOMAIN results :
            /\ Rescored(i, s)[k].dim = results[k].dim
            /\ Rescored(i, s)[k].executed = results[k].executed
            /\ Rescored(i, s)[k].execution = results[k].execution
            /\ Rescored(i, s)[k].evaluated = results[k].evaluated
            /\ results[k].score <= Rescored(i, s)[k].score
      <4> SUFFICES ASSUME NEW k \in DOMAIN results
                   PROVE  /\ Rescored(i, s)[k].dim = results[k].dim
                          /\ Rescored(i, s)[k].executed = results[k].executed
                          /\ Rescored(i, s)[k].execution = results[k].execution
                          /\ Rescored(i, s)[k].evaluated = results[k].evaluated
                          /\ results[k].score <= Rescored(i, s)[k].score
        OBVIOUS
      <4>1. CASE k = i
        <5>1. Rescored(i, s)[k] = [results[i] EXCEPT !.score = s]
          BY <3>2, <3>4, <4>1
        <5>2. results[i] \in GradedAnswer
          BY <3>2
        <5> QED
          BY <2>1, <3>3, <4>1, <5>1, <5>2 DEF GradedAnswer
      <4>2. CASE k # i
        <5>1. Rescored(i, s)[k] = results[k] /\ results[k] \in GradedAnswer
          BY <3>2, <3>4, <4>2
        <5>2. results[k].score \in Int
          BY <5>1, ScoreIsNatural
        <5> QED
          BY <5>1, <5>2
      <4> QED
        BY <4>1, <4>2
    <3> QED
      BY <3>1, <3>4, <3>5, <3>6 DEF Improves
  <2> QED
    BY <2>3, <2>4, AdjustedGrows
<1> QED
  BY <1>1, GradedInvariant, ReportInvariant, PTL

-----------------------------------------------------------------------------
(* How many steps a coding answer is from its record at most, that included, *)
(* at a stage and before a test.                                             *)
Left(s, n) ==
  CASE s = "loading"   -> Tests + 5
    [] s = "resolving" -> Tests + 4
    [] s = "testing"   -> Tests + 4 - n
    [] s = "hung"      -> 2
    [] s \in Ended     -> 1
    [] OTHER           -> 0

StepsLeft == Left(stage, test)

ComesCloser ==
  stage # "idle" =>
    /\ StepsLeft' < StepsLeft \/ (CandidatePrints /\ StepsLeft' = StepsLeft)
    /\ stage' = "idle" => Current' = Current + 1

LEMMA LeftIs ==
  ASSUME NEW n \in 1 .. Tests + 1
  PROVE  /\ Left("loading", n) = Tests + 5 /\ Left("resolving", n) = Tests + 4
         /\ Left("testing", n) = Tests + 4 - n
         /\ Left("hung", n) = 2 /\ Left("idle", n) = 0
         /\ \A s \in Ended : Left(s, n) = 1
BY DEF Left, Ended

(* A coding answer is recorded after at most one step per test and five more *)
(* but for the lines the solution prints itself, whatever it does: no step   *)
(* of anyone prolongs its run, or starts another before the record.  That    *)
(* the run is ended at all is the sandbox's timeout (CodeIsGraded).          *)
THEOREM RunsAreShort == Spec => [][ComesCloser]_vars
<1>1. ASSUME RunInv, RunInv', GradedInv, Next, stage # "idle" PROVE ComesCloser
  <2>1. IsAnswering("coding") /\ results \in Seq(GradedAnswer) /\ Len(results) \in Nat
    BY <1>1, LenProperties DEF GradedInv
  <2>2. Current <= Len(Plan) /\ ~(Current > Len(Plan)) /\ Plan[Current].kind = "coding"
    BY <2>1, LenProperties, PlanAssumption DEF IsAnswering, Current
  <2>3. sql_stage = "idle"
    BY <1>1, <2>2 DEF GradedInv, IsAnswering
  <2>4. RunCode \/ GradeCode
    BY <1>1, <2>2, <2>3 DEF Next, SubmitCode, StartRun, SubmitSql, RunSql, SqlStep, Seed, SeedFails, SqlTest,
       Spin, Aggregate, GradeSql, ExecutionUnavailable, AnswerWritten, AggregateReport, IsAnswering
  <2>5. /\ test \in 1 .. Tests + 1 /\ test' \in 1 .. Tests + 1 /\ Tests \in Nat
        /\ StepsLeft' = Left(stage', test')
    BY <1>1, TestsType DEF RunInv, RunTypes, StepsLeft, Left, Tests
  <2>6. CASE GradeCode
    <3>1. stage \in Ended /\ stage' = "idle"
          /\ results' = Append(results, Executed(Validated(CodingResult)))
      BY <2>6 DEF GradeCode, BecomeRun, IdleRun, Record
    <3>2. StepsLeft = 1 /\ StepsLeft' = 0
      BY <2>5, <3>1, LeftIs DEF StepsLeft
    <3>3. Len(results') = Len(results) + 1
      BY <2>1, <3>1
    <3> QED
      BY <3>2, <3>3 DEF ComesCloser, Current
  <2>7. CASE Load
    <3>1. stage = "loading" /\ stage' = "resolving"
      BY <2>7 DEF Load
    <3> QED
      BY <2>5, <3>1, LeftIs DEF ComesCloser, StepsLeft
  <2>8. CASE Resolve
    <3>1. stage = "resolving" /\ stage' = "testing"
      BY <2>8 DEF Resolve
    <3>2. StepsLeft = Tests + 4 /\ StepsLeft' = Tests + 4 - test'
      BY <2>5, <3>1, LeftIs DEF StepsLeft
    <3>3. test' \in Nat /\ test' >= 1
      BY <2>5
    <3>4. \A t, n \in Nat : n >= 1 => t + 4 - n < t + 4
      OBVIOUS
    <3>5. Tests + 4 - test' < Tests + 4
      BY <2>5, <3>3, <3>4
    <3> QED
      BY <3>1, <3>2, <3>5 DEF ComesCloser
  <2>9. CASE VisibleTest \/ HiddenTest
    <3>1. stage = "testing" /\ stage' = "testing" /\ test' = test + 1
      BY <2>9 DEF VisibleTest, HiddenTest
    <3> QED
      BY <2>5, <3>1, LeftIs DEF ComesCloser, StepsLeft
  <2>10. CASE stage' = "hung" /\ stage \in {"loading", "resolving", "testing"}
    BY <2>5, <2>10, LeftIs DEF ComesCloser, StepsLeft
  <2>11. CASE stage' \in Ended /\ stage \in Running
    <3>1. StepsLeft' = 1
      BY <2>5, <2>11, LeftIs
    <3>2. StepsLeft \in Nat /\ StepsLeft >= 2
      BY <2>5, <2>11, LeftIs DEF Running, StepsLeft
    <3> QED
      BY <2>11, <3>1, <3>2 DEF ComesCloser, Ended
  <2>12. CASE CandidatePrints
    <3>1. StepsLeft' = StepsLeft /\ stage' = stage
      BY <2>5, <2>12 DEF CandidatePrints, StepsLeft
    <3> QED
      BY <1>1, <2>12, <3>1 DEF ComesCloser
  <2> QED
    BY <2>4, <2>6, <2>7, <2>8, <2>9, <2>10, <2>11, <2>12
       DEF RunCode, RunStep, LoadFails, ResolveFails, CandidateEnds, CandidateRuns, Summary, Timeout, Exit, Running, Ended
<1>2. RunInv /\ RunInv' /\ GradedInv /\ [Next]_vars => [ComesCloser]_vars
  BY <1>1 DEF ComesCloser
<1> QED
  BY <1>2, RunInvariant, GradedInvariant, PTL DEF Spec
=============================================================================
