--------------------------- MODULE QuestionSupply ---------------------------
(***************************************************************************)
(* Where the questions of one interview come from: start_interview and the *)
(* NEXT branch of AdaptiveNavigationNode, through the lazy adaptive        *)
(* service, down to the pipelines that retrieve a document of the corpus,  *)
(* enrich it, or generate a question; and the retrieval memory they share. *)
(*                                                                         *)
(* The interview runs in a process with others.  They matter through two   *)
(* module globals: the navigation node every start configures anew, and    *)
(* the counts of first picks.  Their starts are an action of the           *)
(* environment.  Gradio runs one call of start_interview at a time.        *)
(***************************************************************************)
EXTENDS InterviewLength, Integers

CONSTANTS
  Lengths,            \* interview lengths on offer
  Easiest,            \* head of order_areas_by_derived_difficulty
  Coding, Database,   \* the areas with pipelines of their own
  Canonical,          \* CANONICAL_FRESH_START_AREAS
  Background,         \* BACKGROUND_MIN_POOL_AREA
  FreshPool,          \* MIN_FRESH_START_POOL_SIZE (5)
  MergedPool,         \* _CODING_MIN_CANDIDATE_POOL and the SQL one (3)
  GenerateAttempts,   \* attempts of _generate_with_retry
  Levels,             \* seniority levels
  Documents,          \* the corpus
  OnTarget,           \* documents at most one off the first target difficulty
  Found,              \* what the store returns, by level, area and stage
  Scores,             \* evaluations of an answer, in ten-thousandths
  MaxStarts, MaxCounted

Stages == 1 .. 4
Generated == "generated"
NoScore == -1

ASSUME LengthsAssumption == Lengths \subseteq Nat \ {0}
ASSUME EasiestAssumption == Easiest \in Area
ASSUME BoundsAssumption ==
  GenerateAttempts \in Nat /\ FreshPool \in Nat /\ MergedPool \in Nat
ASSUME DocumentsAssumption ==
  /\ IsFiniteSet(Documents) /\ Generated \notin Documents
  /\ OnTarget \subseteq Documents
  /\ Found \in [Levels -> [Area -> [Stages -> SUBSET Documents]]]
ASSUME ScoresAssumption == Scores \subseteq 0 .. 10000
ASSUME SharesAssumption ==
  MapThenSumSet(LAMBDA k : Share[DeclaredAreas[k]], DOMAIN DeclaredAreas) = 100
ASSUME EnoughAssumption ==
  \A length \in Lengths : Remainder(length) >= 0 /\ 100 <= Share[Easiest] * length

VARIABLES
  session,   \* the interview in gr.State
  work,      \* what the running handler has made so far
  pc,        \* where the handler stands
  process    \* the module globals, and how often they were set

vars == <<session, work, pc, process>>

Memory ==
  [documents : SUBSET Documents, average : 0 .. 1000, count : Nat, sum : Nat]
NewMemory == [documents |-> {}, average |-> 0, count |-> 0, sum |-> 0]

NoInterview ==
  [level |-> "none", length |-> 0, questions |-> <<>>, memory |-> NewMemory, score |-> NoScore]

NoWork ==
  [handler |-> "none", level |-> "none", length |-> 0, area |-> Easiest, memory |-> NewMemory,
   pool |-> {}, first |-> {}, attempts |-> 0, document |-> Generated]

Planned == [length \in Lengths |-> PlannedAreas(length)]
Plan(s) == Planned[s.length]

-----------------------------------------------------------------------------
(* The retrieval memory.  Mutations - here and below, definitions with a     *)
(* suffix - are plausible bugs of the definition that follows them; nothing  *)
(* else uses them.                                                           *)

(* round, with halves up; Python's go to the even neighbour.                 *)
Nearest(n, d) == (2 * n + d) \div (2 * d)

(* record_bank_item_selection.                                               *)
Recorded_Forgets(m, d) == m

Recorded(m, d) == [m EXCEPT !.documents = @ \cup ({d} \ {Generated})]

(* update_from_question_evaluation: the mean of all scores from the rounded  *)
(* mean of the earlier ones, in thousandths.  sum is not in the code: it     *)
(* remembers the scores for AverageIsTrue.                                   *)
Counted_NewCount(m, score) ==
  [m EXCEPT !.average = Nearest(10 * m.average * (m.count + 1) + score, 10 * (m.count + 2)),
            !.count = @ + 1, !.sum = @ + score]

Counted(m, score) ==
  [documents |-> m.documents,
   average |-> Nearest(10 * m.average * m.count + score, 10 * (m.count + 1)),
   count |-> m.count + 1, sum |-> m.sum + score]

IsFresh(m) == m.documents = {} /\ m.count = 0

-----------------------------------------------------------------------------
(* Retrieval: the relaxation stages, and what of each was not asked yet.     *)

Unasked(l, a, m, n) == Found[l][a][n] \ m.documents

(* AdaptiveRetrievalService: the first stage that is deep enough, else the   *)
(* first of the deepest.                                                     *)
Deep(a, m) == IF a = Background /\ IsFresh(m) THEN FreshPool ELSE 1

BestStage(l, a, m) ==
  LET Size(n) == Cardinality(Unasked(l, a, m, n))
      enough == {n \in Stages : Size(n) >= Deep(a, m)}
  IN  Min(IF enough # {} THEN enough ELSE {n \in Stages : \A k \in Stages : Size(k) <= Size(n)})

(* The helpers of the coding and SQL pipelines merge the stages until the    *)
(* pool is deep enough.                                                      *)
Merged(l, a, m, n) == UNION {Unasked(l, a, m, k) : k \in 1 .. n}

MergedStage(l, a, m) ==
  Min({n \in Stages : Cardinality(Merged(l, a, m, n)) >= MergedPool \/ n = 4})

IsEnriched(a) == a \in {Coding, Database}

Pool(l, a, m) ==
  IF IsEnriched(a) THEN Merged(l, a, m, MergedStage(l, a, m))
                   ELSE Unasked(l, a, m, BestStage(l, a, m))

(* FreshStartSelectionStrategy: the first pick of an interview rotates among *)
(* equivalent documents.                                                     *)
Equivalents(pool) == pool \cap OnTarget

Rotates(a, m, pool) ==
  IsFresh(m) /\ a \in Canonical /\ Cardinality(Equivalents(pool)) > 1

LeastPicked_Any(pool) == Equivalents(pool)

LeastPicked(pool) ==
  {d \in Equivalents(pool) : \A e \in Equivalents(pool) : process.picks[d] <= process.picks[e]}

(* Every other order of the candidates is one of scores.                     *)
Preferred(a, m, pool) == IF Rotates(a, m, pool) THEN LeastPicked(pool) ELSE pool

Picked(a, m, pool, d) ==
  IF Rotates(a, m, pool) THEN [process EXCEPT !.picks[d] = @ + 1] ELSE process

-----------------------------------------------------------------------------
(* The handlers.                                                             *)

Handle(w) == work' = w /\ UNCHANGED session

(* start_interview: the navigation node of the whole process is configured   *)
(* for this interview, whose first question is of the easiest area.          *)
Start(level, length) ==
  /\ pc = "idle" /\ session = NoInterview /\ process.starts < MaxStarts
  /\ process' = [process EXCEPT !.level = level, !.starts = @ + 1]
  /\ Handle([NoWork EXCEPT !.handler = "start", !.level = level, !.length = length])
  /\ pc' = "retrieve"

(* start_interview for somebody else; it may fail before its first pick.     *)
OtherStart(level) ==
  /\ work.handler # "start" /\ process.starts < MaxStarts
  /\ LET pool == Pool(level, Easiest, NewMemory)
         configured == [process EXCEPT !.level = level, !.starts = @ + 1]
     IN  \/ process' = configured
         \/ /\ Rotates(Easiest, NewMemory, pool)
            /\ \E d \in LeastPicked(pool) : process' = [configured EXCEPT !.picks[d] = @ + 1]
  /\ UNCHANGED <<session, work, pc>>

(* The answer to the current question is graded, perhaps again.              *)
Grade(score) ==
  /\ pc = "idle" /\ session # NoInterview
  /\ session' = [session EXCEPT !.score = score]
  /\ UNCHANGED <<work, pc, process>>

(* NEXT: the score is counted before the next question is looked for, and    *)
(* the level is that of the configured node.                                 *)
NextClicked ==
  /\ pc = "idle" /\ session.score # NoScore
  /\ Len(session.questions) < Len(Plan(session)) /\ session.memory.count < MaxCounted
  /\ Handle([NoWork EXCEPT !.handler = "next", !.level = process.level,
                           !.area = Plan(session)[Len(session.questions) + 1],
                           !.memory = Counted(session.memory, session.score)])
  /\ pc' = "retrieve"
  /\ UNCHANGED process

(* A written question is the pick itself, unless RetrievalCandidateMapper    *)
(* drops its document as malformed; the other pipelines try one candidate    *)
(* after the other, the pick first.                                          *)
Retrieve ==
  /\ pc = "retrieve"
  /\ LET pool == Pool(work.level, work.area, work.memory)
     IN  \/ /\ pool = {}
            /\ pc' = "generate" /\ UNCHANGED <<work, process>>
         \/ \E d \in Preferred(work.area, work.memory, pool) :
              /\ process' = Picked(work.area, work.memory, pool, d)
              /\ IF IsEnriched(work.area)
                 THEN pc' = "enrich" /\ work' = [work EXCEPT !.pool = pool, !.first = {d}]
                 ELSE \/ pc' = "finish" /\ work' = [work EXCEPT !.document = d]
                      \/ pc' = "generate" /\ UNCHANGED work
  /\ UNCHANGED session

(* A candidate is enriched, or skipped: malformed, not actionable, unusable  *)
(* reply.                                                                    *)
Enrich ==
  /\ pc = "enrich"
  /\ \/ /\ work.pool = {}
        /\ pc' = "generate" /\ UNCHANGED work
     \/ \E d \in IF work.first # {} THEN work.first ELSE work.pool :
          \/ pc' = "finish" /\ work' = [work EXCEPT !.document = d]
          \/ pc' = "enrich" /\ work' = [work EXCEPT !.pool = @ \ {d}, !.first = {}]
  /\ UNCHANGED <<session, process>>

(* The base pipeline calls _generate_with_retry up to three times, the       *)
(* written one its generator once; an attempt may yield no question.         *)
MaxGenerate(a) == IF IsEnriched(a) THEN 3 * GenerateAttempts ELSE 1

Generate_LooksAgain ==
  /\ pc = "generate"
  /\ \/ /\ work.attempts >= MaxGenerate(work.area)
        /\ pc' = "retrieve" /\ work' = [work EXCEPT !.attempts = 0, !.pool = {}, !.first = {}]
     \/ /\ work.attempts < MaxGenerate(work.area)
        /\ pc' = "generate" /\ work' = [work EXCEPT !.attempts = @ + 1]
  /\ UNCHANGED <<session, process>>

Generate ==
  /\ pc = "generate"
  /\ \/ work.attempts >= MaxGenerate(work.area) /\ pc' = "failed" /\ UNCHANGED work
     \/ /\ work.attempts < MaxGenerate(work.area)
        /\ \/ pc' = "finish" /\ UNCHANGED work
           \/ pc' = "generate" /\ work' = [work EXCEPT !.attempts = @ + 1]
  /\ UNCHANGED <<session, process>>

(* Retrieval, enrichment and generation call services that raise.            *)
PipelineRaises ==
  /\ pc \in {"retrieve", "enrich", "generate"}
  /\ pc' = "failed"
  /\ UNCHANGED <<session, work, process>>

Done(s) == session' = s /\ work' = NoWork /\ pc' = "idle" /\ UNCHANGED process

Question == [area |-> work.area, level |-> work.level, document |-> work.document]

(* The question is shown, and the document it came from recorded.            *)
Finish ==
  /\ pc = "finish"
  /\ LET memory == Recorded(work.memory, work.document)
     IN  Done(IF work.handler = "start"
              THEN [level |-> work.level, length |-> work.length, questions |-> <<Question>>,
                    memory |-> memory, score |-> NoScore]
              ELSE [session EXCEPT !.questions = Append(@, Question), !.memory = memory,
                                   !.score = NoScore])

(* Without a question a start is back at the setup; NEXT stays where it is,  *)
(* with the memory it had already updated.                                   *)
Fail ==
  /\ pc = "failed"
  /\ Done(IF work.handler = "start" THEN NoInterview
          ELSE [session EXCEPT !.memory = work.memory])

(* The generator of hidden tests raises: outside every try block of the      *)
(* node, so that nothing of its work is left.                                *)
TestsFail ==
  /\ pc = "finish" /\ work.area = Coding
  /\ Done(IF work.handler = "start" THEN NoInterview ELSE session)

NewInterview ==
  /\ pc = "idle" /\ session # NoInterview
  /\ Done(NoInterview)

Init ==
  /\ session = NoInterview /\ work = NoWork /\ pc = "idle"
  /\ process = [level |-> "none", starts |-> 0, picks |-> [d \in Documents |-> 0]]

Supply == Retrieve \/ Enrich \/ Generate \/ Finish \/ Fail

Next ==
  \/ \E level \in Levels : OtherStart(level) \/ \E length \in Lengths : Start(level, length)
  \/ (\E score \in Scores : Grade(score)) \/ NextClicked \/ NewInterview
  \/ Supply \/ PipelineRaises \/ TestsFail

(* A handler that has started runs to its end: its calls return or raise.    *)
Spec == Init /\ [][Next]_vars /\ WF_vars(Supply)

-----------------------------------------------------------------------------
(* Properties.                                                               *)

QuestionType == [area : Area, level : Levels, document : Documents \cup {Generated}]

InterviewType ==
  [level : Levels \cup {"none"}, length : Lengths \cup {0}, questions : Seq(QuestionType),
   memory : Memory, score : Scores \cup {NoScore}]

WorkType ==
  [handler : {"none", "start", "next"}, level : Levels \cup {"none"}, length : Lengths \cup {0},
   area : Area, memory : Memory, pool : SUBSET Documents, first : SUBSET Documents,
   attempts : Nat, document : Documents \cup {Generated}]

ProcessType == [level : Levels \cup {"none"}, starts : Nat, picks : [Documents -> Nat]]

(* In particular the average stays a share of one (see Memory), in whatever  *)
(* order scores come.                                                        *)
TypeOK ==
  /\ session \in InterviewType
  /\ work \in WorkType
  /\ pc \in {"idle", "retrieve", "enrich", "generate", "finish", "failed"}
  /\ process \in ProcessType

(* No document of the corpus is asked twice in an interview, although areas  *)
(* repeat, stages overlap and failures discard the memory of a handler.      *)
NoDocumentTwice ==
  \A i, j \in DOMAIN session.questions :
    session.questions[i].document = session.questions[j].document =>
      i = j \/ session.questions[i].document = Generated

(* The running average is rounded at every question, from the rounded one    *)
(* before: its errors add up to at most a quarter thousandth per question.   *)
IsMeanOf(m) ==
  LET n == m.count
      error == 10 * m.average * n - m.sum
  IN  2 * error <= 5 * n * (n + 1) /\ -2 * error <= 5 * n * (n + 1)

AverageIsTrue == IsMeanOf(session.memory) /\ IsMeanOf(work.memory)

(* cross_interview_pick_tracker.py:27: no single document is always first.   *)
(* Of two documents that are always equivalent, neither is ever two picks    *)
(* ahead, whoever starts and whichever starts fail.                          *)
FirstPicks ==
  [level \in Levels |->
     LET pool == Pool(level, Easiest, NewMemory)
     IN  IF Rotates(Easiest, NewMemory, pool) THEN Equivalents(pool) ELSE {}]

Together(d, e) == \A level \in Levels : d \in FirstPicks[level] <=> e \in FirstPicks[level]

PicksRotate ==
  \A d, e \in Documents : Together(d, e) => process.picks[d] <= process.picks[e] + 1

(* A whole interview has the length that was chosen, and every area less     *)
(* than two questions more or less than its share: one for rounding and one  *)
(* because the first question is of the easiest area.                        *)
Asked(a) == Cardinality({i \in DOMAIN session.questions : session.questions[i].area = a})

EachAreaGetsItsShare ==
  session # NoInterview =>
    /\ Len(Plan(session)) = session.length
    /\ Len(session.questions) = session.length =>
         \A a \in Area :
           /\ 100 * Asked(a) < Share[a] * session.length + 200
           /\ Share[a] * session.length < 100 * Asked(a) + 200

(* Every request for a question ends, with one or without, however often     *)
(* enrichment and generation yield nothing.                                  *)
EveryRequestEnds == pc # "idle" ~> pc = "idle"

(* test_v1_002_seniority.py: seniority is not hardcoded but that of the      *)
(* interview, for each of its questions.                                     *)
OwnSeniority ==
  \A i \in DOMAIN session.questions : session.questions[i].level = session.level
=============================================================================
