------------------------------- MODULE Reasoner -------------------------------
(***************************************************************************)
(* The reasoner of one interview: what reasoner_node keeps of the answers  *)
(* that were graded.                                                       *)
(*                                                                         *)
(* A cycle runs after every grading (app/graph/nodes/reasoner_node.py):    *)
(* the evaluation is written into the evidence store as a signal, the      *)
(* detectors read the store and derive more signals, an entry is added to  *)
(* the reasoning history, the signals of the current question become       *)
(* observations, and the feature engine computes the candidate's profile   *)
(* from the observations.                                                  *)
(*                                                                         *)
(* What the reasoner sees of the interview is its position, the questions  *)
(* that navigation marked as asked, and their results: `question`, `asked` *)
(* and `grades`.  InterviewSession models how they come about.             *)
(***************************************************************************)
EXTENDS Integers, FiniteSets, SequencesExt

CONSTANTS
  Questions,      \* the number of planned questions
  MaxAttempts,    \* MAX_RETRY_ATTEMPTS (3)
  Dimensions,     \* ProfileDimension
  Technical,      \* ProfileDimension.TECHNICAL_DEPTH, what an evaluation is about
  Patterns,       \* what the detectors not modelled one by one may find
  Window,         \* reasoner_bridge_window (3)
  MinAnswered,    \* reasoner_coverage_min_questions (2)
  MaxSignals,     \* EvidenceStore's _MAX_SIGNALS (200)
  MaxEntries      \* ReasoningHistory's _MAX_ENTRIES (20)

ASSUME ConstantsAssumption ==
  /\ {Questions, MaxAttempts, Window, MaxSignals, MaxEntries} \subseteq Nat \ {0}
  /\ MinAnswered \in Nat
  /\ IsFiniteSet(Dimensions) /\ Technical \in Dimensions

-----------------------------------------------------------------------------
(* Grades: the bands of QuestionEvaluation.score that tell signals apart.    *)
Band == {"severe", "weak", "partial", "strong"}
Grade == Band \cup {"none"}

GapType == [severe |-> "KNOWLEDGE_GAP", weak |-> "REASONING_GAP",
            partial |-> "SHALLOW_ANSWER"]
Bridgeable == {"KNOWLEDGE_GAP", "REASONING_GAP", "SHALLOW_ANSWER"}

(* The types the modelled detectors emit, and one for all the others.        *)
SignalType == Bridgeable \cup {"MISSING_EVIDENCE", "REPEATED_WEAKNESS",
                "CONTRADICTORY_ANSWER", "CONFIDENCE_DROP", "REASONING_DEPTH_HIGH"}

Signal == [type : SignalType, dim : Dimensions, positive : BOOLEAN,
           source : {"EVALUATION", "PATTERN_DETECTOR"}, index : Nat]

(* A pattern names a type, a dimension and a polarity; only CoverageDetector *)
(* reports missing evidence.                                                 *)
ASSUME PatternsAssumption ==
  /\ IsFiniteSet(Patterns)
  /\ Patterns \subseteq [type : SignalType \ {"MISSING_EVIDENCE"}, dim : Dimensions,
                         positive : BOOLEAN]

Entry == [index : Nat, confidence : Nat]
Observation == [type : SignalType, index : Nat, active : BOOLEAN]

(* EvidenceTypes without an ObservationType are skipped.                     *)
Unmapped == {"MISSING_EVIDENCE", "REPEATED_WEAKNESS"}

(* The observation types each feature is computed from, and how many of them *)
(* it needs (the updaters' _MIN_OBS).                                        *)
FeatureTypes ==
  [technical |-> {"REASONING_GAP", "SHALLOW_ANSWER"}, coverage |-> {"KNOWLEDGE_GAP"},
   reasoning |-> {"CONTRADICTORY_ANSWER", "REASONING_DEPTH_HIGH"},
   confidence |-> {"CONFIDENCE_DROP"}]
FeatureMinimum == [technical |-> 1, coverage |-> 2, reasoning |-> 1, confidence |-> 1]

VARIABLES
  screen,        \* "setup", "question" or "feedback"
  question,      \* current_question_index
  attempts,      \* answers submitted to the current question
  asked,         \* len(asked_question_ids): the questions 0 .. asked - 1
  grades,        \* the evaluations in results_by_question
  signals,       \* interview_memory.evidence_store
  history,       \* interview_memory.reasoning_history
  answered,      \* interview_memory.session_metrics.questions_answered
  observations,  \* observation_store, in order of insertion
  profile        \* candidate_profile_v2: the observations each feature stands on

interview == <<screen, question, attempts, asked, grades>>
memory == <<signals, history, answered>>
vars == <<interview, memory, observations, profile>>

Slots == 0 .. Questions - 1
NoProfile == [f \in DOMAIN FeatureTypes |-> {}]

-----------------------------------------------------------------------------
(* The evidence store.                                                       *)

(* signal_idempotency._identity_key                                          *)
Key(s) == <<s.type, s.dim, s.index, s.source>>
Keys(store) == {Key(store[k]) : k \in DOMAIN store}

(* Signals appended one at a time until the store is full.                   *)
AppendAll_Unbounded(store, new) == store \o new

Room(store) == MaxSignals - Len(store)
AppendAll(store, new) ==
  store \o SubSeq(new, 1, IF Len(new) <= Room(store) THEN Len(new) ELSE Room(store))

Detected(type, dim, positive) ==
  [type |-> type, dim |-> dim, positive |-> positive,
   source |-> "PATTERN_DETECTOR", index |-> question]

HasEvaluation(store, i) ==
  \E k \in DOMAIN store : store[k].source = "EVALUATION" /\ store[k].index = i

Evaluated(band) ==
  [type |-> GapType[band], dim |-> Technical, positive |-> FALSE,
   source |-> "EVALUATION", index |-> question]

Injected_Always(results) ==
  IF asked = 0 \/ results[asked - 1] \in {"none", "strong"}
  THEN signals
  ELSE AppendAll(signals, <<Evaluated(results[asked - 1])>>)

(* The evaluation that is written is that of the question asked last, under  *)
(* the index of the current one, unless that index has an evaluation.        *)
Injected(results) ==
  IF asked = 0 \/ results[asked - 1] \in {"none", "strong"} \/ HasEvaluation(signals, question)
  THEN signals
  ELSE AppendAll(signals, <<Evaluated(results[asked - 1])>>)

-----------------------------------------------------------------------------
(* The detectors.  They read the store as it is at the start of the cycle,   *)
(* and return only signals whose key it does not hold.                       *)

(* signal_idempotency.filter_new_signals, of a function from what a detector *)
(* found to the signals it makes of it.  Two of them may have the same key.  *)
(* Their order only decides what a full store drops.                         *)
FilterNew_Nothing(store, found) ==
  LET new == SetToSeq(DOMAIN found)
  IN  [k \in DOMAIN new |-> found[new[k]]]

FilterNew(store, found) ==
  LET new == SetToSeq({x \in DOMAIN found : Key(found[x]) \notin Keys(store)})
  IN  [k \in DOMAIN new |-> found[new[k]]]

(* EvaluationSignalDetector: one signal for each type of evaluation in the   *)
(* last `Window` questions.                                                  *)
Bridged(store) ==
  LET recent == {k \in DOMAIN store : /\ store[k].source = "EVALUATION"
                                      /\ store[k].type \in Bridgeable
                                      /\ store[k].index \in question - Window + 1 .. question}
      kinds == {<<store[k].type, store[k].dim>> : k \in recent}
  IN  FilterNew(store, [t \in kinds |-> Detected(t[1], t[2], FALSE)])

(* CoverageDetector: dimensions with no signal, and with a single one.       *)
Count_OfEvidence(store, d) ==
  Cardinality({k \in DOMAIN store : store[k].dim = d /\ store[k].type # "MISSING_EVIDENCE"})

Count(store, d) == Cardinality({k \in DOMAIN store : store[k].dim = d})

Coverage(store) ==
  LET Having(n) == {d \in Dimensions : Count(store, d) = n}
  IN  IF answered < MinAnswered THEN <<>>
      ELSE FilterNew(store, [d \in Having(0) |-> Detected("MISSING_EVIDENCE", d, FALSE)])
           \o FilterNew(store, [d \in Having(1) |-> Detected("REPEATED_WEAKNESS", d, FALSE)])

(* ConsistencyDetector: buckets of equal signals, questions with both        *)
(* polarities of a dimension, and dimensions whose confidence dropped.  An   *)
(* entry's dominant dimension is left out, so that any two entries may be    *)
(* the last two of a dimension.                                              *)
Bucket(s) == <<s.dim, s.index, s.type, s.positive>>
Duplicated(store) ==
  {Bucket(store[k]) : k \in {k \in DOMAIN store :
     \E j \in DOMAIN store : j # k /\ Bucket(store[j]) = Bucket(store[k])}}
Contradicted(store) ==
  {<<store[k].dim, store[k].index>> : k \in {k \in DOMAIN store :
     store[k].positive /\ \E j \in DOMAIN store :
       /\ ~store[j].positive
       /\ store[j].dim = store[k].dim /\ store[j].index = store[k].index}}
ConfidenceDropped ==
  \E i, j \in DOMAIN history : i < j /\ history[i].confidence > history[j].confidence

Consistency(store) ==
  FilterNew(store, [b \in Duplicated(store) |-> Detected("REPEATED_WEAKNESS", b[1], FALSE)])
  \o FilterNew(store, [c \in Contradicted(store) |-> Detected("CONTRADICTORY_ANSWER", c[1], FALSE)])
  \o FilterNew(store, [d \in {d \in Dimensions : ConfidenceDropped} |->
                         Detected("CONFIDENCE_DROP", d, FALSE)])

(* The other detectors: any of `Patterns`.                                   *)
Others(store, patterns) ==
  FilterNew(store, [p \in patterns |-> Detected(p.type, p.dim, p.positive)])

(* ReasonerService._run_detectors and _aggregate, in order of priority.      *)
NewEvidence(store, patterns) ==
  Bridged(store) \o Coverage(store) \o Consistency(store) \o Others(store, patterns)

-----------------------------------------------------------------------------
(* The other stores.                                                         *)

(* reasoning_confidence: a third for each answer, three at most.             *)
Confidence(n) == IF n < 3 THEN n ELSE 3

NewestEntries(entries) ==
  SubSeq(entries, IF Len(entries) <= MaxEntries THEN 1 ELSE Len(entries) - MaxEntries + 1,
         Len(entries))

WithEntry(confidence) ==
  NewestEntries(Append(history, [index |-> question, confidence |-> confidence]))

(* A finite set of places, in rising order.                                  *)
InOrder(places) ==
  [n \in 1 .. Cardinality(places) |->
     CHOOSE k \in places : Cardinality({j \in places : j <= k}) = n]

(* What the extractor makes of a cycle: an observation for every signal      *)
(* stored for the current question that has an observation type, read in an  *)
(* earlier cycle or not.                                                     *)
Observed(read) ==
  LET mapped == InOrder({k \in DOMAIN read : /\ read[k].index = question
                                             /\ read[k].type \notin Unmapped})
  IN  [n \in DOMAIN mapped |->
         [type |-> read[mapped[n]].type, index |-> question, active |-> TRUE]]

Fresh_Stale(store, emitted) == Observed(signals)

Fresh(store, emitted) == Observed(store)

(* InMemoryObservationStore.append, one by one: each supersedes the active   *)
(* one of the same type and question.                                        *)
Same(o, p) == o.type = p.type /\ o.index = p.index

Inserted(fresh) ==
  LET all == observations \o fresh
  IN  [k \in DOMAIN all |->
         [all[k] EXCEPT !.active =
            @ /\ \A j \in DOMAIN all : j > k /\ j > Len(observations) => ~Same(all[j], all[k])]]

(* FeatureEngine: each updater receives the observations of its types.       *)
Standing_Active(store, f) ==
  {k \in DOMAIN store : store[k].type \in FeatureTypes[f] /\ store[k].active}

Standing(store, f) == {k \in DOMAIN store : store[k].type \in FeatureTypes[f]}

Profiled(store) ==
  [f \in DOMAIN FeatureTypes |->
     IF Cardinality(Standing(store, f)) >= FeatureMinimum[f] THEN Standing(store, f) ELSE {}]

-----------------------------------------------------------------------------
(* reasoner_node.                                                            *)

(* A question at index 0 and no feedback: the detectors do not run, but an   *)
(* entry is added.                                                           *)
Skip ==
  /\ history' = WithEntry(Confidence(answered))
  /\ UNCHANGED <<signals, answered, observations, profile>>

(* The emitted signals are appended by ReasonerService._propagate_evidence,  *)
(* and again by _append_reasoning_entry.                                     *)
Propagated(injected, emitted) == AppendAll(AppendAll(injected, emitted), emitted)

(* The extraction may fail: the prior store is returned, and the signals     *)
(* stay unobserved.  It raises before its first append, or after the last.   *)
(* The knowledge pipeline, which runs in either case if the store is not     *)
(* empty, may fail: the profile stays as it was.                             *)
Reason(results) ==
  \E patterns \in SUBSET Patterns :
    LET injected == Injected(results)
        emitted == NewEvidence(injected, patterns)
    IN  /\ signals' = Propagated(injected, emitted)
        /\ answered' = answered + 1
        /\ history' = WithEntry(Confidence(answered + 1))
        /\ observations' \in {Inserted(Fresh(signals', emitted)), observations}
        /\ \/ observations' # <<>> /\ profile' = Profiled(observations')
           \/ profile' = profile

(* An exception: the state is returned with the evaluation injected.         *)
ReasonerFails(results) ==
  /\ signals' = Injected(results)
  /\ UNCHANGED <<history, answered, observations, profile>>

-----------------------------------------------------------------------------
(* The interview, as far as the reasoner sees it.                            *)

NoInterview ==
  /\ question = 0
  /\ attempts = 0
  /\ asked = 0
  /\ grades = [i \in Slots |-> "none"]

Init ==
  /\ screen = "setup"
  /\ NoInterview
  /\ signals = <<>>
  /\ history = <<>>
  /\ answered = 0
  /\ observations = <<>>
  /\ profile = NoProfile

(* The graph of start_interview passes through the reasoner.                 *)
Start ==
  /\ screen = "setup"
  /\ screen' = "question"
  /\ UNCHANGED <<question, attempts, asked, grades>>
  /\ Skip \/ ReasonerFails(grades)

(* The answer is graded, and the reasoner runs on the result.                *)
GradeAnswer(band) ==
  /\ screen = "question"
  /\ screen' = "feedback"
  /\ grades' = [grades EXCEPT ![question] = band]
  /\ attempts' = attempts + 1
  /\ UNCHANGED <<question, asked>>
  /\ Reason(grades') \/ ReasonerFails(grades')

(* The grading raises: the answer is kept, the question stays on screen.     *)
GradingFails ==
  /\ screen = "question"
  /\ attempts < MaxAttempts    \* a bound of the model
  /\ attempts' = attempts + 1
  /\ UNCHANGED <<screen, question, asked, grades, memory, observations, profile>>

(* The previous result is thrown away.                                       *)
Retry ==
  /\ screen = "feedback"
  /\ attempts < MaxAttempts
  /\ screen' = "question"
  /\ grades' = [grades EXCEPT ![question] = "none"]
  /\ UNCHANGED <<question, attempts, asked, memory, observations, profile>>

(* A severe failure is only let go after the last attempt.                   *)
MayMoveOn ==
  /\ screen = "feedback"
  /\ grades[question] = "severe" => attempts >= MaxAttempts

NextQuestion ==
  /\ MayMoveOn
  /\ question + 1 \in Slots
  /\ screen' = "question"
  /\ asked' = question + 1
  /\ question' = question + 1
  /\ attempts' = 0
  /\ UNCHANGED <<grades, memory, observations, profile>>

(* No next question could be generated: the current one is marked as asked   *)
(* and stays, with its feedback.                                             *)
NextQuestionFails ==
  /\ MayMoveOn
  /\ question + 1 \in Slots
  /\ asked' = question + 1
  /\ UNCHANGED <<screen, question, attempts, grades, memory, observations, profile>>

(* After the report of a finished interview, InterviewState is replaced.     *)
NewInterview ==
  /\ MayMoveOn
  /\ question + 1 \notin Slots
  /\ screen' = "setup"
  /\ question' = 0 /\ attempts' = 0 /\ asked' = 0
  /\ grades' = [i \in Slots |-> "none"]
  /\ signals' = <<>> /\ history' = <<>> /\ answered' = 0
  /\ observations' = <<>> /\ profile' = NoProfile

Next ==
  \/ Start
  \/ \E band \in Band : GradeAnswer(band)
  \/ GradingFails \/ Retry
  \/ NextQuestion \/ NextQuestionFails \/ NewInterview

Spec == Init /\ [][Next]_vars

-----------------------------------------------------------------------------
(* Correctness.                                                              *)

(* Every store holds what its contract says, within its capacity: no         *)
(* sequence of retries and failures overfills EvidenceStore (200) or         *)
(* ReasoningHistory (20), whose validators would raise.                      *)
TypeOK ==
  /\ screen \in {"setup", "question", "feedback"}
  /\ question \in Slots
  /\ attempts \in 0 .. MaxAttempts + 1
  /\ asked \in {question, question + 1}
  /\ grades \in [Slots -> Grade]
  /\ signals \in Seq(Signal) /\ Len(signals) <= MaxSignals
  /\ history \in Seq(Entry) /\ Len(history) <= MaxEntries
  /\ answered \in Nat
  /\ observations \in Seq(Observation)
  /\ profile \in [DOMAIN FeatureTypes -> SUBSET DOMAIN observations]

(* However often a question is graded again, its index has one evaluation:   *)
(* the guard of write_evaluation_signals.                                    *)
OneEvaluationPerIndex ==
  \A i, j \in DOMAIN signals :
    /\ signals[i].source = "EVALUATION" /\ signals[j].source = "EVALUATION"
    /\ signals[i].index = signals[j].index
    => i = j

(* A cycle only appends to the evidence, and never a signal of a kind that   *)
(* an earlier cycle has stored for that question: filter_new_signals and the *)
(* guard of the writer make a re-run harmless.                               *)
KeysAreSettled ==
  [][\/ signals' = <<>>
     \/ /\ IsPrefix(signals, signals')
        /\ \A k \in DOMAIN signals' \ DOMAIN signals : Key(signals'[k]) \notin Keys(signals)]_vars

(* A dimension is reported as missing evidence at one question at most: the  *)
(* report itself counts as evidence of the dimension from then on.           *)
MissingIsReportedOnce ==
  \A i, j \in DOMAIN signals :
    /\ signals[i].type = "MISSING_EVIDENCE" /\ signals[j].type = "MISSING_EVIDENCE"
    /\ signals[i].dim = signals[j].dim
    => signals[i].index = signals[j].index

(* The reasoner's confidence never drops in an interview, so that the two    *)
(* detectors of such drops have nothing to find.                             *)
ConfidenceNeverDrops ==
  \A i, j \in DOMAIN history : i < j => history[i].confidence <= history[j].confidence

(* The history and questions_answered, which two functions write, stay in   *)
(* step: one entry for each cycle that did not fail, the skipped one         *)
(* included, of which the latest are kept and the last tells the count.      *)
HistoryCountsCycles ==
  history # <<>> =>
    /\ Last(history).confidence = Confidence(answered)
    /\ Len(history) \in {IF n < MaxEntries THEN n ELSE MaxEntries : n \in {answered, answered + 1}}

(* An extraction that adds anything leaves no kind of signal stored for the  *)
(* current question unobserved: what a failed cycle, or a cycle whose        *)
(* extraction failed, has left behind is made up for.                        *)
EvidenceIsObserved ==
  [][observations' # observations =>
       \A k \in DOMAIN signals' :
         signals'[k].index = question /\ signals'[k].type \notin Unmapped =>
           \E j \in DOMAIN observations' :
             observations'[j].type = signals'[k].type /\ observations'[j].index = question]_vars

(* Within an interview a feature never loses an observation it stood on,     *)
(* through retries, superseded observations and failures of the pipeline.    *)
ProfileOnlyGrows ==
  [][\A f \in DOMAIN profile : profile[f] \subseteq profile'[f] \/ screen' = "setup"]_vars

-----------------------------------------------------------------------------
(* What documents and comments say.                                          *)

(* The signals injected are those of "the current question's                 *)
(* QuestionEvaluation".                                                      *)
SignalsDescribeTheirQuestion ==
  [][\A k \in DOMAIN signals' \ DOMAIN signals :
       signals'[k].source = "EVALUATION" =>
         /\ grades'[signals'[k].index] \in DOMAIN GapType
         /\ signals'[k].type = GapType[grades'[signals'[k].index]]]_vars
=============================================================================
