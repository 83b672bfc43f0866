------------------------- MODULE ShutdownDrain_proofs -------------------------
(***************************************************************************)
(* Proofs about ShutdownDrain, for every finite set of requests and every  *)
(* number of signals.                                                      *)
(***************************************************************************)
EXTENDS ShutdownDrain, FiniteSetTheorems, TLAPS

-----------------------------------------------------------------------------
(* The inductive invariant.                                                  *)

InsideStates == {"admitting", "counted", "releasing", "uncounted"}

(* One piece of code at a time is inside the lock, and it is at a step that  *)
(* needs it.                                                                 *)
LockInv ==
  /\ \A r \in Requests : request[r] \in InsideStates <=> lock = r
  /\ server = "draining" <=> lock = "lifespan"

(* Between the two updates made inside the lock the idle event may lag       *)
(* behind the counter, and only there.                                       *)
IdleInv ==
  /\ (\A r \in Requests : request[r] \notin {"counted", "uncounted"})
       => (idle <=> in_flight = 0)
  /\ (\E r \in Requests : request[r] = "uncounted") => ~idle

(* Nobody is between being counted and running once the drain has begun, and *)
(* the shutdown does not begin before the drain.                             *)
DrainInv ==
  /\ draining => \A r \in Requests : request[r] # "counted"
  /\ server # "serving" => draining

(* The wait's outcome is set when it returns, and stays right.               *)
OutcomeInv ==
  /\ last_outcome = "none" <=> server \notin {"reporting", "stopped"}
  /\ last_outcome = "clean" =>
       \A r \in Requests :
         request[r] \notin {"counted", "running", "releasing", "uncounted"}

Inv == TypeOK /\ LockInv /\ CountIsExact /\ IdleInv /\ DrainInv /\ OutcomeInv

-----------------------------------------------------------------------------
(* Finite sets.                                                              *)

LEMMA CountedIsFinite ==
  ASSUME TypeOK
  PROVE  IsFiniteSet(Counted) /\ Cardinality(Counted) \in Nat
<1>1. Counted \in SUBSET Requests
  BY DEF Counted, At
<1>2. IsFiniteSet(Counted)
  BY <1>1, RequestsAssumption, FS_Subset
<1> QED
  BY <1>2, FS_CardinalityType

(* A request that moves joins or leaves the counted ones, or neither.        *)
LEMMA Move ==
  ASSUME TypeOK, NEW r \in Requests, NEW s,
         request' = [request EXCEPT ![r] = s]
  PROVE  /\ \A q \in Requests : request'[q] = IF q = r THEN s ELSE request[q]
         /\ Counted' = IF s \in {"counted", "running", "releasing"}
                       THEN Counted \cup {r} ELSE Counted \ {r}
         /\ r \in Counted <=> request[r] \in {"counted", "running", "releasing"}
<1>1. \A q \in Requests : request'[q] = IF q = r THEN s ELSE request[q]
  BY DEF TypeOK
<1>2. Counted' = {q \in Requests : request'[q] \in {"counted", "running", "releasing"}}
  BY DEF Counted, At
<1>3. Counted = {q \in Requests : request[q] \in {"counted", "running", "releasing"}}
  BY DEF Counted, At
<1> HIDE DEF Counted
<1>4. CASE s \in {"counted", "running", "releasing"}
  BY <1>1, <1>2, <1>3, <1>4
<1>5. CASE s \notin {"counted", "running", "releasing"}
  BY <1>1, <1>2, <1>3, <1>5
<1> QED
  BY <1>4, <1>5

-----------------------------------------------------------------------------
(* Types.                                                                    *)

LEMMA TypesInit == Init => TypeOK
<1> SUFFICES ASSUME Init PROVE TypeOK
  OBVIOUS
<1>1. in_flight \in Nat /\ signals \in 0 .. MaxSignals
  BY SignalsAssumption DEF Init
<1>2. request \in [Requests -> RequestState]
  BY DEF Init, RequestState
<1>3. draining \in BOOLEAN /\ idle \in BOOLEAN /\ handler \in BOOLEAN
  BY DEF Init
<1>4. /\ last_outcome \in Outcome /\ server \in ServerState
      /\ lock \in Requests \cup {"nobody", "lifespan"}
  BY DEF Init, Outcome, ServerState
<1> QED
  BY <1>1, <1>2, <1>3, <1>4 DEF TypeOK

LEMMA TypesStep == TypeOK /\ [Next]_vars => TypeOK'
<1> SUFFICES ASSUME TypeOK, [Next]_vars PROVE TypeOK'
  OBVIOUS
<1> USE DEF TypeOK, RequestState, ServerState, Outcome, controller
<1>1. ASSUME NEW r \in Requests, Arrive(r) PROVE TypeOK'
  BY <1>1 DEF Arrive, Acquire
<1>2. ASSUME NEW r \in Requests, Return(r) PROVE TypeOK'
  BY <1>2 DEF Return, Acquire
<1>3. ASSUME NEW r \in Requests, Inside(r) PROVE TypeOK'
  <2>1. CASE Reject(r)
    BY <2>1 DEF Reject
  <2>2. CASE Count(r)
    BY <2>2 DEF Count
  <2>3. CASE Admit(r)
    BY <2>3 DEF Admit
  <2>4. CASE Uncount(r)
    BY <2>4 DEF Uncount
  <2>5. CASE Released(r)
    BY <2>5 DEF Released
  <2> QED
    BY <1>3, <2>1, <2>2, <2>3, <2>4, <2>5 DEF Inside
<1>4. CASE Sigterm
  BY <1>4, SignalsAssumption DEF Sigterm
<1>5. CASE Shutdown
  BY <1>5 DEF Shutdown, BeginDrain, Close, GracefulEnd, LifespanDrain, WaitForIdle, Stop,
              Acquire
<1>6. CASE UNCHANGED vars
  BY <1>6 DEF vars
<1> QED
  BY <1>1, <1>2, <1>3, <1>4, <1>5, <1>6 DEF Next

(* The controller, the lock and the requests keep their types.               *)
THEOREM TypesAreKept == Spec => []TypeOK
<1>1. Init => TypeOK
  BY TypesInit
<1>2. TypeOK /\ [Next]_vars => TypeOK'
  BY TypesStep
<1> QED
  BY <1>1, <1>2, PTL DEF Spec

-----------------------------------------------------------------------------
(* The invariant is inductive.                                               *)

LEMMA InvInit == Init => Inv
<1> SUFFICES ASSUME Init PROVE Inv
  OBVIOUS
<1>1. TypeOK
  BY TypesInit
<1>2. Counted = {}
  BY DEF Init, Counted, At
<1>3. CountIsExact
  BY <1>2, FS_EmptySet DEF Init, CountIsExact
<1>4. LockInv
  BY RequestsAssumption DEF Init, LockInv, InsideStates
<1> QED
  BY <1>1, <1>2, <1>3, <1>4 DEF Inv, Init, IdleInv, DrainInv, OutcomeInv

LEMMA Arrival ==
  ASSUME Inv, NEW r \in Requests, Arrive(r)
  PROVE  Inv'
<1>t. TypeOK'
  BY TypesStep DEF Inv, Next
<1>1. /\ request' = [request EXCEPT ![r] = "admitting"] /\ lock' = r
      /\ request[r] = "new" /\ lock = "nobody"
      /\ UNCHANGED <<draining, in_flight, idle, last_outcome, server>>
  BY DEF Arrive, Acquire, controller
<1>2. /\ \A q \in Requests : request'[q] = IF q = r THEN "admitting" ELSE request[q]
      /\ Counted' = Counted
  <2>1. TypeOK /\ r \notin Counted
    BY <1>1 DEF Inv, Counted, At
  <2>2. /\ \A q \in Requests : request'[q] = IF q = r THEN "admitting" ELSE request[q]
        /\ Counted' = Counted \ {r}
    BY <1>1, <2>1, Move
  <2> QED
    BY <2>1, <2>2
<1>3. LockInv'
  BY <1>1, <1>2, RequestsAssumption DEF Inv, LockInv, InsideStates
<1>4. CountIsExact'
  BY <1>1, <1>2 DEF Inv, CountIsExact
<1> QED
  BY <1>t, <1>1, <1>2, <1>3, <1>4 DEF Inv, IdleInv, DrainInv, OutcomeInv

LEMMA Rejection ==
  ASSUME Inv, NEW r \in Requests, Reject(r)
  PROVE  Inv'
<1>t. TypeOK'
  BY TypesStep DEF Inv, Next, Inside
<1>1. /\ request' = [request EXCEPT ![r] = "rejected"] /\ lock' = "nobody"
      /\ request[r] = "admitting"
      /\ UNCHANGED <<draining, in_flight, idle, last_outcome, server>>
  BY DEF Reject, controller
<1>2. /\ \A q \in Requests : request'[q] = IF q = r THEN "rejected" ELSE request[q]
      /\ Counted' = Counted
  <2>1. TypeOK /\ r \notin Counted
    BY <1>1 DEF Inv, Counted, At
  <2>2. /\ \A q \in Requests : request'[q] = IF q = r THEN "rejected" ELSE request[q]
        /\ Counted' = Counted \ {r}
    BY <1>1, <2>1, Move
  <2> QED
    BY <2>1, <2>2
<1>3. lock = r
  BY <1>1 DEF Inv, LockInv, InsideStates
<1>4. LockInv'
  BY <1>1, <1>2, <1>3, RequestsAssumption DEF Inv, LockInv, InsideStates
<1>5. CountIsExact'
  BY <1>1, <1>2 DEF Inv, CountIsExact
<1> QED
  BY <1>t, <1>1, <1>2, <1>4, <1>5 DEF Inv, IdleInv, DrainInv, OutcomeInv

LEMMA Counting ==
  ASSUME Inv, NEW r \in Requests, Count(r)
  PROVE  Inv'
<1>t. TypeOK'
  BY TypesStep DEF Inv, Next, Inside
<1>1. /\ request' = [request EXCEPT ![r] = "counted"] /\ in_flight' = in_flight + 1
      /\ request[r] = "admitting" /\ ~draining
      /\ UNCHANGED <<draining, idle, last_outcome, lock, server>>
  BY DEF Count
<1>2. TypeOK /\ r \notin Counted /\ lock = r
  BY <1>1 DEF Inv, Counted, At, LockInv, InsideStates
<1>3. /\ \A q \in Requests : request'[q] = IF q = r THEN "counted" ELSE request[q]
      /\ Counted' = Counted \cup {r}
  BY <1>1, <1>2, Move
<1>4. LockInv'
  BY <1>1, <1>2, <1>3 DEF Inv, LockInv, InsideStates
<1>5. CountIsExact'
  BY <1>1, <1>2, <1>3, CountedIsFinite, FS_AddElement DEF Inv, CountIsExact
<1>6. \A q \in Requests : request'[q] # "uncounted"
  BY <1>2, <1>3 DEF Inv, LockInv, InsideStates
<1>7. last_outcome # "clean"
  BY <1>1 DEF Inv, DrainInv, OutcomeInv
<1> QED
  BY <1>t, <1>1, <1>3, <1>4, <1>5, <1>6, <1>7 DEF Inv, IdleInv, DrainInv, OutcomeInv

LEMMA Admission ==
  ASSUME Inv, NEW r \in Requests, Admit(r)
  PROVE  Inv'
<1>t. TypeOK'
  BY TypesStep DEF Inv, Next, Inside
<1>1. /\ request' = [request EXCEPT ![r] = "running"] /\ idle' = FALSE /\ lock' = "nobody"
      /\ request[r] = "counted"
      /\ UNCHANGED <<draining, in_flight, last_outcome, server>>
  BY DEF Admit
<1>2. TypeOK /\ r \in Counted /\ lock = r
  BY <1>1 DEF Inv, Counted, At, LockInv, InsideStates
<1>3. /\ \A q \in Requests : request'[q] = IF q = r THEN "running" ELSE request[q]
      /\ Counted' = Counted
  <2>1. /\ \A q \in Requests : request'[q] = IF q = r THEN "running" ELSE request[q]
        /\ Counted' = Counted \cup {r}
    BY <1>1, <1>2, Move
  <2> QED
    BY <1>2, <2>1
<1>4. LockInv'
  BY <1>1, <1>2, <1>3, RequestsAssumption DEF Inv, LockInv, InsideStates
<1>5. CountIsExact'
  BY <1>1, <1>3 DEF Inv, CountIsExact
<1>6. in_flight # 0
  BY <1>2, CountedIsFinite, FS_EmptySet DEF Inv, CountIsExact
<1>7. last_outcome # "clean"
  BY <1>1 DEF Inv, OutcomeInv
<1> QED
  BY <1>t, <1>1, <1>3, <1>4, <1>5, <1>6, <1>7 DEF Inv, IdleInv, DrainInv, OutcomeInv

LEMMA Returning ==
  ASSUME Inv, NEW r \in Requests, Return(r)
  PROVE  Inv'
<1>t. TypeOK'
  BY TypesStep DEF Inv, Next
<1>1. /\ request' = [request EXCEPT ![r] = "releasing"] /\ lock' = r
      /\ request[r] = "running" /\ lock = "nobody"
      /\ UNCHANGED <<draining, in_flight, idle, last_outcome, server>>
  BY DEF Return, Acquire, controller
<1>2. TypeOK /\ r \in Counted
  BY <1>1 DEF Inv, Counted, At
<1>3. /\ \A q \in Requests : request'[q] = IF q = r THEN "releasing" ELSE request[q]
      /\ Counted' = Counted
  <2>1. /\ \A q \in Requests : request'[q] = IF q = r THEN "releasing" ELSE request[q]
        /\ Counted' = Counted \cup {r}
    BY <1>1, <1>2, Move
  <2> QED
    BY <1>2, <2>1
<1>4. LockInv'
  BY <1>1, <1>3, RequestsAssumption DEF Inv, LockInv, InsideStates
<1>5. CountIsExact'
  BY <1>1, <1>3 DEF Inv, CountIsExact
<1> QED
  BY <1>t, <1>1, <1>3, <1>4, <1>5 DEF Inv, IdleInv, DrainInv, OutcomeInv

LEMMA Uncounting ==
  ASSUME Inv, NEW r \in Requests, Uncount(r)
  PROVE  Inv'
<1>t. TypeOK'
  BY TypesStep DEF Inv, Next, Inside
<1>1. /\ request' = [request EXCEPT ![r] = "uncounted"]
      /\ in_flight' = IF in_flight > 0 THEN in_flight - 1 ELSE in_flight
      /\ request[r] = "releasing"
      /\ UNCHANGED <<draining, idle, last_outcome, lock, server>>
  BY DEF Uncount
<1>2. TypeOK /\ r \in Counted /\ lock = r
  BY <1>1 DEF Inv, Counted, At, LockInv, InsideStates
<1>3. /\ \A q \in Requests : request'[q] = IF q = r THEN "uncounted" ELSE request[q]
      /\ Counted' = Counted \ {r}
  <2>1. request' = [request EXCEPT ![r] = "uncounted"]
    BY <1>1
  <2>2. TypeOK
    BY <1>2
  <2>3. /\ \A q \in Requests : request'[q] = IF q = r THEN "uncounted" ELSE request[q]
        /\ Counted' = IF "uncounted" \in {"counted", "running", "releasing"}
                      THEN Counted \cup {r} ELSE Counted \ {r}
    BY <2>1, <2>2, Move
  <2> QED
    BY <2>3
<1>4. LockInv'
  BY <1>1, <1>2, <1>3 DEF Inv, LockInv, InsideStates
<1>5. in_flight \in Nat /\ in_flight # 0
  BY <1>2, CountedIsFinite, FS_EmptySet DEF Inv, CountIsExact
<1>6. CountIsExact'
  <2>1. Cardinality(Counted') = Cardinality(Counted) - 1
    BY <1>2, <1>3, CountedIsFinite, FS_RemoveElement
  <2> QED
    BY <1>1, <1>5, <2>1 DEF Inv, CountIsExact
<1>7. ~idle
  BY <1>1, <1>2, <1>5 DEF Inv, IdleInv, LockInv, InsideStates
<1>8. last_outcome # "clean"
  BY <1>1 DEF Inv, OutcomeInv
<1> QED
  BY <1>t, <1>1, <1>3, <1>4, <1>6, <1>7, <1>8 DEF Inv, IdleInv, DrainInv, OutcomeInv

LEMMA Releasing ==
  ASSUME Inv, NEW r \in Requests, Released(r)
  PROVE  Inv'
<1>t. TypeOK'
  BY TypesStep DEF Inv, Next, Inside
<1>1. /\ request' = [request EXCEPT ![r] = "done"] /\ idle' = (idle \/ in_flight = 0)
      /\ lock' = "nobody" /\ request[r] = "uncounted"
      /\ UNCHANGED <<draining, in_flight, last_outcome, server>>
  BY DEF Released
<1>2. TypeOK /\ r \notin Counted /\ lock = r /\ ~idle
  BY <1>1 DEF Inv, Counted, At, LockInv, InsideStates, IdleInv
<1>3. /\ \A q \in Requests : request'[q] = IF q = r THEN "done" ELSE request[q]
      /\ Counted' = Counted
  <2>1. /\ \A q \in Requests : request'[q] = IF q = r THEN "done" ELSE request[q]
        /\ Counted' = Counted \ {r}
    BY <1>1, <1>2, Move
  <2> QED
    BY <1>2, <2>1
<1>4. LockInv'
  BY <1>1, <1>2, <1>3, RequestsAssumption DEF Inv, LockInv, InsideStates
<1>5. CountIsExact'
  BY <1>1, <1>3 DEF Inv, CountIsExact
<1>6. IdleInv'
  <2>1. \A q \in Requests : request'[q] # "uncounted"
    BY <1>2, <1>3 DEF Inv, LockInv, InsideStates
  <2>2. idle' <=> in_flight' = 0
    BY <1>1, <1>2
  <2> QED
    BY <2>1, <2>2 DEF IdleInv
<1> QED
  BY <1>t, <1>1, <1>3, <1>4, <1>5, <1>6 DEF Inv, DrainInv, OutcomeInv

(* The signal and the shutdown move no request.                              *)
LEMMA SameRequests ==
  ASSUME UNCHANGED request
  PROVE  Counted' = Counted
BY DEF Counted, At

LEMMA Signalling ==
  ASSUME Inv, Sigterm \/ UNCHANGED vars
  PROVE  Inv'
<1>t. TypeOK'
  BY TypesStep DEF Inv, Next
<1>1. UNCHANGED <<draining, in_flight, idle, last_outcome, lock, request, server>>
  BY DEF Sigterm, vars, controller
<1>2. Counted' = Counted
  BY <1>1, SameRequests
<1> QED
  BY <1>t, <1>1, <1>2 DEF Inv, LockInv, CountIsExact, IdleInv, DrainInv, OutcomeInv

LEMMA ShuttingDown ==
  ASSUME Inv, Shutdown
  PROVE  Inv'
<1>t. TypeOK /\ TypeOK'
  BY TypesStep DEF Inv, Next
<1>r. UNCHANGED <<request, in_flight, idle>>
  BY DEF Shutdown, BeginDrain, Close, GracefulEnd, LifespanDrain, WaitForIdle, Stop, controller
<1>c. CountIsExact' /\ IdleInv'
  BY <1>r, SameRequests DEF Inv, CountIsExact, IdleInv
(* Nobody holds the lock, so nobody is between being counted and running.    *)
<1>n. lock = "nobody" => \A r \in Requests : request[r] \notin InsideStates
  BY RequestsAssumption DEF Inv, LockInv
<1>1. CASE BeginDrain
  <2>1. /\ UNCHANGED <<lock, last_outcome>> /\ lock = "nobody" /\ draining' = TRUE
        /\ server' = IF server = "serving" THEN "exiting" ELSE server
    BY <1>1 DEF BeginDrain
  <2>2. LockInv'
    BY <1>r, <2>1 DEF Inv, LockInv
  <2>3. DrainInv'
    BY <1>r, <1>n, <2>1 DEF DrainInv, InsideStates
  <2>4. OutcomeInv'
    BY <1>r, <2>1 DEF Inv, OutcomeInv
  <2> QED
    BY <1>t, <1>c, <2>2, <2>3, <2>4 DEF Inv
<1>2. CASE Close
  BY <1>t, <1>r, <1>c, <1>2 DEF Close, controller, Inv, LockInv, DrainInv, OutcomeInv
<1>3. CASE GracefulEnd
  <2>1. /\ UNCHANGED <<draining, last_outcome>> /\ lock = "nobody" /\ lock' = "lifespan"
        /\ server = "closing" /\ server' = "draining"
    BY <1>3 DEF GracefulEnd, Acquire, controller
  <2>2. LockInv'
    BY <1>r, <1>n, <2>1, RequestsAssumption DEF LockInv
  <2> QED
    BY <1>t, <1>r, <1>c, <2>1, <2>2 DEF Inv, DrainInv, OutcomeInv
<1>4. CASE LifespanDrain
  <2>1. /\ UNCHANGED last_outcome /\ lock' = "nobody" /\ draining' = TRUE
        /\ server = "draining" /\ server' = "waiting"
    BY <1>4 DEF LifespanDrain
  <2>2. lock = "lifespan" /\ \A r \in Requests : request[r] \notin InsideStates
    BY <2>1, RequestsAssumption DEF Inv, LockInv
  <2>3. LockInv'
    BY <1>r, <2>1, <2>2, RequestsAssumption DEF LockInv
  <2> QED
    BY <1>t, <1>r, <1>c, <2>1, <2>2, <2>3 DEF Inv, DrainInv, OutcomeInv, InsideStates
<1>5. CASE WaitForIdle
  <2>1. /\ UNCHANGED <<draining, lock>> /\ server = "waiting" /\ server' = "reporting"
        /\ last_outcome' = IF idle THEN "clean" ELSE "timeout"
    BY <1>5 DEF WaitForIdle
  <2>2. draining
    BY <2>1 DEF Inv, DrainInv
  <2>3. idle => \A r \in Requests :
                  request[r] \notin {"counted", "running", "releasing", "uncounted"}
    <3> SUFFICES ASSUME idle
                 PROVE  \A r \in Requests :
                          request[r] \notin {"counted", "running", "releasing", "uncounted"}
      OBVIOUS
    <3>1. \A r \in Requests : request[r] \notin {"counted", "uncounted"}
      BY <2>2 DEF Inv, IdleInv, DrainInv
    <3>2. in_flight = 0
      BY <3>1 DEF Inv, IdleInv
    <3>3. Counted = {}
      BY <1>t, <3>2, CountedIsFinite, FS_EmptySet DEF Inv, CountIsExact
    <3> QED
      BY <3>1, <3>3 DEF Counted, At
  <2>4. OutcomeInv'
    BY <1>r, <2>1, <2>3 DEF OutcomeInv
  <2> QED
    BY <1>t, <1>r, <1>c, <2>1, <2>2, <2>4 DEF Inv, LockInv, DrainInv
<1>6. CASE Stop
  BY <1>t, <1>r, <1>c, <1>6 DEF Stop, controller, Inv, LockInv, DrainInv, OutcomeInv
<1> QED
  BY <1>1, <1>2, <1>3, <1>4, <1>5, <1>6 DEF Shutdown

LEMMA InvStep == Inv /\ [Next]_vars => Inv'
BY Arrival, Rejection, Counting, Admission, Returning, Uncounting, Releasing, Signalling,
   ShuttingDown
   DEF Next, Inside

LEMMA InvIsInvariant == Spec => []Inv
<1>1. Inv /\ [Next]_vars => Inv'
  BY InvStep
<1> QED
  BY InvInit, <1>1, PTL DEF Spec

-----------------------------------------------------------------------------
(* What it implies.                                                          *)

LEMMA InvImplies == Inv => IdleTracksInFlight /\ CleanMeansIdle
<1> SUFFICES ASSUME Inv PROVE IdleTracksInFlight /\ CleanMeansIdle
  OBVIOUS
<1>1. IdleTracksInFlight
  BY RequestsAssumption DEF Inv, LockInv, InsideStates, IdleInv, IdleTracksInFlight
<1>2. CleanMeansIdle
  <2> SUFFICES ASSUME last_outcome = "clean" PROVE in_flight = 0 /\ Counted = {}
    BY DEF CleanMeansIdle
  <2>1. Counted = {}
    BY DEF Inv, OutcomeInv, Counted, At
  <2> QED
    BY <2>1, FS_EmptySet DEF Inv, CountIsExact
<1> QED
  BY <1>1, <1>2

(* in_flight is the number of requests that were admitted and have not been  *)
(* released, at every instant, for any number of requests.                   *)
THEOREM InFlightIsExact == Spec => []CountIsExact
<1>1. Inv => CountIsExact
  BY DEF Inv
<1> QED
  BY <1>1, InvIsInvariant, PTL

(* Whoever looks at the idle event while the lock is free sees what the      *)
(* counter says.                                                             *)
THEOREM EventIsTrue == Spec => []IdleTracksInFlight
BY InvImplies, InvIsInvariant, PTL

(* A drain is reported clean only when every admitted request was released.  *)
THEOREM CleanIsClean == Spec => []CleanMeansIdle
BY InvImplies, InvIsInvariant, PTL

(* Once the drain has begun no further request starts to run.                *)
THEOREM DrainStopsAdmission == Spec => NoAdmissionWhileDraining
<1>1. ASSUME Inv, [Next]_vars, draining
      PROVE  At({"running"})' \subseteq At({"running"})
  <2> DEFINE A == {r \in Requests : request[r] = "running"}
  <2>1. At({"running"}) = {r \in Requests : request[r] = "running"}
        /\ At({"running"})' = {r \in Requests : request'[r] = "running"}
    BY DEF At
  <2>2. \A r \in Requests : request'[r] = "running" => request[r] = "running"
    <3>1. ASSUME NEW r \in Requests, Arrive(r) \/ Return(r) \/ Inside(r)
          PROVE  \A q \in Requests : request'[q] = "running" => request[q] = "running"
      <4>1. request[r] # "counted" /\ request \in [Requests -> RequestState]
        BY <1>1 DEF Inv, TypeOK, DrainInv
      <4> QED
        BY <1>1, <3>1, <4>1
           DEF Arrive, Return, Inside, Reject, Count, Admit, Uncount, Released, Acquire
    <3>2. ASSUME Sigterm \/ Shutdown \/ UNCHANGED vars PROVE UNCHANGED request
      BY <3>2 DEF Sigterm, Shutdown, BeginDrain, Close, GracefulEnd, LifespanDrain,
                  WaitForIdle, Stop, vars
    <3> QED
      BY <1>1, <3>1, <3>2 DEF Next
  <2> QED
    BY <2>1, <2>2
<1>2. Inv /\ [Next]_vars => [draining => At({"running"})' \subseteq At({"running"})]_vars
  BY <1>1
<1> QED
  BY <1>2, InvIsInvariant, PTL DEF Spec, NoAdmissionWhileDraining

-----------------------------------------------------------------------------
(* The refinement of DrainGate.                                              *)

Members == Counted \cup At({"uncounted"})

InStates == {"counted", "running", "releasing", "uncounted"}

LEMMA MembersAre == Members = {r \in Requests : request[r] \in InStates}
BY DEF Members, Counted, At, InStates

LEMMA MembersMove ==
  ASSUME TypeOK, NEW r \in Requests, NEW s,
         request' = [request EXCEPT ![r] = s]
  PROVE  /\ s \in InStates => Members' = Members \cup {r}
         /\ s \notin InStates => Members' = Members \ {r}
         /\ r \in Members <=> request[r] \in InStates
<1>1. \A q \in Requests : request'[q] = IF q = r THEN s ELSE request[q]
  BY DEF TypeOK
<1>2. Members = {q \in Requests : request[q] \in InStates}
  BY MembersAre
<1>3. Members' = {q \in Requests : request'[q] \in InStates}
  BY DEF Members, Counted, At, InStates
<1>4. ASSUME s \in InStates PROVE Members' = Members \cup {r}
  BY <1>1, <1>2, <1>3, <1>4
<1>5. ASSUME s \notin InStates PROVE Members' = Members \ {r}
  BY <1>1, <1>2, <1>3, <1>5
<1> QED
  BY <1>2, <1>4, <1>5

(* The steps of one request: those that begin and end its stay are Enter and *)
(* Go, the others do not move it across the gate.                            *)
LEMMA RequestRefines ==
  ASSUME Inv, NEW r \in Requests, Arrive(r) \/ Return(r) \/ Inside(r)
  PROVE  Gate!Enter(r) \/ Gate!Go(r) \/ UNCHANGED <<draining, Members, last_outcome>>
<1>t. TypeOK
  BY DEF Inv
<1> USE DEF InStates
<1>1. CASE Arrive(r)
  <2>1. request' = [request EXCEPT ![r] = "admitting"] /\ request[r] = "new"
        /\ UNCHANGED <<draining, last_outcome>>
    BY <1>1 DEF Arrive, controller
  <2>2. "admitting" \notin InStates
    OBVIOUS
  <2>3. r \notin Members /\ Members' = Members \ {r}
    BY <1>t, <2>1, <2>2, MembersMove
  <2> QED
    BY <2>1, <2>3
<1>2. CASE Return(r)
  <2>1. request' = [request EXCEPT ![r] = "releasing"] /\ request[r] = "running"
        /\ UNCHANGED <<draining, last_outcome>>
    BY <1>2 DEF Return, controller
  <2>2. "releasing" \in InStates
    OBVIOUS
  <2>3. r \in Members /\ Members' = Members \cup {r}
    BY <1>t, <2>1, <2>2, MembersMove
  <2> QED
    BY <2>1, <2>3
<1>3. CASE Reject(r)
  <2>1. request' = [request EXCEPT ![r] = "rejected"] /\ request[r] = "admitting"
        /\ UNCHANGED <<draining, last_outcome>>
    BY <1>3 DEF Reject, controller
  <2>2. "rejected" \notin InStates
    OBVIOUS
  <2>3. r \notin Members /\ Members' = Members \ {r}
    BY <1>t, <2>1, <2>2, MembersMove
  <2> QED
    BY <2>1, <2>3
<1>4. CASE Count(r)
  <2>1. request' = [request EXCEPT ![r] = "counted"] /\ request[r] = "admitting"
        /\ ~draining /\ UNCHANGED <<draining, last_outcome>>
    BY <1>4 DEF Count
  <2>2. r \notin Members /\ Members' = Members \cup {r}
    BY <1>t, <2>1, MembersMove
  <2> QED
    BY <2>1, <2>2 DEF Gate!Enter, Members
<1>5. CASE Admit(r)
  <2>1. request' = [request EXCEPT ![r] = "running"] /\ request[r] = "counted"
        /\ UNCHANGED <<draining, last_outcome>>
    BY <1>5 DEF Admit
  <2>2. "running" \in InStates
    OBVIOUS
  <2>3. r \in Members /\ Members' = Members \cup {r}
    BY <1>t, <2>1, <2>2, MembersMove
  <2> QED
    BY <2>1, <2>3
<1>6. CASE Uncount(r)
  <2>1. request' = [request EXCEPT ![r] = "uncounted"] /\ request[r] = "releasing"
        /\ UNCHANGED <<draining, last_outcome>>
    BY <1>6 DEF Uncount
  <2> QED
    BY <1>t, <2>1, MembersMove
<1>7. CASE Released(r)
  <2>1. request' = [request EXCEPT ![r] = "done"] /\ request[r] = "uncounted"
        /\ UNCHANGED <<draining, last_outcome>>
    BY <1>7 DEF Released
  <2>2. "done" \notin InStates
    OBVIOUS
  <2>3. r \in Members /\ Members' = Members \ {r}
    BY <1>t, <2>1, <2>2, MembersMove
  <2> QED
    BY <2>1, <2>3 DEF Gate!Go, Members
<1> QED
  BY <1>1, <1>2, <1>3, <1>4, <1>5, <1>6, <1>7 DEF Inside

LEMMA ShutdownRefines ==
  ASSUME Inv, Shutdown
  PROVE  Gate!Shut \/ Gate!Conclude \/ UNCHANGED <<draining, Members, last_outcome>>
<1>r. Members' = Members
  <2>1. UNCHANGED request
    BY DEF Shutdown, BeginDrain, Close, GracefulEnd, LifespanDrain, WaitForIdle, Stop
  <2> QED
    BY <2>1 DEF Members, Counted, At
<1>1. CASE BeginDrain \/ LifespanDrain
  BY <1>r, <1>1 DEF BeginDrain, LifespanDrain, Gate!Shut, Members
<1>2. CASE Close \/ GracefulEnd \/ Stop
  BY <1>r, <1>2 DEF Close, GracefulEnd, Stop, controller
<1>3. CASE WaitForIdle
  <2>1. /\ UNCHANGED draining /\ server = "waiting"
        /\ last_outcome' = IF idle THEN "clean" ELSE "timeout"
    BY <1>3 DEF WaitForIdle
  <2>2. draining /\ last_outcome = "none"
    BY <2>1 DEF Inv, DrainInv, OutcomeInv
  <2>3. Inv' /\ server' = "reporting"
    BY <1>3, InvStep DEF Next, Shutdown, WaitForIdle
  <2>4. ASSUME idle PROVE Members = {}
    <3>1. last_outcome' = "clean" /\ UNCHANGED request
      BY <1>3, <2>4 DEF WaitForIdle
    <3>2. \A r \in Requests : request[r] \notin InStates
      BY <2>3, <3>1 DEF Inv, OutcomeInv, InStates
    <3> QED
      BY <3>2, MembersAre
  <2>5. ASSUME ~idle PROVE Members # {}
    <3>1. CASE \A r \in Requests : request[r] \notin {"counted", "uncounted"}
      <4>1. in_flight # 0
        BY <2>5, <3>1 DEF Inv, IdleInv
      <4>2. Counted # {}
        BY <4>1, FS_EmptySet DEF Inv, CountIsExact
      <4> QED
        BY <4>2 DEF Members
    <3>2. CASE \E r \in Requests : request[r] \in {"counted", "uncounted"}
      BY <3>2, MembersAre DEF InStates
    <3> QED
      BY <3>1, <3>2
  <2>6. last_outcome' = IF Members = {} THEN "clean" ELSE "timeout"
    BY <2>1, <2>4, <2>5
  <2> QED
    BY <1>r, <2>1, <2>2, <2>6 DEF Gate!Conclude, Members
<1> QED
  BY <1>1, <1>2, <1>3 DEF Shutdown

(* The controller, its lock and its event behave as the gate does, for every *)
(* set of requests: nobody enters once it is shut, and what is reported of   *)
(* the drain is the truth.                                                   *)
THEOREM DrainRefinesGate == Spec => ImplementsGate
<1>1. Init => Gate!GateInit
  BY DEF Init, Gate!GateInit, Counted, At
<1>2. Inv /\ [Next]_vars => [Gate!GateStep]_(Gate!gate)
  <2> SUFFICES ASSUME Inv, [Next]_vars PROVE [Gate!GateStep]_(Gate!gate)
    OBVIOUS
  <2>1. CASE \E r \in Requests : Arrive(r) \/ Return(r) \/ Inside(r)
    BY <2>1, RequestRefines DEF Gate!GateStep, Gate!gate, Members
  <2>2. CASE Shutdown
    BY <2>2, ShutdownRefines DEF Gate!GateStep, Gate!gate, Members
  <2>3. CASE Sigterm \/ UNCHANGED vars
    BY <2>3 DEF Sigterm, vars, controller, Gate!gate, Counted, At
  <2> QED
    BY <2>1, <2>2, <2>3 DEF Next
<1> QED
  BY <1>1, <1>2, InvIsInvariant, PTL DEF Spec, ImplementsGate, Gate!GateSpec

-----------------------------------------------------------------------------
(* The signal inside the lock.                                               *)

(* The process never recovers from a signal that comes inside the lock: the  *)
(* handler waits for good, no request moves again, and of the shutdown only  *)
(* a wait that had begun may still return.  It is why DrainEnds has to make  *)
(* an exception of SelfDeadlock, and SigtermStopsTheProcess fails.           *)
THEOREM StuckForGood ==
  Spec => [][SelfDeadlock => /\ SelfDeadlock'
                             /\ UNCHANGED <<request, in_flight, draining, idle, signals>>
                             /\ server' # "stopped" \/ server = "stopped"]_vars
<1>1. Next /\ SelfDeadlock => WaitForIdle
  <2> SUFFICES ASSUME Next, handler, lock # "nobody" PROVE WaitForIdle
    BY DEF SelfDeadlock
  <2>1. \A r \in Requests : ~Arrive(r) /\ ~Return(r) /\ ~Inside(r)
    BY DEF Arrive, Return, Inside, Reject, Count, Admit, Uncount, Released, Acquire, LoopRuns
  <2>2. ~Sigterm /\ ~BeginDrain /\ ~Close /\ ~GracefulEnd /\ ~LifespanDrain /\ ~Stop
    BY DEF Sigterm, BeginDrain, Close, GracefulEnd, LifespanDrain, Stop, Acquire, LoopRuns
  <2> QED
    BY <2>1, <2>2 DEF Next, Shutdown
<1>2. WaitForIdle /\ SelfDeadlock =>
        /\ SelfDeadlock' /\ UNCHANGED <<request, in_flight, draining, idle, signals>>
        /\ server' # "stopped"
  BY DEF WaitForIdle, SelfDeadlock
<1> QED
  BY <1>1, <1>2, PTL DEF Spec

-----------------------------------------------------------------------------
(* How far the process is from its end: the shutdown, each request and the   *)
(* signals have each a number of steps left.                                 *)
ServerLeft ==
  [serving |-> 6, exiting |-> 5, closing |-> 4, draining |-> 3, waiting |-> 2,
   reporting |-> 1, stopped |-> 0]

RequestLeft ==
  [new |-> 6, admitting |-> 5, counted |-> 4, running |-> 3, releasing |-> 2,
   uncounted |-> 1, done |-> 0, rejected |-> 0]

SignalsLeft == 2 * (MaxSignals - signals) + (IF handler THEN 1 ELSE 0)

NothingGoesBack ==
  /\ ServerLeft[server'] <= ServerLeft[server]
  /\ \A r \in Requests : RequestLeft[request'[r]] <= RequestLeft[request[r]]
  /\ SignalsLeft' <= SignalsLeft

SomethingGoesOn ==
  \/ ServerLeft[server'] < ServerLeft[server]
  \/ \E r \in Requests : RequestLeft[request'[r]] < RequestLeft[request[r]]
  \/ SignalsLeft' < SignalsLeft

LEMMA Leftovers ==
  ASSUME TypeOK
  PROVE  /\ ServerLeft[server] \in Nat /\ SignalsLeft \in Int
         /\ \A r \in Requests : RequestLeft[request[r]] \in Nat
<1>1. signals \in Nat /\ MaxSignals \in Nat /\ server \in ServerState
      /\ request \in [Requests -> RequestState]
  BY SignalsAssumption DEF TypeOK
<1>2. SignalsLeft \in Int
  BY <1>1 DEF SignalsLeft
<1>3. \A s \in ServerState : ServerLeft[s] \in Nat
  BY DEF ServerState, ServerLeft
<1>4. \A s \in RequestState : RequestLeft[s] \in Nat
  BY DEF RequestState, RequestLeft
<1> QED
  BY <1>1, <1>2, <1>3, <1>4

(* Every step takes a request, the shutdown or the signals towards the end   *)
(* and nothing takes any of them back: no request is admitted or released    *)
(* twice, the shutdown repeats none of its phases, and a second signal does  *)
(* not begin it anew.  With the fairness of the shutdown this is why         *)
(* DrainEnds holds: requests and signals cannot keep the process busy for    *)
(* ever.                                                                     *)
THEOREM ProcessMovesOn == Spec => [][NothingGoesBack /\ SomethingGoesOn]_vars
<1>1. ASSUME TypeOK, Next PROVE NothingGoesBack /\ SomethingGoesOn
  <2>1. /\ ServerLeft[server] \in Nat /\ SignalsLeft \in Int
        /\ \A r \in Requests : RequestLeft[request[r]] \in Nat
    BY <1>1, Leftovers
  <2>2. ASSUME NEW r \in Requests, NEW s \in RequestState, request' = [request EXCEPT ![r] = s],
               RequestLeft[s] < RequestLeft[request[r]], UNCHANGED <<handler, signals, server>>
        PROVE  NothingGoesBack /\ SomethingGoesOn
    <3>1. SignalsLeft' = SignalsLeft
      BY <2>2 DEF SignalsLeft
    <3>2. \A q \in Requests : request'[q] = IF q = r THEN s ELSE request[q]
      BY <1>1, <2>2 DEF TypeOK
    <3>3. RequestLeft[request'[r]] < RequestLeft[request[r]]
      BY <2>2, <3>2
    <3>4. RequestLeft[s] <= RequestLeft[request[r]]
      <4>1. \A t \in RequestState : RequestLeft[t] \in Nat
        BY DEF RequestState, RequestLeft
      <4> QED
        BY <2>1, <2>2, <4>1
    <3>5. \A q \in Requests : RequestLeft[request'[q]] <= RequestLeft[request[q]]
      BY <2>1, <3>2, <3>4
    <3>6. ServerLeft[server'] <= ServerLeft[server]
      BY <2>1, <2>2
    <3> QED
      BY <2>1, <3>1, <3>3, <3>5, <3>6 DEF NothingGoesBack, SomethingGoesOn
  <2>3. ASSUME UNCHANGED <<request, handler, signals>>, ServerLeft[server'] < ServerLeft[server],
               ServerLeft[server'] \in Nat
        PROVE  NothingGoesBack /\ SomethingGoesOn
    <3>1. SignalsLeft' = SignalsLeft
      BY <2>3 DEF SignalsLeft
    <3> QED
      BY <2>1, <2>3, <3>1 DEF NothingGoesBack, SomethingGoesOn
  <2>4. ASSUME UNCHANGED request, SignalsLeft' = SignalsLeft - 1,
               ServerLeft[server'] <= ServerLeft[server]
        PROVE  NothingGoesBack /\ SomethingGoesOn
    BY <2>1, <2>4 DEF NothingGoesBack, SomethingGoesOn
  <2>5. CASE \E r \in Requests : Arrive(r) \/ Return(r) \/ Inside(r)
    <3>1. PICK r \in Requests : Arrive(r) \/ Return(r) \/ Inside(r)
      BY <2>5
    <3>2. PICK s \in RequestState :
            /\ request' = [request EXCEPT ![r] = s]
            /\ RequestLeft[s] < RequestLeft[request[r]]
      BY <3>1 DEF Arrive, Return, Inside, Reject, Count, Admit, Uncount, Released,
                  RequestLeft, RequestState
    <3>3. UNCHANGED <<handler, signals, server>>
      BY <3>1 DEF Arrive, Return, Inside, Reject, Count, Admit, Uncount, Released
    <3> QED
      BY <2>2, <3>2, <3>3
  <2>6. CASE Sigterm
    <3>1. /\ UNCHANGED request /\ server' = server /\ signals' = signals + 1
          /\ handler' = TRUE /\ handler = FALSE /\ signals \in Nat /\ MaxSignals \in Nat
      BY <1>1, <2>6, SignalsAssumption DEF Sigterm, TypeOK
    <3>2. SignalsLeft = 2 * (MaxSignals - signals)
          /\ SignalsLeft' = 2 * (MaxSignals - (signals + 1)) + 1
      BY <3>1 DEF SignalsLeft
    <3>3. SignalsLeft' = SignalsLeft - 1
      BY <3>1, <3>2
    <3> QED
      BY <2>1, <2>4, <3>1, <3>3
  <2>7. CASE BeginDrain
    <3>1. /\ UNCHANGED request /\ signals' = signals /\ handler' = FALSE /\ handler = TRUE
          /\ signals \in Nat /\ MaxSignals \in Nat
      BY <1>1, <2>7, SignalsAssumption DEF BeginDrain, TypeOK
    <3>2. SignalsLeft = 2 * (MaxSignals - signals) + 1 /\ SignalsLeft' = 2 * (MaxSignals - signals)
      BY <3>1 DEF SignalsLeft
    <3>3. SignalsLeft' = SignalsLeft - 1
      BY <3>1, <3>2
    <3>4. ServerLeft[server'] <= ServerLeft[server]
      BY <2>1, <2>7 DEF BeginDrain, ServerLeft
    <3> QED
      BY <2>4, <3>1, <3>3, <3>4
  <2>8. CASE Close \/ GracefulEnd \/ LifespanDrain \/ WaitForIdle \/ Stop
    <3>1. UNCHANGED <<request, handler, signals>>
      BY <2>8 DEF Close, GracefulEnd, LifespanDrain, WaitForIdle, Stop
    <3>2. ServerLeft[server'] < ServerLeft[server] /\ ServerLeft[server'] \in Nat
      BY <2>8 DEF Close, GracefulEnd, LifespanDrain, WaitForIdle, Stop, ServerLeft
    <3> QED
      BY <2>3, <3>1, <3>2
  <2> QED
    BY <1>1, <2>5, <2>6, <2>7, <2>8 DEF Next, Shutdown
<1>2. TypeOK /\ [Next]_vars => [NothingGoesBack /\ SomethingGoesOn]_vars
  BY <1>1
<1> QED
  BY <1>2, TypesAreKept, PTL DEF Spec
=============================================================================
