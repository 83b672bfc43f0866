---------------------------- MODULE ShutdownDrain ----------------------------
(***************************************************************************)
(* Shutting the process down (app/process_edge): the ASGI middleware counts *)
(* the requests in flight, a SIGTERM begins the drain, the lifespan waits   *)
(* for the last request or for a timeout.                                   *)
(*                                                                         *)
(* The event loop, and with it the middleware, runs on the main thread, and *)
(* that is where Python runs the signal handler, between any two bytecodes *)
(* of whatever the loop was doing.  Only the wait for the idle event has a *)
(* thread of its own.                                                      *)
(***************************************************************************)
EXTENDS Naturals, FiniteSets

CONSTANTS
  Requests,     \* the HTTP and websocket requests that may arrive
  MaxSignals    \* bound of the model: SIGTERMs delivered to the process

ASSUME RequestsAssumption ==
  /\ IsFiniteSet(Requests)
  /\ Requests \cap {"nobody", "lifespan"} = {}

ASSUME SignalsAssumption == MaxSignals \in Nat

VARIABLES
  draining, in_flight, idle, last_outcome,  \* ShutdownDrainController
  lock,         \* its lock: which code of the event loop is inside it
  request,      \* where each request is in DrainMiddleware.__call__
  handler,      \* the main thread is in the SIGTERM handler
  signals,      \* SIGTERMs delivered so far
  server        \* where uvicorn and the lifespan are

controller == <<draining, in_flight, idle, last_outcome>>
vars == <<draining, in_flight, idle, last_outcome, lock, request, handler,
          signals, server>>

RequestState ==
  {"new", "rejected", "running", "done",
   "admitting", "counted",       \* inside try_admit
   "releasing", "uncounted"}     \* inside release

(* "serving": main_loop.  "closing": should_exit was seen, the sockets are   *)
(* closed and the connections awaited.  The lifespan's finally block is then *)
(* "draining" and "waiting", and "reporting" once the wait has returned.     *)
ServerState ==
  {"serving", "exiting", "closing", "draining", "waiting", "reporting", "stopped"}

Outcome == {"none", "clean", "timeout"}

At(states) == {r \in Requests : request[r] \in states}

Counted == At({"counted", "running", "releasing"})

(* The loop makes no step while the main thread is in the signal handler.    *)
LoopRuns == ~handler

-----------------------------------------------------------------------------
(* DrainMiddleware.__call__: try_admit, the application, release.            *)

Acquire(owner) ==
  /\ LoopRuns
  /\ lock = "nobody"
  /\ lock' = owner

(* The sockets are open until uvicorn has seen should_exit.                  *)
Arrive(r) ==
  /\ server \in {"serving", "exiting"}
  /\ request[r] = "new"
  /\ Acquire(r)
  /\ request' = [request EXCEPT ![r] = "admitting"]
  /\ UNCHANGED <<controller, handler, signals, server>>

Reject(r) ==
  /\ LoopRuns
  /\ request[r] = "admitting"
  /\ draining
  /\ request' = [request EXCEPT ![r] = "rejected"]
  /\ lock' = "nobody"
  /\ UNCHANGED <<controller, handler, signals, server>>

(* Mutations - here and below, definitions with a suffix - are plausible     *)
(* bugs of the definition that follows them; nothing else uses them.         *)
Count_Unchecked(r) ==
  /\ LoopRuns
  /\ request[r] = "admitting"
  /\ request' = [request EXCEPT ![r] = "counted"]
  /\ in_flight' = in_flight + 1
  /\ UNCHANGED <<draining, idle, last_outcome, lock, handler, signals, server>>

Count(r) ==
  /\ LoopRuns
  /\ request[r] = "admitting"
  /\ ~draining
  /\ request' = [request EXCEPT ![r] = "counted"]
  /\ in_flight' = in_flight + 1
  /\ UNCHANGED <<draining, idle, last_outcome, lock, handler, signals, server>>

Admit(r) ==
  /\ LoopRuns
  /\ request[r] = "counted"
  /\ request' = [request EXCEPT ![r] = "running"]
  /\ idle' = FALSE
  /\ lock' = "nobody"
  /\ UNCHANGED <<draining, in_flight, last_outcome, handler, signals, server>>

Return_WithoutFinally(r) ==
  /\ LoopRuns
  /\ request[r] = "running"
  /\ request' = [request EXCEPT ![r] = "done"]
  /\ UNCHANGED <<controller, lock, handler, signals, server>>

(* The application returned, raised or was cancelled: the finally block.     *)
Return(r) ==
  /\ request[r] = "running"
  /\ Acquire(r)
  /\ request' = [request EXCEPT ![r] = "releasing"]
  /\ UNCHANGED <<controller, handler, signals, server>>

Uncount(r) ==
  /\ LoopRuns
  /\ request[r] = "releasing"
  /\ request' = [request EXCEPT ![r] = "uncounted"]
  /\ in_flight' = IF in_flight > 0 THEN in_flight - 1 ELSE in_flight
  /\ UNCHANGED <<draining, idle, last_outcome, lock, handler, signals, server>>

Released_AlwaysIdle(r) ==
  /\ LoopRuns
  /\ request[r] = "uncounted"
  /\ request' = [request EXCEPT ![r] = "done"]
  /\ idle' = TRUE
  /\ lock' = "nobody"
  /\ UNCHANGED <<draining, in_flight, last_outcome, handler, signals, server>>

Released(r) ==
  /\ LoopRuns
  /\ request[r] = "uncounted"
  /\ request' = [request EXCEPT ![r] = "done"]
  /\ idle' = (idle \/ in_flight = 0)
  /\ lock' = "nobody"
  /\ UNCHANGED <<draining, in_flight, last_outcome, handler, signals, server>>

-----------------------------------------------------------------------------
(* SIGTERM.  The handler is installed before the first request is served and *)
(* restored when the lifespan ends.                                          *)

Sigterm ==
  /\ ~handler
  /\ signals < MaxSignals
  /\ server # "stopped"
  /\ handler' = TRUE
  /\ signals' = signals + 1
  /\ UNCHANGED <<controller, lock, request, server>>

BeginDrain_WithoutLock ==
  /\ handler
  /\ draining' = TRUE
  /\ handler' = FALSE
  /\ server' = IF server = "serving" THEN "exiting" ELSE server
  /\ UNCHANGED <<in_flight, idle, last_outcome, lock, request, signals>>

(* begin_drain takes the controller's lock, which is not reentrant; then     *)
(* uvicorn's own handler sets should_exit.                                   *)
BeginDrain ==
  /\ handler
  /\ lock = "nobody"
  /\ draining' = TRUE
  /\ handler' = FALSE
  /\ server' = IF server = "serving" THEN "exiting" ELSE server
  /\ UNCHANGED <<in_flight, idle, last_outcome, lock, request, signals>>

-----------------------------------------------------------------------------
(* uvicorn's shutdown and process_edge_lifespan.                             *)

Close ==
  /\ LoopRuns /\ lock = "nobody"
  /\ server = "exiting"
  /\ server' = "closing"
  /\ UNCHANGED <<controller, lock, request, handler, signals>>

(* The connections are gone, or timeout_graceful_shutdown is: then their     *)
(* tasks are cancelled, which a task may take its time to notice.            *)
GracefulEnd ==
  /\ server = "closing"
  /\ Acquire("lifespan")
  /\ server' = "draining"
  /\ UNCHANGED <<controller, request, handler, signals>>

LifespanDrain ==
  /\ LoopRuns
  /\ server = "draining"
  /\ draining' = TRUE
  /\ lock' = "nobody"
  /\ server' = "waiting"
  /\ UNCHANGED <<in_flight, idle, last_outcome, request, handler, signals>>

WaitForIdle_NoTimeout ==
  /\ server = "waiting"
  /\ idle
  /\ last_outcome' = "clean"
  /\ server' = "reporting"
  /\ UNCHANGED <<draining, in_flight, idle, lock, request, handler, signals>>

(* wait_for_idle runs in a thread: it needs neither the loop nor the lock.   *)
WaitForIdle ==
  /\ server = "waiting"
  /\ last_outcome' = IF idle THEN "clean" ELSE "timeout"
  /\ server' = "reporting"
  /\ UNCHANGED <<draining, in_flight, idle, lock, request, handler, signals>>

(* The log line reads in_flight under the lock; the handler is restored.     *)
Stop ==
  /\ LoopRuns /\ lock = "nobody"
  /\ server = "reporting"
  /\ server' = "stopped"
  /\ UNCHANGED <<controller, lock, request, handler, signals>>

-----------------------------------------------------------------------------
Init ==
  /\ draining = FALSE /\ in_flight = 0 /\ idle = TRUE /\ last_outcome = "none"
  /\ lock = "nobody"
  /\ request = [r \in Requests |-> "new"]
  /\ handler = FALSE /\ signals = 0
  /\ server = "serving"

(* What the code inside the lock does once it is there.                      *)
Inside(r) == Reject(r) \/ Count(r) \/ Admit(r) \/ Uncount(r) \/ Released(r)

Shutdown == BeginDrain \/ Close \/ GracefulEnd \/ LifespanDrain \/ WaitForIdle \/ Stop

Next ==
  \/ \E r \in Requests : Arrive(r) \/ Return(r) \/ Inside(r)
  \/ Sigterm
  \/ Shutdown

(* The main thread runs unless it waits for the lock, and every wait of the  *)
(* shutdown has a timeout.  Nothing obliges a request to return.             *)
Spec ==
  /\ Init /\ [][Next]_vars
  /\ WF_vars(\E r \in Requests : Inside(r))
  /\ WF_vars(Shutdown)

-----------------------------------------------------------------------------
TypeOK ==
  /\ draining \in BOOLEAN
  /\ in_flight \in Nat
  /\ idle \in BOOLEAN
  /\ last_outcome \in Outcome
  /\ lock \in Requests \cup {"nobody", "lifespan"}
  /\ request \in [Requests -> RequestState]
  /\ handler \in BOOLEAN
  /\ signals \in 0 .. MaxSignals
  /\ server \in ServerState

-----------------------------------------------------------------------------
(* Every admitted request is counted once and uncounted once, whether its    *)
(* application returns, raises or is cancelled.                              *)
CountIsExact == in_flight = Cardinality(Counted)

(* Outside the lock the idle event, which the waiting thread sees without    *)
(* taking the lock, says what the counter says.                              *)
IdleTracksInFlight == lock = "nobody" => (idle <=> in_flight = 0)

(* A drain reported clean left no request behind, and none came after it.    *)
CleanMeansIdle ==
  last_outcome = "clean" => in_flight = 0 /\ Counted = {}

(* Once the drain has begun no request starts, not even one that was being   *)
(* admitted when the signal came.                                            *)
NoAdmissionWhileDraining ==
  [][draining => At({"running"})' \subseteq At({"running"})]_vars

(* The handler waits for a lock that the code it interrupted holds: the main *)
(* thread never continues.                                                   *)
SelfDeadlock == handler /\ lock # "nobody"

(* A drain that has begun comes to its end, with requests that never return  *)
(* and with further signals, unless a signal comes inside the lock.          *)
DrainEnds == server = "exiting" ~> server = "stopped" \/ SelfDeadlock

(* What the lock, the counter and the event are for: the gate of DrainGate.  *)
Gate ==
  INSTANCE DrainGate
    WITH open <- ~draining, report <- last_outcome,
         inside <- Counted \cup At({"uncounted"})

(* Every change of the controller is a step of DrainGate: nobody enters a    *)
(* gate that is shut, and the report is clean exactly when all have left.    *)
ImplementsGate == Gate!GateSpec

(* shutdown.py:32 calls the controller "Process-edge drain gate: stop admit, *)
(* finish in-flight, timeout observably": after a SIGTERM the process stops, *)
(* with an outcome.                                                          *)
SigtermStopsTheProcess == handler ~> server = "stopped"
=============================================================================
