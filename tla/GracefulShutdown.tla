--------------------------- MODULE GracefulShutdown ---------------------------
(***************************************************************************)
(* The server from READY to its exit, in high-availability mode:           *)
(*                                                                         *)
(*   src/server.ts                              gracefulShutdown           *)
(*   src/lifecycle/lifecycle-state-machine.ts   LifecycleStateMachine      *)
(*   src/lifecycle/lifecycle-coordinator.ts     LifecycleCoordinator       *)
(*   src/lifecycle/inflight-request-tracker.ts  InflightRequestTracker     *)
(*   src/middleware/lifecycle-middleware.ts     lifecycleMiddleware        *)
(*   src/cache/cache-manager.ts                 UnifiedCacheManager        *)
(*                                                                         *)
(* The cache manager is the only component registered with the             *)
(* coordinator.  HTTP requests in flight use it while the shutdown         *)
(* sequence runs, and may make it open a new connection to Redis.  The     *)
(* router does not install the middleware: Tracked = FALSE is the server   *)
(* as it runs, Tracked = TRUE the server as the middleware documents it.   *)
(***************************************************************************)
EXTENDS Naturals, FiniteSets

CONSTANTS
    Requests,           \* HTTP requests
    Probes,             \* those to BYPASS_PATHS: /health*, /metrics
    Boot,               \* the adapter's constructor, which opens the cache first
    None, Memory,       \* backends: null, local memory
    Tracked,            \* the routes go through lifecycleMiddleware
    FlushTimeout,       \* FLUSH_TIMEOUT_MS, in ticks
    DrainTimeout,       \* waitForCompletion({ timeoutMs })
    ComponentTimeout,   \* shutdownAll({ componentTimeoutMs })
    ExitTimeout         \* shutdownTimeout

Openers == Requests \cup {Boot}

ASSUME ShutdownAssumption ==
    /\ IsFiniteSet(Requests) /\ Probes \subseteq Requests
    /\ Boot \notin Requests
    /\ {None, Memory} \cap Openers = {} /\ None # Memory
    /\ Tracked \in BOOLEAN
    /\ {FlushTimeout, DrainTimeout, ComponentTimeout, ExitTimeout}
         \subseteq Nat \ {0}
    \* 3 s, 5 s and 3 s against 15 s
    /\ FlushTimeout + DrainTimeout + ComponentTimeout < ExitTimeout

VARIABLES
    \* server.ts
    step,               \* where gracefulShutdown is
    stepAge, timer,     \* ticks in this step; ticks since the signal
    exitCode,
    drained,            \* drainResult.drained
    \* LifecycleStateMachine, InflightRequestTracker
    state,
    activeRequests,
    \* UnifiedCacheManager; initializationPromise is set only while backend is
    \* (or is about to be) and is not read then, so it is left out
    backend,            \* None, Memory, or the opener of a Redis backend
    shuttingDown,
    disconnecting,      \* shutdown() awaits backend.disconnect()
    initializing,       \* [Openers -> its initialize() is running]
    client,             \* [Openers -> the Redis client it opened]
    \* the requests
    inFlight,           \* received and not yet answered
    awaits              \* the opener whose initialize() a request waits for

serverVars  == <<step, stepAge, timer, exitCode, drained>>
machineVars == <<state, activeRequests>>
managerVars == <<backend, shuttingDown, disconnecting, initializing, client>>
requestVars == <<inFlight, awaits>>

vars == <<serverVars, machineVars, managerVars, requestVars>>

Running == step # "exited"

\* READY; the adapter may still be connecting.
Init ==
    /\ step = "serving" /\ stepAge = 0 /\ timer = 0
    /\ exitCode = "none" /\ drained = FALSE
    /\ state = "ready"
    /\ activeRequests = {}
    /\ backend = Boot /\ shuttingDown = FALSE /\ disconnecting = FALSE
    /\ initializing = [o \in Openers |-> o = Boot]
    /\ client = [o \in Openers |-> IF o = Boot THEN "connecting" ELSE "none"]
    /\ inFlight = {}
    /\ awaits = [r \in Requests |-> None]

(***************************************************************************)
(* HTTP requests                                                           *)
(***************************************************************************)
\* Mutant: ACCEPTING_STATES holds DRAINING and STOPPING too.
CanAcceptRequestsWhileStopping == state # "stopped"


CanAcceptRequests == state = "ready"

\* The middleware checks and tracks what does not go to a bypassed path.
Checks(r) == Tracked /\ r \notin Probes

\* With the middleware, a request it checks is answered 503 unless READY (and
\* then leaves no trace).  After server.stop() requests still come in on
\* connections that are open.
Arrive(r) ==
    /\ Running
    /\ r \notin inFlight
    /\ Checks(r) => CanAcceptRequests
    /\ inFlight' = inFlight \cup {r}
    /\ activeRequests' = IF Checks(r) THEN activeRequests \cup {r} ELSE activeRequests
    /\ UNCHANGED <<serverVars, state, managerVars, awaits>>

\* Mutant: the response hook does not complete the request.
RespondWithoutComplete(r) ==
    /\ Running
    /\ r \in inFlight /\ awaits[r] = None
    /\ inFlight' = inFlight \ {r}
    /\ UNCHANGED <<serverVars, machineVars, managerVars, awaits>>

\* The response is sent, and then tracking of the request completes.
Respond(r) ==
    /\ Running
    /\ r \in inFlight /\ awaits[r] = None
    /\ inFlight' = inFlight \ {r}
    /\ activeRequests' = activeRequests \ {r}
    /\ UNCHANGED <<serverVars, state, managerVars, awaits>>

(***************************************************************************)
(* UnifiedCacheManager.ensureInitialized, for a request that uses the cache *)
(***************************************************************************)

\* KongAdapter.ensureCacheInitialized: wait for the first initialization.
AwaitBoot(r) ==
    /\ Running
    /\ r \in inFlight /\ awaits[r] = None
    /\ initializing[Boot]
    /\ awaits' = [awaits EXCEPT ![r] = Boot]
    /\ UNCHANGED <<serverVars, machineVars, managerVars, inFlight>>

\* A manager without a backend is initialized; shuttingDown is not read.
NeedsBackend == backend = None

\* initialize() up to the await of connect().
Initialize(r) ==
    /\ Running
    /\ r \in inFlight /\ awaits[r] = None
    /\ ~initializing[Boot]
    /\ NeedsBackend
    /\ backend' = r
    /\ initializing' = [initializing EXCEPT ![r] = TRUE]
    /\ client' = [client EXCEPT ![r] = "connecting"]
    /\ awaits' = [awaits EXCEPT ![r] = r]
    /\ UNCHANGED <<serverVars, machineVars, shuttingDown, disconnecting, inFlight>>

\* connect() succeeds or fails.  After a failed PING its socket may stay open;
\* nothing refers to that client any more once initialize() has ended.
ConnectionAnswered(o) ==
    /\ Running
    /\ client[o] = "connecting"
    /\ \E outcome \in {"open", "failed"} : client' = [client EXCEPT ![o] = outcome]
    /\ UNCHANGED <<serverVars, machineVars, backend, shuttingDown,
                   disconnecting, initializing, requestVars>>

\* initialize() ends.  It falls back to local memory when connect() failed or
\* disconnect() closed its client, and when shutdown() has removed the backend.
InitializeEnds(o) ==
    /\ Running
    /\ initializing[o] /\ client[o] # "connecting"
    /\ initializing' = [initializing EXCEPT ![o] = FALSE]
    /\ backend' = IF client[o] = "open" /\ backend # None THEN backend ELSE Memory
    /\ awaits' = [r \in Requests |-> IF awaits[r] = o THEN None ELSE awaits[r]]
    /\ UNCHANGED <<serverVars, machineVars, shuttingDown, disconnecting,
                   client, inFlight>>

(***************************************************************************)
(* gracefulShutdown                                                        *)
(***************************************************************************)
GoesTo(next) ==
    /\ step' = next
    /\ stepAge' = 0

\* The first signal; isShuttingDown ignores the others.
Signal ==
    /\ step = "serving"
    /\ GoesTo("flushing")
    /\ UNCHANGED <<timer, exitCode, drained, machineVars, managerVars, requestVars>>

\* Mutant: a connection being opened is not closed.
ShutdownOpenClientsOnly ==
    /\ state' = "stopping"
    /\ GoesTo("components")
    /\ disconnecting' = (backend # None)
    /\ client' = [o \in Openers |-> IF o = backend /\ client[o] = "open"
                                    THEN "closed" ELSE client[o]]

\* STOPPING: shutdownAll calls the manager's shutdown(), which closes the
\* client of a Redis backend.
ShutdownComponents ==
    /\ state' = "stopping"
    /\ GoesTo("components")
    /\ disconnecting' = (backend # None)
    /\ client' = IF backend \in Openers THEN [client EXCEPT ![backend] = "closed"]
                                        ELSE client

\* flushShutdownMessages ends, in time or not: DRAINING, prepareAll,
\* server.stop().  With nothing to wait for, waitForCompletion returns.
Flushed ==
    /\ step = "flushing"
    /\ shuttingDown' = TRUE
    /\ \/ /\ activeRequests = {}
          /\ drained' = TRUE
          /\ ShutdownComponents
       \/ /\ activeRequests # {}
          /\ state' = "draining"
          /\ GoesTo("draining")
          /\ UNCHANGED <<drained, disconnecting, client>>
    /\ UNCHANGED <<timer, exitCode, activeRequests, backend, initializing, requestVars>>

FlushDeadline == step = "flushing" /\ stepAge = FlushTimeout

\* Mutant: the drain has no deadline.
NoDrainDeadline == FALSE

DrainDeadline == step = "draining" /\ stepAge = DrainTimeout

ComponentDeadline == step = "components" /\ stepAge = ComponentTimeout

\* waitForCompletion polls until all are answered or the deadline passes.
DrainEnds ==
    /\ step = "draining"
    /\ activeRequests = {} \/ DrainDeadline
    /\ drained' = (activeRequests = {})
    /\ ShutdownComponents
    /\ UNCHANGED <<timer, exitCode, activeRequests, backend, shuttingDown,
                   initializing, requestVars>>

\* The manager's shutdown() ends, also when the coordinator has given it up.
ManagerShutDown ==
    /\ Running
    /\ disconnecting
    /\ disconnecting' = FALSE
    /\ backend' = None
    /\ UNCHANGED <<serverVars, machineVars, shuttingDown, initializing, client,
                   requestVars>>

ComponentsEnd ==
    /\ step = "components"
    /\ ~disconnecting \/ ComponentDeadline
    /\ GoesTo("cleanup")
    /\ UNCHANGED <<timer, exitCode, drained, machineVars, managerVars, requestVars>>

Exit(code) ==
    /\ GoesTo("exited")
    /\ exitCode' = code
    /\ UNCHANGED <<timer, drained, activeRequests, managerVars, requestVars>>

\* Telemetry, metrics and profiling: may hang on the collector, or throw.
CleanupEnds ==
    /\ step = "cleanup"
    /\ \/ state' = "stopped" /\ Exit("0")
       \/ UNCHANGED state /\ Exit("1")

\* Mutant: the timer is cleared before the final cleanup.
TimerDueBeforeCleanup == timer = ExitTimeout /\ step # "cleanup"

TimerDue == timer = ExitTimeout

TimerFires ==
    /\ step \notin {"serving", "exited"}
    /\ TimerDue
    /\ Exit("forced")
    /\ UNCHANGED state

(***************************************************************************)
(* Time: a timer that is due fires before the next tick.                   *)
(***************************************************************************)
Tick ==
    /\ step \notin {"serving", "exited"}
    /\ ~(FlushDeadline \/ DrainDeadline \/ ComponentDeadline) /\ timer < ExitTimeout
    /\ timer' = timer + 1
    /\ stepAge' = stepAge + 1
    /\ UNCHANGED <<step, exitCode, drained, machineVars, managerVars, requestVars>>

ServerNext ==
    \/ Signal
    \/ Flushed
    \/ DrainEnds
    \/ ManagerShutDown
    \/ ComponentsEnd
    \/ CleanupEnds
    \/ TimerFires

Next ==
    \/ \E r \in Requests : Arrive(r) \/ Respond(r) \/ AwaitBoot(r) \/ Initialize(r)
    \/ \E o \in Openers : ConnectionAnswered(o) \/ InitializeEnds(o)
    \/ ServerNext
    \/ Tick

Spec == Init /\ [][Next]_vars

\* Timers fire, and time passes.  Requests need not be answered, the collector
\* and Redis need not answer, and no signal need come.
Fairness ==
    /\ WF_vars(Tick)
    /\ WF_vars(Flushed /\ FlushDeadline)
    /\ WF_vars(DrainEnds /\ DrainDeadline)
    /\ WF_vars(ComponentsEnd /\ ComponentDeadline)
    /\ WF_vars(TimerFires)

FairSpec == Spec /\ Fairness

(***************************************************************************)
(* Properties                                                              *)
(***************************************************************************)

\* Types and bounds; the tracker knows exactly the requests in flight that
\* the middleware checked.
TypeOK ==
    /\ step \in {"serving", "flushing", "draining", "components", "cleanup", "exited"}
    /\ stepAge \in 0..ExitTimeout /\ timer \in 0..ExitTimeout
    /\ exitCode \in {"none", "0", "1", "forced"} /\ drained \in BOOLEAN
    /\ state \in {"ready", "draining", "stopping", "stopped"}
    /\ inFlight \subseteq Requests
    /\ activeRequests = {r \in inFlight : Checks(r)}
    /\ backend \in Openers \cup {None, Memory}
    /\ shuttingDown \in BOOLEAN /\ disconnecting \in BOOLEAN
    /\ initializing \in [Openers -> BOOLEAN]
    /\ client \in [Openers -> {"none", "connecting", "open", "failed", "closed"}]
    /\ awaits \in [Requests -> Openers \cup {None}]

\* Once gracefulShutdown goes on from the drain with drained = true, nobody but
\* a health or metrics probe waits for an answer, and no later step can cut off
\* another request (server.ts, phase 5, against requests that arrive or go on
\* after it).
NoRequestCutOff ==
    step \in {"components", "cleanup", "exited"} /\ drained => inFlight \subseteq Probes

\* If the requests were drained, no client is connected to Redis or connecting
\* once the components have shut down, but for what a probe that bypasses the
\* drain opens: shutdown() closes the one it finds, also while it is being
\* opened, and no other request opens another (cache-manager.ts).
NoClientLeftOpen ==
    step \in {"cleanup", "exited"} /\ drained =>
        \A o \in Openers \ Probes : client[o] \notin {"connecting", "open"}

\* The flush, the drain and the components keep to their own deadlines, and so
\* the 15 s timer can only interrupt the final cleanup: the components have
\* then been told to shut down.
ForcedExitOnlyWhileCleaningUp ==
    [][exitCode' = "forced" => step = "cleanup" /\ state = "stopping"]_vars

\* A signal ends the process, whatever hangs.
EverySignalEndsTheProcess == step = "flushing" ~> step = "exited"
===============================================================================
