----------------------------- MODULE CacheManager -----------------------------
(***************************************************************************)
(* The cache the whole service shares: how it is made and which backend an *)
(* operation runs on.                                                      *)
(*                                                                         *)
(*   src/services/cache/cache-factory.ts  CacheFactory.createKongCache     *)
(*   src/cache/cache-manager.ts           UnifiedCacheManager              *)
(*   src/cache/backends/                  SharedRedis-, LocalMemoryBackend *)
(*                                                                         *)
(* The Kong adapter and the health probes ask the factory for the cache,   *)
(* possibly all before it exists.  The manager makes its backend when the  *)
(* first operation needs it and again after a shutdown.  The configuration *)
(* the factory reads does not change while the service runs; reconfigure   *)
(* stays an operation of the manager.  Every await is a point where the    *)
(* others go on.                                                           *)
(***************************************************************************)
EXTENDS Naturals, Sequences

CONSTANTS
    Users,              \* concurrent users of the cache
    MaxInitializations  \* bound: initialize() runs that are explored

VARIABLES
    strategy,           \* selectStrategy(config)
    managerMade,        \* CacheFactory.instance and currentConfig are set
    factoryPromise,     \* CacheFactory.initializationPromise is pending
    made,               \* how many managers the factory has made
    backends,           \* the backends made so far, in order, by their kind
    backend,            \* index of the manager's backend, 0: none
    connected,          \* the Redis backends whose client is connected
    initializations,    \* initialize() runs: phase, and the backend it made
    promise,            \* the run initializationPromise belongs to, 0: null
    user,               \* [Users -> where it awaits]
    shutDown            \* history: shutdown() or reconfigure() was called

managerVars == <<strategy, managerMade, factoryPromise, made, backends, backend,
                 connected, initializations, promise, user, shutDown>>

Strategies == {"shared-redis", "local-memory"}
At(pc, on) == [pc |-> pc, on |-> on]
Idle == At("idle", 0)

ManagerInit ==
    /\ strategy \in Strategies
    /\ managerMade = FALSE
    /\ factoryPromise = FALSE
    /\ made = 0
    /\ backends = <<>>
    /\ backend = 0
    /\ connected = {}
    /\ initializations = <<>>
    /\ promise = 0
    /\ user = [u \in Users |-> Idle]
    /\ shutDown = FALSE

factoryVars == <<managerMade, factoryPromise, made>>

(***************************************************************************)
(* UnifiedCacheManager                                                     *)
(***************************************************************************)

\* initialize, up to its first await
StartInitialize(u, pc) ==
    /\ Len(initializations) < MaxInitializations
    /\ initializations' = Append(initializations,
                                 [phase |-> "creating", strategy |-> strategy', made |-> 0])
    /\ promise' = Len(initializations')
    /\ user' = [user EXCEPT ![u] = At(pc, Len(initializations'))]

\* ensureInitialized: a backend that is set is used, connected or not; a
\* pending initialization is shared.
EnsureInitialized(u) ==
    \/ /\ backend # 0
       /\ user' = [user EXCEPT ![u] = At("using", backend)]
       /\ UNCHANGED <<initializations, promise>>
    \/ /\ backend = 0 /\ promise # 0
       /\ user' = [user EXCEPT ![u] = At("waits", promise)]
       /\ UNCHANGED <<initializations, promise>>
    \/ /\ backend = 0 /\ promise = 0
       /\ StartInitialize(u, "owns")

\* get, set, delete, clear, getStats, getStale, isHealthy
Use(u) ==
    /\ user[u] = Idle
    /\ managerMade
    /\ strategy' = strategy
    /\ EnsureInitialized(u)
    /\ UNCHANGED <<factoryVars, backends, backend, connected, shutDown>>

\* createBackend returns: the backend is the manager's before it connects.
CreateBackend(i) ==
    /\ initializations[i].phase = "creating"
    /\ backends' = Append(backends, initializations[i].strategy)
    /\ backend' = Len(backends')
    /\ initializations' = [initializations EXCEPT ![i].phase = "connecting",
                                                  ![i].made = Len(backends')]
    /\ UNCHANGED <<strategy, factoryVars, connected, promise, user, shutDown>>

\* backend.connect() returns or throws.  The log line that follows reads the
\* manager's backend again and throws if a shutdown has taken it away.
BackendConnects(i, ok) ==
    LET run == initializations[i]
        redis == run.strategy = "shared-redis"
        phase == CASE ok /\ backend # 0 -> "done"
                   [] redis /\ ~(ok /\ backend # 0) -> "fallingBack"
                   [] OTHER -> "failed"
    IN  /\ run.phase = "connecting"
        /\ ok \/ redis
        /\ connected' = IF ok /\ redis THEN connected \cup {run.made} ELSE connected
        /\ initializations' = [initializations EXCEPT ![i].phase = phase]
        /\ UNCHANGED <<strategy, factoryVars, backends, backend, promise, user, shutDown>>

FallBackToMemory(i) ==
    /\ initializations[i].phase = "fallingBack"
    /\ backends' = Append(backends, "local-memory")
    /\ backend' = Len(backends')
    /\ initializations' = [initializations EXCEPT ![i].phase = "done"]
    /\ UNCHANGED <<strategy, factoryVars, connected, promise, user, shutDown>>

\* Whoever started the run clears the promise, whichever run it belongs to
\* by now; after a failure nobody does.  Without a backend the operation
\* throws.
InitializationSettles(u) ==
    /\ user[u].pc \in {"owns", "waits"}
    /\ LET run == initializations[user[u].on]
       IN  /\ run.phase \in {"done", "failed"}
           /\ promise' = IF user[u].pc = "owns" /\ run.phase = "done" THEN 0 ELSE promise
           /\ user' = [user EXCEPT ![u] =
                           IF run.phase = "failed" \/ backend = 0 THEN Idle ELSE At("using", backend)]
           /\ UNCHANGED <<strategy, factoryVars, backends, backend, connected, initializations,
                          shutDown>>

OperationEnds(u) ==
    /\ user[u].pc = "using"
    /\ user' = [user EXCEPT ![u] = Idle]
    /\ UNCHANGED <<strategy, factoryVars, backends, backend, connected, initializations,
                   promise, shutDown>>

\* shutdown, called by itself or by reconfigure when the strategy changes.
\* It disconnects the backend it sees; its caller goes on in Disconnected.
StartShutdown(u, pc) ==
    /\ user[u] = Idle
    /\ managerMade
    /\ shutDown' = TRUE
    /\ user' = [user EXCEPT ![u] = At(pc, backend)]
    /\ UNCHANGED <<strategy, factoryVars, backends, backend, connected, initializations, promise>>

\* reconfigure: a backend of the wanted kind, be it the fallback, is kept.
KeepBackend(u, wanted) ==
    /\ user[u] = Idle
    /\ managerMade
    /\ backend # 0
    /\ backends[backend] = wanted
    /\ strategy' = wanted
    /\ UNCHANGED <<factoryVars, backends, backend, connected, initializations, promise, user,
                   shutDown>>

Reconfigure(u, wanted) ==
    /\ backend # 0 => backends[backend] # wanted
    /\ StartShutdown(u, wanted)

\* The backend is disconnected.  A reconfigure sets the new configuration
\* and initializes at once.
Disconnected(u) ==
    /\ user[u].pc \in {"shutsDown"} \cup Strategies
    /\ connected' = connected \ {user[u].on}
    /\ backend' = 0
    /\ IF user[u].pc = "shutsDown"
       THEN /\ promise' = 0
            /\ user' = [user EXCEPT ![u] = Idle]
            /\ UNCHANGED <<strategy, initializations>>
       ELSE /\ strategy' = user[u].pc
            /\ StartInitialize(u, "owns")
    /\ UNCHANGED <<factoryVars, backends, shutDown>>

(***************************************************************************)
(* CacheFactory.createKongCache, while there is no manager                 *)
(***************************************************************************)

\* initializeCache makes a manager, has it initialized by isHealthy, and only
\* then publishes it.
InitializeCache(u) ==
    /\ factoryPromise' = TRUE
    /\ made' = made + 1
    /\ strategy' = strategy
    /\ StartInitialize(u, "makes")

\* Mutant: the promise is looked at after it has settled only.
CreateKongCacheUnshared(u) ==
    /\ user[u] = Idle
    /\ ~managerMade
    /\ InitializeCache(u)
    /\ UNCHANGED <<managerMade, backends, backend, connected, shutDown>>

CreateKongCache(u) ==
    /\ user[u] = Idle
    /\ ~managerMade
    /\ IF factoryPromise
       THEN /\ user' = [user EXCEPT ![u] = At("awaitsFactory", 0)]
            /\ UNCHANGED <<strategy, factoryPromise, made, initializations, promise>>
       ELSE InitializeCache(u)
    /\ UNCHANGED <<managerMade, backends, backend, connected, shutDown>>

ManagerPublished(u) ==
    /\ user[u].pc = "makes"
    /\ initializations[user[u].on].phase = "done"
    /\ managerMade' = TRUE
    /\ factoryPromise' = FALSE
    /\ promise' = 0
    /\ user' = [user EXCEPT ![u] = Idle]
    /\ UNCHANGED <<strategy, made, backends, backend, connected, initializations, shutDown>>

\* The promise has settled and the instance is there.
FactorySettles(u) ==
    /\ user[u].pc = "awaitsFactory"
    /\ managerMade
    /\ user' = [user EXCEPT ![u] = Idle]
    /\ UNCHANGED <<strategy, factoryVars, backends, backend, connected, initializations,
                   promise, shutDown>>

ManagerNext ==
    \/ \E u \in Users :
           \/ Use(u) \/ InitializationSettles(u) \/ OperationEnds(u)
           \/ StartShutdown(u, "shutsDown") \/ Disconnected(u)
           \/ CreateKongCache(u) \/ ManagerPublished(u) \/ FactorySettles(u)
           \/ \E wanted \in Strategies : KeepBackend(u, wanted) \/ Reconfigure(u, wanted)
    \/ \E i \in DOMAIN initializations :
           \/ CreateBackend(i) \/ FallBackToMemory(i)
           \/ \E ok \in BOOLEAN : BackendConnects(i, ok)

(***************************************************************************)
(* Properties                                                              *)
(***************************************************************************)

\* Types: an operation knows no backend or initialization that was never made.
ManagerTypeOK ==
    /\ strategy \in Strategies
    /\ managerMade \in BOOLEAN /\ factoryPromise \in BOOLEAN
    /\ backend \in 0..Len(backends)
    /\ promise \in 0..Len(initializations)
    /\ connected \subseteq 1..Len(backends)
    /\ user \in [Users -> [pc : {"idle", "owns", "waits", "using", "shutsDown",
                                 "awaitsFactory", "makes"} \cup Strategies,
                           on : 0..Len(backends) + Len(initializations)]]

\* However many of its first users come at the same time, the service has
\* one cache manager, and until it is shut down or reconfigured that manager
\* makes one backend, next to the memory it may fall back to: entries are
\* never divided between two caches, and no second Redis client is opened.
OneCacheForEverybody ==
    /\ made <= 1
    /\ ~shutDown => /\ Len(initializations) <= 1
                    /\ connected \subseteq {1}
=============================================================================
