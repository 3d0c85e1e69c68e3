--------------------------- MODULE SharedRedisCache ---------------------------
(***************************************************************************)
(* The Redis cache client of the high-availability mode, after connect()   *)
(* succeeded: concurrent cache operations, the reconnection manager they   *)
(* share, the health monitor and the circuit breaker all of them feed.     *)
(*                                                                         *)
(*   src/services/cache/shared-redis-cache.ts    SharedRedisCache          *)
(*   src/utils/cache-reconnect-manager.ts        CacheReconnectManager     *)
(*   src/services/cache/cache-health-monitor.ts  CacheHealthMonitor        *)
(*                                                                         *)
(* get, set, delete, clear, getStale, ... follow one protocol: ask the     *)
(* breaker, ensureConnected (which may join a reconnection), send the      *)
(* command under a timeout, report the outcome.  getStats, isHealthy and   *)
(* getServerType send theirs without a timeout and report nothing, and an  *)
(* attempt to reconnect sends a SELECT without one.  An action is what one *)
(* of them does between two awaits.  A tick is one unit of the long timers *)
(* (health interval, reset timeout, cooldown); commands, pings and         *)
(* connection attempts take less than a tick or any number of them.        *)
(***************************************************************************)
EXTENDS Naturals, FiniteSets

CONSTANTS
    Ops,                \* concurrent cache operations
    Untimed,            \* those that are getStats, isHealthy, getServerType
    NoOp,               \* reconnectPromise = null
    SelectsDb,          \* config.db > 0
    FailureThreshold, ResetTimeout, SuccessThreshold,   \* of the breaker
    MaxAttempts,        \* reconnect.maxAttempts
    Cooldown,           \* reconnect.cooldownMs, in ticks
    Monitored,          \* healthMonitor.enabled
    PingInterval        \* healthMonitor.intervalMs, in ticks

ASSUME CacheAssumption ==
    /\ NoOp \notin Ops
    /\ IsFiniteSet(Ops) /\ Untimed \subseteq Ops
    /\ SelectsDb \in BOOLEAN
    /\ FailureThreshold \in Nat \ {0}
    /\ ResetTimeout \in Nat \ {0}
    /\ SuccessThreshold \in Nat \ {0}
    /\ MaxAttempts \in Nat \ {0}
    /\ Cooldown \in Nat \ {0}
    /\ Monitored \in BOOLEAN
    /\ PingInterval \in Nat \ {0}

VARIABLES
    \* the breaker
    state, failureCount, halfOpenSuccesses, failureAge,
    \* the Redis server and the client's socket
    redis,          \* "up", "busy" (answers with LOADING or BUSY) or "down"
    linkUp,         \* the socket works; the client never re-opens it by itself
    \* fields of SharedRedisCache
    client,         \* this.client is not null
    isConnected,
    shuttingDown,   \* lifecycleStateMachine.isShuttingDown()
    \* CacheReconnectManager
    reconnectPromise,   \* the operation whose attempt is the current one, or NoOp
    reconnectAttempts,
    attemptAge,         \* now - lastAttemptTime, saturated past Cooldown
    attempt,            \* [Ops -> phase of the attempt the operation started]
    \* CacheHealthMonitor
    ping,               \* "off", "idle" or "sent"
    pingAge,            \* ticks since the last ping was sent
    \* the operations
    pc, awaits          \* awaits: whose attempt a waiting operation awaits

breakerVars   == <<state, failureCount, halfOpenSuccesses, failureAge>>
serverVars    == <<redis, linkUp>>
cacheVars     == <<client, isConnected, shuttingDown>>
reconnectVars == <<reconnectPromise, reconnectAttempts, attemptAge, attempt>>
monitorVars   == <<ping, pingAge>>
opVars        == <<pc, awaits>>

vars == <<breakerVars, serverVars, cacheVars, reconnectVars, monitorVars, opVars>>

Breaker == INSTANCE CacheCircuitBreaker

\* After a successful connect(): breaker told of the success, reconnection
\* manager reset, monitoring started with an immediate ping.
Init ==
    /\ Breaker!Init
    /\ redis = "up" /\ linkUp = TRUE
    /\ client = TRUE /\ isConnected = TRUE /\ shuttingDown = FALSE
    /\ reconnectPromise = NoOp
    /\ reconnectAttempts = 0
    /\ attemptAge = Cooldown + 1
    /\ attempt = [o \in Ops |-> "none"]
    /\ ping = IF Monitored THEN "sent" ELSE "off"
    /\ pingAge = 0
    /\ pc = [o \in Ops |-> "idle"]
    /\ awaits = [o \in Ops |-> NoOp]

Goes(o, from, to) ==
    /\ pc[o] = from
    /\ pc' = [pc EXCEPT ![o] = to]

\* Continuations of settled promises run before the next timer or socket
\* event does: an event happens only when no operation is between the two.
Quiet == \A o \in Ops : pc[o] \in {"idle", "waiting", "command"}

(***************************************************************************)
(* An operation up to its first await                                      *)
(***************************************************************************)

\* A command sent over a dead socket is rejected with a connection error.
Sent == IF linkUp THEN "command" ELSE "lost"

\* "... operation blocked by circuit breaker"
BlockedByBreaker(o) ==
    /\ pc[o] = "idle"
    /\ Breaker!Reject
    /\ UNCHANGED vars

\* ensureConnected throws before asking for a connection; the error is no
\* connection error, so the operation returns null and reports nothing.  The
\* untimed ones do not even ask the breaker before.
NotConnectable(o) ==
    /\ pc[o] = "idle"
    /\ IF o \in Untimed THEN UNCHANGED breakerVars ELSE Breaker!Admit
    /\ shuttingDown \/ ~client
    /\ UNCHANGED <<serverVars, cacheVars, reconnectVars, monitorVars, opVars>>

SendCommand(o) ==
    /\ Breaker!Admit
    /\ ~shuttingDown /\ client /\ isConnected
    /\ Goes(o, "idle", Sent)
    /\ UNCHANGED <<serverVars, cacheVars, reconnectVars, monitorVars, awaits>>

JoinReconnect(o) ==
    /\ Breaker!Admit
    /\ ~shuttingDown /\ client /\ ~isConnected
    /\ reconnectPromise # NoOp
    /\ Goes(o, "idle", "waiting")
    /\ awaits' = [awaits EXCEPT ![o] = reconnectPromise]
    /\ UNCHANGED <<serverVars, cacheVars, reconnectVars, monitorVars>>

\* Mutant: the cooldown never gives the attempts back.
AttemptsWithoutCooldown == reconnectAttempts

\* The attempts executeReconnect has left to count against: none after the
\* cooldown.
AttemptsNow == IF attemptAge > Cooldown THEN 0 ELSE reconnectAttempts

\* Mutant: one attempt more than allowed.
StartReconnectOnceMore(o) ==
    /\ Breaker!Admit
    /\ ~shuttingDown /\ client /\ ~isConnected
    /\ reconnectPromise = NoOp
    /\ AttemptsNow <= MaxAttempts
    /\ reconnectPromise' = o
    /\ reconnectAttempts' = AttemptsNow + 1
    /\ attemptAge' = 0
    /\ attempt' = [attempt EXCEPT ![o] = IF AttemptsNow = 0 THEN "connecting"
                                                            ELSE "delay"]
    /\ Goes(o, "idle", "waiting")
    /\ awaits' = [awaits EXCEPT ![o] = o]
    /\ UNCHANGED <<serverVars, cacheVars, monitorVars>>

\* Mutant: a caller starts an attempt though another one is running.
StartReconnectWithoutMutex(o) ==
    /\ Breaker!Admit
    /\ ~shuttingDown /\ client /\ ~isConnected
    /\ AttemptsNow < MaxAttempts
    /\ reconnectPromise' = o
    /\ reconnectAttempts' = AttemptsNow + 1
    /\ attemptAge' = 0
    /\ attempt' = [attempt EXCEPT ![o] = IF AttemptsNow = 0 THEN "connecting"
                                                            ELSE "delay"]
    /\ Goes(o, "idle", "waiting")
    /\ awaits' = [awaits EXCEPT ![o] = o]
    /\ UNCHANGED <<serverVars, cacheVars, monitorVars>>

\* The caller becomes the owner of the shared promise.  Second and later
\* attempts wait for a backoff delay.
StartReconnect(o) ==
    /\ Breaker!Admit
    /\ ~shuttingDown /\ client /\ ~isConnected
    /\ reconnectPromise = NoOp
    /\ AttemptsNow < MaxAttempts
    /\ reconnectPromise' = o
    /\ reconnectAttempts' = AttemptsNow + 1
    /\ attemptAge' = 0
    /\ attempt' = [attempt EXCEPT ![o] = IF AttemptsNow = 0 THEN "connecting"
                                                            ELSE "delay"]
    /\ Goes(o, "idle", "waiting")
    /\ awaits' = [awaits EXCEPT ![o] = o]
    /\ UNCHANGED <<serverVars, cacheVars, monitorVars>>

\* "Max reconnection attempts exceeded": not a connection error by itself,
\* but the error ensureConnected wraps it in is one.
Exhausted(o) ==
    /\ Breaker!Admit
    /\ ~shuttingDown /\ client /\ ~isConnected
    /\ reconnectPromise = NoOp
    /\ AttemptsNow >= MaxAttempts
    /\ Goes(o, "idle", "thrown")
    /\ UNCHANGED <<serverVars, cacheVars, reconnectVars, monitorVars, awaits>>

(***************************************************************************)
(* The reconnection attempt                                                *)
(***************************************************************************)
DelayOver(i) ==
    /\ Quiet
    /\ attempt[i] = "delay"
    /\ attempt' = [attempt EXCEPT ![i] = "connecting"]
    /\ UNCHANGED <<breakerVars, serverVars, cacheVars, reconnectPromise,
                   reconnectAttempts, attemptAge, monitorVars, opVars>>

\* The socket is open; the database is selected next, without a timeout.
Connected(i) ==
    /\ Quiet
    /\ SelectsDb /\ client /\ redis # "down"
    /\ attempt[i] = "connecting"
    /\ attempt' = [attempt EXCEPT ![i] = "selecting"]
    /\ linkUp' = TRUE
    /\ UNCHANGED <<breakerVars, redis, cacheVars, reconnectPromise,
                   reconnectAttempts, attemptAge, monitorVars, opVars>>

\* Mutant: only the owner of the attempt goes on.
SettleOwner(i, outcome) ==
    /\ Quiet
    /\ attempt[i] \in {"connecting", "selecting"}
    /\ attempt' = [attempt EXCEPT ![i] = "none"]
    /\ reconnectPromise' = NoOp
    /\ pc' = [pc EXCEPT ![i] = outcome]
    /\ awaits' = [awaits EXCEPT ![i] = NoOp]

\* The promise settles: everyone who awaited it goes on, and the owner's
\* finally clears the field, whoever owns it by now.
Settle(i, outcome) ==
    /\ Quiet
    /\ attempt[i] \in {"connecting", "selecting"}
    /\ attempt' = [attempt EXCEPT ![i] = "none"]
    /\ reconnectPromise' = NoOp
    /\ pc' = [o \in Ops |-> IF awaits[o] = i THEN outcome ELSE pc[o]]
    /\ awaits' = [o \in Ops |-> IF awaits[o] = i THEN NoOp ELSE awaits[o]]

\* SELECT, or PING if none is needed, was sent and reaches Redis.
Answerable(i) == IF SelectsDb THEN attempt[i] = "selecting" /\ linkUp ELSE TRUE

\* Mutant: the attempt does not notice that disconnect() took the client.
ReconnectSucceedsAnyway(i) ==
    /\ redis = "up"
    /\ Settle(i, "reconnected")
    /\ linkUp' = TRUE
    /\ reconnectAttempts' = 0
    /\ UNCHANGED <<breakerVars, redis, cacheVars, attemptAge, monitorVars>>

\* connect(), SELECT and PING all succeed.
ReconnectSucceeds(i) ==
    /\ client /\ redis = "up" /\ Answerable(i)
    /\ Settle(i, "reconnected")
    /\ linkUp' = TRUE
    /\ reconnectAttempts' = 0
    /\ UNCHANGED <<breakerVars, redis, cacheVars, attemptAge, monitorVars>>

\* Refused, reset or timed out, or its socket closed by disconnect().
ReconnectRefused(i) ==
    /\ ~client \/ redis = "down" \/ (attempt[i] = "selecting" /\ ~linkUp)
    /\ Settle(i, "refused")
    /\ UNCHANGED <<breakerVars, serverVars, cacheVars, reconnectAttempts,
                   attemptAge, monitorVars>>

\* The socket opens but PING is answered with LOADING, or the client is gone
\* after disconnect(): an error that is no connection error.
ReconnectFails(i) ==
    /\ ~client \/ (redis = "busy" /\ Answerable(i))
    /\ Settle(i, "failed")
    /\ linkUp' = (linkUp \/ client)
    /\ UNCHANGED <<breakerVars, redis, cacheVars, reconnectAttempts,
                   attemptAge, monitorVars>>

(***************************************************************************)
(* ensureConnected after the await                                         *)
(***************************************************************************)

\* Each waiter marks the connection usable, reports a success of its own and
\* sends its command, whatever the state of the breaker is by now.
Reconnected(o) ==
    /\ Goes(o, "reconnected", Sent)
    /\ isConnected' = TRUE
    /\ Breaker!RecordSuccess
    /\ UNCHANGED <<serverVars, client, shuttingDown, reconnectVars,
                   monitorVars, awaits>>

\* recordFailure(result.error), then throw.
Refused(o) ==
    /\ Goes(o, "refused", "thrown")
    /\ Breaker!RecordFailure
    /\ UNCHANGED <<serverVars, cacheVars, reconnectVars, monitorVars, awaits>>

Failed(o) ==
    /\ Goes(o, "failed", "thrown")
    /\ Breaker!IgnoreFailure
    /\ UNCHANGED <<serverVars, cacheVars, reconnectVars, monitorVars, awaits>>

(***************************************************************************)
(* The operation's outcome                                                 *)
(***************************************************************************)
Succeed(o) ==
    /\ Quiet
    /\ o \notin Untimed
    /\ redis = "up"
    /\ Goes(o, "command", "idle")
    /\ Breaker!RecordSuccess
    /\ UNCHANGED <<serverVars, cacheVars, reconnectVars, monitorVars, awaits>>

\* Redis answers with an error that is no connection error.
ServerError(o) ==
    /\ Quiet
    /\ o \notin Untimed
    /\ redis = "busy"
    /\ Goes(o, "command", "idle")
    /\ Breaker!IgnoreFailure
    /\ UNCHANGED <<serverVars, cacheVars, reconnectVars, monitorVars, awaits>>

\* The catch of the operation: the command was lost or timed out, or the
\* error thrown by ensureConnected reads "Redis connection lost and ...",
\* which the detector takes for a connection error in its turn.
MarkConnectionBroken(o) ==
    /\ o \notin Untimed
    /\ \/ Goes(o, "lost", "idle")
       \/ Goes(o, "thrown", "idle")
       \/ Quiet /\ Goes(o, "command", "idle") /\ redis = "down"
    /\ isConnected' = FALSE
    /\ Breaker!RecordFailure
    /\ UNCHANGED <<serverVars, client, shuttingDown, reconnectVars,
                   monitorVars, awaits>>

\* getStats, isHealthy and getServerType catch every error and return zeros,
\* false or a default; neither the breaker nor isConnected learns of it.
ReturnWhatever(o) ==
    /\ o \in Untimed
    /\ \/ Goes(o, "lost", "idle")
       \/ Goes(o, "thrown", "idle")
       \/ Quiet /\ Goes(o, "command", "idle") /\ redis # "down"
    /\ UNCHANGED <<breakerVars, serverVars, cacheVars, reconnectVars, monitorVars, awaits>>

(***************************************************************************)
(* The health monitor pings without asking the breaker, and never           *)
(* reconnects                                                              *)
(***************************************************************************)
SendPing ==
    /\ Quiet
    /\ ping = "idle"
    /\ pingAge = PingInterval
    /\ ping' = "sent"
    /\ pingAge' = 0
    /\ UNCHANGED <<breakerVars, serverVars, cacheVars, reconnectVars, opVars>>

\* An answer to a ping sent before stop() still counts.
PingAnswered(record) ==
    /\ Quiet
    /\ ping \in {"sent", "stopped"}
    /\ ping' = IF ping = "sent" THEN "idle" ELSE "off"
    /\ record
    /\ UNCHANGED <<serverVars, cacheVars, reconnectVars, pingAge, opVars>>

\* After disconnect() the ping function finds no client and does nothing.
PingSucceeds ==
    /\ ~client \/ (linkUp /\ redis = "up")
    /\ PingAnswered(Breaker!RecordSuccess)

PingLost ==
    /\ client
    /\ ~linkUp \/ redis = "down"
    /\ PingAnswered(Breaker!RecordFailure)

PingServerError ==
    /\ client /\ linkUp /\ redis = "busy"
    /\ PingAnswered(Breaker!IgnoreFailure)

(***************************************************************************)
(* disconnect() while the server shuts down                                *)
(***************************************************************************)
BeginShutdown ==
    /\ Quiet
    /\ ~shuttingDown
    /\ shuttingDown' = TRUE
    /\ UNCHANGED <<breakerVars, serverVars, client, isConnected, reconnectVars,
                   monitorVars, opVars>>

\* Commands in flight on a socket that closes are rejected.
LoseCommands == pc' = [o \in Ops |-> IF pc[o] = "command" THEN "lost" ELSE pc[o]]

Disconnect ==
    /\ Quiet
    /\ shuttingDown /\ client
    /\ client' = FALSE
    /\ isConnected' = FALSE
    /\ linkUp' = FALSE
    /\ LoseCommands
    /\ ping' = IF ping = "sent" THEN "stopped" ELSE "off"
    /\ reconnectPromise' = NoOp
    /\ reconnectAttempts' = 0
    /\ attemptAge' = Cooldown + 1
    /\ UNCHANGED <<breakerVars, redis, shuttingDown, attempt, pingAge, awaits>>

(***************************************************************************)
(* The environment                                                         *)
(***************************************************************************)

\* The socket may survive a short outage, or break with the server.
RedisChanges(new) ==
    /\ Quiet
    /\ redis # new
    /\ redis' = new
    /\ \/ new = "down" /\ linkUp' = FALSE /\ LoseCommands
       \/ UNCHANGED <<linkUp, pc>>
    /\ UNCHANGED <<breakerVars, cacheVars, reconnectVars, monitorVars, awaits>>

\* A ping is sent on time and answered, or timed out, before the next tick.
Tick ==
    /\ Quiet
    /\ ping = "idle" => pingAge < PingInterval
    /\ ping \notin {"sent", "stopped"}
    /\ Breaker!Tick
    /\ attemptAge' = IF attemptAge > Cooldown THEN attemptAge ELSE attemptAge + 1
    /\ pingAge' = IF pingAge < PingInterval THEN pingAge + 1 ELSE pingAge
    /\ UNCHANGED <<serverVars, cacheVars, reconnectPromise, reconnectAttempts,
                   attempt, ping, opVars>>

\* A caller that reaches Redis or the reconnection manager.
Call(o) ==
    \/ SendCommand(o)
    \/ JoinReconnect(o)
    \/ StartReconnect(o)
    \/ Exhausted(o)

\* What an admitted operation, or its attempt, does after an await.
Resume(o) ==
    \/ DelayOver(o)
    \/ Connected(o)
    \/ ReconnectSucceeds(o)
    \/ ReconnectRefused(o)
    \/ ReconnectFails(o)
    \/ Reconnected(o)
    \/ Refused(o)
    \/ Failed(o)
    \/ Succeed(o)
    \/ ServerError(o)
    \/ MarkConnectionBroken(o)
    \/ ReturnWhatever(o)

Pings == SendPing \/ PingSucceeds \/ PingLost \/ PingServerError

Next ==
    \/ \E o \in Ops : BlockedByBreaker(o) \/ NotConnectable(o)
    \/ \E o \in Ops : Call(o)
    \/ \E o \in Ops : Resume(o)
    \/ Pings
    \/ BeginShutdown
    \/ Disconnect
    \/ \E new \in {"up", "busy", "down"} : RedisChanges(new)
    \/ Tick

Spec == Init /\ [][Next]_vars

\* What was sent over an open socket without a timeout may never be answered.
MayHang(o) ==
    /\ client /\ linkUp
    /\ attempt[o] = "selecting" \/ (o \in Untimed /\ pc[o] = "command")

(***************************************************************************)
(* Timers fire and awaited promises settle, if a timeout or a closing       *)
(* socket sees to it: the event loop serves every event in turn, also one   *)
(* that has to wait for other continuations again and again (hence strong   *)
(* fairness).  Traffic goes on: a call that the breaker would admit again   *)
(* and again is made.                                                       *)
(***************************************************************************)
Fairness ==
    /\ SF_vars(Tick)
    /\ SF_vars(Pings)
    /\ \A o \in Ops : SF_vars(~MayHang(o) /\ Resume(o)) /\ SF_vars(Call(o))

FairSpec == Spec /\ Fairness

(***************************************************************************)
(* Properties                                                              *)
(***************************************************************************)

\* Types and bounds; executeReconnect never counts past maxAttempts.
TypeOK ==
    /\ Breaker!TypeOK
    /\ redis \in {"up", "busy", "down"}
    /\ linkUp \in BOOLEAN /\ client \in BOOLEAN /\ isConnected \in BOOLEAN
    /\ shuttingDown \in BOOLEAN
    /\ reconnectPromise \in Ops \cup {NoOp}
    /\ reconnectAttempts \in 0..MaxAttempts
    /\ attemptAge \in 0..(Cooldown + 1)
    /\ attempt \in [Ops -> {"none", "delay", "connecting", "selecting"}]
    /\ ping \in {"off", "idle", "sent", "stopped"}
    /\ pingAge \in 0..PingInterval
    /\ pc \in [Ops -> {"idle", "waiting", "command", "reconnected", "refused",
                       "failed", "lost", "thrown"}]
    /\ awaits \in [Ops -> Ops \cup {NoOp}]

\* However many operations find the connection broken, at most one of them
\* reconnects (the mutex of executeReconnect); also when disconnect() clears
\* the mutex under a running attempt.
OneReconnectAtATime ==
    Cardinality({o \in Ops : attempt[o] # "none"}) <= 1

\* An operation waits only for an attempt that is still running, so no
\* operation is left behind by an attempt that has settled.
WaitersHaveAnAttempt ==
    \A o \in Ops :
        /\ pc[o] = "waiting" <=> awaits[o] # NoOp
        /\ awaits[o] # NoOp => attempt[awaits[o]] # "none"

\* After disconnect() no late reconnection and no late answer marks the
\* closed client connected again.
ConnectedHasClient == isConnected => client

\* What the manager promises, SharedAttempt: an operation that needs a
\* connection makes the one attempt or joins it, and all that waited go on with
\* its outcome, also when disconnect() clears the mutex under the attempt.
Outcomes == {"reconnected", "refused", "failed"}

Promise == INSTANCE SharedAttempt WITH
    Callers <- Ops,
    Nothing <- "nothing",
    running <- {o \in Ops : attempt[o] # "none"},
    waiting <- {o \in Ops : awaits[o] # NoOp},
    told    <- [o \in Ops |-> IF pc[o] \in Outcomes THEN pc[o] ELSE "nothing"]

ImplementsSharedAttempt == Promise!Spec

\* The SELECT of an attempt is pending on an open socket.
SelectPending == client /\ linkUp /\ \E o \in Ops : attempt[o] = "selecting"

\* Every cache call whose command has a timeout returns to its caller, through
\* outages and shutdown, whatever becomes of the calls without one.  Only a
\* SELECT that is never answered keeps callers waiting, and only as long as
\* the socket stays open: disconnect() or a broken socket frees them too.
EveryCallReturns ==
    \/ \A o \in Ops \ Untimed : pc[o] # "idle" ~> pc[o] = "idle"
    \/ <>[]SelectPending

\* When Redis and the socket to it are up for good and the server runs on, the
\* cache ends up connected with a closed breaker, also through a cooldown of
\* the attempts and pings that keep coming more often than the breaker tests
\* Redis again; unless a SELECT is never answered.
RecoversWithTheSocket ==
    <>[](redis = "up" /\ linkUp /\ ~shuttingDown)
        => <>[](isConnected /\ state = "closed") \/ <>[]SelectPending

\* When Redis is back for good and the server runs on, the cache ends up
\* connected with a closed breaker.
RecoversWhenRedisReturns ==
    <>[](redis = "up" /\ ~shuttingDown)
        => <>[](isConnected /\ linkUp /\ state = "closed")
=============================================================================
