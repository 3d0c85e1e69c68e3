------------------------ MODULE SharedRedisCacheProofs ------------------------
(***************************************************************************)
(* Theorems about the Redis cache client, for any finite set of concurrent *)
(* operations and every value of the limits and intervals.                 *)
(***************************************************************************)
EXTENDS SharedRedisCache, FiniteSetTheorems, TLAPS

(***************************************************************************)
(* The breaker inside the client                                           *)
(***************************************************************************)

BreakerInv ==
    /\ Breaker!TypeOK
    /\ Breaker!ClosedBelowThreshold
    /\ Breaker!ProbesOnlyWhileHalfOpen

\* Every step of the client is one operation of the breaker, or leaves the
\* breaker alone.
LEMMA StepOfTheBreaker == [Next]_vars => [Breaker!Next]_(Breaker!vars)
<1> SUFFICES ASSUME [Next]_vars
             PROVE  [Breaker!Next]_(Breaker!vars)
  OBVIOUS
<1> USE DEF Breaker!Next, Breaker!vars, breakerVars
<1>1. CASE \E o \in Ops : BlockedByBreaker(o) \/ NotConnectable(o)
  BY <1>1 DEF BlockedByBreaker, NotConnectable, vars
<1>2. CASE \E o \in Ops : Call(o)
  BY <1>2 DEF Call, SendCommand, JoinReconnect, StartReconnect, Exhausted
<1>3. CASE \E o \in Ops : Resume(o)
  BY <1>3 DEF Resume, DelayOver, Connected, ReturnWhatever, ReconnectSucceeds, ReconnectRefused, ReconnectFails,
              Reconnected, Refused, Failed, Succeed, ServerError, MarkConnectionBroken
<1>4. CASE Pings
  BY <1>4 DEF Pings, SendPing, PingSucceeds, PingLost, PingServerError, PingAnswered
<1>5. CASE BeginShutdown
  BY <1>5 DEF BeginShutdown
<1>6. CASE Disconnect
  BY <1>6 DEF Disconnect
<1>7. CASE \E new \in {"up", "busy", "down"} : RedisChanges(new)
  BY <1>7 DEF RedisChanges
<1>8. CASE Tick
  BY <1>8 DEF Tick
<1>9. CASE UNCHANGED vars
  BY <1>9 DEF vars
<1>10. QED
  BY <1>1, <1>2, <1>3, <1>4, <1>5, <1>6, <1>7, <1>8, <1>9 DEF Next

\* Whatever the operations, attempts and pings do, what the breaker sees is a
\* behaviour of the breaker alone.
THEOREM BreakerIsUsedAsSpecified == Spec => Breaker!Spec
<1>1. Init => Breaker!Init
  BY DEF Init
<1>2. QED
  BY <1>1, StepOfTheBreaker, PTL DEF Spec, Breaker!Spec

\* The breaker of the cache starts closed, with nothing counted.
LEMMA BreakerInvInit == Breaker!Init => BreakerInv
BY CacheAssumption
   DEF Breaker!Init, BreakerInv, Breaker!TypeOK, Breaker!ClosedBelowThreshold,
       Breaker!ProbesOnlyWhileHalfOpen

\* No operation of the breaker breaks its invariant.
LEMMA BreakerInvNext == BreakerInv /\ [Breaker!Next]_(Breaker!vars) => BreakerInv'
<1> SUFFICES ASSUME BreakerInv, [Breaker!Next]_(Breaker!vars)
             PROVE  BreakerInv'
  OBVIOUS
<1> USE CacheAssumption
    DEF BreakerInv, Breaker!TypeOK, Breaker!ClosedBelowThreshold,
        Breaker!ProbesOnlyWhileHalfOpen
<1>1. CASE Breaker!Admit
  BY <1>1 DEF Breaker!Admit, Breaker!AdmitsNow, Breaker!ResetDue
<1>2. CASE Breaker!RecordSuccess
  BY <1>2 DEF Breaker!RecordSuccess, Breaker!LastProbe
<1>3. CASE Breaker!RecordFailure
  BY <1>3 DEF Breaker!RecordFailure, Breaker!OneMore
<1>4. CASE Breaker!Reset
  BY <1>4 DEF Breaker!Reset
<1>5. CASE Breaker!Tick
  BY <1>5 DEF Breaker!Tick, Breaker!Elapsed
<1>6. CASE Breaker!Reject \/ Breaker!IgnoreFailure \/ UNCHANGED Breaker!vars
  BY <1>6 DEF Breaker!Reject, Breaker!IgnoreFailure, Breaker!vars
<1>7. QED
  BY <1>1, <1>2, <1>3, <1>4, <1>5, <1>6 DEF Breaker!Next

\* Also with the operations, the attempts and the pings all reporting to it, a
\* closed breaker has counted fewer failures than open it.
THEOREM ClosedBreakerIsBelowThreshold == Spec => []Breaker!ClosedBelowThreshold
<1>1. Breaker!Init => BreakerInv
  BY BreakerInvInit
<1>2. BreakerInv /\ [Breaker!Next]_(Breaker!vars) => BreakerInv'
  BY BreakerInvNext
<1>3. BreakerInv => Breaker!ClosedBelowThreshold
  BY DEF BreakerInv
<1>4. QED
  BY <1>1, <1>2, <1>3, BreakerIsUsedAsSpecified, PTL DEF Breaker!Spec

(***************************************************************************)
(* Types                                                                   *)
(***************************************************************************)

\* The initial state has the declared types.
LEMMA TypeInit == Init => TypeOK
<1> SUFFICES ASSUME Init PROVE TypeOK
  OBVIOUS
<1>1. Breaker!TypeOK
  BY BreakerInvInit DEF Init, BreakerInv
<1>2. /\ attemptAge \in 0..(Cooldown + 1)
      /\ reconnectAttempts \in 0..MaxAttempts
      /\ pingAge \in 0..PingInterval
  BY CacheAssumption DEF Init
<1>3. /\ redis \in {"up", "busy", "down"}
      /\ linkUp \in BOOLEAN /\ client \in BOOLEAN /\ isConnected \in BOOLEAN
      /\ shuttingDown \in BOOLEAN
      /\ reconnectPromise \in Ops \cup {NoOp}
      /\ ping \in {"off", "idle", "sent", "stopped"}
  BY DEF Init
<1>4. /\ attempt \in [Ops -> {"none", "delay", "connecting", "selecting"}]
      /\ pc \in [Ops -> {"idle", "waiting", "command", "reconnected", "refused",
                         "failed", "lost", "thrown"}]
      /\ awaits \in [Ops -> Ops \cup {NoOp}]
  BY DEF Init
<1>5. QED
  BY <1>1, <1>2, <1>3, <1>4 DEF TypeOK

\* The calls keep the types: executeReconnect adds one only below maxAttempts.
LEMMA TypeCall ==
    ASSUME TypeOK, Breaker!TypeOK', NEW o \in Ops, Call(o)
    PROVE  TypeOK'
<1> USE CacheAssumption DEF TypeOK, Goes, cacheVars, serverVars, reconnectVars, monitorVars
<1>1. CASE SendCommand(o)
  BY <1>1 DEF SendCommand, Sent
<1>2. CASE JoinReconnect(o)
  BY <1>2 DEF JoinReconnect
<1>3. CASE StartReconnect(o)
  <2>1. reconnectAttempts' \in 0..MaxAttempts
    BY <1>3 DEF StartReconnect, AttemptsNow
  <2>2. attemptAge' \in 0..(Cooldown + 1)
    BY <1>3 DEF StartReconnect
  <2>3. attempt' \in [Ops -> {"none", "delay", "connecting", "selecting"}]
    BY <1>3 DEF StartReconnect
  <2>4. pc' \in [Ops -> {"idle", "waiting", "command", "reconnected", "refused",
                         "failed", "lost", "thrown"}]
    BY <1>3 DEF StartReconnect
  <2>5. QED
    BY <1>3, <2>1, <2>2, <2>3, <2>4 DEF StartReconnect
<1>4. CASE Exhausted(o)
  BY <1>4 DEF Exhausted
<1>5. QED
  BY <1>1, <1>2, <1>3, <1>4 DEF Call

\* What settling an attempt does to the fields it writes.
LEMMA TypeSettle ==
    ASSUME TypeOK, NEW i \in Ops, NEW outcome \in {"reconnected", "refused", "failed"},
           Settle(i, outcome)
    PROVE  /\ reconnectPromise' = NoOp
           /\ attempt' \in [Ops -> {"none", "delay", "connecting", "selecting"}]
           /\ pc' \in [Ops -> {"idle", "waiting", "command", "reconnected", "refused",
                               "failed", "lost", "thrown"}]
           /\ awaits' \in [Ops -> Ops \cup {NoOp}]
BY DEF TypeOK, Settle

\* Attempts and operations that go on keep the types.
LEMMA TypeResume ==
    ASSUME TypeOK, Breaker!TypeOK', NEW o \in Ops, Resume(o)
    PROVE  TypeOK'
<1> USE CacheAssumption DEF cacheVars, serverVars, monitorVars, opVars
<1>1. CASE DelayOver(o)
  BY <1>1 DEF TypeOK, DelayOver
<1>0. CASE Connected(o)
  BY <1>0 DEF TypeOK, Connected
<1>2. CASE ReconnectSucceeds(o)
  BY <1>2, TypeSettle DEF TypeOK, ReconnectSucceeds
<1>3. CASE ReconnectRefused(o)
  BY <1>3, TypeSettle DEF TypeOK, ReconnectRefused
<1>4. CASE ReconnectFails(o)
  BY <1>4, TypeSettle DEF TypeOK, ReconnectFails
<1>5. CASE Reconnected(o) \/ Refused(o) \/ Failed(o) \/ Succeed(o) \/ ServerError(o)
  BY <1>5 DEF TypeOK, Goes, Reconnected, Refused, Failed, Succeed, ServerError, Sent,
              reconnectVars
<1>6. CASE MarkConnectionBroken(o) \/ ReturnWhatever(o)
  BY <1>6 DEF TypeOK, Goes, MarkConnectionBroken, ReturnWhatever, reconnectVars
<1>7. QED
  BY <1>0, <1>1, <1>2, <1>3, <1>4, <1>5, <1>6 DEF Resume

\* Every step keeps the types.
LEMMA TypeNext == TypeOK /\ Breaker!TypeOK' /\ [Next]_vars => TypeOK'
<1> SUFFICES ASSUME TypeOK, Breaker!TypeOK', [Next]_vars
             PROVE  TypeOK'
  OBVIOUS
<1> USE CacheAssumption DEF cacheVars, serverVars, reconnectVars, monitorVars, opVars
<1>1. CASE \E o \in Ops : BlockedByBreaker(o) \/ NotConnectable(o)
  BY <1>1 DEF TypeOK, BlockedByBreaker, NotConnectable, vars
<1>2. CASE \E o \in Ops : Call(o)
  BY <1>2, TypeCall
<1>3. CASE \E o \in Ops : Resume(o)
  BY <1>3, TypeResume
<1>4. CASE Pings
  BY <1>4 DEF TypeOK, Pings, SendPing, PingSucceeds, PingLost, PingServerError, PingAnswered
<1>5. CASE BeginShutdown
  BY <1>5 DEF TypeOK, BeginShutdown
<1>6. CASE Disconnect
  <2>1. attemptAge' \in 0..(Cooldown + 1) /\ reconnectAttempts' \in 0..MaxAttempts
    BY <1>6 DEF Disconnect
  <2>2. pc' \in [Ops -> {"idle", "waiting", "command", "reconnected", "refused",
                         "failed", "lost", "thrown"}]
    BY <1>6 DEF TypeOK, Disconnect, LoseCommands
  <2>3. QED
    BY <1>6, <2>1, <2>2 DEF TypeOK, Disconnect
<1>7. CASE \E new \in {"up", "busy", "down"} : RedisChanges(new)
  BY <1>7 DEF TypeOK, RedisChanges, LoseCommands
<1>8. CASE Tick
  BY <1>8 DEF TypeOK, Tick
<1>9. CASE UNCHANGED vars
  BY <1>9 DEF TypeOK, vars
<1>10. QED
  BY <1>1, <1>2, <1>3, <1>4, <1>5, <1>6, <1>7, <1>8, <1>9 DEF Next

(***************************************************************************)
(* Reconnections and their waiters                                         *)
(***************************************************************************)

OneAttempt ==
    \A o, p \in Ops : attempt[o] # "none" /\ attempt[p] # "none" => o = p

\* While there is a client, the shared promise is that of the running attempt.
PromiseIsTheAttempt ==
    client => \A o \in Ops : attempt[o] # "none" <=> reconnectPromise = o

\* Without a client, which only disconnect() takes, nobody can join an attempt
\* or mark the connection usable.
NothingWithoutClient ==
    ~client => /\ reconnectPromise = NoOp
               /\ ~isConnected
               /\ \A o \in Ops : pc[o] # "reconnected"

\* Why there is one attempt at a time, and why no waiter is left behind: until
\* disconnect() clears it, the promise names the only running attempt, and
\* after it no attempt starts and no operation joins one.
ReconnectInv ==
    /\ TypeOK
    /\ BreakerInv
    /\ OneAttempt
    /\ PromiseIsTheAttempt
    /\ NothingWithoutClient
    /\ WaitersHaveAnAttempt

\* At the start nobody reconnects and nobody waits.
LEMMA ReconnectInvInit == Init => ReconnectInv
<1> SUFFICES ASSUME Init PROVE ReconnectInv
  OBVIOUS
<1>1. TypeOK /\ BreakerInv
  BY TypeInit, BreakerInvInit DEF Init
<1>2. OneAttempt /\ PromiseIsTheAttempt /\ NothingWithoutClient /\ WaitersHaveAnAttempt
  BY CacheAssumption DEF Init, OneAttempt, PromiseIsTheAttempt, NothingWithoutClient,
                         WaitersHaveAnAttempt
<1>3. QED
  BY <1>1, <1>2 DEF ReconnectInv

\* The conjuncts of ReconnectInv about reconnections.
AttemptsInv ==
    OneAttempt /\ PromiseIsTheAttempt /\ NothingWithoutClient /\ WaitersHaveAnAttempt

\* A call keeps them: only a call that finds no promise starts an attempt.
LEMMA AttemptsCall ==
    ASSUME TypeOK, AttemptsInv, NEW o \in Ops, Call(o)
    PROVE  AttemptsInv'
<1> USE CacheAssumption
    DEF AttemptsInv, OneAttempt, PromiseIsTheAttempt, NothingWithoutClient,
        WaitersHaveAnAttempt, TypeOK, Goes, cacheVars, reconnectVars
<1>1. CASE SendCommand(o)
  BY <1>1 DEF SendCommand, Sent
<1>2. CASE JoinReconnect(o)
  BY <1>2 DEF JoinReconnect
<1>3. CASE StartReconnect(o)
  BY <1>3 DEF StartReconnect
<1>4. CASE Exhausted(o)
  BY <1>4 DEF Exhausted
<1>5. QED
  BY <1>1, <1>2, <1>3, <1>4 DEF Call

\* An attempt that settles takes all its waiters with it.
LEMMA AttemptsSettle ==
    ASSUME TypeOK, AttemptsInv, NEW i \in Ops,
           NEW outcome \in {"reconnected", "refused", "failed"},
           Settle(i, outcome), outcome = "reconnected" => client,
           client' = client, isConnected' = isConnected
    PROVE  AttemptsInv'
<1> USE CacheAssumption DEF AttemptsInv, TypeOK, Settle
<1>1. OneAttempt'
  BY DEF OneAttempt
<1>2. PromiseIsTheAttempt'
  BY DEF OneAttempt, PromiseIsTheAttempt
<1>3. NothingWithoutClient'
  BY DEF NothingWithoutClient
<1>4. WaitersHaveAnAttempt'
  BY DEF WaitersHaveAnAttempt
<1>5. QED
  BY <1>1, <1>2, <1>3, <1>4

\* What goes on after an await keeps them.
LEMMA AttemptsResume ==
    ASSUME TypeOK, AttemptsInv, NEW o \in Ops, Resume(o)
    PROVE  AttemptsInv'
<1>1. CASE ReconnectSucceeds(o)
  BY <1>1, AttemptsSettle DEF ReconnectSucceeds, cacheVars
<1>2. CASE ReconnectRefused(o)
  BY <1>2, AttemptsSettle DEF ReconnectRefused, cacheVars
<1>3. CASE ReconnectFails(o)
  BY <1>3, AttemptsSettle DEF ReconnectFails, cacheVars
<1> USE CacheAssumption
    DEF AttemptsInv, OneAttempt, PromiseIsTheAttempt, NothingWithoutClient,
        WaitersHaveAnAttempt, TypeOK, Goes, cacheVars, reconnectVars, opVars
<1>4. CASE DelayOver(o) \/ Connected(o)
  BY <1>4 DEF DelayOver, Connected
<1>5. CASE Reconnected(o)
  BY <1>5 DEF Reconnected, Sent
<1>6. CASE Refused(o) \/ Failed(o) \/ Succeed(o) \/ ServerError(o)
  BY <1>6 DEF Refused, Failed, Succeed, ServerError
<1>7. CASE MarkConnectionBroken(o) \/ ReturnWhatever(o)
  BY <1>7 DEF MarkConnectionBroken, ReturnWhatever
<1>8. QED
  BY <1>1, <1>2, <1>3, <1>4, <1>5, <1>6, <1>7 DEF Resume

\* disconnect() runs when no operation is about to mark the connection usable,
\* and leaves a running attempt to its waiters.
LEMMA AttemptsDisconnect ==
    ASSUME TypeOK, AttemptsInv, Disconnect
    PROVE  AttemptsInv'
<1> USE CacheAssumption DEF AttemptsInv, TypeOK, Disconnect, LoseCommands
<1>1. OneAttempt' /\ PromiseIsTheAttempt'
  BY DEF OneAttempt, PromiseIsTheAttempt
<1>2. NothingWithoutClient'
  BY DEF NothingWithoutClient, Quiet
<1>3. WaitersHaveAnAttempt'
  BY DEF WaitersHaveAnAttempt
<1>4. QED
  BY <1>1, <1>2, <1>3

\* Every step of the cache, its operations and its monitor keeps the
\* reconnection's invariant.
LEMMA ReconnectInvNext == ReconnectInv /\ [Next]_vars => ReconnectInv'
<1> SUFFICES ASSUME ReconnectInv, [Next]_vars
             PROVE  ReconnectInv'
  OBVIOUS
<1>1. BreakerInv'
  BY StepOfTheBreaker, BreakerInvNext DEF ReconnectInv
<1>2. TypeOK'
  BY <1>1, TypeNext DEF ReconnectInv, BreakerInv
<1>3. AttemptsInv'
  <2>0. TypeOK /\ AttemptsInv
    BY DEF ReconnectInv, AttemptsInv
  <2>1. CASE \E o \in Ops : Call(o)
    BY <2>0, <2>1, AttemptsCall
  <2>2. CASE \E o \in Ops : Resume(o)
    BY <2>0, <2>2, AttemptsResume
  <2>3. CASE Disconnect
    BY <2>0, <2>3, AttemptsDisconnect
  <2> USE <2>0 DEF AttemptsInv, OneAttempt, PromiseIsTheAttempt, NothingWithoutClient,
                   WaitersHaveAnAttempt, TypeOK, cacheVars, reconnectVars, opVars
  <2>4. CASE \E new \in {"up", "busy", "down"} : RedisChanges(new)
    BY <2>4 DEF RedisChanges, LoseCommands
  <2>5. CASE (\E o \in Ops : BlockedByBreaker(o) \/ NotConnectable(o)) \/ UNCHANGED vars
    BY <2>5 DEF BlockedByBreaker, NotConnectable, vars
  <2>6. CASE Pings
    BY <2>6 DEF Pings, SendPing, PingSucceeds, PingLost, PingServerError, PingAnswered
  <2>7. CASE BeginShutdown
    BY <2>7 DEF BeginShutdown
  <2>8. CASE Tick
    BY <2>8 DEF Tick
  <2>9. QED
    BY <2>1, <2>2, <2>3, <2>4, <2>5, <2>6, <2>7, <2>8 DEF Next
<1>4. QED
  BY <1>1, <1>2, <1>3 DEF ReconnectInv, AttemptsInv

\* In every behaviour at most one attempt to reconnect is under way, and those
\* who wait for it wait for that one.
THEOREM ReconnectInvariant == Spec => []ReconnectInv
<1>1. Init => ReconnectInv
  BY ReconnectInvInit
<1>2. ReconnectInv /\ [Next]_vars => ReconnectInv'
  BY ReconnectInvNext
<1>3. QED
  BY <1>1, <1>2, PTL DEF Spec

\* Types and bounds; the reconnection manager never counts past maxAttempts.
THEOREM TypesAndBounds == Spec => []TypeOK
<1>1. ReconnectInv => TypeOK
  BY DEF ReconnectInv
<1>2. QED
  BY <1>1, ReconnectInvariant, PTL

\* At most one attempt runs at a time, however many operations find the
\* connection broken and whenever disconnect() clears the mutex.
THEOREM AtMostOneReconnects == Spec => []OneReconnectAtATime
<1>1. ReconnectInv => OneReconnectAtATime
  <2> SUFFICES ASSUME OneAttempt PROVE OneReconnectAtATime
    BY DEF ReconnectInv
  <2> DEFINE A == {o \in Ops : attempt[o] # "none"}
  <2>1. CASE A = {}
    <3>1. Cardinality(A) = 0
      BY <2>1, FS_EmptySet
    <3>2. QED
      BY <3>1 DEF OneReconnectAtATime
  <2>2. CASE A # {}
    <3>1. PICK a : a \in A
      BY <2>2
    <3>2. A = {a}
      BY <3>1 DEF OneAttempt
    <3>3. Cardinality({a}) = 1
      BY FS_Singleton, Zenon
    <3>4. Cardinality(A) = 1
      BY <3>2, <3>3
    <3>5. QED
      BY <3>4 DEF OneReconnectAtATime
  <2>3. QED
    BY <2>1, <2>2
<1>2. QED
  BY <1>1, ReconnectInvariant, PTL

\* An operation waits only for an attempt that still runs.
THEOREM NoWaiterIsLeftBehind == Spec => []WaitersHaveAnAttempt
<1>1. ReconnectInv => WaitersHaveAnAttempt
  BY DEF ReconnectInv
<1>2. QED
  BY <1>1, ReconnectInvariant, PTL

\* Nothing marks a client connected that disconnect() has closed.
THEOREM ConnectedOnlyWithClient == Spec => []ConnectedHasClient
<1>1. ReconnectInv => ConnectedHasClient
  BY DEF ReconnectInv, NothingWithoutClient, ConnectedHasClient
<1>2. QED
  BY <1>1, ReconnectInvariant, PTL

(***************************************************************************)
(* The promise of the reconnection manager                                 *)
(***************************************************************************)

\* A step that neither ends an attempt nor touches whom it concerns is none of
\* the promise's.
LEMMA NotOfTheAttempt ==
    ASSUME TypeOK, UNCHANGED <<attempt, awaits>>,
           \A o \in Ops : (pc[o] \in Outcomes \/ pc'[o] \in Outcomes) => pc'[o] = pc[o]
    PROVE  UNCHANGED Promise!vars
BY DEF Promise!vars

\* A call that finds no connection makes the attempt or joins it.
LEMMA CallOfTheAttempt ==
    ASSUME ReconnectInv, NEW o \in Ops, Call(o)
    PROVE  [Promise!Next]_(Promise!vars)
<1>0. /\ pc \in [Ops -> {"idle", "waiting", "command", "reconnected", "refused",
                         "failed", "lost", "thrown"}]
      /\ awaits \in [Ops -> Ops \cup {NoOp}]
      /\ attempt \in [Ops -> {"none", "delay", "connecting", "selecting"}]
      /\ TypeOK
  BY DEF ReconnectInv, TypeOK
<1>1. CASE SendCommand(o) \/ Exhausted(o)
  <2>1. UNCHANGED <<attempt, awaits>>
    BY <1>1 DEF SendCommand, Exhausted, reconnectVars
  <2>2. pc' = [pc EXCEPT ![o] = pc'[o]] /\ pc[o] = "idle" /\ pc'[o] \notin Outcomes
    BY <1>0, <1>1 DEF SendCommand, Exhausted, Goes, Sent, Outcomes
  <2>3. QED
    BY <1>0, <2>1, <2>2, NotOfTheAttempt DEF Outcomes
<1>2. CASE JoinReconnect(o)
  <2>1. attempt' = attempt /\ pc[o] = "idle"
    BY <1>2 DEF JoinReconnect, Goes, reconnectVars
  <2>2. \E p \in Ops : attempt[p] # "none"
    BY <1>0, <1>2 DEF JoinReconnect, ReconnectInv, PromiseIsTheAttempt, TypeOK
  <2>3. awaits[o] = NoOp
    BY <2>1 DEF ReconnectInv, WaitersHaveAnAttempt
  <2>4. awaits' = [awaits EXCEPT ![o] = reconnectPromise] /\ reconnectPromise \in Ops
    BY <1>2 DEF JoinReconnect, ReconnectInv, TypeOK
  <2>5. pc' = [pc EXCEPT ![o] = "waiting"]
    BY <1>2 DEF JoinReconnect, Goes
  <2>6. Promise!Join(o)
    BY <1>0, <2>1, <2>2, <2>3, <2>4, <2>5, CacheAssumption
       DEF Promise!Join, Promise!Free, Outcomes
  <2>7. QED
    BY <2>6 DEF Promise!Next
<1>3. CASE StartReconnect(o)
  <2>1. pc[o] = "idle" /\ pc' = [pc EXCEPT ![o] = "waiting"]
    BY <1>3 DEF StartReconnect, Goes
  <2>2. \A p \in Ops : attempt[p] = "none"
    BY <1>0, <1>3, CacheAssumption
       DEF StartReconnect, ReconnectInv, PromiseIsTheAttempt
  <2>3. \A p \in Ops : awaits[p] = NoOp
    BY <1>0, <2>2 DEF ReconnectInv, WaitersHaveAnAttempt
  <2>4. awaits' = [awaits EXCEPT ![o] = o]
    BY <1>3 DEF StartReconnect
  <2>5. \E phase \in {"connecting", "delay"} : attempt' = [attempt EXCEPT ![o] = phase]
    BY <1>3 DEF StartReconnect
  <2>6. Promise!Start(o)
    BY <1>0, <2>1, <2>2, <2>3, <2>4, <2>5, CacheAssumption
       DEF Promise!Start, Promise!Free, Outcomes
  <2>7. QED
    BY <2>6 DEF Promise!Next
<1>4. QED
  BY <1>1, <1>2, <1>3 DEF Call

\* The end of an attempt is everybody's who waits.
LEMMA SettleOfTheAttempt ==
    ASSUME ReconnectInv, NEW i \in Ops, NEW outcome \in Outcomes, Settle(i, outcome)
    PROVE  Promise!Next
<1>1. \A o \in Ops : awaits[o] # NoOp <=> awaits[o] = i
  BY CacheAssumption
     DEF ReconnectInv, TypeOK, WaitersHaveAnAttempt, OneAttempt, Settle
<1>2. attempt[i] # "none" /\ \A o \in Ops : attempt'[o] = "none"
  BY DEF ReconnectInv, TypeOK, OneAttempt, Settle
<1>3. /\ pc' = [o \in Ops |-> IF awaits[o] = i THEN outcome ELSE pc[o]]
      /\ awaits' = [o \in Ops |-> IF awaits[o] = i THEN NoOp ELSE awaits[o]]
  BY DEF Settle
<1>4. Promise!End(outcome)
  BY <1>1, <1>2, <1>3 DEF Promise!End
<1>5. QED
  BY <1>4 DEF Promise!Next

\* What goes on after an await: an attempt that ends, or an operation that acts
\* upon what it was told.
LEMMA ResumeOfTheAttempt ==
    ASSUME ReconnectInv, NEW o \in Ops, Resume(o)
    PROVE  [Promise!Next]_(Promise!vars)
<1>0. /\ pc \in [Ops -> {"idle", "waiting", "command", "reconnected", "refused",
                         "failed", "lost", "thrown"}]
      /\ attempt \in [Ops -> {"none", "delay", "connecting", "selecting"}]
      /\ TypeOK
  BY DEF ReconnectInv, TypeOK
<1>1. CASE DelayOver(o) \/ Connected(o)
  <2>1. UNCHANGED <<pc, awaits>>
    BY <1>1 DEF DelayOver, Connected, opVars
  <2>2. /\ attempt[o] # "none"
        /\ \E phase \in {"connecting", "selecting"} : attempt' = [attempt EXCEPT ![o] = phase]
    BY <1>1 DEF DelayOver, Connected
  <2>3. {p \in Ops : attempt'[p] # "none"} = {p \in Ops : attempt[p] # "none"}
    BY <1>0, <2>2
  <2>4. QED
    BY <2>1, <2>3 DEF Promise!vars
<1>2. CASE ReconnectSucceeds(o)
  BY <1>2, SettleOfTheAttempt DEF ReconnectSucceeds, Outcomes
<1>3. CASE ReconnectRefused(o)
  BY <1>3, SettleOfTheAttempt DEF ReconnectRefused, Outcomes
<1>4. CASE ReconnectFails(o)
  BY <1>4, SettleOfTheAttempt DEF ReconnectFails, Outcomes
<1>5. CASE Reconnected(o) \/ Refused(o) \/ Failed(o)
  <2>1. UNCHANGED <<attempt, awaits>>
    BY <1>5 DEF Reconnected, Refused, Failed, reconnectVars
  <2>2. /\ pc[o] \in Outcomes
        /\ \E next \in {"command", "lost", "thrown"} : pc' = [pc EXCEPT ![o] = next]
    BY <1>5 DEF Reconnected, Refused, Failed, Goes, Sent, Outcomes
  <2>3. Promise!GoOn(o)
    BY <1>0, <2>1, <2>2 DEF Promise!GoOn, Outcomes
  <2>4. QED
    BY <2>3 DEF Promise!Next
<1>6. CASE Succeed(o) \/ ServerError(o) \/ MarkConnectionBroken(o) \/ ReturnWhatever(o)
  <2>1. UNCHANGED <<attempt, awaits>>
    BY <1>6 DEF Succeed, ServerError, MarkConnectionBroken, ReturnWhatever, reconnectVars
  <2>2. pc[o] \in {"command", "lost", "thrown"} /\ pc' = [pc EXCEPT ![o] = "idle"]
    BY <1>6 DEF Succeed, ServerError, MarkConnectionBroken, ReturnWhatever, Goes
  <2>3. QED
    BY <1>0, <2>1, <2>2, NotOfTheAttempt DEF Outcomes
<1>7. QED
  BY <1>1, <1>2, <1>3, <1>4, <1>5, <1>6 DEF Resume

\* Every step of the cache is one of the promise's, or a stutter: disconnect()
\* itself is none, it leaves the attempt and its waiters alone.
LEMMA StepOfTheAttempt ==
    ReconnectInv /\ [Next]_vars => [Promise!Next]_(Promise!vars)
<1> SUFFICES ASSUME ReconnectInv, [Next]_vars
             PROVE  [Promise!Next]_(Promise!vars)
  OBVIOUS
<1>0. TypeOK /\ pc \in [Ops -> {"idle", "waiting", "command", "reconnected", "refused",
                                "failed", "lost", "thrown"}]
  BY DEF ReconnectInv, TypeOK
<1>1. CASE \E o \in Ops : Call(o)
  BY <1>1, CallOfTheAttempt
<1>2. CASE \E o \in Ops : Resume(o)
  BY <1>2, ResumeOfTheAttempt
<1>3. CASE Disconnect \/ \E new \in {"up", "busy", "down"} : RedisChanges(new)
  <2>1. UNCHANGED <<attempt, awaits>>
    BY <1>3 DEF Disconnect, RedisChanges, reconnectVars
  <2>2. pc' = pc \/ LoseCommands
    BY <1>3 DEF Disconnect, RedisChanges
  <2>3. QED
    BY <1>0, <2>1, <2>2, NotOfTheAttempt DEF LoseCommands, Outcomes
<1>4. CASE \/ (\E o \in Ops : BlockedByBreaker(o) \/ NotConnectable(o))
           \/ Pings \/ BeginShutdown \/ Tick \/ UNCHANGED vars
  <2>1. UNCHANGED <<attempt, awaits, pc>>
    BY <1>4 DEF BlockedByBreaker, NotConnectable, Pings, SendPing, PingSucceeds, PingLost,
                PingServerError, PingAnswered, BeginShutdown, Tick, vars, reconnectVars,
                opVars
  <2>2. QED
    BY <1>0, <2>1, NotOfTheAttempt
<1>5. QED
  BY <1>1, <1>2, <1>3, <1>4 DEF Next

\* However operations, outages and disconnect() interleave, each attempt to
\* reconnect is the only one, and its outcome is the one of all who waited.
THEOREM SharedAttemptIsImplemented == Spec => ImplementsSharedAttempt
<1>1. Init => Promise!Init
  BY CacheAssumption DEF Init, Promise!Init, Outcomes
<1>2. ReconnectInv /\ [Next]_vars => [Promise!Next]_(Promise!vars)
  BY StepOfTheAttempt
<1>3. QED
  BY <1>1, <1>2, ReconnectInvariant, PTL DEF Spec, ImplementsSharedAttempt, Promise!Spec
=============================================================================
