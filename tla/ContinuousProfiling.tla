-------------------------- MODULE ContinuousProfiling --------------------------
(***************************************************************************)
(* Profiles taken automatically when an endpoint gets slow.                *)
(*                                                                         *)
(*   src/telemetry/sla-monitor.ts                   SlaMonitor             *)
(*   src/services/profiling/profile-queue-manager.ts ProfileQueueManager   *)
(*   src/services/profiling/overhead-monitor.ts     OverheadMonitor        *)
(*                                                                         *)
(* Request handlers report a latency after every request; once the         *)
(* percentiles of an endpoint exceed its thresholds a profile is           *)
(* requested.  Nothing here awaits I/O: from the report to the spawned     *)
(* profiler a report runs without interruption.  How busy the CPU is, how  *)
(* full the disk is and whether the profiler can be spawned are the        *)
(* environment's choices.                                                  *)
(***************************************************************************)
EXTENDS Naturals, Sequences, FiniteSets

CONSTANTS
    Endpoints,          \* the endpoints that have an SLA threshold
    NoEndpoint,         \* activeProfile = null
    Latencies,          \* latencies in some unit
    P95, P99,           \* the thresholds of every endpoint
    BufferSize,         \* rollingBufferSize
    Throttle,           \* slaViolationThrottleMinutes, in ticks
    ProfileTime,        \* 30 s, in ticks
    MeasureTime,        \* MAX_PROFILE_DURATION_MS, in ticks
    MaxQueue            \* MAX_QUEUE_SIZE

VARIABLES
    latencyBuffers,     \* [Endpoints -> the last latencies, oldest first]
    lastTrigger,        \* [Endpoints -> ticks since the last trigger, saturated]
    activeProfile,      \* whose profile is running, or NoEndpoint
    profileAge,         \* ticks since it started
    profileQueue,       \* the requests that wait
    storageFull,        \* the output directory is at its quota
    measuring,          \* isProfilingActive of the overhead monitor
    measureAge,         \* ticks since the measurement started
    profilingStopped,   \* isShuttingDown, of the monitor and of its queue
    sinceProfiled       \* history: ticks since an automatic profile started

vars == <<latencyBuffers, lastTrigger, activeProfile, profileAge, profileQueue,
          storageFull, measuring, measureAge, profilingStopped, sinceProfiled>>

Init ==
    /\ latencyBuffers = [e \in Endpoints |-> <<>>]
    /\ lastTrigger = [e \in Endpoints |-> Throttle]
    /\ activeProfile = NoEndpoint
    /\ profileAge = 0
    /\ profileQueue = <<>>
    /\ storageFull = FALSE
    /\ measuring = FALSE
    /\ measureAge = 0
    /\ profilingStopped = FALSE
    /\ sinceProfiled = [e \in Endpoints |-> Throttle]

(***************************************************************************)
(* SlaMonitor                                                              *)
(***************************************************************************)

\* Sorting and taking element ceil(count * percent / 100) gives the least
\* value that so many of the values do not exceed.
Percentile(values, percent) ==
    LET count == Len(values)
        rank == (count * percent + 99) \div 100
        NotAbove(v) == Cardinality({i \in 1..count : values[i] <= v})
        Reaches == {v \in {values[i] : i \in 1..count} : NotAbove(v) >= rank}
    IN  CHOOSE v \in Reaches : \A w \in Reaches : v <= w

\* The rolling buffer drops its oldest value.
Pushed(values, latency) ==
    LET longer == Append(values, latency)
    IN  IF Len(longer) > BufferSize THEN Tail(longer) ELSE longer

IsViolation(values) ==
    /\ Len(values) >= (IF BufferSize < 10 THEN BufferSize ELSE 10)
    /\ Percentile(values, 95) > P95 \/ Percentile(values, 99) > P99

CanTriggerProfiling(e) ==
    ~profilingStopped /\ lastTrigger[e] >= Throttle

\* Mutant: a running profile is left to requestProfiling, which queues the
\* request, and to a queued profile no throttle applies.
CanStartOrQueue == ~profilingStopped /\ ~storageFull

CanStartProfiling ==
    ~profilingStopped /\ activeProfile = NoEndpoint /\ ~storageFull

Report(e, latency) ==
    /\ ~profilingStopped
    /\ latencyBuffers' = [latencyBuffers EXCEPT ![e] = Pushed(@, latency)]

\* No violation, or profiling is throttled, busy, or thought too expensive
\* (which may be at any time): the violation is only counted.
RecordLatency(e, latency) ==
    /\ Report(e, latency)
    /\ UNCHANGED <<lastTrigger, activeProfile, profileAge, profileQueue, storageFull,
                   measuring, measureAge, profilingStopped, sinceProfiled>>

(***************************************************************************)
(* ProfileQueueManager and OverheadMonitor                                 *)
(***************************************************************************)

Request == [endpoint : Endpoints, reason : {"sla_violation", "manual"}]

\* startProfiling: the profiler is spawned, and a timer set to stop it.
StartProfiling(request) ==
    /\ activeProfile' = request.endpoint
    /\ profileAge' = 0
    /\ sinceProfiled' = IF request.reason = "manual" THEN sinceProfiled
                        ELSE [sinceProfiled EXCEPT ![request.endpoint] = 0]

\* Bun.spawn threw: the request is gone.
FailToStart ==
    /\ activeProfile' = NoEndpoint
    /\ UNCHANGED <<profileAge, sinceProfiled>>

\* requestProfiling, which tells its caller whether the profile started:
\* at once, queued behind the running one, or not at all.
RequestProfiling(request, started) ==
    \/ /\ started
       /\ ~profilingStopped /\ ~storageFull /\ activeProfile = NoEndpoint
       /\ StartProfiling(request)
       /\ UNCHANGED profileQueue
    \/ /\ ~started
       /\ ~profilingStopped /\ ~storageFull /\ activeProfile = NoEndpoint
       /\ FailToStart
       /\ UNCHANGED profileQueue
    \/ /\ ~started
       /\ ~profilingStopped /\ ~storageFull /\ activeProfile # NoEndpoint
       /\ Len(profileQueue) < MaxQueue
       /\ profileQueue' = Append(profileQueue, request)
       /\ UNCHANGED <<activeProfile, profileAge, sinceProfiled>>

\* A profile asked for by hand: the manager offers it, no route does.
RequestManually(e) ==
    /\ \E started \in BOOLEAN :
           RequestProfiling([endpoint |-> e, reason |-> "manual"], started)
    /\ UNCHANGED <<latencyBuffers, lastTrigger, storageFull, measuring, measureAge,
                   profilingStopped>>

\* Mutant: every trigger starts the five minutes again.
RestartMeasurement == measuring' = TRUE /\ measureAge' = 0

\* A measurement that is under way goes on; its own timer ends it.
StartProfilingMeasurement ==
    /\ measuring' = TRUE
    /\ measureAge' = IF measuring THEN measureAge ELSE 0

\* The measurement starts before the profile is requested, and whether the
\* request succeeds or not; the throttle starts only if it does.
TriggerAutomaticProfiling(e, latency) ==
    /\ Report(e, latency)
    /\ IsViolation(latencyBuffers'[e])
    /\ CanTriggerProfiling(e)
    /\ CanStartProfiling
    /\ StartProfilingMeasurement
    /\ \E started \in BOOLEAN :
           /\ RequestProfiling([endpoint |-> e, reason |-> "sla_violation"], started)
           /\ lastTrigger' = IF started THEN [lastTrigger EXCEPT ![e] = 0] ELSE lastTrigger
    /\ UNCHANGED <<storageFull, profilingStopped>>

\* The 30 s timer: the next request in the queue takes over.  If it cannot
\* be started the queue has to wait for the end of another profile.
StopProfiling ==
    /\ activeProfile # NoEndpoint
    /\ profileAge = ProfileTime
    /\ IF profileQueue # <<>>
       THEN /\ profileQueue' = Tail(profileQueue)
            /\ StartProfiling(Head(profileQueue)) \/ FailToStart
       ELSE FailToStart /\ UNCHANGED profileQueue
    /\ UNCHANGED <<latencyBuffers, lastTrigger, storageFull, measuring, measureAge,
                   profilingStopped>>

\* The timer of the overhead monitor; nothing else stops a measurement.
AutoStopMeasurement ==
    /\ measuring
    /\ measureAge = MeasureTime
    /\ measuring' = FALSE
    /\ UNCHANGED <<latencyBuffers, lastTrigger, activeProfile, profileAge, profileQueue,
                   storageFull, measureAge, profilingStopped, sinceProfiled>>

\* SlaMonitor.shutdown stops its queue, not the overhead monitor.
Shutdown ==
    /\ ~profilingStopped
    /\ profilingStopped' = TRUE
    /\ activeProfile' = NoEndpoint
    /\ profileQueue' = <<>>
    /\ latencyBuffers' = [e \in Endpoints |-> <<>>]
    /\ lastTrigger' = [e \in Endpoints |-> Throttle]
    /\ UNCHANGED <<profileAge, storageFull, measuring, measureAge, sinceProfiled>>

(***************************************************************************)
(* The environment                                                         *)
(***************************************************************************)
StorageChanges ==
    /\ storageFull' = ~storageFull
    /\ UNCHANGED <<latencyBuffers, lastTrigger, activeProfile, profileAge, profileQueue,
                   measuring, measureAge, profilingStopped, sinceProfiled>>

\* Timers that are due fire before time goes on.
Tick ==
    /\ activeProfile # NoEndpoint => profileAge < ProfileTime
    /\ measuring => measureAge < MeasureTime
    /\ lastTrigger' = [e \in Endpoints |->
            IF lastTrigger[e] < Throttle THEN lastTrigger[e] + 1 ELSE Throttle]
    /\ sinceProfiled' = [e \in Endpoints |->
            IF sinceProfiled[e] < Throttle THEN sinceProfiled[e] + 1 ELSE Throttle]
    /\ profileAge' = IF activeProfile # NoEndpoint THEN profileAge + 1 ELSE profileAge
    /\ measureAge' = IF measuring THEN measureAge + 1 ELSE measureAge
    /\ UNCHANGED <<latencyBuffers, activeProfile, profileQueue, storageFull, measuring,
                   profilingStopped>>

Timers == Tick \/ StopProfiling \/ AutoStopMeasurement

Next ==
    \/ \E e \in Endpoints, l \in Latencies :
           RecordLatency(e, l) \/ TriggerAutomaticProfiling(e, l)
    \/ \E e \in Endpoints : RequestManually(e)
    \/ StopProfiling
    \/ AutoStopMeasurement
    \/ Shutdown
    \/ StorageChanges
    \/ Tick

Spec == Init /\ [][Next]_vars

(***************************************************************************)
(* Properties                                                              *)
(***************************************************************************)

\* Types and bounds.
TypeOK ==
    /\ latencyBuffers \in [Endpoints -> UNION {[1..n -> Latencies] : n \in 0..BufferSize}]
    /\ lastTrigger \in [Endpoints -> 0..Throttle]
    /\ activeProfile \in Endpoints \cup {NoEndpoint}
    /\ profileAge \in 0..ProfileTime
    /\ profileQueue \in Seq(Request) /\ Len(profileQueue) <= MaxQueue
    /\ storageFull \in BOOLEAN
    /\ measuring \in BOOLEAN
    /\ measureAge \in 0..MeasureTime
    /\ profilingStopped \in BOOLEAN
    /\ sinceProfiled \in [Endpoints -> 0..Throttle]

\* An endpoint that stays slow is not profiled again and again: between two
\* automatic profiles of it that really started there is the throttle time,
\* whichever way the second came to start.
ProfilesAreThrottled ==
    [][\A e \in Endpoints :
         sinceProfiled'[e] < sinceProfiled[e] => sinceProfiled[e] = Throttle]_vars

\* Measuring the overhead costs a sample per second; it always ends, also
\* when every profile fails to start and violations keep coming.
MeasurementEnds == measuring ~> ~measuring
=============================================================================
