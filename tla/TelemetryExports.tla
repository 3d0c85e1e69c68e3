---------------------------- MODULE TelemetryExports ----------------------------
(***************************************************************************)
(* The exports of telemetry, what is counted of them, and the guardian     *)
(* that derives memory pressure from the counts.                           *)
(*                                                                         *)
(*   src/telemetry/instrumentation.ts        initialize-, shutdownTelemetry *)
(*   src/telemetry/export-stats-tracker.ts   trackers, wrapped exporters   *)
(*   src/telemetry/memory-guardian.ts        TelemetryMemoryGuardian       *)
(*                                                                         *)
(* An export is counted when it begins and again when it ends, and several *)
(* are under way at once.  The guardian is a singleton made by whoever     *)
(* asks for it first: a status request may do so before telemetry has been *)
(* initialized and after it was shut down, and gets one that watches       *)
(* nothing.                                                                *)
(***************************************************************************)
EXTENDS Integers, FiniteSetsExt

CONSTANTS
    MaxExports,         \* bounds the exports of a signal
    Backlog             \* failures that count as a backlog (50 in the code)

Signals == {"traces", "metrics", "logs"}
Pressures == {"normal", "elevated", "high", "critical"}

VARIABLES
    telemetryMode,      \* "off" until initialized, then "console" or "otlp"
    exports,            \* [Signals -> counts of attempts, successes, failures]
    heapPercent,        \* used heap, in percent of the configured limit
    guardian,           \* the singleton: exists, has its trackers, its interval runs
    lastPressure        \* lastHealth.pressure, "none" before the first check

exportVars == <<telemetryMode, exports, heapPercent, guardian, lastPressure>>

NoGuardian == [made |-> FALSE, tracked |-> FALSE, running |-> FALSE]
HeapLevels == {0, 60, 75, 85}

ExportsInit ==
    /\ telemetryMode = "off"
    /\ exports = [s \in Signals |-> [attempts |-> 0, succeeded |-> 0, failed |-> 0]]
    /\ heapPercent = 0
    /\ guardian = NoGuardian
    /\ lastPressure = "none"

\* initializeTelemetry.  In console mode nothing is exported and no guardian
\* is started; one that a status request made is given the trackers.
InitializeTelemetry(mode) ==
    /\ telemetryMode = "off"
    /\ telemetryMode' = mode
    /\ guardian' = IF mode = "otlp" THEN [made |-> TRUE, tracked |-> TRUE, running |-> TRUE]
                   ELSE guardian
    /\ UNCHANGED <<exports, heapPercent, lastPressure>>

(***************************************************************************)
(* The wrapped exporters                                                   *)
(***************************************************************************)
BeginExport(s) ==
    /\ telemetryMode = "otlp"
    /\ exports[s].attempts < MaxExports
    /\ exports' = [exports EXCEPT ![s].attempts = @ + 1]
    /\ UNCHANGED <<telemetryMode, heapPercent, guardian, lastPressure>>

UnderWay(s) == exports[s].attempts - exports[s].succeeded - exports[s].failed

EndExport(s, ok) ==
    /\ UnderWay(s) > 0
    /\ exports' = IF ok THEN [exports EXCEPT ![s].succeeded = @ + 1]
                  ELSE [exports EXCEPT ![s].failed = @ + 1]
    /\ UNCHANGED <<telemetryMode, heapPercent, guardian, lastPressure>>

(***************************************************************************)
(* The guardian                                                            *)
(***************************************************************************)
Largest(a, b) == IF a > b THEN a ELSE b
Rounded(part, whole) == (200 * part + whole) \div (2 * whole)

FailureRate(s) ==
    IF guardian'.tracked THEN Rounded(exports[s].failed, Largest(exports[s].attempts, 1)) ELSE 0

\* The backlog is the failures so far, which nothing makes fewer.
TotalBacklog ==
    IF guardian'.tracked THEN MapThenSumSet(LAMBDA s : exports[s].failed, Signals) ELSE 0

CalculatePressure ==
    LET failing == \E s \in Signals : FailureRate(s) >= 25
    IN  CASE heapPercent >= 85 -> "critical"
          [] heapPercent >= 75 /\ heapPercent < 85 -> "high"
          [] heapPercent >= 60 /\ heapPercent < 75 -> IF failing THEN "high" ELSE "elevated"
          [] OTHER -> IF TotalBacklog > Backlog /\ failing THEN "elevated" ELSE "normal"

\* checkHealth, by the interval
CheckHealth ==
    /\ guardian.running
    /\ guardian' = guardian
    /\ lastPressure' = CalculatePressure
    /\ UNCHANGED <<telemetryMode, exports, heapPercent>>

\* getTelemetryStatus, by /health/telemetry and /metrics
GetTelemetryStatus ==
    /\ guardian' = [guardian EXCEPT !.made = TRUE]
    /\ lastPressure' = CalculatePressure
    /\ UNCHANGED <<telemetryMode, exports, heapPercent>>

\* shutdownTelemetry; what the exporters still hold is flushed or given up.
ShutdownTelemetry ==
    /\ telemetryMode # "off"
    /\ guardian.made
    /\ guardian' = NoGuardian
    /\ lastPressure' = "none"
    /\ UNCHANGED <<telemetryMode, exports, heapPercent>>

HeapChanges ==
    \E level \in HeapLevels \ {heapPercent} :
        /\ heapPercent' = level
        /\ UNCHANGED <<telemetryMode, exports, guardian, lastPressure>>

ExportsNext ==
    \/ \E mode \in {"console", "otlp"} : InitializeTelemetry(mode)
    \/ \E s \in Signals : BeginExport(s) \/ \E ok \in BOOLEAN : EndExport(s, ok)
    \/ CheckHealth
    \/ GetTelemetryStatus
    \/ ShutdownTelemetry
    \/ HeapChanges

(***************************************************************************)
(* Properties                                                              *)
(***************************************************************************)

\* An export ends once, and an interval that runs belongs to the guardian
\* everybody asks, which has the trackers.
ExportsTypeOK ==
    /\ telemetryMode \in {"off", "console", "otlp"}
    /\ \A s \in Signals : UnderWay(s) >= 0 /\ exports[s].attempts \in 0..MaxExports
    /\ heapPercent \in HeapLevels
    /\ guardian \in [made : BOOLEAN, tracked : BOOLEAN, running : BOOLEAN]
    /\ guardian.running => guardian.made /\ guardian.tracked /\ telemetryMode = "otlp"
    /\ lastPressure \in Pressures \cup {"none"}
=============================================================================
