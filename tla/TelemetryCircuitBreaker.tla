------------------------ MODULE TelemetryCircuitBreaker ------------------------
(***************************************************************************)
(* The breaker of the telemetry exports of one signal.                     *)
(*                                                                         *)
(*   src/telemetry/telemetry-circuit-breaker.ts   TelemetryCircuitBreaker  *)
(*                                                                         *)
(* Other than the Redis breaker it also recovers by a timer of its own,    *)
(* and a failure reported late, while it is open, makes it wait anew.  Its *)
(* callers are whoever exports; in the service nobody does (the exporters  *)
(* are wrapped by ExportStatsTracker only), so its state is what a health  *)
(* report shows and what an operator resets.                               *)
(***************************************************************************)
EXTENDS Naturals

CONSTANTS
    ExportFailureThreshold,     \* config.failureThreshold
    ExportSuccessThreshold,     \* config.successThreshold
    RecoveryTimeout             \* config.recoveryTimeout, in monitoring intervals

ASSUME ExportBreakerAssumption ==
    {ExportFailureThreshold, ExportSuccessThreshold, RecoveryTimeout} \subseteq Nat \ {0}

VARIABLES
    exportState,        \* state
    exportFailures,     \* failureCount
    exportProbes,       \* halfOpenSuccesses
    sinceExportFailure, \* now - lastFailureTime (saturated)
    monitored,          \* monitoringIntervalId is set
    trippedFor          \* history: ticks since it tripped (saturated)

exportBreakerVars == <<exportState, exportFailures, exportProbes, sinceExportFailure,
                       monitored, trippedFor>>

ExportBreakerInit ==
    /\ exportState = "closed"
    /\ exportFailures = 0
    /\ exportProbes = 0
    /\ sinceExportFailure = RecoveryTimeout
    /\ monitored = TRUE
    /\ trippedFor = RecoveryTimeout

WaitedLongEnough == sinceExportFailure = RecoveryTimeout

\* canExecute; a rejection changes only statistics.
CanExecute ==
    /\ exportState' = IF exportState = "open" /\ WaitedLongEnough THEN "half_open" ELSE exportState
    /\ UNCHANGED <<exportFailures, exportProbes, sinceExportFailure, monitored, trippedFor>>

\* checkRecovery, by the timer
CheckRecovery ==
    /\ monitored
    /\ exportState = "open" /\ WaitedLongEnough
    /\ exportState' = "half_open"
    /\ UNCHANGED <<exportFailures, exportProbes, sinceExportFailure, monitored, trippedFor>>

RecordExportSuccess ==
    LET closes == exportState = "half_open" /\ exportProbes + 1 >= ExportSuccessThreshold
    IN  /\ exportFailures' = 0
        /\ exportState' = IF closes THEN "closed" ELSE exportState
        /\ exportProbes' = IF closes THEN 0
                           ELSE IF exportState = "half_open" THEN exportProbes + 1
                           ELSE exportProbes
        /\ UNCHANGED <<sinceExportFailure, monitored, trippedFor>>

\* The failure count is kept up to the threshold, all that it is compared to.
OneMoreFailure ==
    IF exportFailures < ExportFailureThreshold THEN exportFailures + 1 ELSE exportFailures

\* Mutant: the time of a failure is taken only while the breaker is closed.
RecordExportFailureLate ==
    LET trips == \/ exportState = "closed" /\ OneMoreFailure >= ExportFailureThreshold
                 \/ exportState = "half_open"
    IN  /\ exportFailures' = OneMoreFailure
        /\ sinceExportFailure' = IF exportState = "closed" THEN 0 ELSE sinceExportFailure
        /\ exportProbes' = 0
        /\ exportState' = IF trips THEN "open" ELSE exportState
        /\ trippedFor' = IF trips THEN 0 ELSE trippedFor
        /\ UNCHANGED monitored

RecordExportFailure ==
    LET trips == \/ exportState = "closed" /\ OneMoreFailure >= ExportFailureThreshold
                 \/ exportState = "half_open"
    IN  /\ exportFailures' = OneMoreFailure
        /\ sinceExportFailure' = 0
        /\ exportProbes' = 0
        /\ exportState' = IF trips THEN "open" ELSE exportState
        /\ trippedFor' = IF trips THEN 0 ELSE trippedFor
        /\ UNCHANGED monitored

ResetExportBreaker ==
    /\ exportState' = "closed"
    /\ exportFailures' = 0
    /\ exportProbes' = 0
    /\ UNCHANGED <<sinceExportFailure, monitored, trippedFor>>

\* shutdown: the timer stops, calls go on.
ShutdownExportBreaker ==
    /\ monitored
    /\ monitored' = FALSE
    /\ UNCHANGED <<exportState, exportFailures, exportProbes, sinceExportFailure, trippedFor>>

Later(age) == IF age < RecoveryTimeout THEN age + 1 ELSE age

ExportBreakerTick ==
    /\ sinceExportFailure' = Later(sinceExportFailure)
    /\ trippedFor' = Later(trippedFor)
    /\ UNCHANGED <<exportState, exportFailures, exportProbes, monitored>>

ExportBreakerNext ==
    \/ CanExecute
    \/ CheckRecovery
    \/ RecordExportSuccess
    \/ RecordExportFailure
    \/ ResetExportBreaker
    \/ ShutdownExportBreaker
    \/ ExportBreakerTick

ExportBreakerSpec == ExportBreakerInit /\ [][ExportBreakerNext]_exportBreakerVars

(***************************************************************************)
(* Properties                                                              *)
(***************************************************************************)

\* Types and bounds.
ExportBreakerTypeOK ==
    /\ exportState \in {"closed", "open", "half_open"}
    /\ exportFailures \in 0..ExportFailureThreshold
    /\ exportProbes \in 0..ExportSuccessThreshold
    /\ sinceExportFailure \in 0..RecoveryTimeout
    /\ trippedFor \in 0..RecoveryTimeout
    /\ monitored \in BOOLEAN

\* It is a circuit breaker like the others: neither its timer, nor a caller,
\* nor the outcomes of exports begun before it tripped let a probe through
\* before the recovery timeout has passed, or close it without probing.
Breaker == INSTANCE CircuitBreaker
           WITH state <- exportState, openFor <- trippedFor, ResetTimeout <- RecoveryTimeout

ImplementsBreaker == Breaker!Spec
=============================================================================
