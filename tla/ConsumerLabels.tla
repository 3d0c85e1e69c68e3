----------------------------- MODULE ConsumerLabels -----------------------------
(***************************************************************************)
(* What metrics call a consumer.                                           *)
(*                                                                         *)
(*   src/telemetry/cardinality-guard.ts   getBoundedConsumerId             *)
(*   src/telemetry/consumer-volume.ts     incrementConsumerRequest, getVolumeBucket *)
(*                                                                         *)
(* Only so many consumers are named by their own id; the others share hash *)
(* buckets.  Two timers, started with the modules and not with each other, *)
(* empty the two tables; requests may still be answered after the shutdown *)
(* of both.                                                                *)
(***************************************************************************)
EXTENDS Naturals, FiniteSets

CONSTANTS
    LabelledConsumers,  \* consumers that send requests
    MaxUnique,          \* maxUniqueConsumers
    Medium, High        \* thresholds of getVolumeBucket

ASSUME LabelsAssumption ==
    /\ IsFiniteSet(LabelledConsumers)
    /\ {MaxUnique, Medium, High} \subseteq Nat /\ 0 < MaxUnique /\ Medium < High

VARIABLES
    trackedConsumerIds,
    limitExceeded,      \* cardinalityLimitExceeded
    requestCounts,      \* consumerRequestCounts, saturated
    labelTimers,        \* the two intervals that are set
    labels              \* history: how each consumer was labelled this period

labelVars == <<trackedConsumerIds, limitExceeded, requestCounts, labelTimers, labels>>

LabelsInit ==
    /\ trackedConsumerIds = {}
    /\ limitExceeded = FALSE
    /\ requestCounts = [c \in LabelledConsumers |-> 0]
    /\ labelTimers = {"cardinality", "volume"}
    /\ labels = [c \in LabelledConsumers |-> {}]

VolumeBucket(c) ==
    IF requestCounts[c] > High THEN "high" ELSE IF requestCounts[c] > Medium THEN "medium" ELSE "low"

\* incrementConsumerRequest
CountRequest(c) ==
    /\ requestCounts' = [requestCounts EXCEPT ![c] = IF @ <= High THEN @ + 1 ELSE @]
    /\ UNCHANGED <<trackedConsumerIds, limitExceeded, labelTimers, labels>>

Named(c, label) == labels' = [labels EXCEPT ![c] = @ \cup {label}]

\* Mutant: a consumer that is not tracked takes the place of another.
GetBoundedConsumerIdReplacing(c) ==
    /\ IF c \in trackedConsumerIds \/ Cardinality(trackedConsumerIds) < MaxUnique
       THEN trackedConsumerIds' = trackedConsumerIds \cup {c}
       ELSE \E other \in trackedConsumerIds :
                trackedConsumerIds' = (trackedConsumerIds \ {other}) \cup {c}
    /\ Named(c, "own id")
    /\ UNCHANGED <<limitExceeded, requestCounts, labelTimers>>

GetBoundedConsumerId(c) ==
    LET tracked == c \in trackedConsumerIds
        room == Cardinality(trackedConsumerIds) < MaxUnique
    IN  /\ trackedConsumerIds' = IF room THEN trackedConsumerIds \cup {c} ELSE trackedConsumerIds
        /\ limitExceeded' = (limitExceeded \/ ~(tracked \/ room))
        /\ Named(c, IF tracked \/ room THEN "own id" ELSE "bucket")
        /\ UNCHANGED <<requestCounts, labelTimers>>

\* getCardinalityWarningLevel
WarningLevel ==
    LET used == Cardinality(trackedConsumerIds)
    IN  IF limitExceeded \/ used >= MaxUnique THEN "critical"
        ELSE IF 100 * used >= 80 * MaxUnique THEN "warning" ELSE "ok"

Forget ==
    /\ trackedConsumerIds' = {}
    /\ labels' = [c \in LabelledConsumers |-> {}]

\* resetCardinalityTracking, every 15 minutes
ResetCardinalityTracking ==
    /\ "cardinality" \in labelTimers
    /\ Forget
    /\ limitExceeded' = FALSE
    /\ UNCHANGED <<requestCounts, labelTimers>>

\* The other timer, every 15 minutes; the thresholds read "hourly".
ClearRequestCounts ==
    /\ "volume" \in labelTimers
    /\ requestCounts' = [c \in LabelledConsumers |-> 0]
    /\ UNCHANGED <<trackedConsumerIds, limitExceeded, labelTimers, labels>>

ShutdownConsumerVolume ==
    /\ requestCounts' = [c \in LabelledConsumers |-> 0]
    /\ labelTimers' = labelTimers \ {"volume"}
    /\ UNCHANGED <<trackedConsumerIds, limitExceeded, labels>>

\* The mark that the limit was exceeded stays.
ShutdownCardinalityGuard ==
    /\ Forget
    /\ labelTimers' = labelTimers \ {"cardinality"}
    /\ UNCHANGED <<limitExceeded, requestCounts>>

LabelsNext ==
    \/ \E c \in LabelledConsumers : CountRequest(c) \/ GetBoundedConsumerId(c)
    \/ ResetCardinalityTracking
    \/ ClearRequestCounts
    \/ ShutdownConsumerVolume
    \/ ShutdownCardinalityGuard

LabelsSpec == LabelsInit /\ [][LabelsNext]_labelVars

(***************************************************************************)
(* Properties                                                              *)
(***************************************************************************)

\* Types; no bucket is used below the limit, and a high volume has passed the
\* medium one.
LabelsTypeOK ==
    /\ trackedConsumerIds \subseteq LabelledConsumers
    /\ limitExceeded \in BOOLEAN
    /\ requestCounts \in [LabelledConsumers -> 0..High + 1]
    /\ labelTimers \subseteq {"cardinality", "volume"}
    /\ \A c \in LabelledConsumers : labels[c] \subseteq {"own id", "bucket"}
    /\ WarningLevel # "critical" => \A c \in LabelledConsumers : "bucket" \notin labels[c]
    /\ \A c \in LabelledConsumers : VolumeBucket(c) = "high" => requestCounts[c] > Medium

\* Between two resets at most MaxUnique consumers are named in the metrics,
\* and the series of a consumer is not torn apart: it goes by one name,
\* its own or its bucket's, however requests of others come between.
LabelsAreStable ==
    /\ Cardinality({c \in LabelledConsumers : "own id" \in labels[c]}) <= MaxUnique
    /\ \A c \in LabelledConsumers : Cardinality(labels[c]) <= 1
=============================================================================
