---------------------------- MODULE TelemetryProofs ----------------------------
(***************************************************************************)
(* The circuit breaker of the telemetry exports and the labels of consumers *)
(* in the metrics, for every threshold, timeout and limit and any finite   *)
(* number of consumers.                                                    *)
(***************************************************************************)
EXTENDS TelemetryCircuitBreaker, ConsumerLabels, FiniteSetTheorems, TLAPS

(***************************************************************************)
(* The telemetry breaker implements CircuitBreaker, although it has two    *)
(* ways to recover and hears of failures while it is open.                 *)
(***************************************************************************)

\* Half-open probes are below their threshold and a closed breaker is below
\* its own; while open, the last failure is no longer ago than the trip, so
\* whoever waits for the former has waited for the latter.
ExportBreakerInv ==
    /\ ExportBreakerTypeOK
    /\ exportProbes < ExportSuccessThreshold
    /\ exportState = "closed" => exportFailures < ExportFailureThreshold
    /\ exportState = "open" => sinceExportFailure <= trippedFor

\* The breaker starts in the invariant: closed, nothing counted.
LEMMA ExportBreakerInvInit == ExportBreakerInit => ExportBreakerInv
BY ExportBreakerAssumption
   DEF ExportBreakerInit, ExportBreakerInv, ExportBreakerTypeOK

\* Every operation and both timers keep the invariant.
LEMMA ExportBreakerInvNext ==
    ExportBreakerInv /\ [ExportBreakerNext]_exportBreakerVars => ExportBreakerInv'
<1> SUFFICES ASSUME ExportBreakerInv, [ExportBreakerNext]_exportBreakerVars
             PROVE  ExportBreakerInv'
  OBVIOUS
<1> USE ExportBreakerAssumption DEF ExportBreakerInv, ExportBreakerTypeOK
<1>1. CASE CanExecute
  BY <1>1 DEF CanExecute
<1>2. CASE CheckRecovery
  BY <1>2 DEF CheckRecovery
<1>3. CASE RecordExportSuccess
  BY <1>3 DEF RecordExportSuccess
<1>4. CASE RecordExportFailure
  BY <1>4 DEF RecordExportFailure, OneMoreFailure
<1>5. CASE ResetExportBreaker
  BY <1>5 DEF ResetExportBreaker
<1>6. CASE ShutdownExportBreaker
  BY <1>6 DEF ShutdownExportBreaker
<1>7. CASE ExportBreakerTick
  BY <1>7 DEF ExportBreakerTick, Later
<1>8. CASE UNCHANGED exportBreakerVars
  BY <1>8 DEF exportBreakerVars
<1>9. QED
  BY <1>1, <1>2, <1>3, <1>4, <1>5, <1>6, <1>7, <1>8 DEF ExportBreakerNext

\* In every behaviour the counters of the telemetry breaker stay below their
\* thresholds where it has not decided yet, and an open breaker tripped no
\* later than its last failure.
THEOREM ExportBreakerInvariant == ExportBreakerSpec => []ExportBreakerInv
<1>1. ExportBreakerInv /\ [ExportBreakerNext]_exportBreakerVars => ExportBreakerInv'
  BY ExportBreakerInvNext
<1>2. QED
  BY ExportBreakerInvInit, <1>1, PTL DEF ExportBreakerSpec

\* Both recoveries are probes of the abstract breaker: they wait from the
\* last failure, which the invariant places after the trip.
LEMMA AbstractBreakerStep ==
    ExportBreakerInv /\ [ExportBreakerNext]_exportBreakerVars
        => [Breaker!Next]_(Breaker!vars)
<1> SUFFICES ASSUME ExportBreakerInv, [ExportBreakerNext]_exportBreakerVars
             PROVE  [Breaker!Next]_(Breaker!vars)
  OBVIOUS
<1> USE ExportBreakerAssumption
    DEF ExportBreakerInv, ExportBreakerTypeOK, Breaker!vars, Breaker!Next
<1>1. CASE exportState = "open" /\ WaitedLongEnough /\ (CanExecute \/ CheckRecovery)
  <2>1. trippedFor = RecoveryTimeout
    BY <1>1 DEF WaitedLongEnough
  <2>2. Breaker!Probe
    BY <1>1, <2>1 DEF CanExecute, CheckRecovery, Breaker!Probe
  <2>3. QED
    BY <2>2
<1>2. CASE ~(exportState = "open" /\ WaitedLongEnough) /\ (CanExecute \/ CheckRecovery)
  BY <1>2 DEF CanExecute, CheckRecovery
<1>3. CASE RecordExportSuccess
  BY <1>3 DEF RecordExportSuccess, Breaker!Recover
<1>4. CASE RecordExportFailure
  BY <1>4 DEF RecordExportFailure, Breaker!Trip
<1>5. CASE ResetExportBreaker
  BY <1>5 DEF ResetExportBreaker, Breaker!ForceClose
<1>6. CASE ShutdownExportBreaker
  BY <1>6 DEF ShutdownExportBreaker
<1>7. CASE ExportBreakerTick
  BY <1>7 DEF ExportBreakerTick, Later, Breaker!Tick, Breaker!Elapsed
<1>8. CASE UNCHANGED exportBreakerVars
  BY <1>8 DEF exportBreakerVars
<1>9. QED
  BY <1>1, <1>2, <1>3, <1>4, <1>5, <1>6, <1>7, <1>8 DEF ExportBreakerNext

\* Every behaviour of the telemetry breaker is one of the abstract breaker.
THEOREM TelemetryBreakerRefinement == ExportBreakerSpec => ImplementsBreaker
<1>1. ExportBreakerInit => Breaker!Init
  BY DEF ExportBreakerInit, Breaker!Init
<1>2. ExportBreakerInv /\ [ExportBreakerNext]_exportBreakerVars
          => [Breaker!Next]_(Breaker!vars)
  BY AbstractBreakerStep
<1>3. QED
  BY <1>1, <1>2, ExportBreakerInvariant, PTL
     DEF ExportBreakerSpec, ImplementsBreaker, Breaker!Spec

(***************************************************************************)
(* The labels of consumers are bounded and stable.                         *)
(***************************************************************************)

\* Who is named by its own id is tracked, and who is not is not; a bucket is
\* used only once the table is full, and then nobody is added to it any more.
LabelsInv ==
    /\ trackedConsumerIds \subseteq LabelledConsumers
    /\ Cardinality(trackedConsumerIds) <= MaxUnique
    /\ labels \in [LabelledConsumers -> SUBSET {"own id", "bucket"}]
    /\ \A c \in LabelledConsumers :
          /\ "own id" \in labels[c] => c \in trackedConsumerIds
          /\ "bucket" \in labels[c] =>
                c \notin trackedConsumerIds /\ Cardinality(trackedConsumerIds) = MaxUnique

\* The table of tracked consumers is a finite set, whatever is in it.
LEMMA TrackedIsFinite ==
    ASSUME NEW T \in SUBSET LabelledConsumers
    PROVE  IsFiniteSet(T) /\ Cardinality(T) \in Nat
BY LabelsAssumption, FS_Subset, FS_CardinalityType

\* No label has been given yet.
LEMMA LabelsInvInit == LabelsInit => LabelsInv
BY LabelsAssumption, FS_EmptySet DEF LabelsInit, LabelsInv

\* Naming a consumer: it is tracked already, there is room for it, or the
\* table is full and stays as it is.
LEMMA NamingKeepsLabels ==
    ASSUME LabelsInv, NEW c \in LabelledConsumers, GetBoundedConsumerId(c)
    PROVE  LabelsInv'
<1> DEFINE used == Cardinality(trackedConsumerIds)
           named(label) == [labels EXCEPT ![c] = @ \cup {label}]
<1>0. MaxUnique \in Nat
  BY LabelsAssumption
<1>1. used \in Nat /\ used <= MaxUnique /\ IsFiniteSet(trackedConsumerIds)
  BY TrackedIsFinite DEF LabelsInv
<1>2. CASE c \in trackedConsumerIds
  <2>1. trackedConsumerIds' = trackedConsumerIds /\ labels' = named("own id")
    BY <1>2 DEF GetBoundedConsumerId, Named
  <2>2. QED
    BY <1>2, <2>1 DEF LabelsInv
<1>3. CASE c \notin trackedConsumerIds /\ used < MaxUnique
  <2>1. trackedConsumerIds' = trackedConsumerIds \cup {c} /\ labels' = named("own id")
    BY <1>3 DEF GetBoundedConsumerId, Named
  <2>2. Cardinality(trackedConsumerIds') = used + 1
    BY <1>1, <1>3, <2>1, FS_AddElement
  <2>3. used # MaxUnique /\ used + 1 <= MaxUnique
    BY <1>0, <1>1, <1>3
  <2>4. \A d \in LabelledConsumers : "bucket" \notin labels[d]
    BY <2>3 DEF LabelsInv
  <2>5. QED
    BY <2>1, <2>2, <2>3, <2>4 DEF LabelsInv
<1>4. CASE c \notin trackedConsumerIds /\ ~(used < MaxUnique)
  <2>1. trackedConsumerIds' = trackedConsumerIds /\ labels' = named("bucket")
    BY <1>4 DEF GetBoundedConsumerId, Named
  <2>2. used = MaxUnique
    BY <1>0, <1>1, <1>4
  <2>3. QED
    BY <1>4, <2>1, <2>2 DEF LabelsInv
<1>5. QED
  BY <1>2, <1>3, <1>4

\* Every operation and both timers keep the labels' invariant.
LEMMA LabelsInvNext == LabelsInv /\ [LabelsNext]_labelVars => LabelsInv'
<1> SUFFICES ASSUME LabelsInv, [LabelsNext]_labelVars
             PROVE  LabelsInv'
  OBVIOUS
<1>0. MaxUnique \in Nat /\ Cardinality({}) = 0
  BY LabelsAssumption, FS_EmptySet
<1>1. CASE \E c \in LabelledConsumers : CountRequest(c)
  BY <1>1 DEF LabelsInv, CountRequest
<1>2. CASE \E c \in LabelledConsumers : GetBoundedConsumerId(c)
  BY <1>2, NamingKeepsLabels
<1>3. CASE ResetCardinalityTracking
  <2>1. /\ trackedConsumerIds' = {}
        /\ labels' = [c \in LabelledConsumers |-> {}]
    BY <1>3 DEF ResetCardinalityTracking, Forget
  <2>2. Cardinality(trackedConsumerIds') <= MaxUnique
    BY <1>0, <2>1
  <2>3. QED
    BY <2>1, <2>2 DEF LabelsInv
<1>4. CASE ClearRequestCounts
  BY <1>4 DEF LabelsInv, ClearRequestCounts
<1>5. CASE ShutdownConsumerVolume
  BY <1>5 DEF LabelsInv, ShutdownConsumerVolume
<1>6. CASE ShutdownCardinalityGuard
  <2>1. /\ trackedConsumerIds' = {}
        /\ labels' = [c \in LabelledConsumers |-> {}]
    BY <1>6 DEF ShutdownCardinalityGuard, Forget
  <2>2. Cardinality(trackedConsumerIds') <= MaxUnique
    BY <1>0, <2>1
  <2>3. QED
    BY <2>1, <2>2 DEF LabelsInv
<1>7. CASE UNCHANGED labelVars
  BY <1>7 DEF LabelsInv, labelVars
<1>8. QED
  BY <1>1, <1>2, <1>3, <1>4, <1>5, <1>6, <1>7 DEF LabelsNext

\* What the invariant says of labels.
LEMMA InvImpliesStable == LabelsInv => LabelsAreStable
<1> SUFFICES ASSUME LabelsInv
             PROVE  LabelsAreStable
  OBVIOUS
<1> DEFINE named == {c \in LabelledConsumers : "own id" \in labels[c]}
<1>0. MaxUnique \in Nat
  BY LabelsAssumption
<1>1. Cardinality(named) <= MaxUnique
  <2>1. named \subseteq trackedConsumerIds
    BY DEF LabelsInv
  <2>2. IsFiniteSet(trackedConsumerIds) /\ Cardinality(trackedConsumerIds) \in Nat
    BY TrackedIsFinite DEF LabelsInv
  <2>3. Cardinality(named) \in Nat /\ Cardinality(named) <= Cardinality(trackedConsumerIds)
    BY <2>1, <2>2, FS_Subset, FS_CardinalityType
  <2>4. Cardinality(trackedConsumerIds) <= MaxUnique
    BY DEF LabelsInv
  <2> HIDE DEF named
  <2>5. QED
    BY <1>0, <2>2, <2>3, <2>4
<1>2. ASSUME NEW c \in LabelledConsumers
      PROVE  Cardinality(labels[c]) <= 1
  <2>1. labels[c] \subseteq {"own id", "bucket"}
    BY DEF LabelsInv
  <2>2. ~("own id" \in labels[c] /\ "bucket" \in labels[c])
    BY DEF LabelsInv
  <2>3. labels[c] = {} \/ labels[c] = {"own id"} \/ labels[c] = {"bucket"}
    BY <2>1, <2>2
  <2>4. Cardinality({}) = 0 /\ \A label : Cardinality({label}) = 1
    BY FS_EmptySet, FS_Singleton, Zenon
  <2>5. Cardinality(labels[c]) \in {0, 1}
    BY <2>3, <2>4
  <2>6. QED
    BY <2>5
<1>3. QED
  BY <1>1, <1>2 DEF LabelsAreStable

\* For every limit and any consumers: between two resets at most MaxUnique
\* consumers are named by their own id, and none goes by two names.
THEOREM StableLabels == LabelsSpec => []LabelsAreStable
<1>1. LabelsInv /\ [LabelsNext]_labelVars => LabelsInv'
  BY LabelsInvNext
<1>2. QED
  BY LabelsInvInit, <1>1, InvImpliesStable, PTL DEF LabelsSpec

\* The thresholds are numbers.
LEMMA Thresholds ==
    MaxUnique \in Nat /\ 0 < MaxUnique /\ Medium \in Nat /\ High \in Nat /\ Medium < High
BY LabelsAssumption

LabelCounts ==
    /\ limitExceeded \in BOOLEAN
    /\ requestCounts \in [LabelledConsumers -> 0..High + 1]
    /\ labelTimers \subseteq {"cardinality", "volume"}

\* Nothing is counted at the start.
LEMMA LabelCountsInit == LabelsInit => LabelCounts
<1>1. 0 \in 0..High + 1
  BY Thresholds
<1>2. QED
  BY <1>1 DEF LabelsInit, LabelCounts

\* Requests are counted up to one above the high threshold.
LEMMA LabelCountsNext == LabelCounts /\ [LabelsNext]_labelVars => LabelCounts'
<1> SUFFICES ASSUME LabelCounts, [LabelsNext]_labelVars
             PROVE  LabelCounts'
  OBVIOUS
<1>1. ASSUME NEW c \in LabelledConsumers, CountRequest(c)
      PROVE  LabelCounts'
  <2>1. requestCounts[c] \in 0..High + 1
    BY DEF LabelCounts
  <2>2. requestCounts[c] <= High => requestCounts[c] + 1 \in 0..High + 1
    BY <2>1, Thresholds
  <2>3. QED
    BY <1>1, <2>1, <2>2 DEF CountRequest, LabelCounts
<1>2. ASSUME NEW c \in LabelledConsumers, GetBoundedConsumerId(c)
      PROVE  LabelCounts'
  BY <1>2 DEF GetBoundedConsumerId, LabelCounts
<1>3. CASE ResetCardinalityTracking \/ ShutdownCardinalityGuard
  BY <1>3 DEF ResetCardinalityTracking, ShutdownCardinalityGuard, LabelCounts
<1>4. CASE ClearRequestCounts \/ ShutdownConsumerVolume
  <2>1. 0 \in 0..High + 1
    BY Thresholds
  <2>2. QED
    BY <1>4, <2>1 DEF ClearRequestCounts, ShutdownConsumerVolume, LabelCounts
<1>5. CASE UNCHANGED labelVars
  BY <1>5 DEF labelVars, LabelCounts
<1>6. QED
  BY <1>1, <1>2, <1>3, <1>4, <1>5 DEF LabelsNext

\* A bucket is in use only while the table is full, which is critical; and
\* what is above the high threshold is above the medium one.
LEMMA LabelsTypes == LabelsInv /\ LabelCounts => LabelsTypeOK
<1> SUFFICES ASSUME LabelsInv, LabelCounts
             PROVE  LabelsTypeOK
  OBVIOUS
<1>1. WarningLevel # "critical" => \A c \in LabelledConsumers : "bucket" \notin labels[c]
  <2>1. SUFFICES ASSUME NEW c \in LabelledConsumers, "bucket" \in labels[c]
                 PROVE  WarningLevel = "critical"
    OBVIOUS
  <2>2. Cardinality(trackedConsumerIds) = MaxUnique
    BY <2>1 DEF LabelsInv
  <2>3. Cardinality(trackedConsumerIds) >= MaxUnique
    BY <2>2, Thresholds
  <2>4. QED
    BY <2>3, Zenon DEF WarningLevel
<1>2. ASSUME NEW c \in LabelledConsumers, VolumeBucket(c) = "high"
      PROVE  requestCounts[c] > Medium
  <2>1. requestCounts[c] \in 0..High + 1
    BY DEF LabelCounts
  <2>2. requestCounts[c] > High
    BY <1>2 DEF VolumeBucket
  <2>3. QED
    BY <2>1, <2>2, Thresholds
<1>3. \A c \in LabelledConsumers : labels[c] \subseteq {"own id", "bucket"}
  BY DEF LabelsInv
<1>4. QED
  BY <1>1, <1>2, <1>3 DEF LabelsInv, LabelCounts, LabelsTypeOK

\* For every limit and all thresholds: no bucket is used below the limit, and
\* a high volume has passed the medium one.
THEOREM LabelsKeepTypes == LabelsSpec => []LabelsTypeOK
<1>1. QED
  BY LabelsInvInit, LabelsInvNext, LabelCountsInit, LabelCountsNext, LabelsTypes, PTL
     DEF LabelsSpec
=============================================================================
