---------------------- MODULE CacheCircuitBreakerProofs ----------------------
(***************************************************************************)
(* Theorems about the Redis circuit breaker, for every value of the        *)
(* thresholds and of the reset timeout.                                    *)
(***************************************************************************)
EXTENDS CacheCircuitBreakerHistory, TLAPS

(***************************************************************************)
(* The breaker alone                                                       *)
(***************************************************************************)

\* What the breaker's own variables satisfy in every reachable state.
BreakerInv == TypeOK /\ ClosedBelowThreshold /\ ProbesOnlyWhileHalfOpen

\* A breaker starts closed, with nothing counted.
LEMMA BreakerInvInit == Init => BreakerInv
BY BreakerAssumption
   DEF Init, BreakerInv, TypeOK, ClosedBelowThreshold, ProbesOnlyWhileHalfOpen

\* No operation, called at any time, breaks BreakerInv.
LEMMA BreakerInvNext == BreakerInv /\ [Next]_vars => BreakerInv'
<1> SUFFICES ASSUME BreakerInv, [Next]_vars
             PROVE  BreakerInv'
  OBVIOUS
<1> USE BreakerAssumption
    DEF BreakerInv, TypeOK, ClosedBelowThreshold, ProbesOnlyWhileHalfOpen
<1>1. CASE Admit
  BY <1>1 DEF Admit, AdmitsNow, ResetDue
<1>2. CASE Reject
  BY <1>2 DEF Reject, vars
<1>3. CASE RecordSuccess
  BY <1>3 DEF RecordSuccess, LastProbe
<1>4. CASE RecordFailure
  BY <1>4 DEF RecordFailure, OneMore
<1>5. CASE IgnoreFailure
  BY <1>5 DEF IgnoreFailure, vars
<1>6. CASE Reset
  BY <1>6 DEF Reset
<1>7. CASE Tick
  BY <1>7 DEF Tick, Elapsed
<1>8. CASE UNCHANGED vars
  BY <1>8 DEF vars
<1>9. QED
  BY <1>1, <1>2, <1>3, <1>4, <1>5, <1>6, <1>7, <1>8 DEF Next

\* In every behaviour of the breaker, whatever the order in which operations
\* ask and report, its variables have their types, a closed breaker is below
\* the failure threshold, and probe successes exist only while half-open.
THEOREM BreakerInvariant == Spec => []BreakerInv
<1>1. Init => BreakerInv
  BY BreakerInvInit
<1>2. BreakerInv /\ [Next]_vars => BreakerInv'
  BY BreakerInvNext
<1>3. QED
  BY <1>1, <1>2, PTL DEF Spec

\* The breaker's state, counters and the age of its last failure stay in their
\* types and bounds.
THEOREM TypesAndBounds == Spec => []TypeOK
<1>1. BreakerInv => TypeOK
  BY DEF BreakerInv
<1>2. QED
  BY <1>1, BreakerInvariant, PTL

\* The failure count of a closed breaker is below the threshold.
THEOREM ClosedIsBelowThreshold == Spec => []ClosedBelowThreshold
<1>1. BreakerInv => ClosedBelowThreshold
  BY DEF BreakerInv
<1>2. QED
  BY <1>1, BreakerInvariant, PTL

\* Probe successes are counted only while half-open, below the threshold.
THEOREM ProbesExistOnlyWhileHalfOpen == Spec => []ProbesOnlyWhileHalfOpen
<1>1. BreakerInv => ProbesOnlyWhileHalfOpen
  BY DEF BreakerInv
<1>2. QED
  BY <1>1, BreakerInvariant, PTL

(***************************************************************************)
(* The breaker with its history                                            *)
(***************************************************************************)

\* Runs and ages are counted no further than anybody looks.
HistoryTypeOK ==
    /\ failureRun \in 0..FailureThreshold
    /\ probeRun \in 0..SuccessThreshold
    /\ openFor \in 0..ResetTimeout

\* Why the decisions agree with the history: while closed the counted
\* failures are exactly the current run, while half-open the counted
\* successes are exactly the fresh ones, and an open breaker tripped no
\* later than its last failure.
HistoryInv ==
    /\ BreakerInv
    /\ HistoryTypeOK
    /\ failureCount = failureRun
    /\ state = "half_open" => halfOpenSuccesses = probeRun
    /\ state = "open" => failureAge <= openFor

\* Nothing has been counted and nothing has been reported.
LEMMA HistoryInvInit == InitH => HistoryInv
BY BreakerInvInit, BreakerAssumption
   DEF InitH, Init, HistoryInv, HistoryTypeOK

\* Every step of the breaker with its history is one of the breaker.
LEMMA HistoryStepIsStep == [NextH]_hvars => [Next]_vars
BY DEF NextH, Next, hvars, AdmitH, RejectH, RecordSuccessH, RecordFailureH,
       IgnoreFailureH, ResetH, TickH

\* Each operation keeps the history in step with the breaker's counters.
LEMMA HistoryInvNext == HistoryInv /\ [NextH]_hvars => HistoryInv'
<1> SUFFICES ASSUME HistoryInv, [NextH]_hvars
             PROVE  HistoryInv'
  OBVIOUS
<1>0. BreakerInv'
  BY BreakerInvNext, HistoryStepIsStep DEF HistoryInv
<1> USE BreakerAssumption, <1>0
    DEF HistoryInv, HistoryTypeOK, BreakerInv, TypeOK, ProbesOnlyWhileHalfOpen,
        history
<1>1. CASE AdmitH
  BY <1>1 DEF AdmitH, Admit, AdmitsNow, ResetDue
<1>2. CASE RejectH
  BY <1>2 DEF RejectH, Reject, vars
<1>3. CASE RecordSuccessH
  BY <1>3 DEF RecordSuccessH, RecordSuccess, LastProbe, CountTo
<1>4. CASE RecordFailureH
  BY <1>4 DEF RecordFailureH, RecordFailure, OneMore, CountTo
<1>5. CASE IgnoreFailureH
  BY <1>5 DEF IgnoreFailureH, IgnoreFailure, vars
<1>6. CASE ResetH
  BY <1>6 DEF ResetH, Reset
<1>7. CASE TickH
  BY <1>7 DEF TickH, Tick, Elapsed
<1>8. CASE UNCHANGED hvars
  BY <1>8 DEF hvars, vars
<1>9. QED
  BY <1>1, <1>2, <1>3, <1>4, <1>5, <1>6, <1>7, <1>8 DEF NextH

\* In every behaviour the counters of the breaker are what its history says:
\* the failures in a row while closed, the fresh successes while half-open.
THEOREM HistoryInvariant == SpecH => []HistoryInv
<1>1. InitH => HistoryInv
  BY HistoryInvInit
<1>2. HistoryInv /\ [NextH]_hvars => HistoryInv'
  BY HistoryInvNext
<1>3. QED
  BY <1>1, <1>2, PTL DEF SpecH

(***************************************************************************)
(* Its decisions                                                           *)
(***************************************************************************)

\* The breaker closes by itself only after SuccessThreshold successes in a
\* row since it began to probe.
THEOREM ClosingNeedsFreshEvidence == SpecH => ClosesOnFreshEvidence
<1> DEFINE Closing == state = "half_open" /\ state' = "closed" =>
                        ResetH \/ probeRun' = SuccessThreshold
<1>1. HistoryInv /\ [NextH]_hvars => [Closing]_hvars
  <2> SUFFICES ASSUME HistoryInv, NextH, state = "half_open", state' = "closed"
               PROVE  ResetH \/ probeRun' = SuccessThreshold
    OBVIOUS
  <2>1. CASE ResetH
    BY <2>1
  <2>2. CASE RecordSuccessH
    <3>1. LastProbe
      BY <2>2 DEF RecordSuccessH, RecordSuccess
    <3>2. probeRun + 1 >= SuccessThreshold
      BY <3>1 DEF LastProbe, HistoryInv
    <3>3. QED
      BY <2>2, <3>2, BreakerAssumption
         DEF RecordSuccessH, CountTo, HistoryInv, HistoryTypeOK
  <2>3. CASE ~ResetH /\ ~RecordSuccessH
    <3>1. state' # "closed"
      BY <2>3 DEF NextH, AdmitH, Admit, ResetDue, RejectH, Reject, vars,
                  RecordFailureH, RecordFailure, IgnoreFailureH, IgnoreFailure,
                  TickH, Tick
    <3>2. QED
      BY <3>1
  <2>4. QED
    BY <2>1, <2>2, <2>3
<1>2. QED
  BY <1>1, HistoryInvariant, PTL DEF SpecH, ClosesOnFreshEvidence

\* A closed breaker opens only on FailureThreshold connection failures in a
\* row.
THEOREM TrippingNeedsConsecutiveFailures == SpecH => TripsOnConsecutiveFailures
<1> DEFINE Tripping == state = "closed" /\ state' = "open" =>
                         failureRun' = FailureThreshold
<1>1. HistoryInv /\ [NextH]_hvars => [Tripping]_hvars
  <2> SUFFICES ASSUME HistoryInv, NextH, state = "closed", state' = "open"
               PROVE  failureRun' = FailureThreshold
    OBVIOUS
  <2>1. RecordFailureH
    BY DEF NextH, AdmitH, Admit, ResetDue, RejectH, Reject, vars, RecordSuccessH,
           RecordSuccess, IgnoreFailureH, IgnoreFailure, ResetH, Reset, TickH, Tick
  <2>2. failureRun + 1 >= FailureThreshold
    BY <2>1, BreakerAssumption
       DEF RecordFailureH, RecordFailure, OneMore, HistoryInv, HistoryTypeOK
  <2>3. QED
    BY <2>1, <2>2, BreakerAssumption
       DEF RecordFailureH, CountTo, HistoryInv, HistoryTypeOK
<1>2. QED
  BY <1>1, HistoryInvariant, PTL DEF SpecH, TripsOnConsecutiveFailures

(***************************************************************************)
(* Refinement                                                              *)
(***************************************************************************)

\* Every operation is a step of the abstract breaker or changes nothing it
\* can see.  Only Admit needs the invariant: the breaker waits from its last
\* failure, which is no earlier than the moment it tripped.
LEMMA AbstractStep == HistoryInv /\ [NextH]_hvars => [Abstract!Next]_(Abstract!vars)
<1> SUFFICES ASSUME HistoryInv, [NextH]_hvars
             PROVE  [Abstract!Next]_(Abstract!vars)
  OBVIOUS
<1> USE BreakerAssumption DEF HistoryInv, HistoryTypeOK, BreakerInv, TypeOK,
                              Abstract!vars, Abstract!Next, history
<1>1. CASE AdmitH
  <2>1. CASE ResetDue
    <3>1. openFor = ResetTimeout
      BY <2>1 DEF ResetDue
    <3>2. Abstract!Probe
      BY <1>1, <2>1, <3>1 DEF AdmitH, Admit, ResetDue, Abstract!Probe
    <3>3. QED
      BY <3>2
  <2>2. CASE ~ResetDue
    BY <1>1, <2>2 DEF AdmitH, Admit
  <2>3. QED
    BY <2>1, <2>2
<1>2. CASE RejectH
  BY <1>2 DEF RejectH, Reject, vars
<1>3. CASE RecordSuccessH
  <2>1. CASE LastProbe
    BY <1>3, <2>1 DEF RecordSuccessH, RecordSuccess, LastProbe, Abstract!Recover
  <2>2. CASE ~LastProbe
    BY <1>3, <2>2 DEF RecordSuccessH, RecordSuccess
  <2>3. QED
    BY <2>1, <2>2
<1>4. CASE RecordFailureH
  <2>1. CASE state' = "open" /\ state # "open"
    BY <1>4, <2>1 DEF RecordFailureH, RecordFailure, Abstract!Trip
  <2>2. CASE ~(state' = "open" /\ state # "open")
    BY <1>4, <2>2 DEF RecordFailureH, RecordFailure
  <2>3. QED
    BY <2>1, <2>2
<1>5. CASE IgnoreFailureH
  BY <1>5 DEF IgnoreFailureH, IgnoreFailure, vars
<1>6. CASE ResetH
  BY <1>6 DEF ResetH, Reset, Abstract!ForceClose
<1>7. CASE TickH
  BY <1>7 DEF TickH, Tick, Elapsed, Abstract!Tick, Abstract!Elapsed
<1>8. CASE UNCHANGED hvars
  BY <1>8 DEF hvars, vars
<1>9. QED
  BY <1>1, <1>2, <1>3, <1>4, <1>5, <1>6, <1>7, <1>8 DEF NextH

\* The Redis breaker implements the abstract circuit breaker.
THEOREM Refinement == SpecH => ImplementsCircuitBreaker
<1>1. InitH => Abstract!Init
  BY DEF InitH, Init, Abstract!Init
<1>2. HistoryInv /\ [NextH]_hvars => [Abstract!Next]_(Abstract!vars)
  BY AbstractStep
<1>3. QED
  BY <1>1, <1>2, HistoryInvariant, PTL
     DEF SpecH, ImplementsCircuitBreaker, Abstract!Spec
=============================================================================
