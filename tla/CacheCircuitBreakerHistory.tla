---------------------- MODULE CacheCircuitBreakerHistory ----------------------
(***************************************************************************)
(* CacheCircuitBreaker with history variables: what the breaker was told   *)
(* since it last changed its mind.  They are read by no action; the        *)
(* properties compare the breaker's decisions with them, and the           *)
(* refinement mapping to CircuitBreaker reads the time since it tripped.   *)
(***************************************************************************)
EXTENDS CacheCircuitBreaker

VARIABLES
    failureRun,   \* connection failures since the last success or reset (saturated)
    probeRun,     \* successes since half-open or the last failure (saturated)
    openFor       \* ticks since the breaker tripped (saturated)

history == <<failureRun, probeRun, openFor>>

hvars == <<vars, history>>

InitH ==
    /\ Init
    /\ failureRun = 0
    /\ probeRun = 0
    /\ openFor = ResetTimeout

CountTo(n, limit) == IF n < limit THEN n + 1 ELSE limit

AdmitH ==
    /\ Admit
    /\ probeRun' = IF state = "open" THEN 0 ELSE probeRun
    /\ UNCHANGED <<failureRun, openFor>>

RejectH == Reject /\ UNCHANGED history

RecordSuccessH ==
    /\ RecordSuccess
    /\ failureRun' = 0
    /\ probeRun' = CountTo(probeRun, SuccessThreshold)
    /\ UNCHANGED openFor

RecordFailureH ==
    /\ RecordFailure
    /\ failureRun' = CountTo(failureRun, FailureThreshold)
    /\ probeRun' = 0
    /\ openFor' = IF state' = "open" /\ state # "open" THEN 0 ELSE openFor

IgnoreFailureH == IgnoreFailure /\ UNCHANGED history

ResetH ==
    /\ Reset
    /\ failureRun' = 0
    /\ UNCHANGED <<probeRun, openFor>>

TickH ==
    /\ Tick
    /\ openFor' = Elapsed(openFor)
    /\ UNCHANGED <<failureRun, probeRun>>

NextH ==
    \/ AdmitH
    \/ RejectH
    \/ RecordSuccessH
    \/ RecordFailureH
    \/ IgnoreFailureH
    \/ ResetH
    \/ TickH

SpecH == InitH /\ [][NextH]_hvars

\* Time passes and, sooner or later, somebody asks and Redis answers.
FairSpecH ==
    /\ SpecH
    /\ WF_hvars(TickH)
    /\ WF_hvars(AdmitH)
    /\ WF_hvars(RecordSuccessH)

(***************************************************************************)
(* Properties                                                              *)
(***************************************************************************)

\* The breaker closes by itself only on evidence gathered since it began to
\* probe: SuccessThreshold successes with no connection failure among them.
\* Successes of an earlier, failed probe period do not count.
ClosesOnFreshEvidence ==
    [][state = "half_open" /\ state' = "closed" =>
         ResetH \/ probeRun' = SuccessThreshold]_hvars

\* A closed breaker opens only after FailureThreshold connection failures
\* with no success in between: errors that are no connection errors and
\* failures from before a success, a recovery or a reset never count.
TripsOnConsecutiveFailures ==
    [][state = "closed" /\ state' = "open" =>
         failureRun' = FailureThreshold]_hvars

\* The breaker implements the abstract one: whoever reports a late outcome,
\* it never lets a caller through before ResetTimeout passed since it
\* tripped, and it never goes from open to closed without probing, unless
\* it is reset by hand.
Abstract == INSTANCE CircuitBreaker
    WITH ResetTimeout <- ResetTimeout, state <- state, openFor <- openFor

ImplementsCircuitBreaker == Abstract!Spec

\* If connection failures stop, the breaker closes for good: late outcomes
\* of callers admitted long ago cannot keep it open or half-open.
RecoversWhenFailuresStop ==
    <>[][~RecordFailure]_hvars => <>[](state = "closed")
=============================================================================
