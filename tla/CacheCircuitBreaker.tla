------------------------ MODULE CacheCircuitBreaker ------------------------
(***************************************************************************)
(* The circuit breaker in front of Redis:                                  *)
(* src/services/cache/cache-circuit-breaker.ts, class CacheCircuitBreaker. *)
(*                                                                         *)
(* Its callers are concurrent cache operations, reconnection attempts and  *)
(* health pings.  They ask canExecute, await Redis, and report an outcome  *)
(* later, so an outcome may arrive in any state of the breaker; health     *)
(* pings report without asking.  Here every operation may be called at any *)
(* time; SharedRedisCache.tla adds the callers.                            *)
(*                                                                         *)
(* The breaker modelled is an enabled one (config.enabled): a disabled one *)
(* admits everything and records nothing.  Counters that only feed         *)
(* getStats are left out.                                                  *)
(***************************************************************************)
EXTENDS Naturals

CONSTANTS
    FailureThreshold,   \* config.failureThreshold
    ResetTimeout,       \* config.resetTimeout, in ticks
    SuccessThreshold    \* config.successThreshold

ASSUME BreakerAssumption ==
    /\ FailureThreshold \in Nat \ {0}
    /\ ResetTimeout \in Nat \ {0}
    /\ SuccessThreshold \in Nat \ {0}

VARIABLES
    state,              \* "closed", "open" or "half_open"
    failureCount,       \* saturated at FailureThreshold, its only comparison
    halfOpenSuccesses,
    failureAge          \* now - lastFailureTime, saturated at ResetTimeout

vars == <<state, failureCount, halfOpenSuccesses, failureAge>>

Elapsed(age) == IF age < ResetTimeout THEN age + 1 ELSE age

\* failureCount++
OneMore == IF failureCount < FailureThreshold THEN failureCount + 1
                                              ELSE FailureThreshold

\* lastFailureTime starts at 0, so far in the past that nothing waits for it.
Init ==
    /\ state = "closed"
    /\ failureCount = 0
    /\ halfOpenSuccesses = 0
    /\ failureAge = ResetTimeout

(***************************************************************************)
(* canExecute                                                              *)
(***************************************************************************)
AdmitsNow == state \in {"closed", "half_open"}

ResetDue == state = "open" /\ failureAge = ResetTimeout

\* canExecute() returns true.  The first call after the timeout makes the
\* breaker half-open.
Admit ==
    /\ AdmitsNow \/ ResetDue
    /\ state' = IF ResetDue THEN "half_open" ELSE state
    /\ UNCHANGED <<failureCount, halfOpenSuccesses, failureAge>>

\* canExecute() returns false.
Reject ==
    /\ ~AdmitsNow /\ ~ResetDue
    /\ UNCHANGED vars

(***************************************************************************)
(* Outcomes                                                                *)
(***************************************************************************)
LastProbe == state = "half_open" /\ halfOpenSuccesses + 1 >= SuccessThreshold

\* Mutant: probe successes are counted in every state.
RecordSuccessEverywhere ==
    /\ failureCount' = 0
    /\ state' = IF LastProbe THEN "closed" ELSE state
    /\ halfOpenSuccesses' = IF LastProbe THEN 0 ELSE halfOpenSuccesses + 1
    /\ UNCHANGED failureAge

\* Mutant: a success does not forget the failures before it.
RecordSuccessKeepsFailures ==
    /\ state' = IF LastProbe THEN "closed" ELSE state
    /\ halfOpenSuccesses' = IF LastProbe THEN 0
                            ELSE IF state = "half_open" THEN halfOpenSuccesses + 1
                            ELSE halfOpenSuccesses
    /\ UNCHANGED <<failureCount, failureAge>>

\* Mutant: probe successes are not counted.
RecordSuccessUncounted ==
    /\ failureCount' = 0
    /\ state' = IF LastProbe THEN "closed" ELSE state
    /\ UNCHANGED <<halfOpenSuccesses, failureAge>>

RecordSuccess ==
    /\ failureCount' = 0
    /\ state' = IF LastProbe THEN "closed" ELSE state
    /\ halfOpenSuccesses' = IF LastProbe THEN 0
                            ELSE IF state = "half_open" THEN halfOpenSuccesses + 1
                            ELSE halfOpenSuccesses
    /\ UNCHANGED failureAge

\* Mutant: a failed probe does not forget the successful ones.
RecordFailureKeepsProbes ==
    /\ failureCount' = OneMore
    /\ failureAge' = 0
    /\ state' = IF state = "closed" /\ OneMore < FailureThreshold
                THEN "closed" ELSE "open"
    /\ UNCHANGED halfOpenSuccesses

\* Mutant: lastFailureTime is only written while closed.
RecordFailureKeepsAge ==
    /\ failureCount' = OneMore
    /\ failureAge' = IF state = "closed" THEN 0 ELSE failureAge
    /\ halfOpenSuccesses' = 0
    /\ state' = IF state = "closed" /\ OneMore < FailureThreshold
                THEN "closed" ELSE "open"

\* recordFailure with a connection error.  A failure reported while open, by
\* a caller admitted earlier or by a ping, restarts the waiting time.
RecordFailure ==
    /\ failureCount' = OneMore
    /\ failureAge' = 0
    /\ halfOpenSuccesses' = 0
    /\ state' = IF state = "closed" /\ OneMore < FailureThreshold
                THEN "closed" ELSE "open"

\* recordFailure with any other error is ignored.
IgnoreFailure == UNCHANGED vars

\* reset() leaves lastFailureTime alone.
Reset ==
    /\ state' = "closed"
    /\ failureCount' = 0
    /\ halfOpenSuccesses' = 0
    /\ UNCHANGED failureAge

Tick ==
    /\ failureAge' = Elapsed(failureAge)
    /\ UNCHANGED <<state, failureCount, halfOpenSuccesses>>

Next ==
    \/ Admit
    \/ Reject
    \/ RecordSuccess
    \/ RecordFailure
    \/ IgnoreFailure
    \/ Reset
    \/ Tick

Spec == Init /\ [][Next]_vars

(***************************************************************************)
(* Properties                                                              *)
(***************************************************************************)

\* Types, and the bounds of the two counters.
TypeOK ==
    /\ state \in {"closed", "open", "half_open"}
    /\ failureCount \in 0..FailureThreshold
    /\ halfOpenSuccesses \in 0..SuccessThreshold
    /\ failureAge \in 0..ResetTimeout

\* A breaker that closed again has forgotten the failures that opened it:
\* the failure count of a closed breaker is below the threshold, however it
\* became closed, so that one isolated failure cannot re-open it.
ClosedBelowThreshold ==
    state = "closed" => failureCount < FailureThreshold

\* Probe successes are counted only while probing, and never reach the
\* threshold without the breaker closing.
ProbesOnlyWhileHalfOpen ==
    /\ halfOpenSuccesses < SuccessThreshold
    /\ state # "half_open" => halfOpenSuccesses = 0
=============================================================================
