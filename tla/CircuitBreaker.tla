--------------------------- MODULE CircuitBreaker ---------------------------
(***************************************************************************)
(* What every circuit breaker of the service promises its callers,         *)
(* whatever it counts: it trips, it stays open for at least ResetTimeout,  *)
(* it admits probes, and only then may it close.  An operator may force it *)
(* closed.  The breakers of the source are shown to implement this.        *)
(***************************************************************************)
EXTENDS Naturals

CONSTANT ResetTimeout   \* ticks a breaker stays open after it tripped

VARIABLES
    state,    \* "closed", "open" or "half_open"
    openFor   \* ticks since the breaker tripped, saturated at ResetTimeout

vars == <<state, openFor>>

Elapsed(age) == IF age < ResetTimeout THEN age + 1 ELSE age

Init ==
    /\ state = "closed"
    /\ openFor = ResetTimeout

\* Failures open a closed breaker, or re-open one that is being probed.
Trip ==
    /\ state \in {"closed", "half_open"}
    /\ state' = "open"
    /\ openFor' = 0

\* The first caller after the waiting time becomes the probe.
Probe ==
    /\ state = "open"
    /\ openFor = ResetTimeout
    /\ state' = "half_open"
    /\ UNCHANGED openFor

\* Probes succeeded.
Recover ==
    /\ state = "half_open"
    /\ state' = "closed"
    /\ UNCHANGED openFor

\* An operator closes the breaker by hand.
ForceClose ==
    /\ state' = "closed"
    /\ UNCHANGED openFor

Tick ==
    /\ openFor' = Elapsed(openFor)
    /\ UNCHANGED state

Next == Trip \/ Probe \/ Recover \/ ForceClose \/ Tick

Spec == Init /\ [][Next]_vars
=============================================================================
