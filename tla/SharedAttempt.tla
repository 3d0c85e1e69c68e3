---------------------------- MODULE SharedAttempt ----------------------------
(***************************************************************************)
(* What CacheReconnectManager promises those who need a connection:        *)
(* whoever finds no attempt under way makes one, everybody else joins it,  *)
(* and when it ends all who waited learn of its one outcome.  How the      *)
(* attempt is made, what guards it, and what a shutdown does to it in the  *)
(* meantime is left to the implementation.                                 *)
(***************************************************************************)
CONSTANTS
    Callers,
    Outcomes,   \* of an attempt
    Nothing     \* what a caller has been told that waits, or needs nothing

VARIABLES
    running,    \* the callers that run an attempt
    waiting,    \* the callers that wait for its outcome
    told        \* [Callers -> what the caller was told and has not acted upon]

vars == <<running, waiting, told>>

Init ==
    /\ running = {}
    /\ waiting = {}
    /\ told = [c \in Callers |-> Nothing]

Free(c) == c \notin waiting /\ told[c] = Nothing

\* The first caller runs the attempt, and waits like the others.
Start(c) ==
    /\ running = {}
    /\ Free(c)
    /\ running' = {c}
    /\ waiting' = waiting \cup {c}
    /\ UNCHANGED told

Join(c) ==
    /\ running # {}
    /\ Free(c)
    /\ waiting' = waiting \cup {c}
    /\ UNCHANGED <<running, told>>

\* Nobody goes on waiting, and nobody is told anything else.
End(outcome) ==
    /\ running # {}
    /\ running' = {}
    /\ waiting' = {}
    /\ told' = [c \in Callers |-> IF c \in waiting THEN outcome ELSE told[c]]

\* A caller acts upon the outcome.
GoOn(c) ==
    /\ told[c] # Nothing
    /\ told' = [told EXCEPT ![c] = Nothing]
    /\ UNCHANGED <<running, waiting>>

Next ==
    \/ \E c \in Callers : Start(c) \/ Join(c) \/ GoOn(c)
    \/ \E outcome \in Outcomes : End(outcome)

Spec == Init /\ [][Next]_vars
=============================================================================
