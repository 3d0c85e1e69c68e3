---------------------------- MODULE SecretService ----------------------------
(***************************************************************************)
(* What KongAdapter.getConsumerSecret promises whoever asks for the secret *)
(* of a consumer, whatever caches, breakers and fallbacks are behind it:   *)
(* either a secret that was issued to this consumer, and was replaced or   *)
(* revoked not too long ago, or none at all.                               *)
(***************************************************************************)
EXTENDS Naturals

CONSTANTS
    Requests, Consumers,
    NoSecret,
    MaxVersion,     \* bound: secrets ever issued to a consumer
    Staleness       \* ticks after its replacement a secret may be given out

VARIABLES
    issued, active, \* last version issued, and whether it still exists
    supersededFor,  \* ticks since a version stopped being current
    request,        \* "idle", "asked" or "answered"
    asked,          \* the consumer whose secret is asked for
    answer          \* what an answered request is given

secretVars  == <<issued, active, supersededFor>>
requestVars == <<request, asked, answer>>

vars == <<secretVars, requestVars>>

Init ==
    /\ issued = [c \in Consumers |-> 1]
    /\ active = [c \in Consumers |-> TRUE]
    /\ supersededFor = [c \in Consumers |-> [v \in 1..MaxVersion |-> 0]]
    /\ request = [r \in Requests |-> "idle"]
    /\ asked \in [Requests -> Consumers]
    /\ answer = [r \in Requests |-> NoSecret]

Goes(r, from, to) ==
    /\ request[r] = from
    /\ request' = [request EXCEPT ![r] = to]

Ask(r, c) ==
    /\ Goes(r, "idle", "asked")
    /\ asked' = [asked EXCEPT ![r] = c]
    /\ UNCHANGED <<answer, secretVars>>

Give(r, v) ==
    /\ v \in 1..issued[asked[r]]
    /\ supersededFor[asked[r]][v] <= Staleness
    /\ Goes(r, "asked", "answered")
    /\ answer' = [answer EXCEPT ![r] = [owner |-> asked[r], version |-> v]]
    /\ UNCHANGED <<asked, secretVars>>

Deny(r) ==
    /\ Goes(r, "asked", "answered")
    /\ answer' = [answer EXCEPT ![r] = NoSecret]
    /\ UNCHANGED <<asked, secretVars>>

Deliver(r) ==
    /\ Goes(r, "answered", "idle")
    /\ answer' = [answer EXCEPT ![r] = NoSecret]
    /\ UNCHANGED <<asked, secretVars>>

Issue(c) ==
    /\ issued[c] < MaxVersion
    /\ issued' = [issued EXCEPT ![c] = @ + 1]
    /\ active' = [active EXCEPT ![c] = TRUE]
    /\ UNCHANGED <<supersededFor, requestVars>>

Revoke(c) ==
    /\ active[c]
    /\ active' = [active EXCEPT ![c] = FALSE]
    /\ UNCHANGED <<issued, supersededFor, requestVars>>

\* A version counts from the moment it is not the consumer's current one.
Replaced(c, v) == v < issued[c] \/ (v = issued[c] /\ ~active[c])

OneMore(ticks) == IF ticks <= Staleness THEN ticks + 1 ELSE ticks

Tick ==
    /\ supersededFor' =
         [c \in Consumers |-> [v \in 1..MaxVersion |->
            IF Replaced(c, v) THEN OneMore(supersededFor[c][v])
                              ELSE supersededFor[c][v]]]
    /\ UNCHANGED <<issued, active, requestVars>>

Next ==
    \/ \E r \in Requests : \/ \E c \in Consumers : Ask(r, c)
                           \/ \E v \in 1..MaxVersion : Give(r, v)
                           \/ Deny(r) \/ Deliver(r)
    \/ \E c \in Consumers : Issue(c) \/ Revoke(c)
    \/ Tick

Spec == Init /\ [][Next]_vars
=============================================================================
