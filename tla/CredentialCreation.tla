-------------------------- MODULE CredentialCreation --------------------------
(***************************************************************************)
(* Creating a JWT credential for a consumer in Kong.                       *)
(*                                                                         *)
(*   src/adapters/kong.adapter.ts          createConsumerSecret            *)
(*   src/adapters/kong-mode-strategies.ts  realm and consumer of Konnect   *)
(*   src/utils/bun-fetch-fallback.ts       fetchWithFallback               *)
(*   src/services/circuit-breaker.service.ts  wrapKongConsumerOperation    *)
(*                                                                         *)
(* The service offers it through IKongService; no route calls it yet.      *)
(* Several creators may ask for the same consumer.  A request, or only the *)
(* reply to it, may be lost; fetchWithFallback then sends the same request *)
(* again with curl.  Kong refuses a key that exists (409).  The breaker    *)
(* gives up waiting (or has given up asking) while the creation goes on.   *)
(***************************************************************************)
EXTENDS Naturals, FiniteSets

CONSTANTS
    Creators,           \* concurrent calls
    KeyIds,             \* keys generateJwtKey may draw
    ForeignKey,         \* the one of them that another consumer has
    MaxAttempts         \* maxRetries

ASSUME CreationAssumption ==
    /\ MaxAttempts \in Nat \ {0}
    /\ ForeignKey \in KeyIds /\ "none" \notin KeyIds

VARIABLES
    konnect,            \* mode = KONNECT
    credentials,        \* [KeyIds -> "free", "ours" or "foreign"], in Kong
    realm,              \* the realm exists
    creator,            \* [Creators -> where its call awaits]
    told,               \* [Creators -> what its last call was told]
    primaryCopy,        \* the key of the credential in the cache
    staleCopy           \* the key of the credential in the stale cache

creationVars == <<konnect, credentials, realm, creator, told, primaryCopy, staleCopy>>

NoKey == "none"
Stages == {"idle", "checksRealm", "createsRealm", "resolves", "posts", "stores", "draws"}
Done == [pc |-> "idle", byName |-> FALSE, heard |-> FALSE, attempt |-> 0, via |-> "fetch", key |-> NoKey]

CreationInit ==
    /\ konnect \in BOOLEAN
    /\ credentials = [k \in KeyIds |-> IF k = ForeignKey THEN "foreign" ELSE "free"]
    /\ realm = FALSE
    /\ creator = [p \in Creators |-> Done]
    /\ told = [p \in Creators |-> NoKey]
    /\ primaryCopy = NoKey
    /\ staleCopy = NoKey

Goes(p, call) == creator' = [creator EXCEPT ![p] = call]
kong == <<konnect, credentials, realm>>
caches == <<primaryCopy, staleCopy>>

(***************************************************************************)
(* createConsumerSecret                                                    *)
(***************************************************************************)
CreateConsumerSecret(p, byName) ==
    /\ creator[p].pc = "idle"
    /\ Goes(p, [Done EXCEPT !.pc = IF konnect THEN "checksRealm" ELSE "draws",
                            !.byName = byName, !.heard = TRUE])
    /\ told' = [told EXCEPT ![p] = NoKey]
    /\ UNCHANGED <<kong, caches>>

\* The breaker is open: the call is denied; nothing is sent.
Denied(p) ==
    /\ creator[p].pc = "idle"
    /\ told' = [told EXCEPT ![p] = NoKey]
    /\ UNCHANGED <<kong, creator, caches>>

\* An error thrown by any step: the breaker counts it, the caller gets null.
Throws(p) ==
    /\ creator[p].pc \notin {"idle", "stores"}
    /\ Goes(p, Done)
    /\ UNCHANGED <<kong, told, caches>>

\* ensureRealmExists: the realm may be created by another call between the
\* check and the creation, which then reports that the name is taken.
CheckRealm(p) ==
    /\ creator[p].pc = "checksRealm"
    /\ Goes(p, [creator[p] EXCEPT !.pc = IF realm THEN "resolves" ELSE "createsRealm"])
    /\ UNCHANGED <<kong, told, caches>>

CreateRealm(p, answered) ==
    /\ creator[p].pc = "createsRealm"
    /\ realm' = TRUE
    /\ Goes(p, IF answered THEN [creator[p] EXCEPT !.pc = "resolves"] ELSE Done)
    /\ UNCHANGED <<konnect, credentials, told, caches>>

\* resolveConsumerId: found, or null: no such consumer.
ResolveConsumerId(p, found) ==
    /\ creator[p].pc = "resolves"
    /\ Goes(p, IF found THEN [creator[p] EXCEPT !.pc = "draws"] ELSE Done)
    /\ staleCopy' = IF ~found /\ creator[p].heard THEN NoKey ELSE staleCopy
    /\ UNCHANGED <<kong, told, primaryCopy>>

\* The next attempt, with a new key.
NextAttempt(p, key) ==
    /\ creator[p].pc = "draws"
    /\ creator[p].attempt < MaxAttempts
    /\ Goes(p, [creator[p] EXCEPT !.pc = "posts", !.attempt = @ + 1, !.via = "fetch", !.key = key])
    /\ UNCHANGED <<kong, told, caches>>

\* The request was lost, or Kong has handled it and the reply was lost.
\* fetch is followed by curl, curl by the error of fetch.
PostLost(p, handled) ==
    /\ creator[p].pc = "posts"
    /\ credentials' = IF handled /\ credentials[creator[p].key] = "free"
                      THEN [credentials EXCEPT ![creator[p].key] = "ours"]
                      ELSE credentials
    /\ Goes(p, IF creator[p].via = "fetch" THEN [creator[p] EXCEPT !.via = "curl"] ELSE Done)
    /\ UNCHANGED <<konnect, realm, told, caches>>

Created(p) ==
    /\ creator[p].pc = "posts"
    /\ credentials[creator[p].key] = "free"
    /\ credentials' = [credentials EXCEPT ![creator[p].key] = "ours"]
    /\ Goes(p, [creator[p] EXCEPT !.pc = "stores"])
    /\ UNCHANGED <<konnect, realm, told, caches>>

\* Mutant: a credential that exists is taken for the one that was created.
ConflictIsCreated(p) ==
    /\ creator[p].pc = "posts"
    /\ credentials[creator[p].key] # "free"
    /\ Goes(p, [creator[p] EXCEPT !.pc = "stores"])
    /\ UNCHANGED <<kong, told, caches>>

\* 409: the key exists, be it by this call's own lost request.
Conflict(p) ==
    /\ creator[p].pc = "posts"
    /\ credentials[creator[p].key] # "free"
    /\ Goes(p, IF creator[p].attempt < MaxAttempts THEN [creator[p] EXCEPT !.pc = "draws"] ELSE Done)
    /\ UNCHANGED <<kong, told, caches>>

\* 404: there is no such consumer, the answer is null.
NotCreated(p) ==
    /\ creator[p].pc = "posts"
    /\ Goes(p, Done)
    /\ staleCopy' = IF creator[p].heard THEN NoKey ELSE staleCopy
    /\ UNCHANGED <<kong, told, primaryCopy>>

\* The credential names the consumer by its id: one asked for by name is
\* neither cached nor returned.
StoreAndReturn(p) ==
    LET call == creator[p]
    IN  /\ call.pc = "stores"
        /\ primaryCopy' = IF call.byName THEN primaryCopy ELSE call.key
        /\ IF call.byName \/ ~call.heard
           THEN UNCHANGED <<told, staleCopy>>
           ELSE told' = [told EXCEPT ![p] = call.key] /\ staleCopy' = call.key
        /\ Goes(p, Done)
        /\ UNCHANGED kong

\* The breaker stops waiting and its caller is told null; the call goes on.
BreakerTimeout(p) ==
    /\ creator[p].pc # "idle" /\ creator[p].heard
    /\ Goes(p, [creator[p] EXCEPT !.heard = FALSE])
    /\ UNCHANGED <<kong, told, caches>>

CreationNext ==
    \E p \in Creators :
        \/ \E byName \in BOOLEAN : CreateConsumerSecret(p, byName)
        \/ Denied(p) \/ Throws(p) \/ CheckRealm(p)
        \/ \E answered \in BOOLEAN : CreateRealm(p, answered)
        \/ \E found \in BOOLEAN : ResolveConsumerId(p, found)
        \/ \E key \in KeyIds : NextAttempt(p, key)
        \/ \E handled \in BOOLEAN : PostLost(p, handled)
        \/ Created(p) \/ Conflict(p) \/ NotCreated(p) \/ StoreAndReturn(p) \/ BreakerTimeout(p)

CreationSpec == CreationInit /\ [][CreationNext]_creationVars

(***************************************************************************)
(* Properties                                                              *)
(***************************************************************************)

Copies == {primaryCopy, staleCopy} \cup {told[p] : p \in Creators}

\* Types.
CreationTypeOK ==
    /\ konnect \in BOOLEAN /\ realm \in BOOLEAN
    /\ credentials \in [KeyIds -> {"free", "ours", "foreign"}]
    /\ creator \in [Creators -> [pc : Stages, byName : BOOLEAN, heard : BOOLEAN, attempt : 0..MaxAttempts,
                                 via : {"fetch", "curl"}, key : KeyIds \cup {NoKey}]]
    /\ Copies \subseteq KeyIds \cup {NoKey}

\* Whatever requests and replies were lost or repeated and whoever else was
\* creating, a credential that a caller is given or that a cache holds is
\* one that Kong holds for this consumer.  (The converse does not hold: a
\* lost reply or a timeout leaves credentials in Kong that nobody was told
\* of.)
CredentialsAreKongs ==
    \A key \in Copies \ {NoKey} : credentials[key] = "ours"
=============================================================================
