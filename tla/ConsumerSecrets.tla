--------------------------- MODULE ConsumerSecrets ---------------------------
(***************************************************************************)
(* How a token request gets the JWT secret of a consumer:                  *)
(*                                                                         *)
(*   src/adapters/kong.adapter.ts                getConsumerSecret         *)
(*   src/services/circuit-breaker.service.ts     KongCircuitBreakerService *)
(*   src/services/cache/local-memory-cache.ts    primary cache, non-HA     *)
(*   src/services/cache/shared-redis-cache.ts    primary and stale, HA     *)
(*                                                                         *)
(* Concurrent requests look in the primary cache, ask Kong through a       *)
(* circuit breaker (the opossum library), fill the caches, and fall back   *)
(* on stale copies while the breaker is open.  A call the breaker timed    *)
(* out goes on in the background and may still write to the cache.         *)
(*                                                                         *)
(* A tick is a minute.  What Kong replied is stored within less than a     *)
(* tick, so that takes at most one; other awaits may take any number.      *)
(***************************************************************************)
EXTENDS Naturals, FiniteSets, Functions

CONSTANTS
    Requests, Consumers,
    NoSecret,           \* null, or an error the handler gets instead
    InitialBreakers,    \* {"closed"}; {"disabled"}: circuitBreaker.enabled is false
    MaxVersion,         \* bound: credentials Kong ever issues to a consumer
    HighAvailability,   \* config.highAvailability: Redis instead of local memory
    InterruptedWrites,  \* the connection to Redis may break between commands
    Ttl,                \* caching.ttlSeconds, in ticks
    MaxPrimary,         \* the 1000 entries local memory always has room for
    MaxStale,           \* caching.maxMemoryEntries
    Tolerance,          \* caching.staleDataToleranceMinutes, in ticks
    RedisStaleTtl,      \* the 30 minutes the Redis backend always uses
    ResetTimeout,       \* resetTimeout of the getConsumerSecret breaker
    BreakerTtl          \* BREAKER_TTL_MS, in ticks

ASSUME SecretsAssumption ==
    /\ IsFiniteSet(Requests) /\ IsFiniteSet(Consumers)
    /\ InitialBreakers \subseteq {"closed", "disabled"}
    /\ HighAvailability \in BOOLEAN /\ InterruptedWrites \in BOOLEAN
    /\ {MaxVersion, Ttl, MaxPrimary, MaxStale, Tolerance, RedisStaleTtl, ResetTimeout}
         \subseteq Nat \ {0}
    /\ BreakerTtl \in Nat /\ BreakerTtl > ResetTimeout

Secret == [owner : Consumers, version : 1..MaxVersion]

ASSUME NoSecretAssumption == NoSecret \notin Secret

\* How long after its replacement a secret may still be given out: as long
\* as the longest-lived copy, plus the time Kong's reply took to be stored.
Longest(S) == CHOOSE m \in S : \A n \in S : n <= m

Window == 1 + Longest({Ttl, Tolerance} \cup
                      IF HighAvailability THEN {RedisStaleTtl} ELSE {})

VARIABLES
    \* Kong
    kong,             \* "up" or "down"
    issued, active,   \* last version issued, and whether it still exists
    supersededFor,    \* history: ticks since a version stopped being current
    \* the caches: partial functions on Consumers
    primary,          \* [secret, age, expires]
    redisStale,       \* [secret, age, expires]; HA only
    staleCache,       \* [secret, age]; in the memory of the process
    \* the breaker of operation getConsumerSecret
    breaker,          \* "closed", "open" or "halfOpen"; "disabled" for good
    pendingClose,     \* the one probe of a half-open breaker is still to come
    openFor,          \* while open: how long the reset timer has run
    unusedFor,        \* ticks since lastUsed
    \* the requests
    call,             \* where the caller is
    asked,            \* the consumer it asks for
    action,           \* where the action it passed to the breaker is
    reply,            \* what Kong told the action
    replyAge,         \* ticks since then, while it is being stored
    answer            \* what an "answered" call returned

kongVars    == <<kong, issued, active, supersededFor>>
cacheVars   == <<primary, redisStale>>
breakerVars == <<breaker, pendingClose, openFor, unusedFor>>
callVars    == <<call, asked, answer>>
actionVars  == <<action, reply, replyAge>>

vars == <<kongVars, cacheVars, staleCache, breakerVars, callVars, actionVars>>

Current(c) == IF active[c] THEN [owner |-> c, version |-> issued[c]] ELSE NoSecret

NoEntries == [c \in {} |-> NoSecret]

Init ==
    /\ kong = "up"
    /\ issued = [c \in Consumers |-> 1] /\ active = [c \in Consumers |-> TRUE]
    /\ supersededFor = [c \in Consumers |-> [v \in 1..MaxVersion |-> 0]]
    /\ primary = NoEntries /\ redisStale = NoEntries /\ staleCache = NoEntries
    /\ breaker \in InitialBreakers /\ pendingClose = FALSE
    /\ openFor = 0 /\ unusedFor = 0
    /\ call = [r \in Requests |-> "idle"]
    /\ asked \in [Requests -> Consumers]
    /\ action = [r \in Requests |-> "none"]
    /\ reply = [r \in Requests |-> NoSecret]
    /\ replyAge = [r \in Requests |-> 0]
    /\ answer = [r \in Requests |-> NoSecret]

(***************************************************************************)
(* The caches                                                              *)
(***************************************************************************)
Without(m, S) == Restrict(m, DOMAIN m \ S)

\* map.set, which adds or replaces one entry.
With(m, c, entry) ==
    [d \in DOMAIN m \cup {c} |-> IF d = c THEN entry ELSE m[d]]

\* Entries that could make room for c's: the oldest of the others.
Oldest(m, c) ==
    LET others == DOMAIN m \ {c}
    IN {d \in others : \A e \in others : m[e].age <= m[d].age}

\* The caches that map.set(c, entry) and the eviction after it may leave.
SetAndEvict(m, c, entry, limit) ==
    LET filled == With(m, c, entry)
    IN IF Cardinality(DOMAIN filled) <= limit THEN {filled}
       ELSE {Without(filled, {d}) : d \in Oldest(filled, c)}

\* An entry of the primary or the Redis stale cache that is still served.
\* Without EXPIRE, Redis keeps a key for ever.
Live(m, c, ttl) ==
    /\ c \in DOMAIN m
    /\ m[c].expires => m[c].age < ttl

PrimaryHas(c) == Live(primary, c, Ttl)

RedisStaleHas(c) == Live(redisStale, c, RedisStaleTtl)

\* Mutant: the stale copy is written without EXPIRE.
RedisSetStaleForEver(c, s, n) ==
    LET entry(done) == [secret |-> s, age |-> 0, expires |-> done]
    IN /\ primary' = IF n >= 1 THEN With(primary, c, entry(n >= 2)) ELSE primary
       /\ redisStale' = IF n >= 3 THEN With(redisStale, c, entry(FALSE))
                                  ELSE redisStale

\* Mutant: the primary copy is written without EXPIRE.
RedisSetPrimaryForEver(c, s, n) ==
    LET entry(done) == [secret |-> s, age |-> 0, expires |-> done]
    IN /\ primary' = IF n >= 1 THEN With(primary, c, entry(FALSE)) ELSE primary
       /\ redisStale' = IF n >= 3 THEN With(redisStale, c, entry(n >= 4))
                                  ELSE redisStale

\* cache.set in HA mode: SET, EXPIRE, SET, EXPIRE, of which the first n took
\* effect before the connection broke.  SET forgets an earlier expiry.
RedisSet(c, s, n) ==
    LET entry(done) == [secret |-> s, age |-> 0, expires |-> done]
    IN /\ primary' = IF n >= 1 THEN With(primary, c, entry(n >= 2)) ELSE primary
       /\ redisStale' = IF n >= 3 THEN With(redisStale, c, entry(n >= 4))
                                  ELSE redisStale

\* cache.set in non-HA mode.
LocalSet(c, s) ==
    /\ primary' \in SetAndEvict(primary, c,
                                [secret |-> s, age |-> 0, expires |-> TRUE], MaxPrimary)
    /\ UNCHANGED redisStale

\* Redis may be unreachable; another consumer's secret is not written.
CacheSet(c, s) ==
    \/ ~HighAvailability /\ LocalSet(c, s)
    \/ HighAvailability /\ s.owner = c
         /\ \E n \in 0..4 : (n \in 1..3 => InterruptedWrites) /\ RedisSet(c, s, n)
    \/ HighAvailability /\ s.owner # c /\ UNCHANGED cacheVars

\* Mutant: no enforceMaxStaleEntries.
UpdateStaleCacheUnbounded(c, s) ==
    staleCache' = With(staleCache, c, [secret |-> s, age |-> 0])

\* updateStaleCache
UpdateStaleCache(c, s) ==
    staleCache' \in SetAndEvict(staleCache, c, [secret |-> s, age |-> 0], MaxStale)

\* A disabled breaker keeps no stale copies.
KeepStaleCopy(c, s) ==
    IF breaker = "disabled" THEN UNCHANGED staleCache ELSE UpdateStaleCache(c, s)

(***************************************************************************)
(* The breaker (opossum)                                                   *)
(***************************************************************************)
\* Mutant: a half-open breaker admits no probe.
PermitsOnlyClosed == breaker \in {"closed", "disabled"}

\* A disabled breaker is not asked: the caller runs the action itself.
Permits == breaker \in {"closed", "disabled"} \/ pendingClose

\* Mutant: the permission to probe outlives the half-open state.
OpensKeepingPermission ==
    /\ breaker' = "open" /\ openFor' = 0
    /\ UNCHANGED <<pendingClose, unusedFor>>

Opens ==
    /\ breaker' = "open" /\ pendingClose' = FALSE /\ openFor' = 0
    /\ UNCHANGED unusedFor

\* A failure or a timeout.  A closed breaker opens when enough of the recent
\* calls failed.
ReportFailure ==
    \/ breaker \in {"closed", "halfOpen"} /\ Opens
    \/ breaker \in {"closed", "open", "disabled"} /\ UNCHANGED breakerVars

ReportSuccess ==
    /\ breaker' = IF breaker = "halfOpen" THEN "closed" ELSE breaker
    /\ pendingClose' = IF breaker = "halfOpen" THEN FALSE ELSE pendingClose
    /\ UNCHANGED <<openFor, unusedFor>>

ResetTimerDue == breaker = "open" /\ openFor = ResetTimeout

ResetTimer ==
    /\ ResetTimerDue
    /\ breaker' = "halfOpen" /\ pendingClose' = TRUE /\ openFor' = 0
    /\ UNCHANGED <<kongVars, cacheVars, staleCache, unusedFor, callVars, actionVars>>

(***************************************************************************)
(* A request                                                               *)
(***************************************************************************)
Answers(r, s) ==
    /\ call' = [call EXCEPT ![r] = "answered"]
    /\ answer' = [answer EXCEPT ![r] = s]
    /\ UNCHANGED asked

Awaits(r, where) ==
    /\ call' = [call EXCEPT ![r] = where]
    /\ UNCHANGED <<asked, answer>>

Ask(r, c) ==
    /\ call[r] = "idle" /\ action[r] = "none"
    /\ call' = [call EXCEPT ![r] = "lookup"]
    /\ asked' = [asked EXCEPT ![r] = c]
    /\ UNCHANGED <<kongVars, cacheVars, staleCache, breakerVars, actionVars, answer>>

\* The answer leaves the process; the next request may come.
Deliver(r) ==
    /\ call[r] = "answered"
    /\ call' = [call EXCEPT ![r] = "idle"]
    /\ answer' = [answer EXCEPT ![r] = NoSecret]
    /\ UNCHANGED <<kongVars, cacheVars, staleCache, breakerVars, asked, actionVars>>

Hit(r) ==
    /\ call[r] = "lookup"
    /\ PrimaryHas(asked[r])
    /\ Answers(r, primary[asked[r]].secret)
    /\ UNCHANGED <<kongVars, cacheVars, staleCache, breakerVars, actionVars>>

\* Local memory drops an expired entry; Redis may be unreachable, and its
\* client then answers null.
Misses(r) ==
    /\ call[r] = "lookup"
    /\ ~PrimaryHas(asked[r]) \/ HighAvailability
    /\ primary' = IF PrimaryHas(asked[r]) THEN primary
                                          ELSE Without(primary, {asked[r]})
    /\ UNCHANGED redisStale

\* breaker.fire runs the action, or the caller does without a breaker.
MissAndFire(r) ==
    /\ Misses(r)
    /\ Permits
    /\ pendingClose' = FALSE
    /\ unusedFor' = 0
    /\ action' = [action EXCEPT ![r] = "fetching"]
    /\ Awaits(r, "fired")
    /\ UNCHANGED <<kongVars, staleCache, breaker, openFor, reply, replyAge>>

\* Mutant: getStaleData without the tolerance.
StaleOfAnyAge(c) == c \in DOMAIN staleCache

\* The last tier: getStaleData, which drops an entry past the tolerance.
StaleIsFresh(c) == c \in DOMAIN staleCache /\ staleCache[c].age <= Tolerance

AnswerFromMemory(r) ==
    LET c == asked[r]
        mine == StaleIsFresh(c) /\ staleCache[c].secret.owner = c
    IN /\ staleCache' = IF mine THEN staleCache ELSE Without(staleCache, {c})
       /\ Answers(r, IF mine THEN staleCache[c].secret ELSE NoSecret)

\* handleOpenCircuitWithStaleData: in HA mode Redis is asked first.
FallBack(r) ==
    \/ HighAvailability /\ Awaits(r, "fallback") /\ UNCHANGED staleCache
    \/ ~HighAvailability /\ AnswerFromMemory(r)

\* Mutant: a failure without fallback is swallowed, the call never returns.
CatchFailureSilently(r) ==
    IF breaker' = "open" THEN FallBack(r)
    ELSE UNCHANGED <<callVars, staleCache>>

\* The catch of wrapKongConsumerOperation: only an open breaker has stale
\* data to offer; any other failure or rejection answers null.  Without a
\* breaker the failure is thrown on to the handler.
CatchFailure(r) ==
    IF breaker' = "open" THEN FallBack(r)
    ELSE Answers(r, NoSecret) /\ UNCHANGED staleCache

MissAndReject(r) ==
    /\ Misses(r)
    /\ ~Permits
    /\ unusedFor' = 0
    /\ UNCHANGED <<breaker, pendingClose, openFor>>
    /\ CatchFailure(r)
    /\ UNCHANGED <<kongVars, actionVars>>

RedisStaleHit(r) ==
    /\ call[r] = "fallback"
    /\ RedisStaleHas(asked[r])
    /\ Answers(r, IF redisStale[asked[r]].secret.owner = asked[r]
                  THEN redisStale[asked[r]].secret ELSE NoSecret)
    /\ UNCHANGED <<kongVars, cacheVars, staleCache, breakerVars, actionVars>>

\* No entry, or Redis is unreachable.
RedisStaleMiss(r) ==
    /\ call[r] = "fallback"
    /\ AnswerFromMemory(r)
    /\ UNCHANGED <<kongVars, cacheVars, breakerVars, actionVars>>

(***************************************************************************)
(* The action: ask Kong, store the reply                                   *)
(***************************************************************************)
ActionEnds(r) ==
    /\ action' = [action EXCEPT ![r] = "none"]
    /\ reply' = [reply EXCEPT ![r] = NoSecret]
    /\ replyAge' = [replyAge EXCEPT ![r] = 0]

\* The breaker hears of the outcome only if it has not timed out the call.
Settles(r, report, continuation) ==
    \/ call[r] = "fired" /\ report /\ continuation
    \/ call[r] # "fired" /\ UNCHANGED <<breakerVars, callVars, staleCache>>

KongFinds(r) ==
    /\ kong = "up" /\ action[r] = "fetching"
    /\ active[asked[r]]
    /\ action' = [action EXCEPT ![r] = "storing"]
    /\ reply' = [reply EXCEPT ![r] = Current(asked[r])]
    /\ UNCHANGED <<kongVars, cacheVars, staleCache, breakerVars, callVars, replyAge>>

\* No such consumer, no credential, or an unusable reply: null, which also
\* removes the stale copy, of which a disabled breaker has none.
KongFindsNothing(r) ==
    /\ kong = "up" /\ action[r] = "fetching"
    /\ ~active[asked[r]]
    /\ ActionEnds(r)
    /\ Settles(r, ReportSuccess,
               /\ staleCache' = Without(staleCache, {asked[r]})
               /\ Answers(r, NoSecret))
    /\ UNCHANGED <<kongVars, cacheVars>>

\* Mutant: the reply is stored and used without comparing the consumer.
KongMixesUpUnnoticed(r) ==
    /\ kong = "up" /\ action[r] = "fetching"
    /\ \E c \in Consumers \ {asked[r]} :
         /\ active[c]
         /\ action' = [action EXCEPT ![r] = "storing"]
         /\ reply' = [reply EXCEPT ![r] = Current(c)]
    /\ UNCHANGED <<kongVars, cacheVars, staleCache, breakerVars, callVars, replyAge>>

\* A reply with another consumer's credential is not cached.  The breaker does
\* not hand it on; a disabled one has no say in it.
KongMixesUp(r) ==
    /\ kong = "up" /\ action[r] = "fetching"
    /\ ActionEnds(r)
    /\ \E c \in Consumers \ {asked[r]} :
         /\ active[c]
         /\ Settles(r, ReportSuccess,
                    /\ Answers(r, IF breaker = "disabled" THEN Current(c) ELSE NoSecret)
                    /\ UNCHANGED staleCache)
    /\ UNCHANGED <<kongVars, cacheVars>>

\* An HTTP error, or no connection, after the retries.
KongFails(r) ==
    /\ kong = "down" /\ action[r] = "fetching"
    /\ ActionEnds(r)
    /\ Settles(r, ReportFailure, CatchFailure(r))
    /\ UNCHANGED <<kongVars, cacheVars>>

\* The breaker gives up on the call; the action goes on.  An answering Kong
\* is fast enough, so is local memory; Redis may be slow.
Timeout(r) ==
    /\ call[r] = "fired" /\ breaker # "disabled"
    /\ \/ action[r] = "fetching" /\ kong = "down"
       \/ action[r] = "storing" /\ HighAvailability
    /\ ReportFailure
    /\ CatchFailure(r)
    /\ UNCHANGED <<kongVars, cacheVars, actionVars>>

Stored(r) ==
    /\ action[r] = "storing"
    /\ CacheSet(asked[r], reply[r])
    /\ ActionEnds(r)
    /\ Settles(r, ReportSuccess,
               KeepStaleCopy(asked[r], reply[r]) /\ Answers(r, reply[r]))
    /\ UNCHANGED kongVars

(***************************************************************************)
(* Cleanup, every minute                                                   *)
(***************************************************************************)
CleanupExpiredStaleEntries ==
    /\ staleCache' = Without(staleCache, {c \in DOMAIN staleCache :
                                            staleCache[c].age > Tolerance})
    /\ UNCHANGED <<kongVars, cacheVars, breakerVars, callVars, actionVars>>

\* The next request finds a new, closed breaker.  No call is under way on a
\* breaker that was not used for so long.
CleanupUnusedBreakers ==
    /\ unusedFor > BreakerTtl /\ breaker # "disabled"
    /\ \A r \in Requests : call[r] # "fired"
    /\ breaker' = "closed" /\ pendingClose' = FALSE /\ openFor' = 0
    /\ UNCHANGED <<kongVars, cacheVars, staleCache, unusedFor, callVars, actionVars>>

(***************************************************************************)
(* The environment                                                         *)
(***************************************************************************)
KongChanges ==
    /\ kong' = IF kong = "up" THEN "down" ELSE "up"
    /\ UNCHANGED <<issued, active, supersededFor, cacheVars, staleCache,
                   breakerVars, callVars, actionVars>>

Issue(c) ==
    /\ issued[c] < MaxVersion
    /\ issued' = [issued EXCEPT ![c] = @ + 1]
    /\ active' = [active EXCEPT ![c] = TRUE]
    /\ UNCHANGED <<kong, supersededFor, cacheVars, staleCache, breakerVars,
                   callVars, actionVars>>

Revoke(c) ==
    /\ active[c]
    /\ active' = [active EXCEPT ![c] = FALSE]
    /\ UNCHANGED <<kong, issued, supersededFor, cacheVars, staleCache,
                   breakerVars, callVars, actionVars>>

UpTo(limit, n) == IF n < limit THEN n + 1 ELSE limit

Older(m, limit) ==
    [c \in DOMAIN m |-> [m[c] EXCEPT !.age = UpTo(limit, @)]]

\* Redis removes keys whose time has come; local memory does so when asked.
OlderInRedis(m, ttl) ==
    LET kept == {c \in DOMAIN m : m[c].expires => m[c].age + 1 < ttl}
    IN [c \in kept |-> [m[c] EXCEPT !.age = IF m[c].expires THEN @ + 1 ELSE @]]

Outdated(c, v) == v <= issued[c] /\ ~(active[c] /\ v = issued[c])

Tick ==
    /\ ~ResetTimerDue
    /\ \A r \in Requests : replyAge[r] = 0
    /\ primary' = IF HighAvailability THEN OlderInRedis(primary, Ttl)
                                      ELSE Older(primary, Ttl)
    /\ redisStale' = OlderInRedis(redisStale, RedisStaleTtl)
    /\ staleCache' = Older(staleCache, Tolerance + 1)
    /\ openFor' = IF breaker = "open" THEN UpTo(ResetTimeout, openFor) ELSE openFor
    /\ unusedFor' = UpTo(BreakerTtl + 1, unusedFor)
    /\ replyAge' = [r \in Requests |-> IF action[r] = "storing" THEN 1 ELSE 0]
    /\ supersededFor' =
         [c \in Consumers |-> [v \in 1..MaxVersion |->
            IF Outdated(c, v) THEN UpTo(Window + 1, supersededFor[c][v])
                              ELSE supersededFor[c][v]]]
    /\ UNCHANGED <<kong, issued, active, breaker, pendingClose, callVars,
                   action, reply>>

\* What a request that was asked does next, the action it left behind included.
Resume(r) ==
    \/ Hit(r)
    \/ MissAndFire(r)
    \/ MissAndReject(r)
    \/ RedisStaleHit(r)
    \/ RedisStaleMiss(r)
    \/ KongFinds(r)
    \/ KongFindsNothing(r)
    \/ KongMixesUp(r)
    \/ KongFails(r)
    \/ Stored(r)
    \/ Timeout(r)
    \/ Deliver(r)

Next ==
    \/ \E r \in Requests, c \in Consumers : Ask(r, c)
    \/ \E r \in Requests : Resume(r)
    \/ ResetTimer
    \/ CleanupExpiredStaleEntries
    \/ CleanupUnusedBreakers
    \/ KongChanges
    \/ \E c \in Consumers : Issue(c) \/ Revoke(c)
    \/ Tick

Spec == Init /\ [][Next]_vars

(***************************************************************************)
(* Every await settles, timers fire, time passes, and requests keep coming *)
(* in.  A tick has to wait for stores under way again and again.           *)
(***************************************************************************)
Fairness ==
    /\ \A r \in Requests :
         /\ WF_vars(\E c \in Consumers : Ask(r, c))
         /\ WF_vars(Resume(r))
         /\ SF_vars(MissAndFire(r))
    /\ WF_vars(ResetTimer)
    /\ SF_vars(Tick)

FairSpec == Spec /\ Fairness

(***************************************************************************)
(* Properties                                                              *)
(***************************************************************************)
PartialOn(S, T) == UNION {[D -> T] : D \in SUBSET S}

RedisEntry(ttl) == [secret : Secret, age : 0..ttl, expires : BOOLEAN]

\* Types and bounds; only a half-open breaker has a probe to admit.
TypeOK ==
    /\ kong \in {"up", "down"}
    /\ issued \in [Consumers -> 1..MaxVersion]
    /\ active \in [Consumers -> BOOLEAN]
    /\ supersededFor \in [Consumers -> [1..MaxVersion -> 0..(Window + 1)]]
    /\ primary \in PartialOn(Consumers, RedisEntry(Ttl))
    /\ redisStale \in PartialOn(Consumers, RedisEntry(RedisStaleTtl))
    /\ staleCache \in PartialOn(Consumers, [secret : Secret, age : 0..(Tolerance + 1)])
    /\ breaker \in {"closed", "open", "halfOpen", "disabled"}
    /\ pendingClose \in BOOLEAN /\ pendingClose => breaker = "halfOpen"
    /\ openFor \in 0..ResetTimeout
    /\ unusedFor \in 0..(BreakerTtl + 1)
    /\ call \in [Requests -> {"idle", "lookup", "fired", "fallback", "answered"}]
    /\ asked \in [Requests -> Consumers]
    /\ action \in [Requests -> {"none", "fetching", "storing"}]
    /\ reply \in [Requests -> Secret \cup {NoSecret}]
    /\ replyAge \in [Requests -> 0..1]
    /\ answer \in [Requests -> Secret \cup {NoSecret}]

Given(r) == call[r] = "answered" /\ answer[r] # NoSecret

\* ... in this step.
NewlyGiven(r) == ~Given(r) /\ Given(r)'

SupersededFor(s) == supersededFor[s.owner][s.version]

\* Whatever Kong mixes up, neither of the caches holds a secret under the wrong
\* key ("Prevent cache pollution", kong.adapter.ts:160); and behind a breaker, a
\* request never gets the secret of another consumer, whichever cache it comes
\* from.  (With CIRCUIT_BREAKER_ENABLED=false nobody compares the two.)
NeverAnotherConsumersSecret ==
    /\ breaker # "disabled" =>
         \A r \in Requests : Given(r) => answer[r].owner = asked[r]
    /\ \A m \in {primary, redisStale, staleCache} :
         \A c \in DOMAIN m : m[c].secret.owner = c

\* No chain of late stores, refills and fallbacks keeps a replaced or revoked
\* secret in use for longer than the longest-lived copy of it may live.
ServedSecretsAreRecent ==
    [][\A r \in Requests :
          NewlyGiven(r) => SupersededFor(answer'[r]) <= Window]_vars

\* A rotation takes effect when the primary copy has expired
\* (docs/security/token-revocation.md:78-80): only a fallback gives
\* out a secret that was replaced longer ago.
RotationTakesEffect ==
    [][\A r \in Requests :
          NewlyGiven(r) /\ SupersededFor(answer'[r]) > Ttl
            => breaker' = "open" \/ call[r] = "fallback"]_vars

\* What callers may rely on, SecretService: whichever cache, late store or
\* fallback an answer comes from, it is a secret that was issued to the consumer
\* asked for and replaced no longer ago than the longest-lived copy of it lives.
Service == INSTANCE SecretService WITH
    Staleness <- Window,
    request   <- [r \in Requests |-> IF call[r] \in {"idle", "answered"} THEN call[r]
                                                                        ELSE "asked"]

ImplementsSecretService == Service!Spec

\* The maps in the memory of the process never outgrow their limits, also when
\* timed-out calls store late.
CachesAreBounded ==
    /\ Cardinality(DOMAIN staleCache) <= MaxStale
    /\ ~HighAvailability => Cardinality(DOMAIN primary) <= MaxPrimary

\* Every request is answered, whatever Kong does.
EveryRequestAnswered ==
    \A r \in Requests : call[r] = "lookup" ~> call[r] = "answered"

\* The breaker closes for good when Kong is back for good: the one probe of a
\* half-open breaker is never lost, and late failures do not keep it open.
BreakerRecovers ==
    <>[](kong = "up") => <>[](breaker = "closed")

(***************************************************************************)
(* What the documentation says, and the code does not do                   *)
(***************************************************************************)

\* "Half-Open ... fall back to stale" (docs/architecture/overview.md:320): no
\* request is left without a secret in the half-open state while the process
\* holds a stale copy within the tolerance.
HalfOpenFallsBackToStale ==
    [][\A r \in Requests :
          breaker = "halfOpen" /\ StaleIsFresh(asked[r]) /\ MissAndReject(r)
            => answer'[r] # NoSecret]_vars
=============================================================================
