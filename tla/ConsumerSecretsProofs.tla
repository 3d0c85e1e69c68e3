------------------------ MODULE ConsumerSecretsProofs ------------------------
(***************************************************************************)
(* Theorems about how a token request gets a consumer's secret, for any    *)
(* finite sets of requests and consumers and every lifetime and limit.     *)
(***************************************************************************)
EXTENDS ConsumerSecrets, FiniteSetTheorems, TLAPS

(***************************************************************************)
(* The constants                                                           *)
(***************************************************************************)

\* The lifetimes and limits are numbers.
LEMMA Limits ==
    /\ MaxVersion \in Nat \ {0} /\ Ttl \in Nat \ {0}
    /\ MaxPrimary \in Nat \ {0} /\ MaxStale \in Nat \ {0}
    /\ Tolerance \in Nat \ {0} /\ RedisStaleTtl \in Nat \ {0}
    /\ ResetTimeout \in Nat \ {0} /\ BreakerTtl \in Nat
BY SecretsAssumption

\* Two or three numbers have a longest one.
LEMMA LongestOfThree ==
    ASSUME NEW a \in Nat, NEW b \in Nat, NEW c \in Nat
    PROVE  /\ Longest({a, b, c}) \in Nat
           /\ a <= Longest({a, b, c}) /\ b <= Longest({a, b, c})
           /\ c <= Longest({a, b, c})
<1> DEFINE S == {a, b, c}
<1>1. \E m \in S : \A n \in S : n <= m
  <2>1. CASE a >= b /\ a >= c
    BY <2>1
  <2>2. CASE b >= a /\ b >= c
    BY <2>2
  <2>3. CASE c >= a /\ c >= b
    BY <2>3
  <2>4. QED
    BY <2>1, <2>2, <2>3
<1>2. Longest(S) \in S /\ \A n \in S : n <= Longest(S)
  BY <1>1 DEF Longest
<1>3. QED
  BY <1>2

\* The window is longer by one than every lifetime that counts.
LEMMA WindowBounds ==
    /\ Window \in Nat
    /\ Ttl + 1 <= Window /\ Tolerance + 1 <= Window
    /\ HighAvailability => RedisStaleTtl + 1 <= Window
<1>1. CASE HighAvailability
  <2>1. {Ttl, Tolerance} \cup {RedisStaleTtl} = {Ttl, Tolerance, RedisStaleTtl}
    OBVIOUS
  <2>2. Window = 1 + Longest({Ttl, Tolerance, RedisStaleTtl})
    BY <1>1, <2>1 DEF Window
  <2>3. QED
    BY <2>2, Limits, LongestOfThree
<1>2. CASE ~HighAvailability
  <2>1. {Ttl, Tolerance} \cup {} = {Ttl, Tolerance, Tolerance}
    OBVIOUS
  <2>2. Window = 1 + Longest({Ttl, Tolerance, Tolerance})
    BY <1>2, <2>1 DEF Window
  <2>3. QED
    BY <1>2, <2>2, Limits, LongestOfThree
<1>3. QED
  BY <1>1, <1>2

(***************************************************************************)
(* The maps                                                                *)
(***************************************************************************)

\* A partial function on S is a function on a subset of S.
LEMMA PartialFunctions ==
    ASSUME NEW S, NEW T, NEW m
    PROVE  m \in PartialOn(S, T) <=> m \in [DOMAIN m -> T] /\ DOMAIN m \subseteq S
<1>1. ASSUME m \in PartialOn(S, T)
      PROVE  m \in [DOMAIN m -> T] /\ DOMAIN m \subseteq S
  <2>1. PICK D \in SUBSET S : m \in [D -> T]
    BY <1>1 DEF PartialOn
  <2>2. QED
    BY <2>1
<1>2. ASSUME m \in [DOMAIN m -> T], DOMAIN m \subseteq S
      PROVE  m \in PartialOn(S, T)
  BY <1>2 DEF PartialOn
<1>3. QED
  BY <1>1, <1>2

\* What a map holds under a key is one of its entries.
LEMMA LookedUp ==
    ASSUME NEW S, NEW T, NEW m \in PartialOn(S, T), NEW c \in DOMAIN m
    PROVE  m[c] \in T /\ c \in S
BY PartialFunctions

\* delete leaves the other entries as they are.
LEMMA WithoutSome ==
    ASSUME NEW m, NEW X
    PROVE  /\ DOMAIN Without(m, X) = DOMAIN m \ X
           /\ \A d \in DOMAIN m \ X : Without(m, X)[d] = m[d]
BY DEF Without, Restrict

\* A map without some of its entries is a map of the same kind.
LEMMA WithoutIsTyped ==
    ASSUME NEW S, NEW T, NEW m \in PartialOn(S, T), NEW X
    PROVE  Without(m, X) \in PartialOn(S, T)
BY PartialFunctions DEF Without, Restrict

\* set adds or replaces one entry.
LEMMA WithOne ==
    ASSUME NEW m, NEW c, NEW e
    PROVE  /\ DOMAIN With(m, c, e) = DOMAIN m \cup {c}
           /\ With(m, c, e)[c] = e
           /\ \A d \in DOMAIN m \ {c} : With(m, c, e)[d] = m[d]
BY DEF With

\* A map with one more entry of the right type is a map of the same kind.
LEMMA WithIsTyped ==
    ASSUME NEW S, NEW T, NEW m \in PartialOn(S, T), NEW c \in S, NEW e \in T
    PROVE  With(m, c, e) \in PartialOn(S, T)
BY PartialFunctions DEF With

\* An entry of a map is the one written under its key, or was there before.
LEMMA EvictionAddsNothing ==
    ASSUME NEW m, NEW c, NEW e, NEW limit, NEW new \in SetAndEvict(m, c, e, limit),
           NEW d \in DOMAIN new
    PROVE  (d = c /\ new[d] = e) \/ (d \in DOMAIN m /\ new[d] = m[d])
<1> DEFINE filled == With(m, c, e)
<1>1. /\ DOMAIN filled = DOMAIN m \cup {c}
      /\ filled[c] = e
      /\ \A k \in DOMAIN m \ {c} : filled[k] = m[k]
  BY DEF With
<1>2. new \in {filled} \/ new \in {Without(filled, {k}) : k \in Oldest(filled, c)}
  BY DEF SetAndEvict
<1> HIDE DEF filled
<1>3. d \in DOMAIN filled /\ new[d] = filled[d]
  <2>1. CASE new = filled
    BY <2>1
  <2>2. CASE new # filled
    <3>1. PICK k \in Oldest(filled, c) : new = Without(filled, {k})
      BY <1>2, <2>2
    <3>2. QED
      BY <3>1 DEF Without, Restrict
  <2>3. QED
    BY <2>1, <2>2
<1>4. QED
  BY <1>1, <1>3

\* What is left after an insertion and its eviction is a map of the same kind.
LEMMA EvictionIsTyped ==
    ASSUME NEW S, NEW T, NEW m \in PartialOn(S, T), NEW c \in S, NEW e \in T,
           NEW limit, NEW new \in SetAndEvict(m, c, e, limit)
    PROVE  new \in PartialOn(S, T)
<1> DEFINE filled == With(m, c, e)
<1>1. filled \in PartialOn(S, T)
  BY WithIsTyped, Zenon
<1>2. new \in {filled} \/ new \in {Without(filled, {k}) : k \in Oldest(filled, c)}
  BY DEF SetAndEvict
<1> HIDE DEF filled
<1>3. CASE new = filled
  BY <1>1, <1>3
<1>4. CASE new # filled
  <2>1. PICK k \in Oldest(filled, c) : new = Without(filled, {k})
    BY <1>2, <1>4
  <2>2. QED
    BY <1>1, <2>1, WithoutIsTyped, Zenon
<1>5. QED
  BY <1>3, <1>4

\* A map that keeps to its limit keeps to it when an entry is written.
LEMMA EvictionKeepsTheLimit ==
    ASSUME NEW S, NEW T, NEW m \in PartialOn(S, T), NEW c \in S, NEW e \in T,
           NEW limit \in Nat, IsFiniteSet(S), Cardinality(DOMAIN m) <= limit,
           NEW new \in SetAndEvict(m, c, e, limit)
    PROVE  Cardinality(DOMAIN new) <= limit
<1> DEFINE filled == With(m, c, e)
<1>1. filled \in PartialOn(S, T)
  BY WithIsTyped, Zenon
<1>2. DOMAIN filled = DOMAIN m \cup {c}
  BY WithOne
<1>3. IF Cardinality(DOMAIN filled) <= limit
      THEN new \in {filled}
      ELSE new \in {Without(filled, {d}) : d \in Oldest(filled, c)}
  BY DEF SetAndEvict
<1> HIDE DEF filled
<1>4. IsFiniteSet(DOMAIN m) /\ IsFiniteSet(DOMAIN filled)
  <2>1. DOMAIN m \subseteq S /\ DOMAIN filled \subseteq S
    BY <1>1, PartialFunctions
  <2>2. QED
    BY <2>1, FS_Subset
<1>5. Cardinality(DOMAIN m) \in Nat /\ Cardinality(DOMAIN filled) \in Nat
  BY <1>4, FS_CardinalityType
<1>6. Cardinality(DOMAIN filled) <= limit + 1
  BY <1>2, <1>4, <1>5, FS_AddElement
<1>7. CASE Cardinality(DOMAIN filled) <= limit
  BY <1>7, <1>3
<1>8. CASE ~(Cardinality(DOMAIN filled) <= limit)
  <2>1. PICK d \in Oldest(filled, c) : new = Without(filled, {d})
    BY <1>8, <1>3
  <2>2. DOMAIN new = DOMAIN filled \ {d} /\ d \in DOMAIN filled
    BY <2>1, WithoutSome DEF Oldest
  <2>3. Cardinality(DOMAIN new) = Cardinality(DOMAIN filled) - 1
    BY <1>4, <2>2, FS_RemoveElement
  <2>4. QED
    BY <1>5, <1>6, <2>3
<1>9. QED
  BY <1>7, <1>8

\* Time changes the age of the entries only.
LEMMA OlderEntries ==
    ASSUME NEW S, NEW T, NEW m \in PartialOn(S, T), NEW limit,
           \A e \in T : [e EXCEPT !.age = UpTo(limit, @)] \in T
    PROVE  /\ Older(m, limit) \in PartialOn(S, T)
           /\ DOMAIN Older(m, limit) = DOMAIN m
           /\ \A d \in DOMAIN m :
                Older(m, limit)[d] = [m[d] EXCEPT !.age = UpTo(limit, @)]
BY PartialFunctions DEF Older

\* In Redis it also removes entries.
LEMMA OlderRedisEntries ==
    ASSUME NEW S, NEW ttl \in Nat, NEW m \in PartialOn(S, RedisEntry(ttl))
    PROVE  /\ OlderInRedis(m, ttl) \in PartialOn(S, RedisEntry(ttl))
           /\ DOMAIN OlderInRedis(m, ttl) =
                {d \in DOMAIN m : m[d].expires => m[d].age + 1 < ttl}
           /\ \A d \in DOMAIN OlderInRedis(m, ttl) :
                OlderInRedis(m, ttl)[d] =
                  [m[d] EXCEPT !.age = IF m[d].expires THEN @ + 1 ELSE @]
<1> DEFINE kept == {d \in DOMAIN m : m[d].expires => m[d].age + 1 < ttl}
<1>1. OlderInRedis(m, ttl) =
        [d \in kept |-> [m[d] EXCEPT !.age = IF m[d].expires THEN @ + 1 ELSE @]]
  BY DEF OlderInRedis
<1>2. ASSUME NEW d \in kept
      PROVE  [m[d] EXCEPT !.age = IF m[d].expires THEN @ + 1 ELSE @] \in RedisEntry(ttl)
  <2>1. m[d] \in RedisEntry(ttl) /\ (m[d].expires => m[d].age + 1 < ttl)
    BY LookedUp
  <2>2. QED
    BY <2>1 DEF RedisEntry
<1>3. kept \subseteq S
  BY LookedUp
<1> HIDE DEF kept
<1>4. QED
  BY <1>1, <1>2, <1>3, PartialFunctions DEF kept

(***************************************************************************)
(* Types                                                                   *)
(***************************************************************************)

SecretOrNone == Secret \cup {NoSecret}

StaleEntry == [secret : Secret, age : 0..(Tolerance + 1)]

KongTypes ==
    /\ kong \in {"up", "down"}
    /\ issued \in [Consumers -> 1..MaxVersion]
    /\ active \in [Consumers -> BOOLEAN]
    /\ supersededFor \in [Consumers -> [1..MaxVersion -> 0..(Window + 1)]]

CacheTypes ==
    /\ primary \in PartialOn(Consumers, RedisEntry(Ttl))
    /\ redisStale \in PartialOn(Consumers, RedisEntry(RedisStaleTtl))

StaleTypes == staleCache \in PartialOn(Consumers, StaleEntry)

BreakerTypes ==
    /\ breaker \in {"closed", "open", "halfOpen", "disabled"}
    /\ pendingClose \in BOOLEAN /\ pendingClose => breaker = "halfOpen"
    /\ openFor \in 0..ResetTimeout
    /\ unusedFor \in 0..(BreakerTtl + 1)

CallTypes ==
    /\ call \in [Requests -> {"idle", "lookup", "fired", "fallback", "answered"}]
    /\ asked \in [Requests -> Consumers]
    /\ answer \in [Requests -> SecretOrNone]

ActionTypes ==
    /\ action \in [Requests -> {"none", "fetching", "storing"}]
    /\ reply \in [Requests -> SecretOrNone]
    /\ replyAge \in [Requests -> 0..1]

Types ==
    KongTypes /\ CacheTypes /\ StaleTypes /\ BreakerTypes /\ CallTypes /\ ActionTypes

\* TypeOK, by the variables that change together.
LEMMA TypesByPart == TypeOK <=> Types
BY DEF TypeOK, Types, KongTypes, CacheTypes, StaleTypes, BreakerTypes, CallTypes,
       ActionTypes, SecretOrNone, StaleEntry

\* Variables that are left alone keep their types.
LEMMA UnchangedTypes ==
    ASSUME Types
    PROVE  /\ UNCHANGED kongVars => KongTypes'
           /\ UNCHANGED cacheVars => CacheTypes'
           /\ UNCHANGED staleCache => StaleTypes'
           /\ UNCHANGED breakerVars => BreakerTypes'
           /\ UNCHANGED callVars => CallTypes'
           /\ UNCHANGED actionVars => ActionTypes'
<1>1. UNCHANGED kongVars => KongTypes'
  BY DEF Types, KongTypes, kongVars
<1>2. UNCHANGED cacheVars => CacheTypes'
  BY DEF Types, CacheTypes, cacheVars
<1>3. UNCHANGED staleCache => StaleTypes'
  BY DEF Types, StaleTypes
<1>4. UNCHANGED breakerVars => BreakerTypes'
  BY DEF Types, BreakerTypes, breakerVars
<1>5. UNCHANGED callVars => CallTypes'
  BY DEF Types, CallTypes, callVars
<1>6. UNCHANGED actionVars => ActionTypes'
  BY DEF Types, ActionTypes, actionVars
<1>7. QED
  BY <1>1, <1>2, <1>3, <1>4, <1>5, <1>6

\* The variables start with their types.
LEMMA TypesInit == Init => Types
<1> SUFFICES ASSUME Init PROVE Types
  OBVIOUS
<1>1. NoEntries \in [DOMAIN NoEntries -> {}] /\ DOMAIN NoEntries = {}
  BY DEF NoEntries
<1>2. \A S, T : NoEntries \in PartialOn(S, T)
  <2> SUFFICES ASSUME NEW S, NEW T PROVE NoEntries \in PartialOn(S, T)
    OBVIOUS
  <2>1. NoEntries \in [{} -> T]
    BY DEF NoEntries
  <2>2. {} \in SUBSET S
    OBVIOUS
  <2>3. QED
    BY <2>1, <2>2 DEF PartialOn
<1>3. CacheTypes /\ StaleTypes
  BY <1>2 DEF Init, CacheTypes, StaleTypes
<1>4. KongTypes
  BY Limits, WindowBounds DEF Init, KongTypes
<1>5. BreakerTypes
  BY Limits, SecretsAssumption DEF Init, BreakerTypes
<1>6. CallTypes /\ ActionTypes
  BY DEF Init, CallTypes, ActionTypes, SecretOrNone
<1>7. QED
  BY <1>3, <1>4, <1>5, <1>6 DEF Types

\* What a call returns or waits for.
LEMMA AnswersIsTyped ==
    ASSUME Types, NEW r \in Requests, NEW s \in SecretOrNone, Answers(r, s)
    PROVE  CallTypes'
BY DEF Types, CallTypes, Answers

\* A request that goes on to await something else keeps the types of calls.
LEMMA AwaitsIsTyped ==
    ASSUME Types, NEW r \in Requests,
           NEW where \in {"idle", "lookup", "fired", "fallback", "answered"},
           Awaits(r, where)
    PROVE  CallTypes'
BY DEF Types, CallTypes, Awaits

\* The caches hold secrets.
LEMMA CachedSecrets ==
    ASSUME Types, NEW c
    PROVE  /\ c \in DOMAIN primary => primary[c] \in RedisEntry(Ttl)
           /\ c \in DOMAIN redisStale => redisStale[c] \in RedisEntry(RedisStaleTtl)
           /\ c \in DOMAIN staleCache => staleCache[c] \in StaleEntry
           /\ c \in DOMAIN primary => primary[c].secret \in Secret
           /\ c \in DOMAIN redisStale => redisStale[c].secret \in Secret
           /\ c \in DOMAIN staleCache => staleCache[c].secret \in Secret
<1>1. /\ c \in DOMAIN primary => primary[c] \in RedisEntry(Ttl)
      /\ c \in DOMAIN redisStale => redisStale[c] \in RedisEntry(RedisStaleTtl)
      /\ c \in DOMAIN staleCache => staleCache[c] \in StaleEntry
  BY LookedUp, Zenon DEF Types, CacheTypes, StaleTypes
<1>2. \A ttl : \A e \in RedisEntry(ttl) : e.secret \in Secret
  BY DEF RedisEntry
<1>3. \A e \in StaleEntry : e.secret \in Secret
  BY DEF StaleEntry
<1>4. QED
  BY <1>1, <1>2, <1>3

\* The fallback, in memory and in Redis.
LEMMA AnswerFromMemoryIsTyped ==
    ASSUME Types, NEW r \in Requests, AnswerFromMemory(r)
    PROVE  StaleTypes' /\ CallTypes'
<1> DEFINE c == asked[r]
           mine == StaleIsFresh(c) /\ staleCache[c].secret.owner = c
           s == IF mine THEN staleCache[c].secret ELSE NoSecret
<1>1. staleCache' = IF mine THEN staleCache ELSE Without(staleCache, {c})
  BY DEF AnswerFromMemory
<1>2. Answers(r, s)
  BY DEF AnswerFromMemory
<1>3. s \in SecretOrNone
  BY CachedSecrets DEF StaleIsFresh, SecretOrNone
<1> HIDE DEF s, mine
<1>4. staleCache \in PartialOn(Consumers, StaleEntry)
  BY DEF Types, StaleTypes
<1>5. Without(staleCache, {c}) \in PartialOn(Consumers, StaleEntry)
  BY <1>4, WithoutIsTyped, Zenon
<1>6. StaleTypes'
  BY <1>1, <1>4, <1>5 DEF StaleTypes
<1>7. CallTypes'
  BY <1>2, <1>3, AnswersIsTyped
<1>8. QED
  BY <1>6, <1>7

\* The fallback keeps the types of the stale copies and of the calls.
LEMMA CatchFailureIsTyped ==
    ASSUME Types, NEW r \in Requests, CatchFailure(r)
    PROVE  StaleTypes' /\ CallTypes'
<1>1. CASE AnswerFromMemory(r)
  BY <1>1, AnswerFromMemoryIsTyped
<1>2. CASE Awaits(r, "fallback") /\ UNCHANGED staleCache
  BY <1>2, AwaitsIsTyped, UnchangedTypes
<1>3. CASE Answers(r, NoSecret) /\ UNCHANGED staleCache
  BY <1>3, AnswersIsTyped, UnchangedTypes DEF SecretOrNone
<1>4. QED
  BY <1>1, <1>2, <1>3 DEF CatchFailure, FallBack

\* What the breaker hears of.
LEMMA ReportsAreTyped ==
    ASSUME Types, ReportFailure \/ ReportSuccess
    PROVE  BreakerTypes'
<1>1. CASE Opens
  BY <1>1, Limits DEF Types, BreakerTypes, Opens
<1>2. CASE UNCHANGED breakerVars
  BY <1>2, UnchangedTypes
<1>3. CASE ReportSuccess
  <2>1. breaker' \in {"closed", "open", "halfOpen", "disabled"}
    BY <1>3 DEF Types, BreakerTypes, ReportSuccess
  <2>2. pendingClose' = FALSE \/ (pendingClose' = pendingClose /\ breaker' = breaker)
    BY <1>3, Zenon DEF ReportSuccess
  <2>3. QED
    BY <1>3, <2>1, <2>2 DEF Types, BreakerTypes, ReportSuccess
<1>4. QED
  BY <1>1, <1>2, <1>3 DEF ReportFailure

\* A lookup that finds nothing keeps the types of the caches.
LEMMA MissesIsTyped ==
    ASSUME Types, NEW r \in Requests, Misses(r)
    PROVE  CacheTypes'
<1>1. primary \in PartialOn(Consumers, RedisEntry(Ttl))
  BY DEF Types, CacheTypes
<1>2. Without(primary, {asked[r]}) \in PartialOn(Consumers, RedisEntry(Ttl))
  BY <1>1, WithoutIsTyped, Zenon
<1>3. QED
  BY <1>1, <1>2 DEF Types, CacheTypes, Misses

\* Storing a reply.
LEMMA CacheSetIsTyped ==
    ASSUME Types, NEW c \in Consumers, NEW s \in Secret, CacheSet(c, s)
    PROVE  CacheTypes'
<1>1. /\ primary \in PartialOn(Consumers, RedisEntry(Ttl))
      /\ redisStale \in PartialOn(Consumers, RedisEntry(RedisStaleTtl))
  BY DEF Types, CacheTypes
<1>2. \A b \in BOOLEAN :
        /\ [secret |-> s, age |-> 0, expires |-> b] \in RedisEntry(Ttl)
        /\ [secret |-> s, age |-> 0, expires |-> b] \in RedisEntry(RedisStaleTtl)
  BY Limits DEF RedisEntry
<1>3. CASE LocalSet(c, s)
  <2> DEFINE e == [secret |-> s, age |-> 0, expires |-> TRUE]
  <2>1. primary' \in SetAndEvict(primary, c, e, MaxPrimary) /\ redisStale' = redisStale
    BY <1>3 DEF LocalSet
  <2>2. e \in RedisEntry(Ttl)
    BY <1>2
  <2> HIDE DEF e
  <2>3. primary' \in PartialOn(Consumers, RedisEntry(Ttl))
    BY <1>1, <2>1, <2>2, EvictionIsTyped, Zenon
  <2>4. QED
    BY <1>1, <2>1, <2>3 DEF CacheTypes
<1>4. CASE \E n \in 0..4 : RedisSet(c, s, n)
  <2>1. PICK n \in 0..4 : RedisSet(c, s, n)
    BY <1>4
  <2> DEFINE e(b) == [secret |-> s, age |-> 0, expires |-> b]
  <2>2. /\ primary' = IF n >= 1 THEN With(primary, c, e(n >= 2)) ELSE primary
        /\ redisStale' = IF n >= 3 THEN With(redisStale, c, e(n >= 4)) ELSE redisStale
    BY <2>1 DEF RedisSet
  <2>0. (n >= 2) \in BOOLEAN /\ (n >= 4) \in BOOLEAN
    OBVIOUS
  <2>3. e(n >= 2) \in RedisEntry(Ttl) /\ e(n >= 4) \in RedisEntry(RedisStaleTtl)
    BY <1>2, <2>0, Zenon
  <2> HIDE DEF e
  <2>4. With(primary, c, e(n >= 2)) \in PartialOn(Consumers, RedisEntry(Ttl))
    BY <1>1, <2>3, WithIsTyped, Zenon
  <2>5. With(redisStale, c, e(n >= 4)) \in PartialOn(Consumers, RedisEntry(RedisStaleTtl))
    BY <1>1, <2>3, WithIsTyped, Zenon
  <2>6. QED
    BY <1>1, <2>2, <2>4, <2>5 DEF CacheTypes
<1>5. CASE UNCHANGED cacheVars
  BY <1>5, UnchangedTypes
<1>6. QED
  BY <1>3, <1>4, <1>5 DEF CacheSet

\* Storing a stale copy, and evicting for it, keeps the stale copies' types.
LEMMA KeepStaleCopyIsTyped ==
    ASSUME Types, NEW c \in Consumers, NEW s \in Secret, KeepStaleCopy(c, s)
    PROVE  StaleTypes'
<1> DEFINE e == [secret |-> s, age |-> 0]
<1>0. SUFFICES ASSUME UpdateStaleCache(c, s) PROVE StaleTypes'
  BY UnchangedTypes DEF KeepStaleCopy
<1>1. staleCache' \in SetAndEvict(staleCache, c, e, MaxStale)
  BY <1>0 DEF UpdateStaleCache
<1>2. e \in StaleEntry
  BY Limits DEF StaleEntry
<1>3. staleCache \in PartialOn(Consumers, StaleEntry)
  BY DEF Types, StaleTypes
<1> HIDE DEF e
<1>4. QED
  BY <1>1, <1>2, <1>3, EvictionIsTyped, Zenon DEF StaleTypes

\* A reply that is being stored is the secret of the consumer asked for, which
\* does not change as long as the action runs.
RepliesMatch ==
    \A r \in Requests :
        action[r] = "storing" => reply[r] \in Secret /\ reply[r].owner = asked[r]

\* The end of a fetch keeps the types of the fetches.
LEMMA ActionEndsIsTyped ==
    ASSUME Types, NEW r \in Requests, ActionEnds(r)
    PROVE  ActionTypes'
BY DEF Types, ActionTypes, ActionEnds, SecretOrNone

\* The secret Kong holds for a consumer, if it has one, is that consumer's.
LEMMA CurrentIsTyped ==
    ASSUME Types, NEW c \in Consumers
    PROVE  /\ Current(c) \in SecretOrNone
           /\ active[c] => Current(c) \in Secret /\ Current(c).owner = c
BY DEF Types, KongTypes, Current, Secret, SecretOrNone

\* A request that looks for a secret keeps the types.
LEMMA LookupIsTyped ==
    ASSUME Types, NEW r \in Requests,
           \/ Hit(r) \/ MissAndFire(r) \/ MissAndReject(r)
           \/ RedisStaleHit(r) \/ RedisStaleMiss(r) \/ Deliver(r)
           \/ \E c \in Consumers : Ask(r, c)
    PROVE  Types'
<1> USE UnchangedTypes DEF Types
<1>1. CASE Hit(r)
  <2>1. primary[asked[r]].secret \in SecretOrNone
    BY <1>1, CachedSecrets DEF Hit, PrimaryHas, Live, SecretOrNone
  <2>2. CallTypes'
    BY <1>1, <2>1, AnswersIsTyped DEF Hit
  <2>3. QED
    BY <1>1, <2>2 DEF Hit
<1>2. CASE MissAndFire(r)
  <2>1. CacheTypes'
    BY <1>2, MissesIsTyped DEF MissAndFire
  <2>2. CallTypes'
    BY <1>2, AwaitsIsTyped DEF MissAndFire
  <2>3. BreakerTypes'
    BY <1>2, Limits DEF MissAndFire, BreakerTypes
  <2>4. ActionTypes'
    BY <1>2 DEF MissAndFire, ActionTypes
  <2>5. QED
    BY <1>2, <2>1, <2>2, <2>3, <2>4 DEF MissAndFire
<1>3. CASE MissAndReject(r)
  <2>1. CacheTypes'
    BY <1>3, MissesIsTyped DEF MissAndReject
  <2>2. CallTypes' /\ StaleTypes'
    BY <1>3, CatchFailureIsTyped DEF MissAndReject
  <2>3. BreakerTypes'
    BY <1>3, Limits DEF MissAndReject, BreakerTypes
  <2>4. QED
    BY <1>3, <2>1, <2>2, <2>3 DEF MissAndReject
<1>4. CASE RedisStaleHit(r)
  <2> DEFINE s == IF redisStale[asked[r]].secret.owner = asked[r]
                  THEN redisStale[asked[r]].secret ELSE NoSecret
  <2>1. s \in SecretOrNone
    BY <1>4, CachedSecrets DEF RedisStaleHit, RedisStaleHas, Live, SecretOrNone
  <2>2. Answers(r, s)
    BY <1>4 DEF RedisStaleHit
  <2> HIDE DEF s
  <2>3. CallTypes'
    BY <2>1, <2>2, AnswersIsTyped
  <2>4. QED
    BY <1>4, <2>3 DEF RedisStaleHit
<1>5. CASE RedisStaleMiss(r)
  <2>1. CallTypes' /\ StaleTypes'
    BY <1>5, AnswerFromMemoryIsTyped DEF RedisStaleMiss
  <2>2. QED
    BY <1>5, <2>1 DEF RedisStaleMiss
<1>6. CASE Deliver(r)
  <2>1. CallTypes'
    BY <1>6 DEF Deliver, CallTypes, SecretOrNone
  <2>2. QED
    BY <1>6, <2>1 DEF Deliver
<1>7. ASSUME NEW c \in Consumers, Ask(r, c)
      PROVE  Types'
  <2>1. CallTypes'
    BY <1>7 DEF Ask, CallTypes
  <2>2. QED
    BY <1>7, <2>1 DEF Ask
<1>8. QED
  BY <1>1, <1>2, <1>3, <1>4, <1>5, <1>6, <1>7

\* The action, its outcome and its timeout keep the types.
LEMMA ActionIsTyped ==
    ASSUME Types, RepliesMatch, NEW r \in Requests,
           \/ KongFinds(r) \/ KongFindsNothing(r) \/ KongMixesUp(r)
           \/ KongFails(r) \/ Stored(r) \/ Timeout(r)
    PROVE  Types'
<1>0. asked[r] \in Consumers
  BY DEF Types, CallTypes
<1> USE UnchangedTypes DEF Types
<1>1. CASE KongFinds(r)
  <2>1. Current(asked[r]) \in SecretOrNone
    BY <1>0, CurrentIsTyped
  <2>2. ActionTypes'
    BY <1>1, <2>1 DEF KongFinds, ActionTypes
  <2>3. QED
    BY <1>1, <2>2 DEF KongFinds
<1>2. CASE KongFindsNothing(r)
  <2>1. ActionTypes'
    BY <1>2, ActionEndsIsTyped DEF KongFindsNothing
  <2>2. CASE UNCHANGED <<breakerVars, callVars, staleCache>>
    BY <1>2, <2>1, <2>2 DEF KongFindsNothing
  <2>3. CASE ReportSuccess /\ staleCache' = Without(staleCache, {asked[r]})
             /\ Answers(r, NoSecret)
    <3>1. BreakerTypes'
      BY <2>3, ReportsAreTyped
    <3>2. staleCache \in PartialOn(Consumers, StaleEntry)
      BY DEF StaleTypes
    <3>3. Without(staleCache, {asked[r]}) \in PartialOn(Consumers, StaleEntry)
      BY <3>2, WithoutIsTyped, Zenon
    <3>4. StaleTypes'
      BY <2>3, <3>3 DEF StaleTypes
    <3>5. CallTypes'
      BY <2>3, AnswersIsTyped DEF SecretOrNone
    <3>6. QED
      BY <1>2, <2>1, <3>1, <3>4, <3>5 DEF KongFindsNothing
  <2>4. QED
    BY <1>2, <2>2, <2>3 DEF KongFindsNothing, Settles
<1>3. CASE KongMixesUp(r)
  <2>1. ActionTypes'
    BY <1>3, ActionEndsIsTyped DEF KongMixesUp
  <2>2. CASE UNCHANGED <<breakerVars, callVars, staleCache>>
    BY <1>3, <2>1, <2>2 DEF KongMixesUp
  <2>3. ASSUME NEW c \in Consumers, ReportSuccess, UNCHANGED staleCache,
               Answers(r, IF breaker = "disabled" THEN Current(c) ELSE NoSecret)
        PROVE  Types'
    <3>1. BreakerTypes'
      BY <2>3, ReportsAreTyped
    <3>2. CallTypes'
      <4> DEFINE s == IF breaker = "disabled" THEN Current(c) ELSE NoSecret
      <4>1. s \in SecretOrNone /\ Answers(r, s)
        BY <2>3, CurrentIsTyped DEF SecretOrNone
      <4> HIDE DEF s
      <4>2. QED
        BY <4>1, AnswersIsTyped
    <3>3. QED
      BY <1>3, <2>1, <2>3, <3>1, <3>2 DEF KongMixesUp
  <2>4. QED
    BY <1>3, <2>2, <2>3 DEF KongMixesUp, Settles
<1>4. CASE KongFails(r)
  <2>1. ActionTypes'
    BY <1>4, ActionEndsIsTyped DEF KongFails
  <2>2. CASE UNCHANGED <<breakerVars, callVars, staleCache>>
    BY <1>4, <2>1, <2>2 DEF KongFails
  <2>3. CASE ReportFailure /\ CatchFailure(r)
    <3>1. BreakerTypes'
      BY <2>3, ReportsAreTyped
    <3>2. CallTypes' /\ StaleTypes'
      BY <2>3, CatchFailureIsTyped
    <3>3. QED
      BY <1>4, <2>1, <3>1, <3>2 DEF KongFails
  <2>4. QED
    BY <1>4, <2>2, <2>3 DEF KongFails, Settles
<1>5. CASE Stored(r)
  <2>0. reply[r] \in Secret
    BY <1>5 DEF Stored, RepliesMatch
  <2>1. ActionTypes'
    BY <1>5, ActionEndsIsTyped DEF Stored
  <2>2. CacheTypes'
    BY <1>0, <1>5, <2>0, CacheSetIsTyped DEF Stored
  <2>3. CASE UNCHANGED <<breakerVars, callVars, staleCache>>
    BY <1>5, <2>1, <2>2, <2>3 DEF Stored
  <2>4. CASE ReportSuccess /\ KeepStaleCopy(asked[r], reply[r]) /\ Answers(r, reply[r])
    <3>1. BreakerTypes'
      BY <2>4, ReportsAreTyped
    <3>2. StaleTypes'
      BY <1>0, <2>0, <2>4, KeepStaleCopyIsTyped
    <3>3. CallTypes'
      BY <2>0, <2>4, AnswersIsTyped DEF SecretOrNone
    <3>4. QED
      BY <1>5, <2>1, <2>2, <3>1, <3>2, <3>3 DEF Stored
  <2>5. QED
    BY <1>5, <2>3, <2>4 DEF Stored, Settles
<1>6. CASE Timeout(r)
  <2>1. BreakerTypes'
    BY <1>6, ReportsAreTyped DEF Timeout
  <2>2. CallTypes' /\ StaleTypes'
    BY <1>6, CatchFailureIsTyped DEF Timeout
  <2>3. QED
    BY <1>6, <2>1, <2>2 DEF Timeout
<1>7. QED
  BY <1>1, <1>2, <1>3, <1>4, <1>5, <1>6

\* One more, up to a limit.
LEMMA UpToBounds ==
    ASSUME NEW limit \in Nat, NEW n \in 0..limit
    PROVE  /\ UpTo(limit, n) \in 0..limit
           /\ UpTo(limit, n) <= n + 1
           /\ n <= UpTo(limit, n)
           /\ UpTo(limit, n) < limit => UpTo(limit, n) = n + 1
BY DEF UpTo

\* Time keeps the types.
LEMMA TickIsTyped ==
    ASSUME Types, Tick
    PROVE  Types'
<1> USE DEF Types
<1>1. CacheTypes'
  <2>1. OlderInRedis(primary, Ttl) \in PartialOn(Consumers, RedisEntry(Ttl))
    BY Limits, OlderRedisEntries DEF CacheTypes
  <2>2. OlderInRedis(redisStale, RedisStaleTtl) \in
          PartialOn(Consumers, RedisEntry(RedisStaleTtl))
    BY Limits, OlderRedisEntries DEF CacheTypes
  <2>3. \A e \in RedisEntry(Ttl) : [e EXCEPT !.age = UpTo(Ttl, @)] \in RedisEntry(Ttl)
    BY Limits, UpToBounds DEF RedisEntry
  <2>4. primary \in PartialOn(Consumers, RedisEntry(Ttl))
    BY DEF CacheTypes
  <2>5. Older(primary, Ttl) \in PartialOn(Consumers, RedisEntry(Ttl))
    BY <2>3, <2>4, OlderEntries, Zenon
  <2>6. QED
    BY <2>1, <2>2, <2>5 DEF Tick, CacheTypes
<1>2. StaleTypes'
  <2>1. \A e \in StaleEntry : [e EXCEPT !.age = UpTo(Tolerance + 1, @)] \in StaleEntry
    BY Limits, UpToBounds DEF StaleEntry
  <2>2. staleCache \in PartialOn(Consumers, StaleEntry)
    BY DEF StaleTypes
  <2>3. Older(staleCache, Tolerance + 1) \in PartialOn(Consumers, StaleEntry)
    BY <2>1, <2>2, OlderEntries, Zenon
  <2>4. QED
    BY <2>3 DEF Tick, StaleTypes
<1>3. BreakerTypes'
  <2>1. ResetTimeout \in Nat /\ BreakerTtl + 1 \in Nat
    BY Limits
  <2>2. openFor \in 0..ResetTimeout /\ unusedFor \in 0..(BreakerTtl + 1)
    BY DEF BreakerTypes
  <2>3. /\ UpTo(ResetTimeout, openFor) \in 0..ResetTimeout
        /\ UpTo(BreakerTtl + 1, unusedFor) \in 0..(BreakerTtl + 1)
    BY <2>1, <2>2, UpToBounds
  <2>4. QED
    BY <2>3 DEF Tick, BreakerTypes
<1>4. CallTypes'
  BY UnchangedTypes DEF Tick
<1>5. ActionTypes'
  BY DEF Tick, ActionTypes
<1>6. KongTypes'
  <2>1. \A c \in Consumers, v \in 1..MaxVersion :
          UpTo(Window + 1, supersededFor[c][v]) \in 0..(Window + 1)
    <3>1. Window + 1 \in Nat
      BY WindowBounds
    <3>2. \A c \in Consumers, v \in 1..MaxVersion : supersededFor[c][v] \in 0..(Window + 1)
      BY DEF KongTypes
    <3>3. QED
      BY <3>1, <3>2, UpToBounds
  <2>2. supersededFor' \in [Consumers -> [1..MaxVersion -> 0..(Window + 1)]]
    BY <2>1 DEF Tick, KongTypes
  <2>3. QED
    BY <2>2 DEF Tick, KongTypes
<1>7. QED
  BY <1>1, <1>2, <1>3, <1>4, <1>5, <1>6

\* Every step keeps the types, given that replies are those to the consumer
\* who was asked for.
LEMMA TypesNext == Types /\ RepliesMatch /\ [Next]_vars => Types'
<1> SUFFICES ASSUME Types, RepliesMatch, [Next]_vars PROVE Types'
  OBVIOUS
<1>1. ASSUME NEW r \in Requests, Resume(r)
      PROVE  Types'
  BY <1>1, LookupIsTyped, ActionIsTyped DEF Resume
<1>2. ASSUME NEW r \in Requests, NEW c \in Consumers, Ask(r, c)
      PROVE  Types'
  BY <1>2, LookupIsTyped
<1>3. CASE Tick
  BY <1>3, TickIsTyped
<1> USE UnchangedTypes DEF Types
<1>4. CASE ResetTimer
  BY <1>4, Limits DEF ResetTimer, BreakerTypes
<1>5. CASE CleanupUnusedBreakers
  BY <1>5, Limits DEF CleanupUnusedBreakers, BreakerTypes
<1>6. CASE CleanupExpiredStaleEntries
  <2> DEFINE X == {c \in DOMAIN staleCache : staleCache[c].age > Tolerance}
  <2>1. staleCache' = Without(staleCache, X)
    BY <1>6 DEF CleanupExpiredStaleEntries
  <2> HIDE DEF X
  <2>2. staleCache \in PartialOn(Consumers, StaleEntry)
    BY DEF StaleTypes
  <2>3. StaleTypes'
    BY <2>1, <2>2, WithoutIsTyped, Zenon DEF StaleTypes
  <2>4. QED
    BY <1>6, <2>3 DEF CleanupExpiredStaleEntries
<1>7. CASE KongChanges
  <2>1. KongTypes'
    BY <1>7 DEF KongChanges, KongTypes
  <2>2. QED
    BY <1>7, <2>1 DEF KongChanges
<1>8. ASSUME NEW c \in Consumers, Issue(c) \/ Revoke(c)
      PROVE  Types'
  <2>1. issued[c] \in 1..MaxVersion
    BY DEF KongTypes
  <2>2. CASE Issue(c)
    <3>1. issued[c] + 1 \in 1..MaxVersion
      BY <2>1, <2>2, Limits DEF Issue
    <3>2. issued' \in [Consumers -> 1..MaxVersion] /\ active' \in [Consumers -> BOOLEAN]
      BY <2>2, <3>1 DEF Issue, KongTypes
    <3>3. QED
      BY <2>2, <3>2 DEF Issue, KongTypes
  <2>3. CASE Revoke(c)
    <3>1. KongTypes'
      BY <2>3 DEF Revoke, KongTypes
    <3>2. QED
      BY <2>3, <3>1 DEF Revoke
  <2>4. QED
    BY <1>8, <2>2, <2>3
<1>9. CASE UNCHANGED vars
  BY <1>9 DEF vars
<1>10. QED
  BY <1>1, <1>2, <1>3, <1>4, <1>5, <1>6, <1>7, <1>8, <1>9 DEF Next

(***************************************************************************)
(* Where secrets come from                                                 *)
(***************************************************************************)

\* No reply is on its way at the start.
LEMMA RepliesInit == Init => RepliesMatch
BY DEF Init, RepliesMatch

\* Every step leaves replies with the secret of the consumer asked for.
LEMMA RepliesNext == Types /\ RepliesMatch /\ [Next]_vars => RepliesMatch'
<1> SUFFICES ASSUME Types, RepliesMatch, [Next]_vars PROVE RepliesMatch'
  OBVIOUS
<1> USE DEF Types, CallTypes, ActionTypes, RepliesMatch
<1>1. CASE UNCHANGED <<asked, action, reply>>
  BY <1>1
<1>2. ASSUME NEW r \in Requests, NEW c \in Consumers, Ask(r, c)
      PROVE  RepliesMatch'
  BY <1>2 DEF Ask, actionVars
<1>3. ASSUME NEW r \in Requests, MissAndFire(r)
      PROVE  RepliesMatch'
  BY <1>3 DEF MissAndFire, Awaits
<1>4. ASSUME NEW r \in Requests, KongFinds(r)
      PROVE  RepliesMatch'
  <2>1. Current(asked[r]) \in Secret /\ Current(asked[r]).owner = asked[r]
    BY <1>4, CurrentIsTyped DEF KongFinds
  <2>2. QED
    BY <1>4, <2>1 DEF KongFinds, callVars
<1>5. ASSUME NEW r \in Requests, ActionEnds(r), asked' = asked
      PROVE  RepliesMatch'
  BY <1>5 DEF ActionEnds
<1>6. ASSUME NEW r \in Requests,
             \/ KongFindsNothing(r) \/ KongMixesUp(r) \/ KongFails(r) \/ Stored(r)
      PROVE  ActionEnds(r) /\ asked' = asked
  BY <1>6 DEF KongFindsNothing, KongMixesUp, KongFails, Stored, Settles, CatchFailure,
              FallBack, AnswerFromMemory, Answers, Awaits, callVars
<1>7. ASSUME NEW r \in Requests,
             \/ Hit(r) \/ MissAndReject(r) \/ RedisStaleHit(r) \/ RedisStaleMiss(r)
             \/ Timeout(r) \/ Deliver(r)
      PROVE  UNCHANGED <<asked, action, reply>>
  BY <1>7 DEF Hit, MissAndReject, RedisStaleHit, RedisStaleMiss, Timeout, Deliver,
              CatchFailure, FallBack, AnswerFromMemory, Answers, Awaits, actionVars
<1>8. CASE \/ ResetTimer \/ CleanupExpiredStaleEntries \/ CleanupUnusedBreakers
           \/ KongChanges \/ (\E c \in Consumers : Issue(c) \/ Revoke(c)) \/ Tick
           \/ UNCHANGED vars
  BY <1>1, <1>8 DEF ResetTimer, CleanupExpiredStaleEntries, CleanupUnusedBreakers,
                    KongChanges, Issue, Revoke, Tick, vars, callVars, actionVars
<1>9. QED
  BY <1>1, <1>2, <1>3, <1>4, <1>5, <1>6, <1>7, <1>8 DEF Next, Resume

\* The types and the replies together are inductive.
THEOREM TypesInvariant == Spec => [](Types /\ RepliesMatch)
<1>1. Init => Types /\ RepliesMatch
  BY TypesInit, RepliesInit
<1>2. (Types /\ RepliesMatch) /\ [Next]_vars => (Types /\ RepliesMatch)'
  BY TypesNext, RepliesNext
<1>3. QED
  BY <1>1, <1>2, PTL DEF Spec

\* Types and bounds of the caches, of the breaker and of the requests.
THEOREM TypesAndBounds == Spec => []TypeOK
<1>1. Types => TypeOK
  BY TypesByPart
<1>2. QED
  BY <1>1, TypesInvariant, PTL

\* e is what storing a reply under the key d leaves in a cache.
FreshCopy(d, e) ==
    \E r \in Requests :
        /\ action[r] = "storing" /\ asked[r] = d
        /\ e.secret = reply[r] /\ e.age = 0

\* Without interrupted writes a copy in Redis expires.
FreshRedisCopy(d, e) == FreshCopy(d, e) /\ (e.expires \/ InterruptedWrites)

Kept(new, old, d) == d \in DOMAIN old /\ new[d] = old[d]

\* No entry but those that were there, and copies of replies being stored.
CachesGrowByReplies ==
    /\ \A d \in DOMAIN primary' :
         Kept(primary', primary, d) \/ FreshRedisCopy(d, primary'[d])
    /\ \A d \in DOMAIN redisStale' :
         \/ Kept(redisStale', redisStale, d)
         \/ HighAvailability /\ FreshRedisCopy(d, redisStale'[d])
    /\ \A d \in DOMAIN staleCache' :
         Kept(staleCache', staleCache, d) \/ FreshCopy(d, staleCache'[d])

\* Deleting entries adds none.
LEMMA NothingAdded ==
    ASSUME primary' = primary \/ (\E X : primary' = Without(primary, X)),
           redisStale' = redisStale,
           staleCache' = staleCache \/ (\E X : staleCache' = Without(staleCache, X))
    PROVE  CachesGrowByReplies
<1>1. ASSUME NEW m, NEW X, NEW d \in DOMAIN Without(m, X)
      PROVE  Kept(Without(m, X), m, d)
  BY DEF Without, Restrict, Kept
<1>2. \A d \in DOMAIN primary' : Kept(primary', primary, d)
  BY <1>1 DEF Kept
<1>3. \A d \in DOMAIN redisStale' : Kept(redisStale', redisStale, d)
  BY DEF Kept
<1>4. \A d \in DOMAIN staleCache' : Kept(staleCache', staleCache, d)
  BY <1>1 DEF Kept
<1>5. QED
  BY <1>2, <1>3, <1>4 DEF CachesGrowByReplies

\* A write to the cache adds at most a fresh copy of what is written, under
\* the key it is written to, and leaves the other copies as they are.
LEMMA CacheSetAddsCopies ==
    ASSUME Types, NEW c \in Consumers, NEW s \in Secret, CacheSet(c, s)
    PROVE  /\ \A d \in DOMAIN primary' :
                \/ Kept(primary', primary, d)
                \/ /\ d = c /\ primary'[d].secret = s /\ primary'[d].age = 0
                   /\ primary'[d].expires \/ InterruptedWrites
           /\ \A d \in DOMAIN redisStale' :
                \/ Kept(redisStale', redisStale, d)
                \/ /\ d = c /\ redisStale'[d].secret = s /\ redisStale'[d].age = 0
                   /\ redisStale'[d].expires \/ InterruptedWrites
                   /\ HighAvailability
<1>1. CASE UNCHANGED cacheVars
  BY <1>1 DEF Kept, cacheVars
<1>2. CASE LocalSet(c, s)
  <2> DEFINE e == [secret |-> s, age |-> 0, expires |-> TRUE]
  <2>1. primary' \in SetAndEvict(primary, c, e, MaxPrimary) /\ redisStale' = redisStale
    BY <1>2 DEF LocalSet
  <2>2. e.secret = s /\ e.age = 0 /\ e.expires
    OBVIOUS
  <2> HIDE DEF e
  <2>3. ASSUME NEW d \in DOMAIN primary'
        PROVE  (d = c /\ primary'[d] = e) \/ (d \in DOMAIN primary /\ primary'[d] = primary[d])
    BY <2>1, EvictionAddsNothing
  <2>4. QED
    BY <2>1, <2>2, <2>3 DEF Kept
<1>3. CASE /\ HighAvailability
           /\ \E n \in 0..4 : (n \in 1..3 => InterruptedWrites) /\ RedisSet(c, s, n)
  <2>1. PICK n \in 0..4 : (n \in 1..3 => InterruptedWrites) /\ RedisSet(c, s, n)
    BY <1>3
  <2> DEFINE e == [secret |-> s, age |-> 0, expires |-> n >= 2]
             f == [secret |-> s, age |-> 0, expires |-> n >= 4]
  <2>2. /\ primary' = IF n >= 1 THEN With(primary, c, e) ELSE primary
        /\ redisStale' = IF n >= 3 THEN With(redisStale, c, f) ELSE redisStale
    BY <2>1 DEF RedisSet
  <2>3. e.secret = s /\ e.age = 0 /\ f.secret = s /\ f.age = 0
    OBVIOUS
  <2>4. e.expires = (n >= 2) /\ f.expires = (n >= 4)
    BY Zenon
  <2> HIDE DEF e, f
  <2>5. /\ n >= 1 => (n >= 2) \/ InterruptedWrites
        /\ n >= 3 => (n >= 4) \/ InterruptedWrites
    BY <2>1
  <2>6. ASSUME NEW d \in DOMAIN primary'
        PROVE  \/ Kept(primary', primary, d)
               \/ /\ d = c /\ primary'[d].secret = s /\ primary'[d].age = 0
                  /\ primary'[d].expires \/ InterruptedWrites
    <3>1. CASE n >= 1
      <4>1. primary' = With(primary, c, e)
        BY <2>2, <3>1
      <4>2. Kept(primary', primary, d) \/ (d = c /\ primary'[d] = e)
        BY <4>1 DEF With, Kept
      <4>3. QED
        BY <2>3, <2>4, <2>5, <3>1, <4>2
    <3>2. CASE ~(n >= 1)
      BY <2>2, <3>2 DEF Kept
    <3>3. QED
      BY <3>1, <3>2
  <2>7. ASSUME NEW d \in DOMAIN redisStale'
        PROVE  \/ Kept(redisStale', redisStale, d)
               \/ /\ d = c /\ redisStale'[d].secret = s /\ redisStale'[d].age = 0
                  /\ redisStale'[d].expires \/ InterruptedWrites
    <3>1. CASE n >= 3
      <4>1. redisStale' = With(redisStale, c, f)
        BY <2>2, <3>1
      <4>2. Kept(redisStale', redisStale, d) \/ (d = c /\ redisStale'[d] = f)
        BY <4>1 DEF With, Kept
      <4>3. QED
        BY <2>3, <2>4, <2>5, <3>1, <4>2
    <3>2. CASE ~(n >= 3)
      BY <2>2, <3>2 DEF Kept
    <3>3. QED
      BY <3>1, <3>2
  <2>8. QED
    BY <1>3, <2>6, <2>7
<1>4. QED
  BY <1>1, <1>2, <1>3 DEF CacheSet

\* A fallback only deletes.
LEMMA FallbacksAddNothing ==
    ASSUME NEW r \in Requests, CatchFailure(r) \/ AnswerFromMemory(r)
    PROVE  staleCache' = staleCache \/ (\E X : staleCache' = Without(staleCache, X))
<1>1. CASE AnswerFromMemory(r)
  BY <1>1 DEF AnswerFromMemory
<1>2. CASE ~AnswerFromMemory(r)
  BY <1>2 DEF CatchFailure, FallBack
<1>3. QED
  BY <1>1, <1>2

\* Only storing a reply adds to a cache.
LEMMA CachesStep ==
    ASSUME Types, RepliesMatch, [Next]_vars, ~Tick
    PROVE  CachesGrowByReplies
<1>1. CASE UNCHANGED <<cacheVars, staleCache>>
  BY <1>1, NothingAdded DEF cacheVars
<1>2. ASSUME NEW r \in Requests, MissAndFire(r) \/ MissAndReject(r)
      PROVE  CachesGrowByReplies
  <2>1. /\ primary' = primary \/ (\E X : primary' = Without(primary, X))
        /\ redisStale' = redisStale
    BY <1>2 DEF MissAndFire, MissAndReject, Misses
  <2>2. staleCache' = staleCache \/ (\E X : staleCache' = Without(staleCache, X))
    BY <1>2, FallbacksAddNothing DEF MissAndFire, MissAndReject
  <2>3. QED
    BY <2>1, <2>2, NothingAdded
<1>3. ASSUME UNCHANGED cacheVars,
             staleCache' = staleCache \/ (\E X : staleCache' = Without(staleCache, X))
      PROVE  CachesGrowByReplies
  BY <1>3, NothingAdded DEF cacheVars
<1>4. ASSUME NEW r \in Requests,
             \/ RedisStaleMiss(r) \/ KongFindsNothing(r) \/ KongFails(r) \/ Timeout(r)
      PROVE  CachesGrowByReplies
  <2>1. UNCHANGED cacheVars
    BY <1>4 DEF RedisStaleMiss, KongFindsNothing, KongFails, Timeout
  <2>2. staleCache' = staleCache \/ (\E X : staleCache' = Without(staleCache, X))
    BY <1>4, FallbacksAddNothing
       DEF RedisStaleMiss, KongFindsNothing, KongFails, Timeout, Settles
  <2>3. QED
    BY <1>3, <2>1, <2>2
<1>5. CASE CleanupExpiredStaleEntries
  BY <1>3, <1>5 DEF CleanupExpiredStaleEntries
<1>6. ASSUME NEW r \in Requests, Stored(r)
      PROVE  CachesGrowByReplies
  <2>1. /\ action[r] = "storing" /\ asked[r] \in Consumers /\ reply[r] \in Secret
        /\ CacheSet(asked[r], reply[r])
    BY <1>6 DEF Stored, RepliesMatch, Types, CallTypes
  <2>2. /\ \A d \in DOMAIN primary' :
             Kept(primary', primary, d) \/ FreshRedisCopy(d, primary'[d])
        /\ \A d \in DOMAIN redisStale' :
             \/ Kept(redisStale', redisStale, d)
             \/ HighAvailability /\ FreshRedisCopy(d, redisStale'[d])
    BY <2>1, CacheSetAddsCopies DEF FreshRedisCopy, FreshCopy
  <2>3. ASSUME NEW d \in DOMAIN staleCache'
        PROVE  Kept(staleCache', staleCache, d) \/ FreshCopy(d, staleCache'[d])
    <3> DEFINE e == [secret |-> reply[r], age |-> 0]
    <3>1. CASE staleCache' = staleCache
      BY <3>1 DEF Kept
    <3>2. CASE staleCache' \in SetAndEvict(staleCache, asked[r], e, MaxStale)
      <4>1. e.secret = reply[r] /\ e.age = 0
        OBVIOUS
      <4> HIDE DEF e
      <4>2. \/ d = asked[r] /\ staleCache'[d] = e
            \/ d \in DOMAIN staleCache /\ staleCache'[d] = staleCache[d]
        BY <3>2, EvictionAddsNothing
      <4>3. QED
        BY <2>1, <4>1, <4>2 DEF Kept, FreshCopy
    <3>3. QED
      BY <1>6, <3>1, <3>2 DEF Stored, Settles, KeepStaleCopy, UpdateStaleCache
  <2>4. QED
    BY <2>2, <2>3 DEF CachesGrowByReplies
<1>7. ASSUME NEW r \in Requests,
             \/ Hit(r) \/ RedisStaleHit(r) \/ KongFinds(r) \/ KongMixesUp(r) \/ Deliver(r)
             \/ \E c \in Consumers : Ask(r, c)
      PROVE  UNCHANGED <<cacheVars, staleCache>>
  BY <1>7 DEF Hit, RedisStaleHit, KongFinds, KongMixesUp, Settles, Deliver, Ask
<1>8. CASE \/ ResetTimer \/ CleanupUnusedBreakers \/ KongChanges
           \/ (\E c \in Consumers : Issue(c) \/ Revoke(c)) \/ UNCHANGED vars
  BY <1>1, <1>8 DEF ResetTimer, CleanupUnusedBreakers, KongChanges, Issue, Revoke, vars
<1>9. QED
  BY <1>1, <1>2, <1>4, <1>5, <1>6, <1>7, <1>8 DEF Next, Resume

(***************************************************************************)
(* Where answers come from                                                 *)
(***************************************************************************)

FromPrimary(r) ==
    PrimaryHas(asked[r]) /\ answer'[r] = primary[asked[r]].secret

FromKong(r) == action[r] = "storing" /\ answer'[r] = reply[r]

FromMemory(r) ==
    /\ StaleIsFresh(asked[r]) /\ answer'[r] = staleCache[asked[r]].secret
    /\ breaker' = "open" \/ call[r] = "fallback"

FromRedisStale(r) ==
    /\ RedisStaleHas(asked[r]) /\ answer'[r] = redisStale[asked[r]].secret
    /\ call[r] = "fallback"

\* Without a breaker, what Kong replied for another consumer.
FromMixUp(r) ==
    /\ breaker = "disabled"
    /\ \E c \in Consumers : active[c] /\ answer'[r] = Current(c)

\* A request that is given a secret in this step gets it from a live copy or
\* from Kong.
Source(r) ==
    FromPrimary(r) \/ FromKong(r) \/ FromMemory(r) \/ FromRedisStale(r) \/ FromMixUp(r)

\* The answer of the request that acts.
LEMMA AnswersIsTheAnswer ==
    ASSUME Types, NEW r \in Requests, NEW s, Answers(r, s)
    PROVE  answer'[r] = s
BY DEF Types, CallTypes, Answers

\* A request waiting or calling has no answer.
LEMMA AwaitsHasNoAnswer ==
    ASSUME Types, NEW r \in Requests, NEW where \in {"lookup", "fired", "fallback"},
           Awaits(r, where)
    PROVE  ~Given(r)'
BY DEF Types, CallTypes, Awaits, Given

\* An answer from memory is fresh, or null.
LEMMA MemorySource ==
    ASSUME Types, NEW r \in Requests, AnswerFromMemory(r), Given(r)'
    PROVE  StaleIsFresh(asked[r]) /\ answer'[r] = staleCache[asked[r]].secret
<1> DEFINE mine == StaleIsFresh(asked[r]) /\ staleCache[asked[r]].secret.owner = asked[r]
           s == IF mine THEN staleCache[asked[r]].secret ELSE NoSecret
<1>1. Answers(r, s)
  BY DEF AnswerFromMemory
<1>2. answer'[r] = s
  BY <1>1, AnswersIsTheAnswer
<1>3. answer'[r] # NoSecret
  BY DEF Given
<1>4. QED
  BY <1>2, <1>3

\* What a failed action gives to its request it has from memory.
LEMMA FailureSource ==
    ASSUME Types, NEW r \in Requests, CatchFailure(r), Given(r)'
    PROVE  FromMemory(r)
<1>1. CASE breaker' = "open" /\ AnswerFromMemory(r)
  BY <1>1, MemorySource DEF FromMemory
<1>2. CASE Awaits(r, "fallback")
  BY <1>2, AwaitsHasNoAnswer
<1>3. CASE Answers(r, NoSecret)
  BY <1>3, AnswersIsTheAnswer DEF Given
<1>4. QED
  BY <1>1, <1>2, <1>3 DEF CatchFailure, FallBack

\* What an acting request is given.
LEMMA ActingSource ==
    ASSUME Types, RepliesMatch, NEW r \in Requests, Resume(r), Given(r)', ~Given(r)
    PROVE  Source(r)
<1>0. call'[r] = "answered" /\ answer'[r] # NoSecret
  BY DEF Given
<1>1. CASE Hit(r)
  BY <1>1, AnswersIsTheAnswer DEF Hit, Source, FromPrimary
<1>2. CASE MissAndFire(r)
  BY <1>2, AwaitsHasNoAnswer DEF MissAndFire
<1>3. CASE MissAndReject(r) \/ Timeout(r)
  BY <1>3, FailureSource DEF MissAndReject, Timeout, Source
<1>4. CASE RedisStaleHit(r)
  <2> DEFINE s == IF redisStale[asked[r]].secret.owner = asked[r]
                  THEN redisStale[asked[r]].secret ELSE NoSecret
  <2>1. Answers(r, s)
    BY <1>4 DEF RedisStaleHit
  <2>2. answer'[r] = s
    BY <2>1, AnswersIsTheAnswer
  <2>3. QED
    BY <1>0, <1>4, <2>2 DEF RedisStaleHit, Source, FromRedisStale
<1>5. CASE RedisStaleMiss(r)
  BY <1>5, MemorySource DEF RedisStaleMiss, Source, FromMemory
<1>6. CASE KongFindsNothing(r) \/ KongMixesUp(r)
  <2>1. CASE Answers(r, NoSecret)
    BY <1>0, <2>1, AnswersIsTheAnswer
  <2>2. CASE UNCHANGED callVars
    BY <2>2 DEF Given, callVars
  <2>4. ASSUME NEW c \in Consumers, active[c],
               Answers(r, IF breaker = "disabled" THEN Current(c) ELSE NoSecret)
        PROVE  Source(r)
    <3>1. CASE breaker = "disabled"
      BY <2>4, <3>1, AnswersIsTheAnswer DEF Source, FromMixUp
    <3>2. CASE breaker # "disabled"
      BY <2>1, <2>4, <3>2
    <3>3. QED
      BY <3>1, <3>2
  <2>3. QED
    BY <1>6, <2>1, <2>2, <2>4 DEF KongFindsNothing, KongMixesUp, Settles
<1>7. CASE KongFails(r)
  <2>1. CASE CatchFailure(r)
    BY <2>1, FailureSource DEF Source
  <2>2. CASE UNCHANGED callVars
    BY <2>2 DEF Given, callVars
  <2>3. QED
    BY <1>7, <2>1, <2>2 DEF KongFails, Settles
<1>8. CASE Stored(r)
  <2>1. CASE Answers(r, reply[r])
    BY <1>8, <2>1, AnswersIsTheAnswer DEF Stored, Source, FromKong
  <2>2. CASE UNCHANGED callVars
    BY <2>2 DEF Given, callVars
  <2>3. QED
    BY <1>8, <2>1, <2>2 DEF Stored, Settles
<1>9. CASE KongFinds(r)
  BY <1>9 DEF KongFinds, Given, callVars
<1>10. CASE Deliver(r)
  BY <1>10 DEF Deliver, Given, Types, CallTypes
<1>11. QED
  BY <1>1, <1>2, <1>3, <1>4, <1>5, <1>6, <1>7, <1>8, <1>9, <1>10 DEF Resume

\* What happens to the other requests meanwhile: nothing.
LEMMA OthersAnswers ==
    ASSUME Types, NEW r \in Requests, Resume(r), NEW q \in Requests \ {r}
    PROVE  call'[q] = call[q] /\ answer'[q] = answer[q] /\ asked'[q] = asked[q]
<1> USE DEF Types, CallTypes
<1>1. \A s : Answers(r, s) =>
        call'[q] = call[q] /\ answer'[q] = answer[q] /\ asked'[q] = asked[q]
  BY DEF Answers
<1>2. \A w : Awaits(r, w) =>
        call'[q] = call[q] /\ answer'[q] = answer[q] /\ asked'[q] = asked[q]
  BY DEF Awaits
<1>3. UNCHANGED callVars =>
        call'[q] = call[q] /\ answer'[q] = answer[q] /\ asked'[q] = asked[q]
  BY DEF callVars
<1>4. AnswerFromMemory(r) => \E s : Answers(r, s)
  BY DEF AnswerFromMemory
<1>5. CatchFailure(r) => \/ \E s : Answers(r, s)
                         \/ \E w : Awaits(r, w)
  BY <1>4 DEF CatchFailure, FallBack
<1>6. CASE Deliver(r)
  BY <1>6 DEF Deliver
<1>7. CASE ~Deliver(r)
  <2>1. \/ \E s : Answers(r, s)
        \/ \E w : Awaits(r, w)
        \/ UNCHANGED callVars
    BY <1>4, <1>5, <1>7
       DEF Resume, Hit, MissAndFire, MissAndReject, RedisStaleHit, RedisStaleMiss,
           KongFinds, KongFindsNothing, KongMixesUp, KongFails, Stored, Timeout, Settles
  <2>2. QED
    BY <1>1, <1>2, <1>3, <2>1
<1>8. QED
  BY <1>6, <1>7

\* A request keeps what it asked for while it acts.
LEMMA ActingKeepsAsked ==
    ASSUME NEW r \in Requests, Resume(r)
    PROVE  asked' = asked
BY DEF Resume, Hit, MissAndFire, MissAndReject, RedisStaleHit, RedisStaleMiss, KongFinds,
       KongFindsNothing, KongMixesUp, KongFails, Stored, Timeout, Settles, Deliver,
       CatchFailure, FallBack, AnswerFromMemory, Answers, Awaits, callVars

\* Whatever happens, a secret that is given out now was given out before, for
\* the same question, or has a source.
LEMMA AnswersHaveSources ==
    ASSUME Types, RepliesMatch, [Next]_vars, NEW r \in Requests, Given(r)'
    PROVE  /\ asked'[r] = asked[r]
           /\ \/ Given(r) /\ answer'[r] = answer[r]
              \/ ~Given(r) /\ ~Tick /\ Source(r)
<1>1. CASE UNCHANGED callVars
  BY <1>1 DEF Given, callVars
<1>2. ASSUME NEW q \in Requests, NEW c \in Consumers, Ask(q, c)
      PROVE  /\ asked'[r] = asked[r]
             /\ Given(r) /\ answer'[r] = answer[r]
  BY <1>2 DEF Ask, Given, Types, CallTypes
<1>3. ASSUME NEW q \in Requests, Resume(q), q # r
      PROVE  /\ asked'[r] = asked[r]
             /\ Given(r) /\ answer'[r] = answer[r]
  BY <1>3, OthersAnswers DEF Given
<1>4. CASE Resume(r)
  <2>1. CASE Given(r)
    <3>1. call[r] = "answered"
      BY <2>1 DEF Given
    <3>2. answer'[r] = answer[r]
      BY <1>4, <3>1
         DEF Given, Types, CallTypes, Resume, Hit, MissAndFire, MissAndReject, Misses,
             RedisStaleHit, RedisStaleMiss, KongFinds, KongFindsNothing, KongMixesUp,
             KongFails, Stored, Timeout, Settles, Deliver, callVars
    <3>3. QED
      BY <1>4, <2>1, <3>2, ActingKeepsAsked
  <2>2. CASE ~Given(r)
    <3>1. ~Tick
      BY <2>2 DEF Tick, callVars, Given
    <3>2. QED
      BY <1>4, <2>2, <3>1, ActingSource, ActingKeepsAsked
  <2>3. QED
    BY <2>1, <2>2
<1>5. CASE \/ ResetTimer \/ CleanupExpiredStaleEntries \/ CleanupUnusedBreakers
           \/ KongChanges \/ (\E c \in Consumers : Issue(c) \/ Revoke(c)) \/ Tick
           \/ UNCHANGED vars
  BY <1>1, <1>5 DEF ResetTimer, CleanupExpiredStaleEntries, CleanupUnusedBreakers,
                    KongChanges, Issue, Revoke, Tick, vars
<1>6. QED
  BY <1>1, <1>2, <1>3, <1>4, <1>5 DEF Next

(***************************************************************************)
(* Nobody gets another consumer's secret                                   *)
(***************************************************************************)

CachesMatch ==
    /\ \A c \in DOMAIN primary : primary[c].secret.owner = c
    /\ \A c \in DOMAIN redisStale : redisStale[c].secret.owner = c
    /\ \A c \in DOMAIN staleCache : staleCache[c].secret.owner = c

AnswersMatch ==
    breaker # "disabled" =>
      \A r \in Requests : Given(r) => answer[r].owner = asked[r]

\* A breaker is enabled or disabled for good.
LEMMA DisabledForGood ==
    ASSUME Types, [Next]_vars
    PROVE  breaker' = "disabled" <=> breaker = "disabled"
<1>1. ReportFailure \/ ReportSuccess => (breaker' = "disabled" <=> breaker = "disabled")
  BY DEF ReportFailure, ReportSuccess, Opens, breakerVars
<1>2. UNCHANGED breakerVars => UNCHANGED breaker
  BY DEF breakerVars
<1>3. QED
  BY <1>1, <1>2
     DEF Next, Resume, Ask, Hit, MissAndFire, MissAndReject, RedisStaleHit,
         RedisStaleMiss, KongFinds, KongFindsNothing, KongMixesUp, KongFails, Stored,
         Timeout, Deliver, Settles, ResetTimer, ResetTimerDue,
         CleanupExpiredStaleEntries, CleanupUnusedBreakers, KongChanges, Issue, Revoke,
         Tick, vars

\* Time changes neither what is cached nor for whom.
LEMMA TickKeepsSecrets ==
    ASSUME Types, Tick
    PROVE  /\ \A c \in DOMAIN primary' :
                c \in DOMAIN primary /\ primary'[c].secret = primary[c].secret
           /\ \A c \in DOMAIN redisStale' :
                c \in DOMAIN redisStale /\ redisStale'[c].secret = redisStale[c].secret
           /\ \A c \in DOMAIN staleCache' :
                c \in DOMAIN staleCache /\ staleCache'[c].secret = staleCache[c].secret
<1>1. ASSUME NEW m, NEW limit, NEW c \in DOMAIN Older(m, limit),
             \E a, b, d : m[c] \in [secret : a, age : b, expires : d]
                          \/ m[c] \in [secret : a, age : b]
      PROVE  c \in DOMAIN m /\ Older(m, limit)[c].secret = m[c].secret
  BY <1>1 DEF Older
<1>2. ASSUME NEW m, NEW ttl, NEW c \in DOMAIN OlderInRedis(m, ttl),
             m[c] \in RedisEntry(ttl)
      PROVE  c \in DOMAIN m /\ OlderInRedis(m, ttl)[c].secret = m[c].secret
  BY <1>2 DEF OlderInRedis, RedisEntry
<1>3. ASSUME NEW c \in DOMAIN primary'
      PROVE  c \in DOMAIN primary /\ primary'[c].secret = primary[c].secret
  <2>1. c \in DOMAIN primary
    BY <1>3 DEF Tick, Older, OlderInRedis
  <2>2. primary[c] \in RedisEntry(Ttl)
    BY <2>1, CachedSecrets
  <2>3. QED
    BY <1>1, <1>2, <1>3, <2>1, <2>2 DEF Tick, RedisEntry
<1>4. ASSUME NEW c \in DOMAIN redisStale'
      PROVE  c \in DOMAIN redisStale /\ redisStale'[c].secret = redisStale[c].secret
  <2>1. c \in DOMAIN redisStale
    BY <1>4 DEF Tick, OlderInRedis
  <2>2. redisStale[c] \in RedisEntry(RedisStaleTtl)
    BY <2>1, CachedSecrets
  <2>3. QED
    BY <1>2, <1>4, <2>1, <2>2 DEF Tick
<1>5. ASSUME NEW c \in DOMAIN staleCache'
      PROVE  c \in DOMAIN staleCache /\ staleCache'[c].secret = staleCache[c].secret
  <2>1. c \in DOMAIN staleCache
    BY <1>5 DEF Tick, Older
  <2>2. staleCache[c] \in StaleEntry
    BY <2>1, CachedSecrets
  <2>3. QED
    BY <1>1, <1>5, <2>1, <2>2 DEF Tick, StaleEntry
<1>6. QED
  BY <1>3, <1>4, <1>5

\* No step stores or returns the secret of another consumer.
LEMMA OwnersNext ==
    ASSUME Types, RepliesMatch, CachesMatch, AnswersMatch, [Next]_vars
    PROVE  CachesMatch' /\ AnswersMatch'
<1>1. CachesMatch'
  <2>1. CASE Tick
    BY <2>1, TickKeepsSecrets DEF CachesMatch
  <2>2. CASE ~Tick
    <3>1. CachesGrowByReplies
      BY <2>2, CachesStep
    <3>2. \A d, e : FreshCopy(d, e) => e.secret.owner = d
      BY DEF FreshCopy, RepliesMatch
    <3>3. QED
      BY <3>1, <3>2 DEF CachesGrowByReplies, CachesMatch, Kept, FreshRedisCopy
  <2>3. QED
    BY <2>1, <2>2
<1>2. AnswersMatch'
  <2> SUFFICES ASSUME NEW r \in Requests, Given(r)', breaker' # "disabled"
               PROVE  answer'[r].owner = asked'[r]
    BY DEF AnswersMatch
  <2>0. breaker # "disabled"
    BY DisabledForGood
  <2>1. asked'[r] = asked[r]
    BY AnswersHaveSources
  <2>2. CASE Given(r) /\ answer'[r] = answer[r]
    BY <2>0, <2>1, <2>2 DEF AnswersMatch
  <2>3. CASE Source(r)
    BY <2>0, <2>1, <2>3
                  DEF Source, FromPrimary, FromKong, FromMemory, FromRedisStale,
                      FromMixUp, PrimaryHas, RedisStaleHas, StaleIsFresh, Live, CachesMatch,
                      RepliesMatch
  <2>4. QED
    BY <2>2, <2>3, AnswersHaveSources
<1>3. QED
  BY <1>1, <1>2

\* Why no secret reaches another consumer's request: replies are compared with
\* the question before they are stored, and caches are filled and read by key.
OwnersInv == Types /\ RepliesMatch /\ CachesMatch /\ AnswersMatch

\* In every behaviour each copy and each stored reply carries the secret of the
\* consumer it is kept or was asked for, and so does each answer that came
\* through a breaker.
THEOREM OwnersInvariant == Spec => []OwnersInv
<1>1. Init => OwnersInv
  <2> SUFFICES ASSUME Init PROVE OwnersInv
    OBVIOUS
  <2>1. CachesMatch
    BY DEF Init, NoEntries, CachesMatch
  <2>2. AnswersMatch
    BY DEF Init, AnswersMatch, Given
  <2>3. QED
    BY <2>1, <2>2, TypesInit, RepliesInit DEF OwnersInv
<1>2. OwnersInv /\ [Next]_vars => OwnersInv'
  BY TypesNext, RepliesNext, OwnersNext DEF OwnersInv
<1>3. QED
  BY <1>1, <1>2, PTL DEF Spec

\* Whatever Kong mixes up, no cache holds under the wrong key, and behind a
\* breaker no request is given, the secret of another consumer.
THEOREM EveryoneGetsTheirOwn == Spec => []NeverAnotherConsumersSecret
<1>1. OwnersInv => NeverAnotherConsumersSecret
  BY DEF OwnersInv, CachesMatch, AnswersMatch, NeverAnotherConsumersSecret
<1>2. QED
  BY <1>1, OwnersInvariant, PTL

(***************************************************************************)
(* The maps keep to their limits                                           *)
(***************************************************************************)

\* Deleting entries from a finite map leaves no more.
LEMMA WithoutIsSmaller ==
    ASSUME NEW S, NEW T, NEW m \in PartialOn(S, T), IsFiniteSet(S), NEW X
    PROVE  /\ Cardinality(DOMAIN Without(m, X)) \in Nat
           /\ Cardinality(DOMAIN m) \in Nat
           /\ Cardinality(DOMAIN Without(m, X)) <= Cardinality(DOMAIN m)
<1>1. DOMAIN m \subseteq S
  BY PartialFunctions
<1>2. IsFiniteSet(DOMAIN m)
  BY <1>1, FS_Subset
<1>3. DOMAIN Without(m, X) \subseteq DOMAIN m
  BY DEF Without, Restrict
<1>4. QED
  BY <1>2, <1>3, FS_Subset, FS_CardinalityType

\* No step leaves a map with more entries than it may have.
LEMMA BoundsNext ==
    ASSUME Types, RepliesMatch, CachesAreBounded, [Next]_vars
    PROVE  CachesAreBounded'
<1>0. /\ primary \in PartialOn(Consumers, RedisEntry(Ttl))
      /\ staleCache \in PartialOn(Consumers, StaleEntry)
      /\ IsFiniteSet(Consumers) /\ MaxStale \in Nat /\ MaxPrimary \in Nat
  BY Limits, SecretsAssumption DEF Types, CacheTypes, StaleTypes
<1>1. ASSUME NEW r \in Requests, Stored(r)
      PROVE  CachesAreBounded'
  <2>0. asked[r] \in Consumers /\ reply[r] \in Secret
    BY <1>1 DEF Stored, RepliesMatch, Types, CallTypes
  <2>1. Cardinality(DOMAIN staleCache') <= MaxStale
    <3> DEFINE e == [secret |-> reply[r], age |-> 0]
    <3>1. CASE staleCache' = staleCache
      BY <3>1 DEF CachesAreBounded
    <3>2. CASE staleCache' \in SetAndEvict(staleCache, asked[r], e, MaxStale)
      <4>1. e \in StaleEntry
        BY <2>0, Limits DEF StaleEntry
      <4> HIDE DEF e
      <4>2. Cardinality(DOMAIN staleCache) <= MaxStale
        BY DEF CachesAreBounded
      <4>3. QED
        BY <1>0, <2>0, <3>2, <4>1, <4>2, EvictionKeepsTheLimit, Zenon
    <3>3. QED
      BY <1>1, <3>1, <3>2 DEF Stored, Settles, KeepStaleCopy, UpdateStaleCache
  <2>2. ASSUME ~HighAvailability
        PROVE  Cardinality(DOMAIN primary') <= MaxPrimary
    <3> DEFINE e == [secret |-> reply[r], age |-> 0, expires |-> TRUE]
    <3>1. primary' \in SetAndEvict(primary, asked[r], e, MaxPrimary)
      BY <1>1, <2>2 DEF Stored, CacheSet, LocalSet
    <3>2. e \in RedisEntry(Ttl)
      BY <2>0, Limits DEF RedisEntry
    <3> HIDE DEF e
    <3>3. Cardinality(DOMAIN primary) <= MaxPrimary
      BY <2>2 DEF CachesAreBounded
    <3>4. QED
      BY <1>0, <2>0, <3>1, <3>2, <3>3, EvictionKeepsTheLimit, Zenon
  <2>3. QED
    BY <2>1, <2>2 DEF CachesAreBounded
<1>2. CASE Tick
  <2>1. DOMAIN staleCache' = DOMAIN staleCache
    BY <1>2 DEF Tick, Older
  <2>2. ~HighAvailability => DOMAIN primary' = DOMAIN primary
    BY <1>2 DEF Tick, Older
  <2>3. QED
    BY <2>1, <2>2 DEF CachesAreBounded
<1>3. ASSUME primary' = primary \/ (\E X : primary' = Without(primary, X)),
             staleCache' = staleCache \/ (\E X : staleCache' = Without(staleCache, X))
      PROVE  CachesAreBounded'
  <2>1. \A X : /\ Cardinality(DOMAIN Without(primary, X)) \in Nat
               /\ Cardinality(DOMAIN primary) \in Nat
               /\ Cardinality(DOMAIN Without(primary, X)) <= Cardinality(DOMAIN primary)
    BY <1>0, WithoutIsSmaller, Zenon
  <2>2. \A X : /\ Cardinality(DOMAIN Without(staleCache, X)) \in Nat
               /\ Cardinality(DOMAIN staleCache) \in Nat
               /\ Cardinality(DOMAIN Without(staleCache, X)) <= Cardinality(DOMAIN staleCache)
    BY <1>0, WithoutIsSmaller, Zenon
  <2>3. Cardinality(DOMAIN staleCache') <= MaxStale
    BY <1>0, <1>3, <2>2 DEF CachesAreBounded
  <2>4. ~HighAvailability => Cardinality(DOMAIN primary') <= MaxPrimary
    BY <1>0, <1>3, <2>1 DEF CachesAreBounded
  <2>5. QED
    BY <2>3, <2>4 DEF CachesAreBounded
<1>4. CASE ~Tick /\ \A r \in Requests : ~Stored(r)
  <2>1. primary' = primary \/ (\E X : primary' = Without(primary, X))
    BY <1>4
       DEF Next, Resume, Ask, Hit, MissAndFire, MissAndReject, Misses, RedisStaleHit,
           RedisStaleMiss, KongFinds, KongFindsNothing, KongMixesUp, KongFails, Timeout,
           Deliver, ResetTimer, CleanupExpiredStaleEntries, CleanupUnusedBreakers,
           KongChanges, Issue, Revoke, cacheVars, vars
  <2>2. staleCache' = staleCache \/ (\E X : staleCache' = Without(staleCache, X))
    BY <1>4, FallbacksAddNothing
       DEF Next, Resume, Ask, Hit, MissAndFire, MissAndReject, RedisStaleHit,
           RedisStaleMiss, KongFinds, KongFindsNothing, KongMixesUp, KongFails, Timeout,
           Deliver, ResetTimer, CleanupExpiredStaleEntries, CleanupUnusedBreakers,
           KongChanges, Issue, Revoke, Settles, vars
  <2>3. QED
    BY <1>3, <2>1, <2>2
<1>5. QED
  BY <1>1, <1>2, <1>4

\* Neither map in the memory of the process outgrows its limit, also when
\* timed-out calls store their replies late.
THEOREM MapsKeepToTheirLimits == Spec => []CachesAreBounded
<1>1. Init => CachesAreBounded
  <2> SUFFICES ASSUME Init PROVE CachesAreBounded
    OBVIOUS
  <2>1. DOMAIN primary = {} /\ DOMAIN staleCache = {}
    BY DEF Init, NoEntries
  <2>2. Cardinality({}) = 0
    BY FS_EmptySet
  <2>3. QED
    BY <2>1, <2>2, Limits DEF CachesAreBounded
<1>2. (Types /\ RepliesMatch) /\ CachesAreBounded /\ [Next]_vars => CachesAreBounded'
  BY BoundsNext
<1>3. QED
  BY <1>1, <1>2, TypesInvariant, PTL DEF Spec

(***************************************************************************)
(* How long a replaced secret may be given out                             *)
(***************************************************************************)

\* The clock of a version starts when it stops being current.
ClocksInv ==
    \A c \in Consumers, v \in 1..MaxVersion :
        ~Outdated(c, v) => supersededFor[c][v] = 0

\* A reply under way is no older than the time it took so far.
RepliesAreRecent ==
    \A r \in Requests :
        /\ action[r] = "storing" => SupersededFor(reply[r]) <= replyAge[r]
        /\ action[r] # "storing" => replyAge[r] = 0

\* A copy that may still be served expires, and what it holds was replaced at
\* most one tick before the copy was written.
CopiesAreRecent ==
    /\ \A c \in DOMAIN primary :
         /\ primary[c].expires
         /\ primary[c].age < Ttl =>
              SupersededFor(primary[c].secret) <= primary[c].age + 1
    /\ \A c \in DOMAIN redisStale :
         /\ HighAvailability /\ redisStale[c].expires
         /\ redisStale[c].age < RedisStaleTtl =>
              SupersededFor(redisStale[c].secret) <= redisStale[c].age + 1
    /\ \A c \in DOMAIN staleCache :
         staleCache[c].age <= Tolerance =>
           SupersededFor(staleCache[c].secret) <= staleCache[c].age + 1

AgesInv == ClocksInv /\ RepliesAreRecent /\ CopiesAreRecent

\* How long ago a secret was superseded is a number.
LEMMA SupersededForIsTyped ==
    ASSUME Types, NEW s \in Secret
    PROVE  SupersededFor(s) \in Nat
<1>1. s.owner \in Consumers /\ s.version \in 1..MaxVersion
  BY DEF Secret
<1>2. supersededFor[s.owner][s.version] \in 0..(Window + 1)
  BY <1>1 DEF Types, KongTypes
<1>3. QED
  BY <1>2 DEF SupersededFor

\* The clocks stand still between ticks, and then advance by one at most.
LEMMA ClocksAdvance ==
    ASSUME Types, [Next]_vars
    PROVE  /\ ~Tick => UNCHANGED supersededFor
           /\ Tick => \A s \in Secret : SupersededFor(s)' <= SupersededFor(s) + 1
<1>1. ASSUME ~Tick
      PROVE  UNCHANGED supersededFor
  BY <1>1
     DEF Next, Resume, Ask, Hit, MissAndFire, MissAndReject, RedisStaleHit,
         RedisStaleMiss, KongFinds, KongFindsNothing, KongMixesUp, KongFails, Stored,
         Timeout, Deliver, ResetTimer, CleanupExpiredStaleEntries,
         CleanupUnusedBreakers, KongChanges, Issue, Revoke, kongVars, vars
<1>2. ASSUME Tick, NEW s \in Secret
      PROVE  SupersededFor(s)' <= SupersededFor(s) + 1
  <2>1. s.owner \in Consumers /\ s.version \in 1..MaxVersion
    BY DEF Secret
  <2>0. Window + 1 \in Nat
    BY WindowBounds
  <2>2. supersededFor[s.owner][s.version] \in 0..(Window + 1)
    BY <2>1 DEF Types, KongTypes
  <2>3. supersededFor'[s.owner][s.version] \in
          {UpTo(Window + 1, supersededFor[s.owner][s.version]),
           supersededFor[s.owner][s.version]}
    BY <1>2, <2>1 DEF Tick
  <2>4. QED
    <3>1. UpTo(Window + 1, supersededFor[s.owner][s.version])
            <= supersededFor[s.owner][s.version] + 1
      BY <2>0, <2>2, UpToBounds
    <3>2. supersededFor'[s.owner][s.version] <= supersededFor[s.owner][s.version] + 1
      BY <2>2, <2>3, <3>1
    <3>3. QED
      BY <3>2 DEF SupersededFor
<1>3. QED
  BY <1>1, <1>2

\* The clock of a version that is current stands at zero after every step.
LEMMA ClocksNext ==
    ASSUME Types, ClocksInv, [Next]_vars
    PROVE  ClocksInv'
<1> SUFFICES ASSUME NEW c \in Consumers, NEW v \in 1..MaxVersion, ~Outdated(c, v)'
             PROVE  supersededFor'[c][v] = 0
  BY DEF ClocksInv
<1> USE DEF Types, KongTypes
<1>1. ~Outdated(c, v)
  <2>1. CASE UNCHANGED <<issued, active>>
    BY <2>1 DEF Outdated
  <2>2. ASSUME NEW d \in Consumers, Issue(d)
        PROVE  ~Outdated(c, v)
    BY <2>2 DEF Issue, Outdated
  <2>3. ASSUME NEW d \in Consumers, Revoke(d)
        PROVE  ~Outdated(c, v)
    BY <2>3 DEF Revoke, Outdated
  <2>4. QED
    BY <2>1, <2>2, <2>3
       DEF Next, Resume, Ask, Hit, MissAndFire, MissAndReject, RedisStaleHit,
           RedisStaleMiss, KongFinds, KongFindsNothing, KongMixesUp, KongFails, Stored,
           Timeout, Deliver, ResetTimer, CleanupExpiredStaleEntries,
           CleanupUnusedBreakers, KongChanges, Tick, kongVars, vars
<1>2. supersededFor[c][v] = 0
  BY <1>1 DEF ClocksInv
<1>3. CASE Tick
  BY <1>1, <1>2, <1>3 DEF Tick
<1>4. CASE ~Tick
  BY <1>2, <1>4, ClocksAdvance
<1>5. QED
  BY <1>3, <1>4

\* A request still looks up only when its last action has ended.
LookupsAreIdle ==
    \A r \in Requests : call[r] = "lookup" => action[r] = "none"

\* A request that looks up has no action of its own under way, after any step.
LEMMA LookupsNext ==
    ASSUME Types, LookupsAreIdle, [Next]_vars
    PROVE  LookupsAreIdle'
<1> SUFFICES ASSUME NEW r \in Requests, call'[r] = "lookup"
             PROVE  action'[r] = "none"
  BY DEF LookupsAreIdle
<1>1. CASE UNCHANGED <<callVars, action>>
  BY <1>1 DEF LookupsAreIdle, callVars
<1>2. ASSUME NEW q \in Requests, NEW c \in Consumers, Ask(q, c)
      PROVE  action'[r] = "none"
  BY <1>2 DEF Ask, LookupsAreIdle, actionVars, Types, CallTypes
<1>3. ASSUME NEW q \in Requests, Resume(q), q # r
      PROVE  action'[r] = "none"
  <2>1. action[r] = "none"
    BY <1>3, OthersAnswers DEF LookupsAreIdle
  <2>2. action'[r] = action[r]
    BY <1>3 DEF Resume, Hit, MissAndFire, MissAndReject, RedisStaleHit, RedisStaleMiss,
                KongFinds, KongFindsNothing, KongMixesUp, KongFails, Stored, Timeout,
                Deliver, ActionEnds, actionVars, Types, ActionTypes
  <2>3. QED
    BY <2>1, <2>2
<1>4. ASSUME Resume(r)
      PROVE  action'[r] = "none"
  <2>1. \A s : ~Answers(r, s)
    BY DEF Answers, Types, CallTypes
  <2>2. ~Awaits(r, "fired") /\ ~Awaits(r, "fallback")
    BY DEF Awaits, Types, CallTypes
  <2>3. ~AnswerFromMemory(r) /\ ~CatchFailure(r)
    BY <2>1, <2>2 DEF CatchFailure, FallBack, AnswerFromMemory
  <2>4. \/ KongFinds(r) \/ Deliver(r)
        \/ ActionEnds(r)
    BY <1>4, <2>1, <2>2, <2>3
       DEF Resume, Hit, MissAndFire, MissAndReject, RedisStaleHit, RedisStaleMiss,
           KongFindsNothing, KongMixesUp, KongFails, Stored, Timeout
  <2>5. ~KongFinds(r)
    BY DEF KongFinds, callVars, LookupsAreIdle
  <2>6. ~Deliver(r)
    BY DEF Deliver, Types, CallTypes
  <2>7. QED
    BY <2>4, <2>5, <2>6 DEF ActionEnds, Types, ActionTypes
<1>5. CASE \/ ResetTimer \/ CleanupExpiredStaleEntries \/ CleanupUnusedBreakers
           \/ KongChanges \/ (\E c \in Consumers : Issue(c) \/ Revoke(c)) \/ Tick
           \/ UNCHANGED vars
  BY <1>1, <1>5 DEF ResetTimer, CleanupExpiredStaleEntries, CleanupUnusedBreakers,
                    KongChanges, Issue, Revoke, Tick, actionVars, vars
<1>6. QED
  BY <1>1, <1>2, <1>3, <1>4, <1>5 DEF Next

\* What a reply carries was replaced no earlier than it was asked for, and stays so.
LEMMA RepliesAgeNext ==
    ASSUME Types, RepliesMatch, LookupsAreIdle, ClocksInv, RepliesAreRecent, [Next]_vars
    PROVE  RepliesAreRecent'
<1>1. CASE Tick
  <2> SUFFICES ASSUME NEW r \in Requests
               PROVE  /\ action'[r] = "storing" => SupersededFor(reply[r])' <= replyAge'[r]
                      /\ action'[r] # "storing" => replyAge'[r] = 0
    BY DEF RepliesAreRecent
  <2>1. /\ action' = action /\ reply' = reply /\ replyAge[r] = 0
        /\ replyAge'[r] = IF action[r] = "storing" THEN 1 ELSE 0
    BY <1>1 DEF Tick
  <2>2. CASE action[r] = "storing"
    <3>1. reply[r] \in Secret /\ SupersededFor(reply[r]) <= 0
      BY <2>1, <2>2 DEF RepliesMatch, RepliesAreRecent
    <3>2. SupersededFor(reply[r]) = 0
      BY <3>1, SupersededForIsTyped
    <3>3. supersededFor'[reply[r].owner][reply[r].version] <= 0 + 1
      BY <1>1, <3>1, <3>2, ClocksAdvance DEF SupersededFor
    <3>4. QED
      BY <2>1, <2>2, <3>3 DEF SupersededFor
  <2>3. CASE action[r] # "storing"
    BY <2>1, <2>3
  <2>4. QED
    BY <2>2, <2>3
<1>2. CASE ~Tick
  <2>0. supersededFor' = supersededFor
    BY <1>2, ClocksAdvance
  <2>5. \/ UNCHANGED actionVars
        \/ \E r \in Requests : MissAndFire(r) \/ KongFinds(r) \/ ActionEnds(r)
    BY <1>2
       DEF Next, Resume, Ask, Hit, MissAndReject, RedisStaleHit, RedisStaleMiss,
           KongFindsNothing, KongMixesUp, KongFails, Stored, Timeout, Deliver,
           ResetTimer, CleanupExpiredStaleEntries, CleanupUnusedBreakers, KongChanges,
           Issue, Revoke, vars
  <2> USE DEF RepliesAreRecent, SupersededFor, Types, ActionTypes, CallTypes
  <2>1. CASE UNCHANGED actionVars
    BY <2>0, <2>1 DEF actionVars
  <2>2. ASSUME NEW r \in Requests, MissAndFire(r)
        PROVE  RepliesAreRecent'
    BY <2>0, <2>2 DEF MissAndFire, Misses, LookupsAreIdle
  <2>3. ASSUME NEW r \in Requests, KongFinds(r)
        PROVE  RepliesAreRecent'
    <3>1. asked[r] \in Consumers /\ issued[asked[r]] \in 1..MaxVersion /\ active[asked[r]]
      BY <2>3 DEF KongFinds, KongTypes
    <3>2. ~Outdated(asked[r], issued[asked[r]])
      BY <3>1 DEF Outdated
    <3>3. SupersededFor(Current(asked[r])) = 0
      BY <3>1, <3>2 DEF ClocksInv, Current
    <3>4. /\ reply' = [reply EXCEPT ![r] = Current(asked[r])]
          /\ action' = [action EXCEPT ![r] = "storing"]
          /\ action[r] # "storing" /\ replyAge' = replyAge
      BY <2>3 DEF KongFinds
    <3>5. ASSUME NEW q \in Requests
          PROVE  /\ action'[q] = "storing" =>
                      supersededFor'[reply'[q].owner][reply'[q].version] <= replyAge'[q]
                 /\ action'[q] # "storing" => replyAge'[q] = 0
      <4>1. CASE q = r
        <5>1. reply'[q] = Current(asked[r]) /\ action'[q] = "storing" /\ replyAge'[q] = 0
          BY <3>4, <4>1
        <5>2. QED
          BY <2>0, <3>3, <5>1
      <4>2. CASE q # r
        BY <2>0, <3>4, <4>2
      <4>3. QED
        BY <4>1, <4>2
    <3>6. QED
      BY <3>5
  <2>4. ASSUME NEW r \in Requests, ActionEnds(r)
        PROVE  RepliesAreRecent'
    BY <2>0, <2>4 DEF ActionEnds
  <2>6. QED
    BY <2>1, <2>2, <2>3, <2>4, <2>5
<1>3. QED
  BY <1>1, <1>2

\* A tick makes every copy older by what the clocks may advance, or too old.
LEMMA CopiesAgeOnTick ==
    ASSUME Types, CopiesAreRecent, [Next]_vars, Tick
    PROVE  CopiesAreRecent'
<1>0. \A s \in Secret : /\ supersededFor[s.owner][s.version] \in Nat
                        /\ supersededFor'[s.owner][s.version] \in Int
                        /\ supersededFor'[s.owner][s.version]
                             <= supersededFor[s.owner][s.version] + 1
  <2> SUFFICES ASSUME NEW s \in Secret
               PROVE  /\ supersededFor[s.owner][s.version] \in Nat
                      /\ supersededFor'[s.owner][s.version] \in Int
                      /\ supersededFor'[s.owner][s.version]
                           <= supersededFor[s.owner][s.version] + 1
    OBVIOUS
  <2>1. s.owner \in Consumers /\ s.version \in 1..MaxVersion
    BY DEF Secret
  <2>2. KongTypes'
    BY TickIsTyped DEF Types
  <2>3. supersededFor'[s.owner][s.version] \in 0..(Window + 1)'
    BY <2>1, <2>2 DEF KongTypes
  <2>4. Window' = Window
    BY DEF Window
  <2>5. supersededFor'[s.owner][s.version] \in Int
    BY <2>3, <2>4, WindowBounds
  <2>6. QED
    BY <2>5, ClocksAdvance, SupersededForIsTyped DEF SupersededFor
<1>1. ASSUME NEW c \in DOMAIN primary'
      PROVE  /\ primary'[c].expires
             /\ primary'[c].age < Ttl =>
                  SupersededFor(primary[c].secret)' <= primary'[c].age + 1
  <2>1. c \in DOMAIN primary /\ primary'[c].secret = primary[c].secret
    BY <1>1, TickKeepsSecrets
  <2>2. primary[c] \in RedisEntry(Ttl)
    BY <2>1, CachedSecrets
  <2>3. primary'[c] \in {[primary[c] EXCEPT !.age = UpTo(Ttl, @)],
                         [primary[c] EXCEPT !.age = IF primary[c].expires THEN @ + 1 ELSE @]}
    BY <1>1, <2>1 DEF Tick, Older, OlderInRedis
  <2>4. primary[c].expires
    BY <2>1 DEF CopiesAreRecent
  <2>5. /\ primary'[c].expires = primary[c].expires
        /\ primary'[c].age \in {UpTo(Ttl, primary[c].age), primary[c].age + 1}
        /\ primary[c].age \in 0..Ttl /\ primary[c].secret \in Secret
    BY <2>2, <2>3, <2>4 DEF RedisEntry
  <2>6. primary'[c].age < Ttl => primary'[c].age = primary[c].age + 1
    BY <2>5, Limits DEF UpTo
  <2>7. QED
    BY <1>0, <2>1, <2>4, <2>5, <2>6, Limits DEF CopiesAreRecent, SupersededFor
<1>2. ASSUME NEW c \in DOMAIN redisStale'
      PROVE  /\ HighAvailability /\ redisStale'[c].expires
             /\ redisStale'[c].age < RedisStaleTtl =>
                  SupersededFor(redisStale[c].secret)' <= redisStale'[c].age + 1
  <2>1. c \in DOMAIN redisStale /\ redisStale'[c].secret = redisStale[c].secret
    BY <1>2, TickKeepsSecrets
  <2>2. redisStale[c] \in RedisEntry(RedisStaleTtl)
    BY <2>1, CachedSecrets
  <2>3. redisStale'[c] = [redisStale[c] EXCEPT !.age =
                            IF redisStale[c].expires THEN @ + 1 ELSE @]
    BY <1>2, <2>1 DEF Tick, OlderInRedis
  <2>4. redisStale[c].expires /\ HighAvailability
    BY <2>1 DEF CopiesAreRecent
  <2>5. /\ redisStale'[c].expires = redisStale[c].expires
        /\ redisStale'[c].age = redisStale[c].age + 1
        /\ redisStale[c].age \in 0..RedisStaleTtl /\ redisStale[c].secret \in Secret
    BY <2>2, <2>3, <2>4 DEF RedisEntry
  <2>6. QED
    BY <1>0, <2>1, <2>4, <2>5, Limits DEF CopiesAreRecent, SupersededFor
<1>3. ASSUME NEW c \in DOMAIN staleCache'
      PROVE  staleCache'[c].age <= Tolerance =>
               SupersededFor(staleCache[c].secret)' <= staleCache'[c].age + 1
  <2>1. c \in DOMAIN staleCache /\ staleCache'[c].secret = staleCache[c].secret
    BY <1>3, TickKeepsSecrets
  <2>2. staleCache[c] \in StaleEntry
    BY <2>1, CachedSecrets
  <2>3. staleCache'[c] = [staleCache[c] EXCEPT !.age = UpTo(Tolerance + 1, @)]
    BY <1>3, <2>1 DEF Tick, Older
  <2>4. /\ staleCache'[c].age = UpTo(Tolerance + 1, staleCache[c].age)
        /\ staleCache[c].age \in 0..(Tolerance + 1) /\ staleCache[c].secret \in Secret
    BY <2>2, <2>3 DEF StaleEntry
  <2>5. staleCache'[c].age <= Tolerance => staleCache'[c].age = staleCache[c].age + 1
    BY <2>4, Limits DEF UpTo
  <2>6. QED
    BY <1>0, <2>1, <2>4, <2>5, Limits DEF CopiesAreRecent, SupersededFor
<1>4. QED
  BY <1>1, <1>2, <1>3, TickKeepsSecrets DEF CopiesAreRecent, SupersededFor

\* Between ticks, copies are kept, deleted, or made of replies under way.
LEMMA CopiesBetweenTicks ==
    ASSUME Types, RepliesMatch, RepliesAreRecent, CopiesAreRecent, [Next]_vars, ~Tick,
           ~InterruptedWrites
    PROVE  CopiesAreRecent'
<1>1. supersededFor' = supersededFor
  BY ClocksAdvance
<1>2. CachesGrowByReplies
  BY CachesStep
<1>3. ASSUME NEW d, NEW e, FreshCopy(d, e)
      PROVE  e.age = 0 /\ SupersededFor(e.secret) <= 1
  <2>1. PICK r \in Requests : /\ action[r] = "storing" /\ asked[r] = d
                              /\ e.secret = reply[r] /\ e.age = 0
    BY <1>3 DEF FreshCopy
  <2>2. reply[r] \in Secret /\ SupersededFor(reply[r]) <= replyAge[r]
    BY <2>1 DEF RepliesMatch, RepliesAreRecent
  <2>3. SupersededFor(reply[r]) \in Nat
    BY <2>2, SupersededForIsTyped
  <2>4. replyAge[r] \in 0..1
    BY DEF Types, ActionTypes
  <2>5. SupersededFor(reply[r]) <= 1
    BY <2>2, <2>3, <2>4
  <2>6. QED
    BY <2>1, <2>5
<1>4. ASSUME NEW c \in DOMAIN primary'
      PROVE  /\ primary'[c].expires
             /\ primary'[c].age < Ttl =>
                  supersededFor[primary'[c].secret.owner][primary'[c].secret.version]
                    <= primary'[c].age + 1
  <2>1. CASE Kept(primary', primary, c)
    BY <2>1 DEF Kept, CopiesAreRecent, SupersededFor
  <2>2. CASE FreshRedisCopy(c, primary'[c])
    BY <1>3, <2>2 DEF FreshRedisCopy, SupersededFor
  <2>3. QED
    BY <1>2, <2>1, <2>2 DEF CachesGrowByReplies
<1>5. ASSUME NEW c \in DOMAIN redisStale'
      PROVE  /\ HighAvailability /\ redisStale'[c].expires
             /\ redisStale'[c].age < RedisStaleTtl =>
                  supersededFor[redisStale'[c].secret.owner][redisStale'[c].secret.version]
                    <= redisStale'[c].age + 1
  <2>1. CASE Kept(redisStale', redisStale, c)
    BY <2>1 DEF Kept, CopiesAreRecent, SupersededFor
  <2>2. CASE HighAvailability /\ FreshRedisCopy(c, redisStale'[c])
    BY <1>3, <2>2 DEF FreshRedisCopy, SupersededFor
  <2>3. QED
    BY <1>2, <2>1, <2>2 DEF CachesGrowByReplies
<1>6. ASSUME NEW c \in DOMAIN staleCache'
      PROVE  staleCache'[c].age <= Tolerance =>
               supersededFor[staleCache'[c].secret.owner][staleCache'[c].secret.version]
                 <= staleCache'[c].age + 1
  <2>1. CASE Kept(staleCache', staleCache, c)
    BY <2>1 DEF Kept, CopiesAreRecent, SupersededFor
  <2>2. CASE FreshCopy(c, staleCache'[c])
    BY <1>3, <2>2 DEF SupersededFor
  <2>3. QED
    BY <1>2, <2>1, <2>2 DEF CachesGrowByReplies
<1>7. QED
  BY <1>1, <1>4, <1>5, <1>6 DEF CopiesAreRecent, SupersededFor

\* Why no chain of stores and refills keeps a replaced secret alive: every copy
\* stems from a reply of Kong, and carries its age with it.
RecencyInv ==
    /\ Types
    /\ RepliesMatch
    /\ LookupsAreIdle
    /\ ClocksInv
    /\ RepliesAreRecent
    /\ CopiesAreRecent

\* There are no copies, replies or answers at the start.
LEMMA RecencyInit == Init => RecencyInv
<1> SUFFICES ASSUME Init PROVE RecencyInv
  OBVIOUS
<1>1. LookupsAreIdle /\ RepliesAreRecent
  BY DEF Init, LookupsAreIdle, RepliesAreRecent
<1>2. ClocksInv
  BY DEF Init, ClocksInv
<1>3. CopiesAreRecent
  BY DEF Init, NoEntries, CopiesAreRecent
<1>4. QED
  BY <1>1, <1>2, <1>3, TypesInit, RepliesInit DEF RecencyInv

\* Unless a write is cut off between SET and EXPIRE: in every behaviour what a
\* copy or a reply holds was replaced at most one tick before it was written or
\* asked for, and every copy in Redis expires.
THEOREM RecencyInvariant == ASSUME ~InterruptedWrites PROVE Spec => []RecencyInv
<1>1. Init => RecencyInv
  BY RecencyInit
<1>2. RecencyInv /\ [Next]_vars => RecencyInv'
  <2> SUFFICES ASSUME RecencyInv, [Next]_vars PROVE RecencyInv'
    OBVIOUS
  <2>1. Types' /\ RepliesMatch'
    BY TypesNext, RepliesNext DEF RecencyInv
  <2>2. LookupsAreIdle' /\ ClocksInv' /\ RepliesAreRecent'
    BY LookupsNext, ClocksNext, RepliesAgeNext DEF RecencyInv
  <2>3. CopiesAreRecent'
    BY CopiesAgeOnTick, CopiesBetweenTicks DEF RecencyInv
  <2>4. QED
    BY <2>1, <2>2, <2>3 DEF RecencyInv
<1>3. QED
  BY <1>1, <1>2, PTL DEF Spec

\* How old what a source gives may be.
LEMMA SourcesAreRecent ==
    ASSUME RecencyInv, NEW r \in Requests, Source(r)
    PROVE  /\ SupersededFor(answer'[r]) <= Window
           /\ SupersededFor(answer'[r]) > Ttl => FromMemory(r) \/ FromRedisStale(r)
<1> USE DEF RecencyInv
<1>1. CASE FromPrimary(r)
  <2>1. /\ asked[r] \in DOMAIN primary /\ primary[asked[r]].age < Ttl
        /\ SupersededFor(answer'[r]) <= primary[asked[r]].age + 1
    BY <1>1 DEF FromPrimary, PrimaryHas, Live, CopiesAreRecent
  <2>2. primary[asked[r]] \in RedisEntry(Ttl)
    BY <2>1, CachedSecrets
  <2>3. primary[asked[r]].age \in 0..Ttl /\ SupersededFor(answer'[r]) \in Nat
    BY <1>1, <2>2, SupersededForIsTyped DEF FromPrimary, RedisEntry
  <2>4. QED
    BY <2>1, <2>3, Limits, WindowBounds
<1>2. CASE FromKong(r)
  <2>1. reply[r] \in Secret /\ SupersededFor(answer'[r]) <= replyAge[r]
    BY <1>2 DEF FromKong, RepliesMatch, RepliesAreRecent
  <2>2. replyAge[r] \in 0..1 /\ SupersededFor(answer'[r]) \in Nat
    BY <1>2, <2>1, SupersededForIsTyped DEF FromKong, Types, ActionTypes
  <2>3. QED
    BY <2>1, <2>2, Limits, WindowBounds
<1>3. CASE FromMemory(r)
  <2>1. /\ asked[r] \in DOMAIN staleCache /\ staleCache[asked[r]].age <= Tolerance
        /\ SupersededFor(answer'[r]) <= staleCache[asked[r]].age + 1
    BY <1>3 DEF FromMemory, StaleIsFresh, CopiesAreRecent
  <2>2. staleCache[asked[r]] \in StaleEntry
    BY <2>1, CachedSecrets
  <2>3. staleCache[asked[r]].age \in 0..(Tolerance + 1) /\ SupersededFor(answer'[r]) \in Nat
    BY <1>3, <2>2, SupersededForIsTyped DEF FromMemory, StaleEntry
  <2>4. QED
    BY <1>3, <2>1, <2>3, Limits, WindowBounds
<1>4. CASE FromRedisStale(r)
  <2>1. /\ asked[r] \in DOMAIN redisStale /\ HighAvailability
        /\ redisStale[asked[r]].age < RedisStaleTtl
        /\ SupersededFor(answer'[r]) <= redisStale[asked[r]].age + 1
    BY <1>4 DEF FromRedisStale, RedisStaleHas, Live, CopiesAreRecent
  <2>2. redisStale[asked[r]] \in RedisEntry(RedisStaleTtl)
    BY <2>1, CachedSecrets
  <2>3. redisStale[asked[r]].age \in 0..RedisStaleTtl /\ SupersededFor(answer'[r]) \in Nat
    BY <1>4, <2>2, SupersededForIsTyped DEF FromRedisStale, RedisEntry
  <2>4. QED
    BY <1>4, <2>1, <2>3, Limits, WindowBounds
<1>5. CASE FromMixUp(r)
  <2>1. PICK c \in Consumers : active[c] /\ answer'[r] = Current(c)
    BY <1>5 DEF FromMixUp
  <2>2. issued[c] \in 1..MaxVersion /\ ~Outdated(c, issued[c])
    BY <2>1 DEF Outdated, Types, KongTypes
  <2>3. SupersededFor(answer'[r]) = 0
    BY <2>1, <2>2 DEF ClocksInv, Current, SupersededFor
  <2>4. QED
    BY <2>3, Limits, WindowBounds
<1>6. QED
  BY <1>1, <1>2, <1>3, <1>4, <1>5 DEF Source

\* Unless the connection to Redis breaks between SET and EXPIRE, no secret is
\* given out when it was replaced longer ago than the longest-lived copy lives.
THEOREM GivenSecretsAreRecent ==
    ASSUME ~InterruptedWrites PROVE Spec => ServedSecretsAreRecent
<1> DEFINE Served == \A r \in Requests :
                       NewlyGiven(r) => SupersededFor(answer'[r]) <= Window
<1>1. RecencyInv /\ [Next]_vars => [Served]_vars
  <2> SUFFICES ASSUME RecencyInv, [Next]_vars, NEW r \in Requests, NewlyGiven(r)
               PROVE  SupersededFor(answer'[r]) <= Window
    OBVIOUS
  <2>1. Source(r)
    BY AnswersHaveSources DEF RecencyInv, NewlyGiven
  <2>2. QED
    BY <2>1, SourcesAreRecent
<1>2. QED
  BY <1>1, RecencyInvariant, PTL DEF Spec, ServedSecretsAreRecent

\* Unless writes are interrupted, a rotation takes effect once the primary copy
\* has expired: only a fallback gives out what was replaced longer ago.
THEOREM RotationsTakeEffect ==
    ASSUME ~InterruptedWrites PROVE Spec => RotationTakesEffect
<1> DEFINE Rotated == \A r \in Requests :
                        NewlyGiven(r) /\ SupersededFor(answer'[r]) > Ttl
                          => breaker' = "open" \/ call[r] = "fallback"
<1>1. RecencyInv /\ [Next]_vars => [Rotated]_vars
  <2> SUFFICES ASSUME RecencyInv, [Next]_vars, NEW r \in Requests, NewlyGiven(r),
                      SupersededFor(answer'[r]) > Ttl
               PROVE  breaker' = "open" \/ call[r] = "fallback"
    OBVIOUS
  <2>1. Source(r)
    BY AnswersHaveSources DEF RecencyInv, NewlyGiven
  <2>2. FromMemory(r) \/ FromRedisStale(r)
    BY <2>1, SourcesAreRecent
  <2>3. QED
    BY <2>2 DEF FromMemory, FromRedisStale
<1>2. QED
  BY <1>1, RecencyInvariant, PTL DEF Spec, RotationTakesEffect

(***************************************************************************)
(* What callers of getConsumerSecret may rely on                           *)
(***************************************************************************)

IsIssued(s) == s.version <= issued[s.owner]

\* What is copied or replied has been issued.
OnlyIssued ==
    /\ \A r \in Requests : action[r] = "storing" => IsIssued(reply[r])
    /\ \A c \in DOMAIN primary : IsIssued(primary[c].secret)
    /\ \A c \in DOMAIN redisStale : IsIssued(redisStale[c].secret)
    /\ \A c \in DOMAIN staleCache : IsIssued(staleCache[c].secret)

\* What has been issued stays issued.
LEMMA IssuedStaysIssued ==
    ASSUME Types, [Next]_vars, NEW s \in Secret, IsIssued(s)
    PROVE  IsIssued(s)'
<1>0. s.owner \in Consumers /\ s.version \in 1..MaxVersion
  BY DEF Secret
<1>1. CASE issued' = issued
  BY <1>1 DEF IsIssued
<1>2. ASSUME NEW c \in Consumers, Issue(c)
      PROVE  IsIssued(s)'
  <2>1. issued[s.owner] \in Nat /\ issued' = [issued EXCEPT ![c] = @ + 1]
    BY <1>0, <1>2, Limits DEF Issue, Types, KongTypes
  <2>2. issued'[s.owner] \in {issued[s.owner], issued[s.owner] + 1}
    BY <1>0, <2>1 DEF Types, KongTypes
  <2>3. s.version <= issued[s.owner] /\ s.version \in Nat
    BY <1>0, Limits DEF IsIssued
  <2>4. s.version <= issued'[s.owner]
    BY <2>1, <2>2, <2>3
  <2>5. QED
    BY <2>4 DEF IsIssued
<1>3. QED
  BY <1>1, <1>2
     DEF Next, Resume, Ask, Hit, MissAndFire, MissAndReject, RedisStaleHit,
         RedisStaleMiss, KongFinds, KongFindsNothing, KongMixesUp, KongFails, Stored,
         Timeout, Deliver, ResetTimer, CleanupExpiredStaleEntries,
         CleanupUnusedBreakers, KongChanges, Revoke, Tick, kongVars, vars

\* A reply that is being stored was so before, or is Kong's answer of this step.
LEMMA RepliesStep ==
    ASSUME Types, [Next]_vars, NEW r \in Requests, action'[r] = "storing"
    PROVE  \/ action[r] = "storing" /\ reply'[r] = reply[r]
           \/ active[asked[r]] /\ reply'[r] = Current(asked[r]) /\ issued' = issued
<1>1. CASE UNCHANGED <<action, reply>>
  BY <1>1
<1>2. ASSUME NEW q \in Requests, MissAndFire(q)
      PROVE  action[r] = "storing" /\ reply'[r] = reply[r]
  BY <1>2 DEF MissAndFire, Types, ActionTypes
<1>3. ASSUME NEW q \in Requests, KongFinds(q)
      PROVE  \/ action[r] = "storing" /\ reply'[r] = reply[r]
             \/ active[asked[r]] /\ reply'[r] = Current(asked[r]) /\ issued' = issued
  BY <1>3 DEF KongFinds, kongVars, Types, ActionTypes
<1>4. ASSUME NEW q \in Requests, ActionEnds(q)
      PROVE  action[r] = "storing" /\ reply'[r] = reply[r]
  BY <1>4 DEF ActionEnds, Types, ActionTypes
<1>5. QED
  BY <1>1, <1>2, <1>3, <1>4
     DEF Next, Resume, Ask, Hit, MissAndReject, RedisStaleHit, RedisStaleMiss,
         KongFindsNothing, KongMixesUp, KongFails, Stored, Timeout, Deliver,
         ResetTimer, CleanupExpiredStaleEntries, CleanupUnusedBreakers, KongChanges,
         Issue, Revoke, Tick, actionVars, vars

\* No step makes up a secret.
LEMMA OnlyIssuedNext ==
    ASSUME Types, RepliesMatch, OnlyIssued, [Next]_vars
    PROVE  OnlyIssued'
<1>1. ASSUME NEW s \in Secret, IsIssued(s)
      PROVE  s.version <= issued'[s.owner]
  BY <1>1, IssuedStaysIssued DEF IsIssued
<1>2. ASSUME NEW r \in Requests, action'[r] = "storing"
      PROVE  reply'[r].version <= issued'[reply'[r].owner]
  <2>1. CASE action[r] = "storing" /\ reply'[r] = reply[r]
    BY <1>1, <2>1 DEF RepliesMatch, OnlyIssued
  <2>2. CASE active[asked[r]] /\ reply'[r] = Current(asked[r]) /\ issued' = issued
    <3>1. reply'[r].owner = asked[r] /\ reply'[r].version = issued[asked[r]]
      BY <2>2 DEF Current
    <3>2. issued[asked[r]] \in 1..MaxVersion
      BY DEF Types, KongTypes, CallTypes
    <3>3. QED
      BY <2>2, <3>1, <3>2, Limits
  <2>3. QED
    BY <1>2, <2>1, <2>2, RepliesStep
<1>3. ASSUME NEW d, NEW e, FreshCopy(d, e)
      PROVE  e.secret.version <= issued'[e.secret.owner]
  <2>1. PICK r \in Requests : action[r] = "storing" /\ e.secret = reply[r]
    BY <1>3 DEF FreshCopy
  <2>2. reply[r] \in Secret /\ IsIssued(reply[r])
    BY <2>1 DEF RepliesMatch, OnlyIssued
  <2>3. QED
    BY <1>1, <2>1, <2>2
<1>4. /\ \A c \in DOMAIN primary :
           primary[c].secret.version <= issued'[primary[c].secret.owner]
      /\ \A c \in DOMAIN redisStale :
           redisStale[c].secret.version <= issued'[redisStale[c].secret.owner]
      /\ \A c \in DOMAIN staleCache :
           staleCache[c].secret.version <= issued'[staleCache[c].secret.owner]
  BY <1>1, CachedSecrets DEF OnlyIssued
<1>5. /\ \A c \in DOMAIN primary' :
           primary'[c].secret.version <= issued'[primary'[c].secret.owner]
      /\ \A c \in DOMAIN redisStale' :
           redisStale'[c].secret.version <= issued'[redisStale'[c].secret.owner]
      /\ \A c \in DOMAIN staleCache' :
           staleCache'[c].secret.version <= issued'[staleCache'[c].secret.owner]
  <2>1. CASE Tick
    BY <1>4, <2>1, TickKeepsSecrets
  <2>2. CASE ~Tick
    <3>1. CachesGrowByReplies
      BY <2>2, CachesStep
    <3>2. QED
      BY <1>3, <1>4, <3>1 DEF CachesGrowByReplies, Kept, FreshRedisCopy
  <2>3. QED
    BY <2>1, <2>2
<1>6. QED
  BY <1>2, <1>5 DEF OnlyIssued, IsIssued

\* In every behaviour, also when writes are cut off, nothing is cached or on its
\* way from Kong that was not issued.
THEOREM NothingIsMadeUp == Spec => []OnlyIssued
<1>1. Init => OnlyIssued
  BY DEF Init, NoEntries, OnlyIssued
<1>2. (Types /\ RepliesMatch) /\ OnlyIssued /\ [Next]_vars => OnlyIssued'
  BY OnlyIssuedNext
<1>3. QED
  BY <1>1, <1>2, TypesInvariant, PTL DEF Spec

\* An answer from a source is one the service may give.
LEMMA SourcesAreOfTheService ==
    ASSUME RecencyInv, OwnersInv, OnlyIssued, breaker # "disabled",
           NEW r \in Requests, Source(r)
    PROVE  /\ answer'[r] \in Secret /\ answer'[r].owner = asked[r]
           /\ IsIssued(answer'[r])
           /\ SupersededFor(answer'[r]) <= Window
<1>0. Types /\ RepliesMatch /\ CachesMatch
  BY DEF OwnersInv
<1>1. CASE FromPrimary(r)
  BY <1>0, <1>1, CachedSecrets, SourcesAreRecent
     DEF FromPrimary, PrimaryHas, Live, CachesMatch, OnlyIssued
<1>2. CASE FromKong(r)
  BY <1>0, <1>2, SourcesAreRecent DEF FromKong, RepliesMatch, OnlyIssued
<1>3. CASE FromMemory(r)
  BY <1>0, <1>3, CachedSecrets, SourcesAreRecent
     DEF FromMemory, StaleIsFresh, CachesMatch, OnlyIssued
<1>4. CASE FromRedisStale(r)
  BY <1>0, <1>4, CachedSecrets, SourcesAreRecent
     DEF FromRedisStale, RedisStaleHas, Live, CachesMatch, OnlyIssued
<1>5. QED
  BY <1>1, <1>2, <1>3, <1>4 DEF Source, FromMixUp

\* What a step of an asked request does to it: it is answered, waits for
\* something else, or nothing.
LEMMA StepOfARequest ==
    ASSUME Types, NEW r \in Requests, Resume(r), ~Deliver(r)
    PROVE  /\ UNCHANGED <<issued, active, supersededFor>>
           /\ \/ UNCHANGED callVars
              \/ /\ call[r] \in {"lookup", "fired", "fallback"}
                 /\ \/ \E s : Answers(r, s)
                    \/ \E where \in {"fired", "fallback"} : Awaits(r, where)
<1>1. UNCHANGED <<issued, active, supersededFor>>
  BY DEF Resume, Hit, MissAndFire, MissAndReject, RedisStaleHit, RedisStaleMiss,
         KongFinds, KongFindsNothing, KongMixesUp, KongFails, Stored, Timeout, kongVars
<1>2. AnswerFromMemory(r) => \E s : Answers(r, s)
  BY DEF AnswerFromMemory
<1>3. CatchFailure(r) => \/ \E s : Answers(r, s)
                         \/ \E where \in {"fired", "fallback"} : Awaits(r, where)
  BY <1>2 DEF CatchFailure, FallBack
<1>4. QED
  BY <1>1, <1>2, <1>3
     DEF Resume, Hit, MissAndFire, MissAndReject, Misses, RedisStaleHit, RedisStaleMiss,
         KongFinds, KongFindsNothing, KongMixesUp, KongFails, Stored, Timeout, Settles

\* Answering is giving a secret from a source, or none.
LEMMA AnswerOfTheService ==
    ASSUME RecencyInv, OwnersInv, OnlyIssued, breaker # "disabled", [Next]_vars,
           NEW r \in Requests, NEW s,
           call[r] \in {"lookup", "fired", "fallback"}, Answers(r, s),
           UNCHANGED <<issued, active, supersededFor>>
    PROVE  Service!Next
<1>0. Types /\ RepliesMatch
  BY DEF OwnersInv
<1>1. /\ call' = [call EXCEPT ![r] = "answered"]
      /\ answer' = [answer EXCEPT ![r] = s]
      /\ asked' = asked /\ answer'[r] = s
  BY <1>0, AnswersIsTheAnswer DEF Answers
<1>2. Service!Goes(r, "asked", "answered")
  BY <1>0, <1>1 DEF Service!Goes, Types, CallTypes
<1>3. CASE s = NoSecret
  <2>1. Service!Deny(r)
    BY <1>1, <1>2, <1>3 DEF Service!Deny, Service!secretVars
  <2>2. QED
    BY <2>1 DEF Service!Next
<1>4. CASE s # NoSecret
  <2>1. Given(r)' /\ ~Given(r)
    BY <1>0, <1>1, <1>4 DEF Given, Types, CallTypes
  <2>2. Source(r)
    BY <1>0, <2>1, AnswersHaveSources
  <2>3. /\ s \in Secret /\ s.owner = asked[r] /\ IsIssued(s)
        /\ SupersededFor(s) <= Window
    BY <1>1, <2>2, SourcesAreOfTheService
  <2>4. s = [owner |-> asked[r], version |-> s.version] /\ s.version \in 1..MaxVersion
    BY <2>3 DEF Secret
  <2>5. s.version \in 1..issued[asked[r]]
    BY <1>0, <2>3, <2>4, Limits DEF IsIssued, Types, KongTypes, CallTypes
  <2>6. supersededFor[asked[r]][s.version] <= Window
    BY <2>3 DEF SupersededFor
  <2>7. answer' = [answer EXCEPT ![r] = [owner |-> asked[r], version |-> s.version]]
    BY <1>1, <2>4
  <2>8. Service!Give(r, s.version)
    BY <1>1, <1>2, <2>5, <2>6, <2>7 DEF Service!Give, Service!secretVars
  <2>9. QED
    BY <2>4, <2>8 DEF Service!Next
<1>5. QED
  BY <1>3, <1>4

\* A tick of the caches is one of the service: both count from the same moment.
LEMMA TickOfTheService ==
    ASSUME Types, Tick
    PROVE  Service!Tick
<1>1. UNCHANGED <<issued, active, callVars>>
  BY DEF Tick
<1>2. ASSUME NEW c \in Consumers, NEW v \in 1..MaxVersion
      PROVE  /\ Outdated(c, v) <=> Service!Replaced(c, v)
             /\ UpTo(Window + 1, supersededFor[c][v]) = Service!OneMore(supersededFor[c][v])
  <2>1. /\ issued[c] \in Nat /\ v \in Nat /\ Window \in Nat
        /\ supersededFor[c][v] \in 0..(Window + 1)
    BY Limits, WindowBounds DEF Types, KongTypes
  <2>2. Outdated(c, v) <=> Service!Replaced(c, v)
    BY <2>1 DEF Outdated, Service!Replaced
  <2>3. UpTo(Window + 1, supersededFor[c][v]) = Service!OneMore(supersededFor[c][v])
    BY <2>1 DEF UpTo, Service!OneMore
  <2>4. QED
    BY <2>2, <2>3
<1>3. supersededFor' =
        [c \in Consumers |-> [v \in 1..MaxVersion |->
           IF Service!Replaced(c, v) THEN Service!OneMore(supersededFor[c][v])
                                     ELSE supersededFor[c][v]]]
  BY <1>2 DEF Tick
<1>4. QED
  BY <1>1, <1>3 DEF Service!Tick, Service!requestVars, callVars

\* Every step of the adapter, its breaker and its caches is one of the service,
\* or concerns nobody outside.
LEMMA StepOfTheService ==
    ASSUME RecencyInv, OwnersInv, OnlyIssued, breaker # "disabled", [Next]_vars
    PROVE  [Service!Next]_(Service!vars)
<1>0. Types
  BY DEF OwnersInv
<1> USE DEF Service!vars, Service!secretVars, Service!requestVars
<1>1. CASE UNCHANGED <<issued, active, supersededFor, callVars>>
  BY <1>1 DEF callVars
<1>2. ASSUME NEW r \in Requests, NEW c \in Consumers, Ask(r, c)
      PROVE  Service!Next
  <2>1. Service!Ask(r, c)
    BY <1>0, <1>2 DEF Ask, Service!Ask, Service!Goes, kongVars, Types, CallTypes
  <2>2. QED
    BY <2>1 DEF Service!Next
<1>3. ASSUME NEW r \in Requests, Deliver(r)
      PROVE  Service!Next
  <2>1. Service!Deliver(r)
    BY <1>0, <1>3 DEF Deliver, Service!Deliver, Service!Goes, kongVars, Types, CallTypes
  <2>2. QED
    BY <2>1 DEF Service!Next
<1>4. ASSUME NEW r \in Requests, Resume(r), ~Deliver(r)
      PROVE  [Service!Next]_(Service!vars)
  <2>1. UNCHANGED <<issued, active, supersededFor>>
    BY <1>0, <1>4, StepOfARequest
  <2>2. CASE UNCHANGED callVars
    BY <1>1, <2>1, <2>2
  <2>3. ASSUME NEW s, call[r] \in {"lookup", "fired", "fallback"}, Answers(r, s)
        PROVE  Service!Next
    BY <2>1, <2>3, AnswerOfTheService
  <2>4. ASSUME NEW where \in {"fired", "fallback"},
               call[r] \in {"lookup", "fired", "fallback"}, Awaits(r, where)
        PROVE  UNCHANGED Service!vars
    BY <1>0, <2>1, <2>4 DEF Awaits, Types, CallTypes
  <2>5. QED
    BY <1>0, <1>4, <2>2, <2>3, <2>4, StepOfARequest
<1>5. ASSUME NEW c \in Consumers, Issue(c) \/ Revoke(c)
      PROVE  Service!Next
  <2>1. Service!Issue(c) \/ Service!Revoke(c)
    BY <1>5 DEF Issue, Revoke, Service!Issue, Service!Revoke, callVars
  <2>2. QED
    BY <2>1 DEF Service!Next
<1>6. CASE Tick
  BY <1>0, <1>6, TickOfTheService DEF Service!Next
<1>7. CASE \/ ResetTimer \/ CleanupExpiredStaleEntries \/ CleanupUnusedBreakers
           \/ KongChanges \/ UNCHANGED vars
  BY <1>1, <1>7 DEF ResetTimer, CleanupExpiredStaleEntries, CleanupUnusedBreakers,
                    KongChanges, kongVars, vars
<1>8. QED
  BY <1>2, <1>3, <1>4, <1>5, <1>6, <1>7 DEF Next

\* Unless a write is cut off or the breaker is disabled, whatever the caches, the
\* breaker and its fallbacks do, what callers see is the abstract service.
THEOREM ServiceIsImplemented ==
    ASSUME ~InterruptedWrites, "disabled" \notin InitialBreakers
    PROVE  Spec => ImplementsSecretService
<1>1. Init => Service!Init
  BY DEF Init, Service!Init
<1>2. RecencyInv /\ OwnersInv /\ OnlyIssued /\ breaker # "disabled" /\ [Next]_vars
        => [Service!Next]_(Service!vars)
  BY StepOfTheService
<1>3. Init => breaker # "disabled"
  BY DEF Init
<1>4. OwnersInv /\ breaker # "disabled" /\ [Next]_vars => (breaker # "disabled")'
  BY DisabledForGood DEF OwnersInv
<1>5. QED
  BY <1>1, <1>2, <1>3, <1>4, RecencyInvariant, OwnersInvariant, NothingIsMadeUp, PTL
     DEF Spec, ImplementsSecretService, Service!Spec
=============================================================================
