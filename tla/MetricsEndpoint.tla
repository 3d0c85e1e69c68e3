---------------------------- MODULE MetricsEndpoint ----------------------------
(***************************************************************************)
(* GET /metrics and the statistics it remembers.                           *)
(*                                                                         *)
(*   src/handlers/metrics.ts                   handleMetricsUnified, memo  *)
(*   src/services/cache/shared-redis-cache.ts  getStats                    *)
(*   src/services/circuit-breaker.service.ts   getStats, breaker cleanup   *)
(*                                                                         *)
(* Counting the entries of the cache takes many Redis round trips, so the  *)
(* result is remembered for a while and concurrent scrapes share one       *)
(* collection.  The statistics of the Kong breakers are remembered too,    *)
(* until a breaker is made or changes its state.  A collection may take    *)
(* any time, or never end: its commands have no timeout.  A failure of     *)
(* Redis is turned into zeros, which are remembered like a count.          *)
(***************************************************************************)
EXTENDS Naturals

CONSTANTS
    Scrapes,            \* concurrent requests
    BreakerNames,       \* operations with a Kong breaker
    StatsTTL,           \* CACHE_STATS_TTL_MS
    BreakerStatsTTL     \* statsCacheTtlMs

VARIABLES
    memo,               \* cacheStatsMemo.value: since stored, and what it says
    collecting,         \* number of collections under way (inflight)
    scrape,             \* [Scrapes -> "idle", "waits" or what it was handed]
    lastEnded,          \* history: the last end of a collection, and its result
    kongBreakers,       \* [BreakerNames -> "none" or a state]
    removedFor,         \* history: ticks since the breaker was removed
    cachedStats,        \* cachedStats: since stored, and what it says
    view                \* the last answer, and the world it was given in

metricsVars == <<memo, collecting, scrape, lastEnded, kongBreakers, removedFor,
                 cachedStats, view>>

\* What getStats counted, the zeros it makes of an error of Redis, or no
\* cache to ask.
Results == {"counted", "zeros", "threw"}

NoStats == [since |-> BreakerStatsTTL, said |-> [b \in BreakerNames |-> "none"]]
NoView == [told |-> "zeros", ended |-> [since |-> 0, result |-> "zeros"], said |-> NoStats.said,
           truth |-> NoStats.said, removed |-> [b \in BreakerNames |-> 0]]
BreakerStates == {"closed", "open", "half-open"}

\* A scrape that got no statistics answers with zeros of its own.
Fallback(result) == IF result = "threw" THEN "zeros" ELSE result

MetricsInit ==
    /\ memo = [since |-> StatsTTL, says |-> "zeros"]
    /\ collecting = 0
    /\ scrape = [s \in Scrapes |-> "idle"]
    /\ lastEnded = [since |-> StatsTTL, result |-> "zeros"]
    /\ kongBreakers = [b \in BreakerNames |-> "none"]
    /\ removedFor = [b \in BreakerNames |-> BreakerStatsTTL]
    /\ cachedStats = NoStats
    /\ view = NoView

(***************************************************************************)
(* KongCircuitBreakerService: its breakers and their statistics            *)
(***************************************************************************)

\* getOrCreateBreaker; a breaker in use is not made again.
CreateBreaker(b) ==
    /\ kongBreakers[b] = "none"
    /\ kongBreakers' = [kongBreakers EXCEPT ![b] = "closed"]
    /\ cachedStats' = NoStats
    /\ UNCHANGED <<memo, collecting, scrape, lastEnded, removedFor, view>>

\* The handlers of the open, halfOpen and close events.
BreakerChanges(b, to) ==
    /\ kongBreakers[b] \notin {"none", to}
    /\ kongBreakers' = [kongBreakers EXCEPT ![b] = to]
    /\ cachedStats' = NoStats
    /\ UNCHANGED <<memo, collecting, scrape, lastEnded, removedFor, view>>

\* cleanupUnusedBreakers leaves the remembered statistics alone.
CleanupUnusedBreaker(b) ==
    /\ kongBreakers[b] # "none"
    /\ kongBreakers' = [kongBreakers EXCEPT ![b] = "none"]
    /\ removedFor' = [removedFor EXCEPT ![b] = 0]
    /\ UNCHANGED <<memo, collecting, scrape, lastEnded, cachedStats, view>>

\* Mutant: the time of the last answer is taken for that of the statistics.
GetStatsProlonged ==
    cachedStats' = IF cachedStats.since < BreakerStatsTTL
                   THEN [cachedStats EXCEPT !.since = 0]
                   ELSE [since |-> 0, said |-> kongBreakers]

GetStats ==
    cachedStats' = IF cachedStats.since < BreakerStatsTTL
                   THEN cachedStats
                   ELSE [since |-> 0, said |-> kongBreakers]

(***************************************************************************)
(* handleMetricsUnified, for the views with operational data               *)
(***************************************************************************)
Answer(result) ==
    /\ GetStats
    /\ view' = [told |-> Fallback(result), ended |-> lastEnded, said |-> cachedStats'.said,
                truth |-> kongBreakers, removed |-> removedFor]
    /\ UNCHANGED <<kongBreakers, removedFor>>

\* getCachedCacheStats
ScrapeArrives(s) ==
    /\ scrape[s] = "idle"
    /\ IF memo.since < StatsTTL
       THEN /\ Answer(memo.says)
            /\ UNCHANGED <<memo, collecting, scrape, lastEnded>>
       ELSE /\ scrape' = [scrape EXCEPT ![s] = "waits"]
            /\ collecting' = IF collecting = 0 THEN 1 ELSE collecting
            /\ UNCHANGED <<memo, lastEnded, kongBreakers, removedFor, cachedStats, view>>

\* Those a collection let go on do so before anything else happens.
Settled == \A s \in Scrapes : scrape[s] \notin Results

\* The zeros of a Redis that failed are remembered; an error is not.
CollectionEnds(result) ==
    /\ collecting > 0 /\ Settled
    /\ collecting' = collecting - 1
    /\ memo' = IF result = "threw" THEN memo ELSE [since |-> 0, says |-> result]
    /\ lastEnded' = [since |-> 0, result |-> result]
    /\ scrape' = [s \in Scrapes |-> IF scrape[s] = "waits" THEN result ELSE scrape[s]]
    /\ UNCHANGED <<kongBreakers, removedFor, cachedStats, view>>

ScrapeAnswered(s) ==
    /\ scrape[s] \in Results
    /\ Answer(scrape[s])
    /\ scrape' = [scrape EXCEPT ![s] = "idle"]
    /\ UNCHANGED <<memo, collecting, lastEnded>>

UpTo(n, limit) == IF n < limit THEN n + 1 ELSE limit

MetricsTick ==
    /\ Settled
    /\ memo' = [memo EXCEPT !.since = UpTo(@, StatsTTL)]
    /\ lastEnded' = [lastEnded EXCEPT !.since = UpTo(@, StatsTTL)]
    /\ cachedStats' = [cachedStats EXCEPT !.since = UpTo(@, BreakerStatsTTL)]
    /\ removedFor' = [b \in BreakerNames |-> UpTo(removedFor[b], BreakerStatsTTL)]
    /\ UNCHANGED <<collecting, scrape, kongBreakers, view>>

MetricsNext ==
    \/ \E s \in Scrapes : ScrapeArrives(s) \/ ScrapeAnswered(s)
    \/ \E result \in Results : CollectionEnds(result)
    \/ \E b \in BreakerNames :
           \/ CreateBreaker(b) \/ CleanupUnusedBreaker(b)
           \/ \E to \in BreakerStates : BreakerChanges(b, to)
    \/ MetricsTick

(***************************************************************************)
(* Properties                                                              *)
(***************************************************************************)

\* Types and bounds; there is one collection at a time, and whoever waits,
\* waits for a collection under way.
MetricsTypeOK ==
    /\ memo \in [since : 0..StatsTTL, says : Results \ {"threw"}]
    /\ collecting \in 0..1
    /\ scrape \in [Scrapes -> {"idle", "waits"} \cup Results]
    /\ lastEnded \in [since : 0..StatsTTL, result : Results]
    /\ kongBreakers \in [BreakerNames -> BreakerStates \cup {"none"}]
    /\ cachedStats.since \in 0..BreakerStatsTTL
    /\ \A s \in Scrapes : scrape[s] = "waits" => collecting > 0

\* What a scrape is told of the cache is the result of the last collection to
\* end, which did so less than the lifetime of the memo ago, however long it
\* took: zeros that stand for a failure are not told after a later count,
\* nor a count after a later failure.  Every breaker is shown in the state
\* it is in, or was removed less than the lifetime of the remembered
\* statistics ago.
StatisticsAreCurrent ==
    /\ view.told = Fallback(view.ended.result)
    /\ view.ended.since < StatsTTL
    /\ \A b \in BreakerNames :
           \/ view.said[b] = view.truth[b]
           \/ view.truth[b] = "none" /\ view.removed[b] < BreakerStatsTTL
=============================================================================
