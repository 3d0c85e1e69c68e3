------------------------ MODULE ServiceComponentsProofs ------------------------
(***************************************************************************)
(* Theorems about the composition of the components, for any number of     *)
(* concurrent requests, users, probes and clients and for all lifetimes,   *)
(* skews and limits.  Each invariant is one of its component; that the     *)
(* other components leave its variables alone carries it over.             *)
(***************************************************************************)
EXTENDS MCServiceComponents, RedisProofs, CredentialCreationProofs, TelemetryProofs,
    SequenceTheorems, Sequences, TLAPS

(***************************************************************************)
(* The health endpoints                                                    *)
(***************************************************************************)

Results == {"healthy", "unhealthy"}
CheckAges == 0..CacheTTL
CheckStages ==
    {[stage |-> "idle"], [stage |-> "readying"]}
        \cup [stage : {"pinging"}, age : CheckAges]
        \cup [stage : {"asking"}, cache : Results, age : CheckAges]
        \cup [stage : {"checked"}, cache : Results]

\* A result of the check is what Redis does now, unless that changed after
\* the check began.
HoldsSince(cache, age) ==
    redisBackend => cache = (IF redisAnswers THEN "healthy" ELSE "unhealthy") \/ redisFor <= age

\* Both the checks under way and the result they leave behind are no older
\* than they say.
HealthInv ==
    /\ redisFor \in CheckAges /\ lastCheckAge \in CheckAges
    /\ lastHealthCheck \in Results \cup {"none"}
    /\ probe \in [Probes -> CheckStages]
    /\ \A p \in Probes : probe[p].stage = "asking" => HoldsSince(probe[p].cache, probe[p].age)
    /\ lastHealthCheck # "none" => HoldsSince(lastHealthCheck, lastCheckAge)

\* No check has been made yet.
LEMMA HealthInvInit == Health!Init => HealthInv
BY EndpointsAssumption DEF Health!Init, Health!Idle, HealthInv, CheckAges, CheckStages

\* An age goes up by one until it is as old as matters.
LEMMA OlderIsMonotone ==
    ASSUME NEW a \in CheckAges, NEW b \in CheckAges
    PROVE  /\ Health!Older(a) \in CheckAges
           /\ a <= b => Health!Older(a) <= Health!Older(b)
<1>1. CacheTTL \in Nat
  BY EndpointsAssumption
<1>2. QED
  BY <1>1 DEF Health!Older, CheckAges

\* The probes' own steps, the changes of Redis and the clock keep the
\* invariant of the health checks.
LEMMA HealthInvNext == HealthInv /\ [Health!Next]_healthState => HealthInv'
<1> SUFFICES ASSUME HealthInv, [Health!Next]_healthState PROVE HealthInv'
  OBVIOUS
<1> USE DEF Health!environment, Health!Stage, Health!Reply, Health!Idle
<1>z. 0 \in CheckAges
  BY EndpointsAssumption DEF CheckAges
<1>t. \A p \in Probes : probe[p] \in CheckStages
  BY DEF HealthInv
<1>1. ASSUME NEW p \in Probes, Health!HandleHealthCheck(p)
      PROVE  HealthInv'
  BY <1>1, <1>z DEF Health!HandleHealthCheck, HealthInv, HoldsSince, CheckStages, Results
<1>2. ASSUME NEW p \in Probes, NEW cache \in Results, Health!PingAnswered(p, cache)
      PROVE  HealthInv'
  BY <1>2, <1>z DEF Health!PingAnswered, Health!Observed, HealthInv, HoldsSince, CheckStages,
                    Results, CheckAges
<1>3. ASSUME NEW p \in Probes, Health!CheckEnds(p)
      PROVE  HealthInv'
  BY <1>3, <1>t DEF Health!CheckEnds, HealthInv, HoldsSince, CheckStages
<1>4. ASSUME NEW p \in Probes,
             \/ \E gateway, exporter \in BOOLEAN : Health!HealthAnswered(p, gateway, exporter)
             \/ Health!HealthFails(p)
             \/ Health!HandleReadinessCheck(p)
             \/ \E gateway \in BOOLEAN : Health!ReadinessAnswered(p, gateway)
      PROVE  HealthInv'
  BY <1>4 DEF Health!HealthAnswered, Health!HealthFails, Health!HandleReadinessCheck,
              Health!ReadinessAnswered, HealthInv, HoldsSince, CheckStages
<1>5. CASE Health!RedisChanges
  BY <1>5, <1>z, <1>t DEF Health!RedisChanges, HealthInv, HoldsSince, CheckAges, CheckStages
<1>6. CASE Health!LeaveReady
  BY <1>6 DEF Health!LeaveReady, HealthInv, HoldsSince
<1>7. CASE Health!Tick
  BY <1>7, <1>t, OlderIsMonotone DEF Health!Tick, HealthInv, HoldsSince, CheckStages
<1>8. CASE UNCHANGED healthState
  BY <1>8 DEF healthState, HealthInv, HoldsSince
<1>9. QED
  BY <1>1, <1>2, <1>3, <1>4, <1>5, <1>6, <1>7, <1>8 DEF Health!Next, Results

\* The others leave the health checks alone.
LEMMA HealthSteps == [Next]_vars => [Health!Next]_healthState
BY DEF Next, Only, vars

\* For any probes and every lifetime of a result: the result that is used
\* again was true of Redis less than CACHE_TTL_MS ago, whichever check stored
\* it, in whatever order overlapping checks ended.
THEOREM HealthIsRecent == Spec => []HealthResultIsRecent
<1>1. Init => HealthInv
  BY HealthInvInit DEF Init
<1>2. HealthInv /\ [Next]_vars => HealthInv'
  BY HealthInvNext, HealthSteps
<1>3. HealthInv => HealthResultIsRecent
  BY EndpointsAssumption
     DEF HealthInv, HoldsSince, HealthResultIsRecent, Health!HealthResultIsRecent, CheckAges
<1>4. QED
  BY <1>1, <1>2, <1>3, PTL DEF Spec

(***************************************************************************)
(* GET /metrics                                                            *)
(***************************************************************************)

\* The remembered statistics show every breaker as it is, except one that
\* was removed after they were collected.
BreakersShown ==
    cachedStats.since < BreakerStatsTTL =>
        \A b \in BreakerNames :
            \/ cachedStats.said[b] = kongBreakers[b]
            \/ kongBreakers[b] = "none" /\ removedFor[b] <= cachedStats.since

\* What is remembered is the result of the last collection to end, as long as
\* it is remembered: none is under way then.  A scrape that was handed a
\* result was handed it by the collection that ended just now.
MetricsInv ==
    /\ memo \in [since : 0..StatsTTL, says : Metrics!Results \ {"threw"}]
    /\ lastEnded \in [since : 0..StatsTTL, result : Metrics!Results]
    /\ memo.since < StatsTTL =>
           memo = [since |-> lastEnded.since, says |-> lastEnded.result] /\ collecting = 0
    /\ collecting \in 0..1
    /\ scrape \in [Scrapes -> {"idle", "waits"} \cup Metrics!Results]
    /\ \A s \in Scrapes :
           /\ scrape[s] = "waits" => collecting = 1
           /\ scrape[s] \in Metrics!Results =>
                  lastEnded = [since |-> 0, result |-> scrape[s]]
    /\ kongBreakers \in [BreakerNames -> Metrics!BreakerStates \cup {"none"}]
    /\ removedFor \in [BreakerNames -> 0..BreakerStatsTTL]
    /\ cachedStats \in [since : 0..BreakerStatsTTL,
                        said : [BreakerNames -> Metrics!BreakerStates \cup {"none"}]]
    /\ BreakersShown
    /\ StatisticsAreCurrent

\* Nothing is remembered, and no scrape has been answered.
LEMMA MetricsInvInit == Metrics!MetricsInit => MetricsInv
BY EndpointsAssumption
   DEF Metrics!MetricsInit, Metrics!NoStats, Metrics!NoView, Metrics!Results, Metrics!Fallback,
       MetricsInv, BreakersShown, StatisticsAreCurrent, Metrics!StatisticsAreCurrent

\* An answer with the result of the last collection and the statistics of
\* the breakers, remembered or collected now, is a current one.
LEMMA AnswerIsCurrent ==
    ASSUME MetricsInv, Metrics!Answer(lastEnded.result), lastEnded.since < StatsTTL
    PROVE  /\ StatisticsAreCurrent' /\ BreakersShown'
           /\ cachedStats' \in [since : 0..BreakerStatsTTL,
                               said : [BreakerNames -> Metrics!BreakerStates \cup {"none"}]]
<1> USE EndpointsAssumption
    DEF MetricsInv, BreakersShown, StatisticsAreCurrent, Metrics!StatisticsAreCurrent,
        Metrics!Answer, Metrics!GetStats
<1>1. CASE cachedStats.since < BreakerStatsTTL
  BY <1>1
<1>2. CASE ~(cachedStats.since < BreakerStatsTTL)
  BY <1>2
<1>3. QED
  BY <1>1, <1>2

\* Scrapes, collections, the breakers' own changes, their removal and the
\* clock keep the invariant of the statistics.
LEMMA MetricsInvNext == MetricsInv /\ [Metrics!MetricsNext]_metricsState => MetricsInv'
<1> SUFFICES ASSUME MetricsInv, [Metrics!MetricsNext]_metricsState PROVE MetricsInv'
  OBVIOUS
<1> USE EndpointsAssumption
<1>a. UNCHANGED view => StatisticsAreCurrent'
  BY DEF MetricsInv, StatisticsAreCurrent, Metrics!StatisticsAreCurrent
<1>b. UNCHANGED <<cachedStats, kongBreakers, removedFor>> => BreakersShown'
  BY DEF MetricsInv, BreakersShown
<1>1. ASSUME NEW s \in Scrapes, Metrics!ScrapeArrives(s)
      PROVE  MetricsInv'
  <2>1. CASE memo.since < StatsTTL
    <3>1. Metrics!Answer(memo.says) /\ UNCHANGED <<memo, collecting, scrape, lastEnded>>
      BY <1>1, <2>1 DEF Metrics!ScrapeArrives
    <3>2. memo.says = lastEnded.result /\ lastEnded.since < StatsTTL
      BY <2>1 DEF MetricsInv
    <3>3. QED
      BY <3>1, <3>2, AnswerIsCurrent DEF MetricsInv, Metrics!Answer
  <2>2. CASE ~(memo.since < StatsTTL)
    <3>1. /\ UNCHANGED <<memo, lastEnded, kongBreakers, removedFor, cachedStats, view>>
          /\ scrape' = [scrape EXCEPT ![s] = "waits"]
          /\ collecting' = 1
      BY <1>1, <2>2 DEF Metrics!ScrapeArrives, MetricsInv
    <3>2. QED
      BY <2>2, <3>1, <1>a, <1>b DEF MetricsInv, Metrics!Results
  <2>3. QED
    BY <2>1, <2>2
<1>2. ASSUME NEW s \in Scrapes, Metrics!ScrapeAnswered(s)
      PROVE  MetricsInv'
  <2>1. /\ Metrics!Answer(scrape[s]) /\ UNCHANGED <<memo, collecting, lastEnded>>
        /\ scrape[s] \in Metrics!Results /\ scrape' = [scrape EXCEPT ![s] = "idle"]
    BY <1>2 DEF Metrics!ScrapeAnswered
  <2>2. scrape[s] = lastEnded.result /\ lastEnded.since < StatsTTL
    BY <2>1 DEF MetricsInv
  <2>3. QED
    BY <2>1, <2>2, AnswerIsCurrent DEF MetricsInv, Metrics!Answer, Metrics!Results
<1>3. ASSUME NEW result \in Metrics!Results, Metrics!CollectionEnds(result)
      PROVE  MetricsInv'
  <2>1. /\ collecting = 1 /\ collecting' = 0
        /\ lastEnded' = [since |-> 0, result |-> result]
        /\ \A s \in Scrapes : scrape[s] \in {"idle", "waits"}
    BY <1>3 DEF Metrics!CollectionEnds, Metrics!Settled, MetricsInv
  <2>2. /\ memo' \in [since : 0..StatsTTL, says : Metrics!Results \ {"threw"}]
        /\ memo'.since < StatsTTL => memo' = [since |-> 0, says |-> result]
    BY <1>3, <2>1 DEF Metrics!CollectionEnds, MetricsInv
  <2>3. /\ scrape' \in [Scrapes -> {"idle"} \cup Metrics!Results]
        /\ \A s \in Scrapes : scrape'[s] \in {"idle", result}
    BY <1>3, <2>1 DEF Metrics!CollectionEnds, MetricsInv
  <2>4. /\ kongBreakers' \in [BreakerNames -> Metrics!BreakerStates \cup {"none"}]
        /\ removedFor' \in [BreakerNames -> 0..BreakerStatsTTL]
        /\ cachedStats' \in [since : 0..BreakerStatsTTL,
                             said : [BreakerNames -> Metrics!BreakerStates \cup {"none"}]]
        /\ BreakersShown' /\ StatisticsAreCurrent'
    BY <1>3, <1>a, <1>b DEF Metrics!CollectionEnds, MetricsInv
  <2>5. QED
    BY <2>1, <2>2, <2>3, <2>4 DEF MetricsInv, Metrics!Results
<1>4. ASSUME NEW b \in BreakerNames, NEW to \in Metrics!BreakerStates,
             Metrics!CreateBreaker(b) \/ Metrics!BreakerChanges(b, to)
      PROVE  MetricsInv'
  <2>1. /\ UNCHANGED <<memo, collecting, scrape, lastEnded, removedFor, view>>
        /\ cachedStats' = Metrics!NoStats
        /\ kongBreakers' = [kongBreakers EXCEPT ![b] = "closed"]
              \/ kongBreakers' = [kongBreakers EXCEPT ![b] = to]
    BY <1>4 DEF Metrics!CreateBreaker, Metrics!BreakerChanges
  <2>2. kongBreakers' \in [BreakerNames -> Metrics!BreakerStates \cup {"none"}]
    BY <2>1 DEF MetricsInv, Metrics!BreakerStates
  <2>3. /\ BreakersShown'
        /\ cachedStats' \in [since : 0..BreakerStatsTTL,
                            said : [BreakerNames -> Metrics!BreakerStates \cup {"none"}]]
    BY <2>1 DEF BreakersShown, Metrics!NoStats
  <2>4. QED
    BY <2>1, <2>2, <2>3, <1>a DEF MetricsInv
<1>5. ASSUME NEW b \in BreakerNames, Metrics!CleanupUnusedBreaker(b)
      PROVE  MetricsInv'
  BY <1>5, <1>a DEF Metrics!CleanupUnusedBreaker, MetricsInv, BreakersShown
<1>6. CASE Metrics!MetricsTick
  BY <1>6, <1>a DEF Metrics!MetricsTick, Metrics!Settled, Metrics!UpTo, MetricsInv, BreakersShown
<1>7. CASE UNCHANGED metricsState
  BY <1>7, <1>a, <1>b DEF metricsState, MetricsInv
<1>8. QED
  BY <1>1, <1>2, <1>3, <1>4, <1>5, <1>6, <1>7 DEF Metrics!MetricsNext, Metrics!BreakerStates

\* The others leave the statistics alone.
LEMMA MetricsSteps == [Next]_vars => [Metrics!MetricsNext]_metricsState
BY DEF Next, Only, vars

\* For any scrapes, breakers and lifetimes, however long a collection takes:
\* every answer tells the result of the last one to end, which did so within
\* the lifetime of the memo, and shows every breaker as it is, unless it was
\* removed a moment ago.
THEOREM ScrapesAreCurrent == Spec => []StatisticsAreCurrent
<1>1. Init => MetricsInv
  BY MetricsInvInit DEF Init
<1>2. MetricsInv /\ [Next]_vars => MetricsInv'
  BY MetricsInvNext, MetricsSteps
<1>3. MetricsInv => StatisticsAreCurrent
  BY DEF MetricsInv
<1>4. QED
  BY <1>1, <1>2, <1>3, PTL DEF Spec

(***************************************************************************)
(* GET /tokens and GET /tokens/validate                                    *)
(***************************************************************************)

IssuedTokens ==
    [kind : {"token"}, owner : Consumers, secret : Nat, made : Nat, nbf : Nat, exp : Nat]
Calls ==
    [kind : {"issue", "validate"}, consumer : Consumers, replica : Replicas,
     token : IssuedTokens \cup Tokens!Junk, secret : Nat]

\* A token was made in the past by a clock that was ahead by at most the skew.
MadeByOurClocks(token) ==
    token.kind = "token" =>
        /\ token \in IssuedTokens
        /\ token.made <= time
        /\ token.made <= token.nbf /\ token.nbf <= token.made + Skew
        /\ token.exp = token.nbf + Lifetime

\* Every token in use was made so; then the last verdict, which is given at
\* the time it is looked at, is true up to the skew.
TokensInv ==
    /\ time \in Nat
    /\ ahead \in [Replicas -> 0..Skew]
    /\ secret \in [Consumers -> Nat]
    /\ lastToken \in IssuedTokens \cup Tokens!Junk /\ MadeByOurClocks(lastToken)
    /\ tokenCall \in Calls \cup {Tokens!NoCall}
    /\ tokenCall # Tokens!NoCall => MadeByOurClocks(tokenCall.token)
    /\ VerdictMatchesToken

\* No token has been made and nothing was asked.
LEMMA TokensInvInit == Tokens!Init => TokensInv
BY EndpointsAssumption
   DEF Tokens!Init, Tokens!NoToken, Tokens!NoCall, Tokens!Junk, TokensInv, Calls,
       MadeByOurClocks, VerdictMatchesToken, Tokens!VerdictMatchesToken, Tokens!Judged

\* Without an answer there is no verdict to be wrong.
LEMMA NoAnswerNoVerdict ==
    ASSUME Tokens!NoAnswer
    PROVE  VerdictMatchesToken'
BY DEF Tokens!NoAnswer, Tokens!NoCall, VerdictMatchesToken, Tokens!VerdictMatchesToken,
       Tokens!Judged

\* A refusal for another reason than the token says nothing of the token, and
\* what none of our secrets signed is rightly called invalid.
LEMMA RefusalIsNoVerdict ==
    ASSUME NEW call, NEW code, Tokens!Answered(call, Tokens!ErrorResponse(code)),
           code # "OK" /\ code # "AUTH_010",
           code # "AUTH_011" \/ call.token.kind # "token"
    PROVE  VerdictMatchesToken'
<1>1. tokenAnswer'.response.code = code /\ tokenAnswer'.token = call.token
  BY DEF Tokens!Answered, Tokens!ErrorResponse
<1>2. tokenAnswer'.response # Tokens!OK
  BY <1>1 DEF Tokens!OK
<1>3. code = "AUTH_011" => ~Tokens!Genuine'
  BY <1>1 DEF Tokens!Genuine, Tokens!SignedWith
<1>4. QED
  BY <1>1, <1>2, <1>3 DEF VerdictMatchesToken, Tokens!VerdictMatchesToken

\* The verdict on a token that is validated is true up to the skew.
LEMMA VerdictIsTrue ==
    ASSUME TokensInv, Tokens!ValidateToken
    PROVE  VerdictMatchesToken'
<1> DEFINE token == tokenCall.token
           now == Tokens!Now(tokenCall.replica)
           verdict == Tokens!Verdict(tokenCall)
           signed == Tokens!SignedWith(token, tokenCall)
<1>1. tokenCall \in Calls
  BY DEF TokensInv, Tokens!ValidateToken, Tokens!NoCall
<1>2. now \in Nat /\ time \in Nat /\ time <= now /\ now <= time + Skew
  <2>1. ahead[tokenCall.replica] \in 0..Skew /\ time \in Nat
    BY <1>1 DEF TokensInv, Calls
  <2>2. QED
    BY <2>1, EndpointsAssumption DEF Tokens!Now
<1>3. signed => MadeByOurClocks(token) /\ token.kind = "token"
  BY <1>1 DEF TokensInv, Tokens!SignedWith, Tokens!ValidateToken, Tokens!NoCall
<1>4. signed => token \in IssuedTokens /\ token.made \in Nat /\ token.nbf \in Nat /\ token.exp \in Nat
  BY <1>3 DEF MadeByOurClocks, IssuedTokens
<1>5. /\ verdict = "OK" => signed /\ token.exp >= now
      /\ verdict = "AUTH_010" => signed /\ token.exp < now
      /\ verdict = "AUTH_011" /\ signed => token.nbf > now
      /\ verdict \in {"OK", "AUTH_010", "AUTH_011"}
  BY <1>2, <1>4 DEF Tokens!Verdict, Tokens!Expired
<1>6. /\ tokenAnswer'.token = token /\ tokenAnswer'.consumer = tokenCall.consumer
      /\ tokenAnswer'.secret = tokenCall.secret
      /\ tokenAnswer'.response = IF verdict = "OK" THEN Tokens!OK
                                ELSE Tokens!ErrorResponse(verdict)
      /\ time' = time
  BY DEF Tokens!ValidateToken, Tokens!Answered
<1>7. /\ tokenAnswer'.response.code = verdict
      /\ tokenAnswer'.response = Tokens!OK => verdict = "OK"
  BY <1>6 DEF Tokens!OK, Tokens!ErrorResponse
<1>8. (Tokens!Genuine' <=> signed) /\ Tokens!Age' = time - token.made
  BY <1>6 DEF Tokens!Genuine, Tokens!SignedWith, Tokens!Age
<1> HIDE DEF verdict, now, signed, token
<1>9. /\ verdict = "OK" => signed /\ time - token.made <= Lifetime + Skew
      /\ verdict = "AUTH_010" => signed /\ time - token.made > Lifetime - Skew
      /\ signed /\ time - token.made \in Skew..(Lifetime - Skew) =>
             verdict \notin {"AUTH_010", "AUTH_011"}
  BY <1>2, <1>3, <1>4, <1>5, EndpointsAssumption DEF MadeByOurClocks
<1>10. QED
  BY <1>7, <1>8, <1>9 DEF VerdictMatchesToken, Tokens!VerdictMatchesToken

\* A handler that answers at once, or asks for the secret.
LEMMA HandlersKeepTokens ==
    ASSUME TokensInv, NEW headers \in Tokens!Headers, NEW r \in Replicas,
           NEW token \in Tokens!Junk \cup {lastToken},
           \/ Tokens!HandleTokenRequest(headers, r)
           \/ Tokens!HandleTokenValidation(headers, r, token)
    PROVE  TokensInv'
<1> DEFINE asks(kind, t) == [kind |-> kind, consumer |-> headers, replica |-> r, token |-> t,
                             secret |-> 0]
<1>1. UNCHANGED <<time, ahead, secret, lastToken>>
  BY DEF Tokens!HandleTokenRequest, Tokens!HandleTokenValidation
<1>2. token \in IssuedTokens \cup Tokens!Junk /\ MadeByOurClocks(token)
  BY DEF TokensInv, Tokens!Junk, MadeByOurClocks
<1>3. Tokens!NoToken \in Tokens!Junk /\ MadeByOurClocks(Tokens!NoToken)
  BY DEF Tokens!NoToken, Tokens!Junk, MadeByOurClocks
<1>4. ASSUME NEW kind \in {"issue", "validate"},
             NEW t \in IssuedTokens \cup Tokens!Junk, MadeByOurClocks(t),
             headers \in Consumers, Tokens!Await(asks(kind, t))
      PROVE  TokensInv'
  <2>1. tokenCall' \in Calls /\ tokenCall'.token = t
    BY <1>4 DEF Tokens!Await, Calls
  <2>2. VerdictMatchesToken'
    BY <1>4, NoAnswerNoVerdict DEF Tokens!Await
  <2>3. QED
    BY <1>1, <1>4, <2>1, <2>2 DEF TokensInv, MadeByOurClocks
<1>5. ASSUME NEW call, NEW response, Tokens!Answered(call, response), VerdictMatchesToken'
      PROVE  TokensInv'
  BY <1>1, <1>5 DEF Tokens!Answered, TokensInv, MadeByOurClocks
<1>6. headers \notin Consumers =>
          Tokens!HeaderError(headers) \notin {"OK", "AUTH_010", "AUTH_011"}
  BY DEF Tokens!Headers, Tokens!HeaderError
<1>7. CASE Tokens!HandleTokenRequest(headers, r)
  <2>1. CASE headers \in Consumers
    <3>1. Tokens!Await(asks("issue", Tokens!NoToken))
      BY <1>7, <2>1 DEF Tokens!HandleTokenRequest
    <3>2. QED
      BY <2>1, <3>1, <1>3, <1>4
  <2>2. CASE headers \notin Consumers
    <3>1. Tokens!Answered(asks("issue", Tokens!NoToken),
                          Tokens!ErrorResponse(Tokens!HeaderError(headers)))
      BY <1>7, <2>2 DEF Tokens!HandleTokenRequest
    <3>2. QED
      BY <2>2, <3>1, <1>5, <1>6, RefusalIsNoVerdict
  <2>3. QED
    BY <2>1, <2>2
<1>8. CASE Tokens!HandleTokenValidation(headers, r, token)
  <2> DEFINE call == asks("validate", token)
  <2>1. CASE token.kind = "none"
    <3>1. Tokens!Answered(call, Tokens!ErrorResponse("AUTH_012"))
      BY <1>8, <2>1 DEF Tokens!HandleTokenValidation
    <3>2. QED
      BY <3>1, <1>5, RefusalIsNoVerdict
  <2>2. CASE token.kind = "empty"
    <3>1. Tokens!Answered(call, Tokens!ErrorResponse("AUTH_011")) /\ call.token.kind # "token"
      BY <1>8, <2>2 DEF Tokens!HandleTokenValidation
    <3>2. QED
      BY <3>1, <1>5, RefusalIsNoVerdict
  <2>3. CASE token.kind \notin {"none", "empty"} /\ headers \notin Consumers
    <3>1. Tokens!Answered(call, Tokens!ErrorResponse(Tokens!HeaderError(headers)))
      BY <1>8, <2>3 DEF Tokens!HandleTokenValidation
    <3>2. QED
      BY <2>3, <3>1, <1>5, <1>6, RefusalIsNoVerdict
  <2>4. CASE token.kind \notin {"none", "empty"} /\ headers \in Consumers
    <3>1. Tokens!Await(call)
      BY <1>8, <2>4 DEF Tokens!HandleTokenValidation
    <3>2. QED
      BY <2>4, <3>1, <1>2, <1>4
  <2>5. QED
    BY <2>1, <2>2, <2>3, <2>4
<1>9. QED
  BY <1>7, <1>8

\* The call in progress is answered without a verdict on its token.
LEMMA FailuresKeepTokens ==
    ASSUME TokensInv, Tokens!NoSecret \/ Tokens!LookupFails \/ Tokens!HandlerThrows
    PROVE  TokensInv'
<1>1. PICK code \in {"AUTH_002", "AUTH_004", "AUTH_008"} :
          Tokens!Answered(tokenCall, Tokens!ErrorResponse(code))
  BY DEF Tokens!NoSecret, Tokens!LookupFails, Tokens!HandlerThrows
<1>2. VerdictMatchesToken'
  BY <1>1, RefusalIsNoVerdict
<1>3. UNCHANGED <<time, ahead, secret, lastToken>>
  BY DEF Tokens!NoSecret, Tokens!LookupFails, Tokens!HandlerThrows
<1>4. QED
  BY <1>1, <1>2, <1>3 DEF Tokens!Answered, TokensInv, MadeByOurClocks

\* A token that is issued is dated by the clock of its replica.
LEMMA IssuingKeepsTokens ==
    ASSUME TokensInv, Tokens!IssueToken
    PROVE  TokensInv'
<1>1. tokenCall \in Calls /\ tokenCall.kind = "issue"
  BY DEF TokensInv, Tokens!IssueToken, Tokens!NoCall
<1>2. /\ UNCHANGED <<time, ahead, secret>>
      /\ lastToken' = Tokens!CreateToken(tokenCall)
      /\ tokenCall' = Tokens!NoCall /\ tokenAnswer'.kind = "issue"
  BY <1>1 DEF Tokens!IssueToken, Tokens!Answered
<1>3. /\ Tokens!Now(tokenCall.replica) \in Nat /\ time \in Nat
      /\ time <= Tokens!Now(tokenCall.replica) /\ Tokens!Now(tokenCall.replica) <= time + Skew
      /\ Tokens!Now(tokenCall.replica) + Lifetime \in Nat
  <2>1. ahead[tokenCall.replica] \in 0..Skew /\ time \in Nat
    BY <1>1 DEF TokensInv, Calls
  <2>2. QED
    BY <2>1, EndpointsAssumption DEF Tokens!Now
<1>4. lastToken' \in IssuedTokens /\ MadeByOurClocks(lastToken)'
  BY <1>1, <1>2, <1>3 DEF Tokens!CreateToken, IssuedTokens, Calls, MadeByOurClocks
<1>5. VerdictMatchesToken'
  BY <1>2 DEF VerdictMatchesToken, Tokens!VerdictMatchesToken, Tokens!Judged
<1>6. QED
  BY <1>2, <1>4, <1>5 DEF TokensInv, MadeByOurClocks

\* Requests, lookups, rotations, adjusted clocks and time keep the invariant
\* of the tokens.
LEMMA TokensInvNext == TokensInv /\ [Tokens!Next]_tokensState => TokensInv'
<1> SUFFICES ASSUME TokensInv, [Tokens!Next]_tokensState PROVE TokensInv'
  OBVIOUS
<1>1. ASSUME NEW headers \in Tokens!Headers, NEW r \in Replicas,
             \/ Tokens!HandleTokenRequest(headers, r)
             \/ \E token \in Tokens!Junk \cup {lastToken} :
                    Tokens!HandleTokenValidation(headers, r, token)
      PROVE  TokensInv'
  <2>1. Tokens!NoToken \in Tokens!Junk
    BY DEF Tokens!NoToken, Tokens!Junk
  <2>2. QED
    BY <1>1, <2>1, HandlersKeepTokens
<1>2. CASE Tokens!SecretFound
  <2>1. tokenCall \in Calls /\ secret[tokenCall.consumer] \in Nat
    BY <1>2 DEF Tokens!SecretFound, TokensInv, Calls
  <2>2. /\ tokenCall' = [tokenCall EXCEPT !.secret = secret[tokenCall.consumer]]
        /\ UNCHANGED <<time, ahead, secret, lastToken>>
        /\ VerdictMatchesToken'
    BY <1>2, NoAnswerNoVerdict DEF Tokens!SecretFound, Tokens!Await
  <2>3. tokenCall' \in Calls /\ tokenCall'.token = tokenCall.token
    BY <2>1, <2>2 DEF Calls
  <2>4. QED
    BY <1>2, <2>2, <2>3 DEF Tokens!SecretFound, TokensInv, MadeByOurClocks
<1>3. CASE Tokens!NoSecret \/ Tokens!LookupFails \/ Tokens!HandlerThrows
  BY <1>3, FailuresKeepTokens
<1>4. CASE Tokens!IssueToken
  BY <1>4, IssuingKeepsTokens
<1>5. CASE Tokens!ValidateToken
  <2>1. VerdictMatchesToken'
    BY <1>5, VerdictIsTrue
  <2>2. QED
    BY <1>5, <2>1 DEF Tokens!ValidateToken, Tokens!Answered, TokensInv, MadeByOurClocks
<1>6. ASSUME NEW c \in Consumers, NEW version \in 0..MaxSecret, Tokens!RotateSecret(c, version)
      PROVE  TokensInv'
  BY <1>6, NoAnswerNoVerdict DEF Tokens!RotateSecret, TokensInv, MadeByOurClocks
<1>7. ASSUME NEW r \in Replicas, NEW by \in 0..Skew, Tokens!AdjustClock(r, by)
      PROVE  TokensInv'
  BY <1>7, NoAnswerNoVerdict DEF Tokens!AdjustClock, TokensInv, MadeByOurClocks
<1>8. CASE Tokens!Tick
  <2>1. time' = time + 1 /\ time \in Nat /\ time' \in Nat /\ time <= time'
    BY <1>8 DEF Tokens!Tick, TokensInv
  <2>2. /\ UNCHANGED <<ahead, secret, lastToken, tokenCall>>
        /\ VerdictMatchesToken'
    BY <1>8, NoAnswerNoVerdict DEF Tokens!Tick
  <2>3. MadeByOurClocks(lastToken)'
    BY <2>1, <2>2 DEF TokensInv, MadeByOurClocks, IssuedTokens
  <2>4. tokenCall # Tokens!NoCall => MadeByOurClocks(tokenCall.token)'
    BY <2>1, <2>2 DEF TokensInv, MadeByOurClocks, IssuedTokens
  <2>5. QED
    BY <2>1, <2>2, <2>3, <2>4 DEF TokensInv
<1>9. CASE UNCHANGED tokensState
  BY <1>9 DEF tokensState, TokensInv, MadeByOurClocks, VerdictMatchesToken,
              Tokens!VerdictMatchesToken, Tokens!Judged, Tokens!Genuine, Tokens!Age
<1>10. QED
  BY <1>1, <1>2, <1>3, <1>4, <1>5, <1>6, <1>7, <1>8, <1>9 DEF Tokens!Next

\* The others leave the tokens alone.
LEMMA TokensSteps == [Next]_vars => [Tokens!Next]_tokensState
BY DEF Next, Only, vars

\* For any consumers, replicas, lifetime and skew, and with secrets and clocks
\* moving at any time: a token is accepted only while it may be, called
\* expired only when it is, and never refused in the time all clocks agree on.
THEOREM VerdictsAreTrue == Spec => []VerdictMatchesToken
<1>1. Init => TokensInv
  BY TokensInvInit DEF Init
<1>2. TokensInv /\ [Next]_vars => TokensInv'
  BY TokensInvNext, TokensSteps
<1>3. TokensInv => VerdictMatchesToken
  BY DEF TokensInv
<1>4. QED
  BY <1>1, <1>2, <1>3, PTL DEF Spec

(***************************************************************************)
(* The cache manager                                                       *)
(***************************************************************************)

Runs == [phase : {"creating", "connecting", "fallingBack", "done", "failed"},
         strategy : Manager!Strategies, made : Nat]
Positions ==
    [pc : {"idle", "owns", "waits", "using", "shutsDown", "awaitsFactory", "makes"}
              \cup Manager!Strategies,
     on : Nat]

ManagerTypes ==
    /\ strategy \in Manager!Strategies
    /\ {managerMade, factoryPromise, shutDown} \subseteq BOOLEAN
    /\ made \in {0, 1}
    /\ initializations \in Seq(Runs)
    /\ backends \in Seq(Manager!Strategies)
    /\ backend \in Nat /\ promise \in Nat
    /\ user \in [Users -> Positions]

\* The factory makes a manager only when it has made none, and it has made
\* one as soon as its promise is pending.
FactoryInv ==
    /\ made = 0 <=> ~factoryPromise /\ ~managerMade
    /\ \A u \in Users : user[u].pc = "makes" => made = 1

\* Nothing is initialized before the factory asks for it; its run makes the
\* first backend and leaves the manager with one, so that no other is started.
FirstRun ==
    /\ initializations[1].phase \in {"creating", "connecting", "fallingBack", "done"}
    /\ connected \subseteq {1}
    /\ initializations[1].phase = "creating" => backends = <<>>
    /\ initializations[1].phase = "connecting" => initializations[1].made = 1
    /\ initializations[1].phase # "creating" => backend # 0

OneRunInv ==
    ~shutDown =>
        /\ \A u \in Users : user[u].pc \notin {"shutsDown"} \cup Manager!Strategies
        /\ \A u \in Users : user[u].pc = "makes" => user[u].on = 1
        /\ Len(initializations) = made
        /\ made = 0 => backends = <<>> /\ connected = {}
        /\ made = 1 => FirstRun
        /\ managerMade => initializations[1].phase = "done"

ManagerInv == ManagerTypes /\ FactoryInv /\ OneRunInv

\* There is neither a manager nor a backend yet.
LEMMA ManagerInvInit == Manager!ManagerInit => ManagerInv
<1> SUFFICES ASSUME Manager!ManagerInit PROVE ManagerInv
  OBVIOUS
<1> USE DEF Manager!ManagerInit, Manager!Idle, Manager!At
<1>1. ManagerTypes
  <2>1. <<>> \in Seq(Runs) /\ <<>> \in Seq(Manager!Strategies)
    OBVIOUS
  <2>2. [pc |-> "idle", on |-> 0] \in Positions
    BY DEF Positions
  <2>3. QED
    BY <2>1, <2>2 DEF ManagerTypes
<1>2. FactoryInv /\ OneRunInv
  BY DEF FactoryInv, OneRunInv, Manager!Strategies
<1>3. QED
  BY <1>1, <1>2 DEF ManagerInv

\* Starting a run appends it and has its user wait for it.
LEMMA StartingARun ==
    ASSUME ManagerTypes, NEW u \in Users, NEW pc \in {"owns", "makes"},
           Manager!StartInitialize(u, pc), strategy' \in Manager!Strategies
    PROVE  /\ initializations' \in Seq(Runs)
           /\ Len(initializations') = Len(initializations) + 1
           /\ promise' = Len(initializations) + 1
           /\ initializations'[Len(initializations) + 1].phase = "creating"
           /\ user' = [user EXCEPT ![u] = [pc |-> pc, on |-> Len(initializations) + 1]]
           /\ user' \in [Users -> Positions]
<1> DEFINE run == [phase |-> "creating", strategy |-> strategy', made |-> 0]
<1>1. run \in Runs
  BY DEF Runs
<1>2. initializations' = Append(initializations, run) /\ initializations \in Seq(Runs)
  BY DEF Manager!StartInitialize, ManagerTypes
<1>3. run.phase = "creating"
  OBVIOUS
<1> HIDE DEF run
<1>4. /\ initializations' \in Seq(Runs)
      /\ Len(initializations') = Len(initializations) + 1 /\ Len(initializations) \in Nat
      /\ initializations'[Len(initializations) + 1] = run
  BY <1>1, <1>2
<1>5. /\ user' = [user EXCEPT ![u] = [pc |-> pc, on |-> Len(initializations) + 1]]
      /\ promise' = Len(initializations) + 1
  BY <1>4 DEF Manager!StartInitialize, Manager!At
<1>6. [pc |-> pc, on |-> Len(initializations) + 1] \in Positions
  BY <1>4 DEF Positions
<1>7. QED
  BY <1>3, <1>4, <1>5, <1>6 DEF ManagerTypes

\* A user goes on to something else: neither the factory nor a run moves.
LEMMA UserMoves ==
    ASSUME ManagerInv, NEW u \in Users, NEW position \in Positions,
           position.pc \notin {"shutsDown", "makes"} \cup Manager!Strategies,
           user' = [user EXCEPT ![u] = position],
           strategy' \in Manager!Strategies,
           promise' \in Nat,
           UNCHANGED <<managerMade, factoryPromise, made, backends, backend, connected,
                       initializations, shutDown>>
    PROVE  ManagerInv'
<1>1. ManagerTypes'
  BY DEF ManagerInv, ManagerTypes
<1>2. \A v \in Users : user'[v] = user[v] \/ user'[v] = position
  BY DEF ManagerInv, ManagerTypes
<1>3. FactoryInv' /\ OneRunInv'
  BY <1>2 DEF ManagerInv, FactoryInv, OneRunInv, FirstRun
<1>4. QED
  BY <1>1, <1>3 DEF ManagerInv

\* After a shutdown a run may start at any time.
LEMMA RestartsAfterShutdown ==
    ASSUME ManagerInv, shutDown, NEW u \in Users, Manager!StartInitialize(u, "owns"),
           strategy' \in Manager!Strategies, backend' \in Nat,
           UNCHANGED <<managerMade, factoryPromise, made, backends, shutDown>>
    PROVE  ManagerInv'
<1>1. ManagerTypes /\ Len(initializations) + 1 \in Nat
  BY DEF ManagerInv, ManagerTypes
<1>2. /\ initializations' \in Seq(Runs)
      /\ promise' = Len(initializations) + 1
      /\ user' = [user EXCEPT ![u] = [pc |-> "owns", on |-> Len(initializations) + 1]]
      /\ user' \in [Users -> Positions]
  BY <1>1, StartingARun
<1>3. \A v \in Users : user'[v] = user[v] \/ user'[v].pc # "makes"
  BY <1>1, <1>2 DEF ManagerTypes
<1>4. ManagerTypes'
  BY <1>1, <1>2 DEF ManagerTypes
<1>5. FactoryInv' /\ OneRunInv'
  BY <1>3 DEF ManagerInv, FactoryInv, OneRunInv
<1>6. QED
  BY <1>4, <1>5 DEF ManagerInv

\* The first of the concurrent users has the factory make the manager.
LEMMA CreatingKeepsOne ==
    ASSUME ManagerInv, NEW u \in Users, Manager!CreateKongCache(u)
    PROVE  ManagerInv'
<1>1. CASE factoryPromise
  <2>1. user' = [user EXCEPT ![u] = [pc |-> "awaitsFactory", on |-> 0]]
    BY <1>1 DEF Manager!CreateKongCache, Manager!At
  <2>2. UNCHANGED <<strategy, managerMade, factoryPromise, made, backends, backend, connected,
                    initializations, promise, shutDown>>
    BY <1>1 DEF Manager!CreateKongCache
  <2>3. [pc |-> "awaitsFactory", on |-> 0] \in Positions
    BY DEF Positions
  <2>4. QED
    BY <2>1, <2>2, <2>3, UserMoves DEF ManagerInv, ManagerTypes, Manager!Strategies
<1>2. CASE ~factoryPromise
  <2>1. /\ made = 0 /\ made' = 1 /\ factoryPromise' = TRUE /\ managerMade = FALSE
        /\ UNCHANGED <<strategy, managerMade, backends, backend, connected, shutDown>>
        /\ Manager!StartInitialize(u, "makes")
    BY <1>2 DEF Manager!CreateKongCache, Manager!InitializeCache, ManagerInv, FactoryInv,
                ManagerTypes
  <2>2. /\ initializations' \in Seq(Runs)
        /\ Len(initializations') = Len(initializations) + 1 /\ promise' \in Nat
        /\ initializations'[Len(initializations) + 1].phase = "creating"
        /\ user' = [user EXCEPT ![u] = [pc |-> "makes", on |-> Len(initializations) + 1]]
        /\ user' \in [Users -> Positions]
    <3>1. ManagerTypes /\ Len(initializations) + 1 \in Nat /\ strategy' \in Manager!Strategies
      BY <2>1 DEF ManagerInv, ManagerTypes
    <3>2. QED
      BY <2>1, <3>1, StartingARun
  <2>3. ManagerTypes' /\ FactoryInv'
    BY <2>1, <2>2 DEF ManagerInv, ManagerTypes, FactoryInv
  <2>4. \A v \in Users : user'[v] = user[v] \/
            user'[v] = [pc |-> "makes", on |-> Len(initializations) + 1]
    BY <2>2 DEF ManagerInv, ManagerTypes
  <2>5. OneRunInv'
    BY <2>1, <2>2, <2>4 DEF ManagerInv, OneRunInv, FirstRun, Manager!Strategies
  <2>6. QED
    BY <2>3, <2>5 DEF ManagerInv
<1>3. QED
  BY <1>1, <1>2

\* A run goes on: it makes a backend, connects it, or falls back to memory.
LEMMA RunsKeepOne ==
    ASSUME ManagerInv, NEW i \in DOMAIN initializations,
           \/ Manager!CreateBackend(i) \/ Manager!FallBackToMemory(i)
           \/ \E ok \in BOOLEAN : Manager!BackendConnects(i, ok)
    PROVE  ManagerInv'
<1> DEFINE run == initializations[i]
<1>0. /\ run \in Runs /\ i \in 1..Len(initializations) /\ Len(initializations) \in Nat
      /\ backends \in Seq(Manager!Strategies) /\ initializations \in Seq(Runs)
  BY DEF ManagerInv, ManagerTypes
<1>1. UNCHANGED <<strategy, managerMade, factoryPromise, made, promise, user, shutDown>>
  BY DEF Manager!CreateBackend, Manager!FallBackToMemory, Manager!BackendConnects,
         Manager!factoryVars
<1>2. ~shutDown => i = 1 /\ Len(initializations) = 1 /\ made = 1 /\ FirstRun
  BY <1>0 DEF ManagerInv, OneRunInv, ManagerTypes
<1>3. FactoryInv'
  BY <1>1 DEF ManagerInv, FactoryInv
<1>4. ASSUME NEW new \in Runs, initializations' = [initializations EXCEPT ![i] = new],
             ~shutDown => FirstRun', managerMade /\ ~shutDown => new.phase = "done"
      PROVE  OneRunInv'
  <2>1. Len(initializations') = Len(initializations)
    BY <1>0, <1>4
  <2>2. i = 1 => initializations'[1] = new
    BY <1>0, <1>4
  <2>3. QED
    BY <1>1, <1>2, <1>4, <2>1, <2>2 DEF ManagerInv, OneRunInv
<1>5. CASE Manager!CreateBackend(i)
  <2> DEFINE new == [run EXCEPT !.phase = "connecting", !.made = Len(backends')]
  <2>1. /\ run.phase = "creating" /\ UNCHANGED connected
        /\ backends' = Append(backends, run.strategy) /\ backend' = Len(backends')
        /\ initializations' = [initializations EXCEPT ![i] = new]
    BY <1>0, <1>5 DEF Manager!CreateBackend
  <2>2. run.strategy \in Manager!Strategies
    BY <1>0 DEF Runs
  <2>3. /\ backends' \in Seq(Manager!Strategies) /\ Len(backends') = Len(backends) + 1
        /\ Len(backends) \in Nat
    BY <1>0, <2>1, <2>2
  <2>4. new \in Runs /\ new.phase = "connecting" /\ new.made = Len(backends) + 1
    <3>1. Len(backends') \in Nat
      BY <2>3
    <3>2. new \in Runs /\ new.phase = "connecting" /\ new.made = Len(backends')
      BY <1>0, <3>1 DEF Runs
    <3>3. QED
      BY <2>3, <3>2
  <2> HIDE DEF new
  <2>5. initializations' \in Seq(Runs)
    BY <1>0, <2>1, <2>4
  <2>6. ManagerTypes'
    BY <1>1, <2>1, <2>3, <2>5 DEF ManagerInv, ManagerTypes
  <2>7. initializations'[i] = new
    BY <1>0, <2>1
  <2>8. ~shutDown => FirstRun' /\ ~managerMade
    <3> SUFFICES ASSUME ~shutDown PROVE FirstRun' /\ ~managerMade
      OBVIOUS
    <3>1. i = 1 /\ FirstRun /\ initializations[1].phase = "creating"
      BY <1>2, <2>1
    <3>2. backends = <<>> /\ Len(backends) = 0
      BY <3>1 DEF FirstRun
    <3>3. new.made = 1 /\ backend' = 1
      BY <2>1, <2>3, <2>4, <3>2
    <3>4. QED
      BY <2>1, <2>4, <2>7, <3>1, <3>3 DEF FirstRun, ManagerInv, OneRunInv
  <2>9. QED
    BY <1>3, <1>4, <2>1, <2>4, <2>6, <2>8 DEF ManagerInv
<1>6. CASE Manager!FallBackToMemory(i)
  <2> DEFINE new == [run EXCEPT !.phase = "done"]
  <2>1. /\ run.phase = "fallingBack" /\ UNCHANGED connected
        /\ backends' = Append(backends, "local-memory") /\ backend' = Len(backends')
        /\ initializations' = [initializations EXCEPT ![i] = new]
    BY <1>0, <1>6 DEF Manager!FallBackToMemory
  <2>2. "local-memory" \in Manager!Strategies
    BY DEF Manager!Strategies
  <2>3. /\ backends' \in Seq(Manager!Strategies) /\ Len(backends') = Len(backends) + 1
        /\ Len(backends) \in Nat
    BY <1>0, <2>1, <2>2
  <2>4. new \in Runs /\ new.phase = "done"
    BY <1>0 DEF Runs
  <2> HIDE DEF new
  <2>5. initializations' \in Seq(Runs)
    BY <1>0, <2>1, <2>4
  <2>6. ManagerTypes'
    BY <1>1, <2>1, <2>3, <2>5 DEF ManagerInv, ManagerTypes
  <2>7. initializations'[i] = new
    BY <1>0, <2>1
  <2>8. ~shutDown => FirstRun'
    BY <1>2, <2>1, <2>3, <2>4, <2>7 DEF FirstRun
  <2>9. QED
    BY <1>3, <1>4, <2>1, <2>4, <2>6, <2>8 DEF ManagerInv
<1>7. ASSUME NEW ok \in BOOLEAN, Manager!BackendConnects(i, ok)
      PROVE  ManagerInv'
  <2>1. PICK phase \in {"done", "fallingBack", "failed"} :
            /\ initializations' = [initializations EXCEPT ![i].phase = phase]
            /\ backend # 0 => phase # "failed"
    BY <1>7 DEF Manager!BackendConnects
  <2> DEFINE new == [run EXCEPT !.phase = phase]
  <2>2. /\ run.phase = "connecting" /\ UNCHANGED <<backends, backend>>
        /\ connected' \subseteq connected \cup {run.made}
        /\ initializations' = [initializations EXCEPT ![i] = new]
    BY <1>0, <1>7, <2>1 DEF Manager!BackendConnects
  <2>3. new \in Runs /\ new.phase = phase /\ new.made = run.made
    BY <1>0 DEF Runs
  <2> HIDE DEF new
  <2>4. initializations' \in Seq(Runs) /\ initializations'[i] = new
    BY <1>0, <2>2, <2>3
  <2>5. ManagerTypes'
    BY <1>1, <2>2, <2>4 DEF ManagerInv, ManagerTypes
  <2>6. ~shutDown => FirstRun' /\ ~managerMade
    <3> SUFFICES ASSUME ~shutDown PROVE FirstRun' /\ ~managerMade
      OBVIOUS
    <3>1. i = 1 /\ FirstRun /\ initializations[1].phase = "connecting"
      BY <1>2, <2>2
    <3>2. backend # 0 /\ run.made = 1
      BY <3>1 DEF FirstRun
    <3>3. QED
      BY <2>1, <2>2, <2>3, <2>4, <3>1, <3>2 DEF FirstRun, ManagerInv, OneRunInv
  <2>7. QED
    BY <1>3, <1>4, <2>2, <2>3, <2>5, <2>6 DEF ManagerInv
<1>8. QED
  BY <1>5, <1>6, <1>7

\* Before a shutdown a published manager has its backend, so that using it
\* starts nothing; afterwards a new run may start.
LEMMA UsingKeepsOne ==
    ASSUME ManagerInv, NEW u \in Users, Manager!Use(u)
    PROVE  ManagerInv'
<1>1. /\ strategy' = strategy /\ managerMade
      /\ UNCHANGED <<managerMade, factoryPromise, made, backends, backend, connected, shutDown>>
  BY DEF Manager!Use, Manager!factoryVars
<1>2. ~shutDown => backend # 0
  BY <1>1 DEF ManagerInv, OneRunInv, FirstRun, FactoryInv, ManagerTypes
<1>3. ASSUME NEW pc \in {"using", "waits"}, NEW on \in Nat,
             user' = [user EXCEPT ![u] = [pc |-> pc, on |-> on]],
             UNCHANGED <<initializations, promise>>
      PROVE  ManagerInv'
  <2>1. [pc |-> pc, on |-> on] \in Positions
    BY <1>3 DEF Positions
  <2>2. pc \notin {"shutsDown", "makes"} \cup Manager!Strategies
    BY <1>3 DEF Manager!Strategies
  <2>3. QED
    BY <1>1, <1>3, <2>1, <2>2, UserMoves DEF ManagerInv, ManagerTypes
<1>4. CASE backend # 0
  <2>1. user' = [user EXCEPT ![u] = [pc |-> "using", on |-> backend]]
           /\ UNCHANGED <<initializations, promise>>
    BY <1>4 DEF Manager!Use, Manager!EnsureInitialized, Manager!At
  <2>2. QED
    BY <2>1, <1>3 DEF ManagerInv, ManagerTypes
<1>5. CASE backend = 0 /\ promise # 0
  <2>1. user' = [user EXCEPT ![u] = [pc |-> "waits", on |-> promise]]
           /\ UNCHANGED <<initializations, promise>>
    BY <1>5 DEF Manager!Use, Manager!EnsureInitialized, Manager!At
  <2>2. promise \in Nat
    BY DEF ManagerInv, ManagerTypes
  <2>3. QED
    BY <2>1, <2>2, <1>3
<1>6. CASE backend = 0 /\ promise = 0
  <2>1. shutDown /\ Manager!StartInitialize(u, "owns")
    BY <1>2, <1>6 DEF Manager!Use, Manager!EnsureInitialized, ManagerInv, ManagerTypes
  <2>2. QED
    BY <1>1, <2>1, RestartsAfterShutdown DEF ManagerInv, ManagerTypes
<1>7. QED
  BY <1>4, <1>5, <1>6

\* The run a user waits for has settled; it uses the backend or gives up.
LEMMA SettlingKeepsOne ==
    ASSUME ManagerInv, NEW u \in Users, Manager!InitializationSettles(u)
    PROVE  ManagerInv'
<1>1. /\ UNCHANGED <<strategy, managerMade, factoryPromise, made, backends, backend, connected,
                      initializations, shutDown>>
      /\ \/ user' = [user EXCEPT ![u] = [pc |-> "idle", on |-> 0]]
         \/ user' = [user EXCEPT ![u] = [pc |-> "using", on |-> backend]]
      /\ promise' \in {0, promise}
  BY DEF Manager!InitializationSettles, Manager!factoryVars, Manager!Idle, Manager!At
<1>2. [pc |-> "idle", on |-> 0] \in Positions /\ [pc |-> "using", on |-> backend] \in Positions
  BY DEF Positions, ManagerInv, ManagerTypes
<1>3. {"idle", "using"} \cap ({"shutsDown", "makes"} \cup Manager!Strategies) = {}
  BY DEF Manager!Strategies
<1>4. QED
  BY <1>1, <1>2, <1>3, UserMoves DEF ManagerInv, ManagerTypes

\* The factory publishes the manager whose run is done.
LEMMA PublishingKeepsOne ==
    ASSUME ManagerInv, NEW u \in Users, Manager!ManagerPublished(u)
    PROVE  ManagerInv'
<1>1. /\ user[u].pc = "makes" /\ initializations[user[u].on].phase = "done"
      /\ managerMade' = TRUE /\ factoryPromise' = FALSE /\ promise' = 0
      /\ user' = [user EXCEPT ![u] = [pc |-> "idle", on |-> 0]]
      /\ UNCHANGED <<strategy, made, backends, backend, connected, initializations, shutDown>>
  BY DEF Manager!ManagerPublished, Manager!Idle, Manager!At
<1>2. made = 1
  BY <1>1 DEF ManagerInv, FactoryInv
<1>3. \A v \in Users : user'[v] = user[v] \/ user'[v].pc = "idle"
  BY <1>1 DEF ManagerInv, ManagerTypes
<1>4. [pc |-> "idle", on |-> 0] \in Positions
  BY DEF Positions
<1>5. ManagerTypes'
  BY <1>1, <1>4 DEF ManagerInv, ManagerTypes
<1>6. FactoryInv'
  BY <1>1, <1>2, <1>3 DEF ManagerInv, FactoryInv
<1>7. OneRunInv'
  BY <1>1, <1>2, <1>3 DEF ManagerInv, OneRunInv, FirstRun, Manager!Strategies
<1>8. QED
  BY <1>5, <1>6, <1>7 DEF ManagerInv

\* A shutdown begins, on its own or for a reconfiguration, and disconnects.
LEMMA ShutdownsKeepOne ==
    ASSUME ManagerInv, NEW u \in Users,
           \/ \E pc \in {"shutsDown"} \cup Manager!Strategies : Manager!StartShutdown(u, pc)
           \/ Manager!Disconnected(u)
    PROVE  ManagerInv'
<1>1. ASSUME NEW pc \in {"shutsDown"} \cup Manager!Strategies, Manager!StartShutdown(u, pc)
      PROVE  ManagerInv'
  <2>1. /\ shutDown' = TRUE /\ user' = [user EXCEPT ![u] = [pc |-> pc, on |-> backend]]
        /\ UNCHANGED <<strategy, managerMade, factoryPromise, made, backends, backend,
                       connected, initializations, promise>>
    BY <1>1 DEF Manager!StartShutdown, Manager!factoryVars, Manager!At
  <2>2. [pc |-> pc, on |-> backend] \in Positions /\ pc # "makes"
    BY <1>1 DEF Positions, ManagerInv, ManagerTypes, Manager!Strategies
  <2>3. \A v \in Users : user'[v] = user[v] \/ user'[v].pc # "makes"
    BY <2>1, <2>2 DEF ManagerInv, ManagerTypes
  <2>4. ManagerTypes'
    BY <2>1, <2>2 DEF ManagerInv, ManagerTypes
  <2>5. QED
    BY <2>1, <2>3, <2>4 DEF ManagerInv, FactoryInv, OneRunInv
<1>2. CASE Manager!Disconnected(u)
  <2>1. /\ backend' = 0 /\ UNCHANGED <<managerMade, factoryPromise, made, backends, shutDown>>
        /\ user[u].pc \in {"shutsDown"} \cup Manager!Strategies
    BY <1>2 DEF Manager!Disconnected, Manager!factoryVars
  <2>2. shutDown
    BY <2>1 DEF ManagerInv, OneRunInv, ManagerTypes
  <2>3. CASE user[u].pc = "shutsDown"
    <3>1. /\ user' = [user EXCEPT ![u] = [pc |-> "idle", on |-> 0]]
          /\ promise' = 0 /\ UNCHANGED <<strategy, initializations>>
      BY <1>2, <2>3 DEF Manager!Disconnected, Manager!Idle, Manager!At
    <3>2. [pc |-> "idle", on |-> 0] \in Positions
      BY DEF Positions
    <3>3. \A v \in Users : user'[v] = user[v] \/ user'[v].pc # "makes"
      BY <3>1 DEF ManagerInv, ManagerTypes
    <3>4. ManagerTypes'
      BY <2>1, <3>1, <3>2 DEF ManagerInv, ManagerTypes
    <3>5. QED
      BY <2>1, <2>2, <3>3, <3>4 DEF ManagerInv, FactoryInv, OneRunInv
  <2>4. CASE user[u].pc # "shutsDown"
    <3>1. strategy' = user[u].pc /\ Manager!StartInitialize(u, "owns")
      BY <1>2, <2>4 DEF Manager!Disconnected
    <3>2. strategy' \in Manager!Strategies
      BY <2>1, <2>4, <3>1
    <3>3. backend' \in Nat
      BY <2>1
    <3>4. QED
      BY <2>1, <2>2, <3>1, <3>2, <3>3, RestartsAfterShutdown
  <2>5. QED
    BY <2>3, <2>4
<1>3. QED
  BY <1>1, <1>2

\* What the users, the runs and the factory do keeps the invariant of the
\* manager.
LEMMA ManagerInvNext == ManagerInv /\ [Manager!ManagerNext]_managerState => ManagerInv'
<1> SUFFICES ASSUME ManagerInv, [Manager!ManagerNext]_managerState PROVE ManagerInv'
  OBVIOUS
<1>0. [pc |-> "idle", on |-> 0] \in Positions
         /\ "idle" \notin {"shutsDown", "makes"} \cup Manager!Strategies
  BY DEF Positions, Manager!Strategies
<1>1. ASSUME NEW u \in Users, Manager!OperationEnds(u) \/ Manager!FactorySettles(u)
      PROVE  ManagerInv'
  <2>1. user' = [user EXCEPT ![u] = [pc |-> "idle", on |-> 0]]
    BY <1>1 DEF Manager!OperationEnds, Manager!FactorySettles, Manager!Idle, Manager!At
  <2>2. UNCHANGED <<strategy, managerMade, factoryPromise, made, backends, backend, connected,
                    initializations, promise, shutDown>>
    BY <1>1 DEF Manager!OperationEnds, Manager!FactorySettles, Manager!factoryVars
  <2>3. QED
    BY <1>0, <2>1, <2>2, UserMoves DEF ManagerInv, ManagerTypes
<1>2. ASSUME NEW u \in Users, NEW wanted \in Manager!Strategies,
             Manager!KeepBackend(u, wanted)
      PROVE  ManagerInv'
  BY <1>2 DEF Manager!KeepBackend, Manager!factoryVars, ManagerInv, ManagerTypes, FactoryInv,
              OneRunInv, FirstRun
<1>3. ASSUME NEW u \in Users, NEW wanted \in Manager!Strategies,
             Manager!Reconfigure(u, wanted)
      PROVE  ManagerInv'
  BY <1>3, ShutdownsKeepOne DEF Manager!Reconfigure
<1>4. CASE UNCHANGED managerState
  BY <1>4 DEF managerState, ManagerInv, ManagerTypes, FactoryInv, OneRunInv, FirstRun
<1>5. ASSUME NEW u \in Users,
             Manager!StartShutdown(u, "shutsDown") \/ Manager!Disconnected(u)
      PROVE  ManagerInv'
  BY <1>5, ShutdownsKeepOne
<1>6. QED
  BY <1>1, <1>2, <1>3, <1>4, <1>5, UsingKeepsOne, SettlingKeepsOne, CreatingKeepsOne,
     PublishingKeepsOne, RunsKeepOne
     DEF Manager!ManagerNext

\* The others leave the manager alone.
LEMMA ManagerSteps == [Next]_vars => [Manager!ManagerNext]_managerState
BY DEF Next, Only, vars

\* However many users come at the same time: one cache manager is made, and
\* until a shutdown it makes one backend and opens one Redis client.
THEOREM OneCache == Spec => []OneCacheForEverybody
<1>1. Init => ManagerInv
  BY ManagerInvInit DEF Init
<1>2. ManagerInv /\ [Next]_vars => ManagerInv'
  BY ManagerInvNext, ManagerSteps
<1>3. ManagerInv => OneCacheForEverybody
  <2>1. ManagerInv => made \in {0, 1} /\ (~shutDown => connected \subseteq {1} /\
                                                        Len(initializations) = made)
    BY DEF ManagerInv, ManagerTypes, OneRunInv, FirstRun
  <2>2. QED
    BY <2>1 DEF OneCacheForEverybody, Manager!OneCacheForEverybody
<1>4. QED
  BY <1>1, <1>2, <1>3, PTL DEF Spec

(***************************************************************************)
(* Continuous profiling                                                    *)
(***************************************************************************)

ByHand == [endpoint : Endpoints, reason : {"manual"}]

\* The throttle of an endpoint is no older than its last automatic profile, as
\* long as profiles can be triggered; and only what was asked for by hand is
\* ever queued, so that no automatic profile starts later than its throttle.
ThrottleInv ==
    /\ lastTrigger \in [Endpoints -> 0..Throttle]
    /\ sinceProfiled \in [Endpoints -> 0..Throttle]
    /\ profileQueue \in Seq(ByHand)
    /\ ~profilingStopped => \A e \in Endpoints : lastTrigger[e] <= sinceProfiled[e]

\* Nothing has been profiled or queued.
LEMMA ThrottleInvInit == Profiling!Init => ThrottleInv
<1> SUFFICES ASSUME Profiling!Init PROVE ThrottleInv
  OBVIOUS
<1>1. <<>> \in Seq(ByHand)
  OBVIOUS
<1>2. QED
  BY <1>1, EndpointsAssumption DEF Profiling!Init, ThrottleInv

\* What one step of profiling may do to the history of an endpoint.
AfterThrottle ==
    \A e \in Endpoints : sinceProfiled'[e] < sinceProfiled[e] => sinceProfiled[e] = Throttle

\* A request by hand starts, fails or is queued.
LEMMA ManualKeepsThrottle ==
    ASSUME ThrottleInv, NEW e \in Endpoints, Profiling!RequestManually(e)
    PROVE  ThrottleInv' /\ AfterThrottle
<1> DEFINE request == [endpoint |-> e, reason |-> "manual"]
<1>0. \A d \in Endpoints : sinceProfiled[d] \in 0..Throttle
  BY DEF ThrottleInv
<1>1. UNCHANGED <<lastTrigger, profilingStopped>>
  BY DEF Profiling!RequestManually
<1>2. PICK started \in BOOLEAN : Profiling!RequestProfiling(request, started)
  BY DEF Profiling!RequestManually
<1>3. request \in ByHand /\ request.reason = "manual"
  BY DEF ByHand
<1> HIDE DEF request
<1>4. UNCHANGED sinceProfiled
  BY <1>2, <1>3 DEF Profiling!RequestProfiling, Profiling!StartProfiling, Profiling!FailToStart
<1>5. profileQueue' = profileQueue \/ profileQueue' = Append(profileQueue, request)
  BY <1>2 DEF Profiling!RequestProfiling
<1>6. profileQueue' \in Seq(ByHand)
  <2>1. profileQueue \in Seq(ByHand) /\ request \in ByHand
    BY <1>3 DEF ThrottleInv
  <2>2. Append(profileQueue, request) \in Seq(ByHand)
    BY <2>1
  <2>3. QED
    BY <1>5, <2>1, <2>2
<1>7. QED
  BY <1>0, <1>1, <1>4, <1>6 DEF ThrottleInv, AfterThrottle

\* An automatic profile starts only when its endpoint is not throttled, and
\* never by way of the queue.
LEMMA TriggerKeepsThrottle ==
    ASSUME ThrottleInv, NEW e \in Endpoints, NEW l, Profiling!TriggerAutomaticProfiling(e, l)
    PROVE  ThrottleInv' /\ AfterThrottle
<1> DEFINE request == [endpoint |-> e, reason |-> "sla_violation"]
<1>1. /\ UNCHANGED profilingStopped /\ ~profilingStopped /\ lastTrigger[e] >= Throttle
      /\ activeProfile = NoEndpoint
  BY DEF Profiling!TriggerAutomaticProfiling, Profiling!CanTriggerProfiling,
         Profiling!CanStartProfiling
<1>2. PICK started \in BOOLEAN :
          /\ Profiling!RequestProfiling(request, started)
          /\ lastTrigger' = IF started THEN [lastTrigger EXCEPT ![e] = 0] ELSE lastTrigger
  BY DEF Profiling!TriggerAutomaticProfiling
<1>3. UNCHANGED profileQueue
  BY <1>1, <1>2 DEF Profiling!RequestProfiling
<1>4. sinceProfiled' = IF started THEN [sinceProfiled EXCEPT ![e] = 0] ELSE sinceProfiled
  BY <1>1, <1>2 DEF Profiling!RequestProfiling, Profiling!StartProfiling,
                    Profiling!FailToStart
<1>5. sinceProfiled[e] = Throttle
  BY <1>1, EndpointsAssumption DEF ThrottleInv
<1>6. 0 \in 0..Throttle
  BY EndpointsAssumption
<1>7. QED
  BY <1>1, <1>2, <1>3, <1>4, <1>5, <1>6 DEF ThrottleInv, AfterThrottle

\* Reports, triggers, timers, shutdown and the environment keep the throttle.
LEMMA ThrottleInvNext ==
    ThrottleInv /\ [Profiling!Next]_profilingState => ThrottleInv' /\ AfterThrottle
<1> SUFFICES ASSUME ThrottleInv, [Profiling!Next]_profilingState
             PROVE  ThrottleInv' /\ AfterThrottle
  OBVIOUS
<1>0. \A e \in Endpoints : sinceProfiled[e] \in 0..Throttle
  BY DEF ThrottleInv
<1>1. ASSUME NEW e \in Endpoints, NEW l \in Latencies, Profiling!RecordLatency(e, l)
      PROVE  ThrottleInv' /\ AfterThrottle
  BY <1>0, <1>1 DEF Profiling!RecordLatency, ThrottleInv, AfterThrottle
<1>2. ASSUME NEW e \in Endpoints, NEW l \in Latencies,
             Profiling!TriggerAutomaticProfiling(e, l)
      PROVE  ThrottleInv' /\ AfterThrottle
  BY <1>2, TriggerKeepsThrottle
<1>3. ASSUME NEW e \in Endpoints, Profiling!RequestManually(e)
      PROVE  ThrottleInv' /\ AfterThrottle
  BY <1>3, ManualKeepsThrottle
<1>4. CASE Profiling!StopProfiling
  <2>1. UNCHANGED <<lastTrigger, profilingStopped>>
    BY <1>4 DEF Profiling!StopProfiling
  <2>2. CASE profileQueue = <<>>
    BY <1>0, <1>4, <2>1, <2>2 DEF Profiling!StopProfiling, Profiling!FailToStart, ThrottleInv,
                                  AfterThrottle
  <2>3. CASE profileQueue # <<>>
    <3>1. Head(profileQueue) \in ByHand /\ Tail(profileQueue) \in Seq(ByHand)
      BY <2>3 DEF ThrottleInv
    <3>2. profileQueue' = Tail(profileQueue) /\ UNCHANGED sinceProfiled
      BY <1>4, <2>3, <3>1 DEF Profiling!StopProfiling, Profiling!StartProfiling,
                              Profiling!FailToStart, ByHand
    <3>3. QED
      BY <1>0, <2>1, <3>1, <3>2 DEF ThrottleInv, AfterThrottle
  <2>4. QED
    BY <2>2, <2>3
<1>5. CASE Profiling!AutoStopMeasurement \/ Profiling!StorageChanges
  BY <1>0, <1>5 DEF Profiling!AutoStopMeasurement, Profiling!StorageChanges, ThrottleInv,
                    AfterThrottle
<1>6. CASE Profiling!Shutdown
  <2>1. <<>> \in Seq(ByHand)
    OBVIOUS
  <2>2. QED
    BY <1>0, <1>6, <2>1, EndpointsAssumption DEF Profiling!Shutdown, ThrottleInv, AfterThrottle
<1>7. CASE Profiling!Tick
  <2>1. Throttle \in Nat
    BY EndpointsAssumption
  <2>2. QED
    BY <1>0, <1>7, <2>1 DEF Profiling!Tick, ThrottleInv, AfterThrottle
<1>8. CASE UNCHANGED profilingState
  BY <1>0, <1>8 DEF profilingState, ThrottleInv, AfterThrottle
<1>9. QED
  BY <1>1, <1>2, <1>3, <1>4, <1>5, <1>6, <1>7, <1>8 DEF Profiling!Next

\* The others leave profiling alone.
LEMMA ProfilingSteps == [Next]_vars => [Profiling!Next]_profilingState
BY DEF Next, Only, vars

\* For any endpoints, thresholds, queue and throttle: between two automatic
\* profiles of an endpoint there is the throttle time, whether the second was
\* triggered, queued or started by the end of another.
THEOREM AutomaticProfilesAreThrottled == Spec => ProfilesAreThrottled
<1>1. Init => ThrottleInv
  BY ThrottleInvInit DEF Init
<1>2. ThrottleInv /\ [Next]_vars => ThrottleInv' /\ AfterThrottle
  BY ThrottleInvNext, ProfilingSteps
<1>3. AfterThrottle => [\A e \in Endpoints :
          sinceProfiled'[e] < sinceProfiled[e] => sinceProfiled[e] = Throttle]_(Profiling!vars)
  BY DEF AfterThrottle
<1>4. QED
  BY <1>1, <1>2, <1>3, PTL DEF Spec, ProfilesAreThrottled, Profiling!ProfilesAreThrottled

(***************************************************************************)
(* Types: continuous profiling                                             *)
(***************************************************************************)

Windows == UNION {[1..n -> Latencies] : n \in 0..BufferSize}

\* A rolling buffer that gets one value more keeps to its size.
LEMMA PushedKeepsTheSize ==
    ASSUME NEW values \in Windows, NEW latency \in Latencies
    PROVE  Profiling!Pushed(values, latency) \in Windows
<1>0. BufferSize \in Nat
  BY EndpointsAssumption
<1>1. PICK n \in 0..BufferSize : values \in [1..n -> Latencies]
  BY DEF Windows
<1>2. n \in Nat /\ values \in Seq(Latencies) /\ Len(values) = n
  BY <1>0, <1>1
<1> DEFINE longer == Append(values, latency)
<1>3. longer \in Seq(Latencies) /\ Len(longer) = n + 1
  BY <1>2
<1>4. longer \in [1..n + 1 -> Latencies]
  <2> HIDE DEF longer
  <2>1. QED
    BY <1>3, LenProperties
<1> HIDE DEF longer
<1>5. CASE n + 1 > BufferSize
  <2>1. n + 1 \in Nat \ {0} /\ longer # <<>>
    BY <1>2, <1>3
  <2>2. Tail(longer) \in Seq(Latencies) /\ Len(Tail(longer)) = n
    BY <1>2, <1>3, <2>1
  <2>3. Tail(longer) \in [1..n -> Latencies]
    BY <2>2, LenProperties
  <2>4. Tail(longer) \in Windows
    BY <1>1, <2>3 DEF Windows
  <2>5. QED
    BY <1>3, <1>5, <2>4 DEF Profiling!Pushed, longer
<1>6. CASE ~(n + 1 > BufferSize)
  <2>1. n + 1 \in 0..BufferSize
    BY <1>0, <1>2, <1>6
  <2>2. longer \in Windows
    BY <1>4, <2>1 DEF Windows
  <2>3. QED
    BY <1>3, <1>6, <2>2 DEF Profiling!Pushed, longer
<1>7. QED
  BY <1>5, <1>6

\* The empty buffer and queue.
LEMMA ProfilingTypesInit == Profiling!Init => Profiling!TypeOK
<1> SUFFICES ASSUME Profiling!Init PROVE Profiling!TypeOK
  OBVIOUS
<1>1. <<>> \in Seq(Profiling!Request) /\ Len(<<>>) = 0
  OBVIOUS
<1>2. <<>> \in [1..0 -> Latencies] /\ 0 \in 0..BufferSize
  BY EndpointsAssumption
<1>3. <<>> \in Windows
  BY <1>2 DEF Windows
<1>4. latencyBuffers \in [Endpoints -> Windows]
  BY <1>3 DEF Profiling!Init
<1>5. /\ Throttle \in 0..Throttle /\ 0 \in 0..ProfileTime /\ 0 \in 0..MeasureTime /\ 0 <= MaxQueue
  BY EndpointsAssumption
<1>6. QED
  BY <1>1, <1>4, <1>5 DEF Profiling!Init, Profiling!TypeOK, Windows

\* A profile starts or fails to start for a request of an endpoint.
LEMMA RequestingKeepsTypes ==
    ASSUME Profiling!TypeOK, NEW request \in Profiling!Request, NEW started \in BOOLEAN,
           Profiling!RequestProfiling(request, started)
    PROVE  /\ activeProfile' \in Endpoints \cup {NoEndpoint}
           /\ profileAge' \in 0..ProfileTime
           /\ profileQueue' \in Seq(Profiling!Request) /\ Len(profileQueue') <= MaxQueue
           /\ sinceProfiled' \in [Endpoints -> 0..Throttle]
<1>1. request.endpoint \in Endpoints
  BY DEF Profiling!Request
<1>2. 0 \in 0..ProfileTime /\ 0 \in 0..Throttle /\ MaxQueue \in Nat
  BY EndpointsAssumption
<1>3. /\ profileQueue \in Seq(Profiling!Request) /\ Len(profileQueue) <= MaxQueue
      /\ activeProfile \in Endpoints \cup {NoEndpoint} /\ profileAge \in 0..ProfileTime
      /\ sinceProfiled \in [Endpoints -> 0..Throttle]
  BY DEF Profiling!TypeOK
<1>4. profileQueue' \in Seq(Profiling!Request) /\ Len(profileQueue') <= MaxQueue
  <2>1. CASE UNCHANGED profileQueue
    BY <1>3, <2>1
  <2>2. CASE Len(profileQueue) < MaxQueue /\ profileQueue' = Append(profileQueue, request)
    <3>1. /\ Append(profileQueue, request) \in Seq(Profiling!Request)
          /\ Len(Append(profileQueue, request)) = Len(profileQueue) + 1
      BY <1>3
    <3>2. Len(profileQueue) \in Nat
      BY <1>3
    <3>3. QED
      BY <1>2, <2>2, <3>1, <3>2
  <2>3. QED
    BY <2>1, <2>2 DEF Profiling!RequestProfiling
<1>5. /\ activeProfile' \in Endpoints \cup {NoEndpoint} /\ profileAge' \in 0..ProfileTime
      /\ sinceProfiled' \in [Endpoints -> 0..Throttle]
  BY <1>1, <1>2, <1>3 DEF Profiling!RequestProfiling, Profiling!StartProfiling,
                          Profiling!FailToStart
<1>6. QED
  BY <1>4, <1>5

\* Reports, requests, timers and the environment keep the types.
LEMMA ProfilingTypesNext ==
    Profiling!TypeOK /\ [Profiling!Next]_profilingState => Profiling!TypeOK'
<1> SUFFICES ASSUME Profiling!TypeOK, [Profiling!Next]_profilingState
             PROVE  Profiling!TypeOK'
  OBVIOUS
<1>a. /\ 0 \in 0..ProfileTime /\ 0 \in 0..MeasureTime /\ 0 \in 0..Throttle
      /\ Throttle \in 0..Throttle /\ MaxQueue \in Nat /\ 0 <= MaxQueue
      /\ {ProfileTime, MeasureTime, Throttle} \subseteq Nat
  BY EndpointsAssumption
<1>b. latencyBuffers \in [Endpoints -> Windows]
  BY DEF Profiling!TypeOK, Windows
<1>c. /\ <<>> \in Seq(Profiling!Request) /\ Len(<<>>) = 0 /\ <<>> \in Windows
  <2>1. <<>> \in [1..0 -> Latencies] /\ 0 \in 0..BufferSize
    BY EndpointsAssumption
  <2>2. QED
    BY <2>1 DEF Windows
<1>d. ASSUME NEW e \in Endpoints, NEW l \in Latencies, Profiling!Report(e, l)
      PROVE  latencyBuffers' \in [Endpoints -> Windows]
  <2>1. Profiling!Pushed(latencyBuffers[e], l) \in Windows
    BY <1>b, PushedKeepsTheSize
  <2>2. QED
    BY <1>b, <1>d, <2>1 DEF Profiling!Report
<1>1. ASSUME NEW e \in Endpoints, NEW l \in Latencies, Profiling!RecordLatency(e, l)
      PROVE  Profiling!TypeOK'
  <2>1. latencyBuffers' \in [Endpoints -> Windows]
    BY <1>1, <1>d DEF Profiling!RecordLatency
  <2>2. QED
    BY <1>1, <2>1 DEF Profiling!RecordLatency, Profiling!TypeOK, Windows
<1>2. ASSUME NEW e \in Endpoints, NEW l \in Latencies,
             Profiling!TriggerAutomaticProfiling(e, l)
      PROVE  Profiling!TypeOK'
  <2> DEFINE request == [endpoint |-> e, reason |-> "sla_violation"]
  <2>1. latencyBuffers' \in [Endpoints -> Windows]
    BY <1>2, <1>d DEF Profiling!TriggerAutomaticProfiling
  <2>2. request \in Profiling!Request
    BY DEF Profiling!Request
  <2>3. PICK started \in BOOLEAN :
            /\ Profiling!RequestProfiling(request, started)
            /\ lastTrigger' = IF started THEN [lastTrigger EXCEPT ![e] = 0] ELSE lastTrigger
    BY <1>2 DEF Profiling!TriggerAutomaticProfiling
  <2> HIDE DEF request
  <2>4. /\ activeProfile' \in Endpoints \cup {NoEndpoint}
        /\ profileAge' \in 0..ProfileTime
        /\ profileQueue' \in Seq(Profiling!Request) /\ Len(profileQueue') <= MaxQueue
        /\ sinceProfiled' \in [Endpoints -> 0..Throttle]
    BY <2>2, <2>3, RequestingKeepsTypes
  <2>5. lastTrigger' \in [Endpoints -> 0..Throttle]
    BY <1>a, <2>3 DEF Profiling!TypeOK
  <2>6. measuring' \in BOOLEAN /\ measureAge' \in 0..MeasureTime
    BY <1>2, <1>a DEF Profiling!TriggerAutomaticProfiling,
                      Profiling!StartProfilingMeasurement, Profiling!TypeOK
  <2>7. UNCHANGED <<storageFull, profilingStopped>>
    BY <1>2 DEF Profiling!TriggerAutomaticProfiling
  <2>8. QED
    BY <2>1, <2>4, <2>5, <2>6, <2>7 DEF Profiling!TypeOK, Windows
<1>3. ASSUME NEW e \in Endpoints, Profiling!RequestManually(e)
      PROVE  Profiling!TypeOK'
  <2> DEFINE request == [endpoint |-> e, reason |-> "manual"]
  <2>1. request \in Profiling!Request
    BY DEF Profiling!Request
  <2>2. PICK started \in BOOLEAN : Profiling!RequestProfiling(request, started)
    BY <1>3 DEF Profiling!RequestManually
  <2> HIDE DEF request
  <2>3. UNCHANGED <<latencyBuffers, lastTrigger, storageFull, measuring, measureAge,
                    profilingStopped>>
    BY <1>3 DEF Profiling!RequestManually
  <2>4. /\ activeProfile' \in Endpoints \cup {NoEndpoint}
        /\ profileAge' \in 0..ProfileTime
        /\ profileQueue' \in Seq(Profiling!Request) /\ Len(profileQueue') <= MaxQueue
        /\ sinceProfiled' \in [Endpoints -> 0..Throttle]
    BY <2>1, <2>2, RequestingKeepsTypes
  <2>5. QED
    BY <2>3, <2>4 DEF Profiling!TypeOK
<1>4. CASE Profiling!StopProfiling
  <2>1. UNCHANGED <<latencyBuffers, lastTrigger, storageFull, measuring, measureAge,
                    profilingStopped>>
    BY <1>4 DEF Profiling!StopProfiling
  <2>2. CASE profileQueue = <<>>
    BY <1>4, <2>1, <2>2 DEF Profiling!StopProfiling, Profiling!FailToStart, Profiling!TypeOK
  <2>3. CASE profileQueue # <<>>
    <3>1. profileQueue \in Seq(Profiling!Request) /\ Len(profileQueue) <= MaxQueue
      BY DEF Profiling!TypeOK
    <3>2. /\ Head(profileQueue) \in Profiling!Request
          /\ Tail(profileQueue) \in Seq(Profiling!Request)
          /\ Len(Tail(profileQueue)) = Len(profileQueue) - 1 /\ Len(profileQueue) \in Nat
      BY <2>3, <3>1, HeadTailProperties, LenProperties
    <3>3. Head(profileQueue).endpoint \in Endpoints
      BY <3>2 DEF Profiling!Request
    <3>4. /\ profileQueue' = Tail(profileQueue)
          /\ Profiling!StartProfiling(Head(profileQueue)) \/ Profiling!FailToStart
      BY <1>4, <2>3 DEF Profiling!StopProfiling
    <3>5. profileQueue' \in Seq(Profiling!Request) /\ Len(profileQueue') <= MaxQueue
      BY <1>a, <3>1, <3>2, <3>4
    <3>6. /\ activeProfile' \in Endpoints \cup {NoEndpoint} /\ profileAge' \in 0..ProfileTime
          /\ sinceProfiled' \in [Endpoints -> 0..Throttle]
      BY <1>a, <3>3, <3>4 DEF Profiling!StartProfiling, Profiling!FailToStart, Profiling!TypeOK
    <3>7. QED
      BY <2>1, <3>5, <3>6 DEF Profiling!TypeOK
  <2>4. QED
    BY <2>2, <2>3
<1>5. CASE Profiling!AutoStopMeasurement \/ Profiling!StorageChanges
  BY <1>5 DEF Profiling!AutoStopMeasurement, Profiling!StorageChanges, Profiling!TypeOK
<1>6. CASE Profiling!Shutdown
  <2>1. latencyBuffers' \in [Endpoints -> Windows]
    BY <1>6, <1>c DEF Profiling!Shutdown
  <2>2. QED
    BY <1>6, <1>a, <1>c, <2>1 DEF Profiling!Shutdown, Profiling!TypeOK, Windows
<1>7. CASE Profiling!Tick
  <2>1. /\ profileAge' \in 0..ProfileTime
    BY <1>7, <1>a DEF Profiling!Tick, Profiling!TypeOK
  <2>2. measureAge' \in 0..MeasureTime
    BY <1>7, <1>a DEF Profiling!Tick, Profiling!TypeOK
  <2>3. \A n \in 0..Throttle : (IF n < Throttle THEN n + 1 ELSE Throttle) \in 0..Throttle
    BY <1>a
  <2>4. /\ lastTrigger' \in [Endpoints -> 0..Throttle]
        /\ sinceProfiled' \in [Endpoints -> 0..Throttle]
    BY <1>7, <2>3 DEF Profiling!Tick, Profiling!TypeOK
  <2>5. QED
    BY <1>7, <2>1, <2>2, <2>4 DEF Profiling!Tick, Profiling!TypeOK
<1>8. CASE UNCHANGED profilingState
  BY <1>8 DEF profilingState, Profiling!TypeOK
<1>9. QED
  BY <1>1, <1>2, <1>3, <1>4, <1>5, <1>6, <1>7, <1>8 DEF Profiling!Next

(***************************************************************************)
(* Types: on-demand profiling                                              *)
(***************************************************************************)

\* Sessions get new ids, and two that are running are the same.
SessionsInv ==
    /\ profilingEnabled \in BOOLEAN
    /\ nextSession \in Nat \ {0}
    /\ DOMAIN sessions \subseteq 1..(nextSession - 1)
    /\ \A id \in DOMAIN sessions : sessions[id] \in {"running", "completed"}
    /\ \A i, j \in OnDemand!Running : i = j
    /\ profilingAnswer.response \in OnDemand!Responses

\* Every answer is one of the table of errors, or a success.
LEMMA AnswersAreResponses ==
    ASSUME NEW response, NEW session, OnDemand!Answer(response, session),
           response \in {OnDemand!OK, OnDemand!ErrorResponse("AUTH_007"),
                         OnDemand!ErrorResponse("AUTH_008")}
    PROVE  profilingAnswer'.response \in OnDemand!Responses
<1>1. "AUTH_007" \in OnDemand!ErrorCodes /\ "AUTH_008" \in OnDemand!ErrorCodes
  BY DEF OnDemand!ErrorCodes, OnDemand!BadRequest, OnDemand!ServerErrors
<1>2. response \in OnDemand!Responses
  BY <1>1 DEF OnDemand!Responses
<1>3. profilingAnswer'.response = response
  BY DEF OnDemand!Answer
<1>4. QED
  BY <1>2, <1>3

\* There is no session yet.
LEMMA SessionsInvInit == OnDemand!Init => SessionsInv
BY DEF OnDemand!Init, SessionsInv, OnDemand!Running, OnDemand!Responses

\* A session starts only while none is running, and stopping starts none.
LEMMA SessionsInvNext == SessionsInv /\ [OnDemand!Next]_onDemandState => SessionsInv'
<1> SUFFICES ASSUME SessionsInv, [OnDemand!Next]_onDemandState PROVE SessionsInv'
  OBVIOUS
<1>a. \A response, session :
          /\ response \in {OnDemand!OK, OnDemand!ErrorResponse("AUTH_007"),
                           OnDemand!ErrorResponse("AUTH_008")}
          /\ OnDemand!Answer(response, session)
          => profilingAnswer'.response \in OnDemand!Responses
  BY AnswersAreResponses
<1>1. ASSUME UNCHANGED <<profilingEnabled, sessions, nextSession>>,
             profilingAnswer'.response \in OnDemand!Responses
      PROVE  SessionsInv'
  BY <1>1 DEF SessionsInv, OnDemand!Running
<1>2. CASE OnDemand!Disabled
  BY <1>1, <1>2, <1>a DEF OnDemand!Disabled
<1>3. CASE OnDemand!HandleProfilingStatus
  BY <1>1, <1>3, <1>a DEF OnDemand!HandleProfilingStatus
<1>4. CASE OnDemand!HandleProfilingReport
  BY <1>1, <1>4, <1>a DEF OnDemand!HandleProfilingReport
<1>5. CASE OnDemand!HandleProfilingStart
  <2>1. CASE OnDemand!Running # {}
    BY <1>1, <1>5, <1>a, <2>1 DEF OnDemand!HandleProfilingStart, OnDemand!StartProfiling
  <2>2. CASE OnDemand!Running = {}
    <3>1. /\ sessions' = OnDemand!Opened /\ nextSession' = nextSession + 1
          /\ UNCHANGED profilingEnabled /\ OnDemand!Answer(OnDemand!OK, nextSession)
      BY <1>5, <2>2 DEF OnDemand!HandleProfilingStart, OnDemand!StartProfiling
    <3>2. /\ DOMAIN sessions' = DOMAIN sessions \cup {nextSession}
          /\ \A id \in DOMAIN sessions' :
                sessions'[id] = IF id = nextSession THEN "running" ELSE sessions[id]
      BY <3>1 DEF OnDemand!Opened
    <3>3. \A id \in OnDemand!Running' : id = nextSession
      BY <2>2, <3>2 DEF OnDemand!Running
    <3>4. nextSession \in Nat \ {0} /\ DOMAIN sessions \subseteq 1..(nextSession - 1)
      BY DEF SessionsInv
    <3>5. DOMAIN sessions' \subseteq 1..(nextSession' - 1)
      BY <3>1, <3>2, <3>4
    <3>6. profilingAnswer'.response \in OnDemand!Responses
      BY <1>a, <3>1
    <3>7. QED
      BY <3>1, <3>2, <3>3, <3>4, <3>5, <3>6 DEF SessionsInv
  <2>3. QED
    BY <2>1, <2>2
<1>6. ASSUME NEW ids, sessions' = OnDemand!Completed(ids),
             UNCHANGED <<profilingEnabled, nextSession>>,
             profilingAnswer'.response \in OnDemand!Responses
      PROVE  SessionsInv'
  BY <1>6 DEF OnDemand!Completed, SessionsInv, OnDemand!Running
<1>7. ASSUME NEW id \in OnDemand!Ids, OnDemand!HandleProfilingStop(id)
      PROVE  SessionsInv'
  <2>1. CASE id \in OnDemand!Running
    BY <1>6, <1>7, <1>a, <2>1 DEF OnDemand!HandleProfilingStop
  <2>2. CASE id \notin OnDemand!Running
    BY <1>1, <1>7, <1>a, <2>2 DEF OnDemand!HandleProfilingStop
  <2>3. QED
    BY <2>1, <2>2
<1>8. CASE OnDemand!HandleProfilingStopAll
  BY <1>6, <1>8, <1>a DEF OnDemand!HandleProfilingStopAll
<1>9. CASE OnDemand!HandleProfilingCleanup
  BY <1>9, <1>a DEF OnDemand!HandleProfilingCleanup, SessionsInv, OnDemand!Running
<1>10. CASE UNCHANGED onDemandState
  BY <1>1, <1>10 DEF onDemandState, SessionsInv
<1>11. QED
  BY <1>2, <1>3, <1>4, <1>5, <1>7, <1>8, <1>9, <1>10 DEF OnDemand!Next

LEMMA SessionsInvTypes == SessionsInv => OnDemand!TypeOK
BY DEF SessionsInv, OnDemand!TypeOK

(***************************************************************************)
(* Types: GET /tokens and GET /tokens/validate                             *)
(***************************************************************************)

BoundedCalls ==
    [kind : {"issue", "validate"}, consumer : Consumers, replica : Replicas,
     token : Tokens!Tokens \cup Tokens!Junk, secret : 0..MaxSecret]

\* The calls in progress have types, too.
TokensTypes == Tokens!TypeOK /\ tokenCall \in BoundedCalls \cup {Tokens!NoCall}

\* A structured error is one of the table, whose status is a function of its code.
LEMMA ErrorsAreResponses ==
    \A code \in Tokens!ErrorCodes : Tokens!ErrorResponse(code) \in Tokens!Responses
BY DEF Tokens!Responses

\* The codes the handlers of tokens use are in the table.
LEMMA HandlersCodes ==
    {"AUTH_001", "AUTH_002", "AUTH_004", "AUTH_007", "AUTH_008", "AUTH_009", "AUTH_010",
     "AUTH_011", "AUTH_012"} \subseteq Tokens!ErrorCodes
BY DEF Tokens!ErrorCodes, Tokens!Unauthorized, Tokens!BadRequest, Tokens!Unavailable,
       Tokens!ServerErrors

\* An answer ends the call, with a response of the table.
LEMMA AnsweringKeepsTypes ==
    ASSUME TokensTypes, UNCHANGED <<time, ahead, secret>>,
           lastToken' \in Tokens!Tokens \cup {Tokens!NoToken},
           NEW call, NEW response \in Tokens!Responses, Tokens!Answered(call, response)
    PROVE  TokensTypes'
<1>1. tokenCall' = Tokens!NoCall /\ tokenAnswer'.response \in Tokens!Responses
  BY DEF Tokens!Answered
<1>2. QED
  BY <1>1 DEF TokensTypes, Tokens!TypeOK

\* A call that goes on awaits something else.
LEMMA AwaitingKeepsTypes ==
    ASSUME TokensTypes, UNCHANGED <<time, ahead, secret, lastToken>>,
           NEW call \in BoundedCalls, Tokens!Await(call)
    PROVE  TokensTypes'
<1>1. tokenCall' \in BoundedCalls /\ tokenAnswer' = Tokens!NoCall
  BY DEF Tokens!Await, Tokens!NoAnswer
<1>2. tokenCall'.token \in Tokens!Tokens \cup Tokens!Junk /\ tokenCall'.secret \in 0..MaxSecret
  BY <1>1 DEF BoundedCalls
<1>3. QED
  BY <1>1, <1>2 DEF TokensTypes, Tokens!TypeOK

\* No token has been made, and every consumer has its first secret.
LEMMA TokensTypesInit == Tokens!Init => TokensTypes
<1>1. 1 \in 1..MaxTime /\ 1 \in 0..MaxSecret /\ 0 \in 0..Skew
  BY EndpointsAssumption
<1>2. QED
  BY <1>1 DEF Tokens!Init, TokensTypes, Tokens!TypeOK

\* Requests, lookups, rotations, adjusted clocks and time keep the types.
LEMMA TokensTypesNext == TokensTypes /\ [Tokens!Next]_tokensState => TokensTypes'
<1> SUFFICES ASSUME TokensTypes, [Tokens!Next]_tokensState PROVE TokensTypes'
  OBVIOUS
<1>t. /\ time \in 1..MaxTime /\ ahead \in [Replicas -> 0..Skew]
      /\ secret \in [Consumers -> 0..MaxSecret]
      /\ lastToken \in Tokens!Tokens \cup {Tokens!NoToken}
      /\ tokenCall \in BoundedCalls \cup {Tokens!NoCall}
  BY DEF TokensTypes, Tokens!TypeOK
<1>n. {MaxTime, MaxSecret, Skew, Lifetime} \subseteq Nat
  BY EndpointsAssumption
<1>z. 0 \in 0..MaxSecret
  BY <1>n
<1>r. Tokens!OK \in Tokens!Responses
  BY DEF Tokens!Responses
<1>h. \A headers \in Tokens!Headers \ Consumers :
          Tokens!ErrorResponse(Tokens!HeaderError(headers)) \in Tokens!Responses
  BY HandlersCodes, ErrorsAreResponses DEF Tokens!Headers, Tokens!HeaderError
<1>1. ASSUME NEW headers \in Tokens!Headers, NEW r \in Replicas,
             Tokens!HandleTokenRequest(headers, r)
      PROVE  TokensTypes'
  <2> DEFINE call == [kind |-> "issue", consumer |-> headers, replica |-> r,
                      token |-> Tokens!NoToken, secret |-> 0]
  <2>1. UNCHANGED <<time, ahead, secret, lastToken>>
    BY <1>1 DEF Tokens!HandleTokenRequest
  <2>2. CASE headers \in Consumers
    <3>1. call \in BoundedCalls
      BY <1>z, <2>2 DEF BoundedCalls, Tokens!NoToken, Tokens!Junk
    <3>2. Tokens!Await(call)
      BY <1>1, <2>2 DEF Tokens!HandleTokenRequest
    <3> HIDE DEF call
    <3>3. QED
      BY <2>1, <3>1, <3>2, AwaitingKeepsTypes
  <2>3. CASE headers \notin Consumers
    <3>1. Tokens!Answered(call, Tokens!ErrorResponse(Tokens!HeaderError(headers)))
      BY <1>1, <2>3 DEF Tokens!HandleTokenRequest
    <3> HIDE DEF call
    <3>2. QED
      BY <1>h, <1>t, <2>1, <2>3, <3>1, AnsweringKeepsTypes
  <2>4. QED
    BY <2>2, <2>3
<1>2. ASSUME NEW headers \in Tokens!Headers, NEW r \in Replicas,
             NEW token \in Tokens!Junk \cup {lastToken},
             Tokens!HandleTokenValidation(headers, r, token)
      PROVE  TokensTypes'
  <2> DEFINE call == [kind |-> "validate", consumer |-> headers, replica |-> r,
                      token |-> token, secret |-> 0]
  <2>1. UNCHANGED <<time, ahead, secret, lastToken>>
    BY <1>2 DEF Tokens!HandleTokenValidation
  <2>2. \/ \E code \in {"AUTH_011", "AUTH_012"} :
               Tokens!Answered(call, Tokens!ErrorResponse(code))
        \/ /\ headers \notin Consumers
           /\ Tokens!Answered(call, Tokens!ErrorResponse(Tokens!HeaderError(headers)))
        \/ headers \in Consumers /\ Tokens!Await(call)
    BY <1>2 DEF Tokens!HandleTokenValidation
  <2>3. token \in Tokens!Tokens \cup Tokens!Junk
    BY <1>t DEF Tokens!NoToken, Tokens!Junk
  <2>4. headers \in Consumers => call \in BoundedCalls
    BY <1>z, <2>3 DEF BoundedCalls
  <2> HIDE DEF call
  <2>5. CASE \E code \in {"AUTH_011", "AUTH_012"} :
                 Tokens!Answered(call, Tokens!ErrorResponse(code))
    BY <1>t, <2>1, <2>5, HandlersCodes, ErrorsAreResponses, AnsweringKeepsTypes
  <2>6. CASE /\ headers \notin Consumers
             /\ Tokens!Answered(call, Tokens!ErrorResponse(Tokens!HeaderError(headers)))
    BY <1>h, <1>t, <2>1, <2>6, AnsweringKeepsTypes
  <2>7. CASE headers \in Consumers /\ Tokens!Await(call)
    BY <2>1, <2>4, <2>7, AwaitingKeepsTypes
  <2>8. QED
    BY <2>2, <2>5, <2>6, <2>7
<1>3. CASE Tokens!SecretFound
  <2> DEFINE call == [tokenCall EXCEPT !.secret = secret[tokenCall.consumer]]
  <2>1. tokenCall \in BoundedCalls
    BY <1>3, <1>t DEF Tokens!SecretFound
  <2>2. secret[tokenCall.consumer] \in 0..MaxSecret
    BY <1>t, <2>1 DEF BoundedCalls
  <2>3. call \in BoundedCalls
    BY <2>1, <2>2 DEF BoundedCalls
  <2>4. Tokens!Await(call) /\ UNCHANGED <<time, ahead, secret, lastToken>>
    BY <1>3 DEF Tokens!SecretFound
  <2> HIDE DEF call
  <2>5. QED
    BY <2>3, <2>4, AwaitingKeepsTypes
<1>4. CASE Tokens!NoSecret \/ Tokens!LookupFails \/ Tokens!HandlerThrows
  <2>1. PICK code \in {"AUTH_002", "AUTH_004", "AUTH_008"} :
            Tokens!Answered(tokenCall, Tokens!ErrorResponse(code))
    BY <1>4 DEF Tokens!NoSecret, Tokens!LookupFails, Tokens!HandlerThrows
  <2>2. UNCHANGED <<time, ahead, secret, lastToken>>
    BY <1>4 DEF Tokens!NoSecret, Tokens!LookupFails, Tokens!HandlerThrows
  <2>3. QED
    BY <1>t, <2>1, <2>2, HandlersCodes, ErrorsAreResponses, AnsweringKeepsTypes
<1>5. CASE Tokens!IssueToken
  <2>1. /\ tokenCall \in BoundedCalls /\ tokenCall.secret > 0
        /\ lastToken' = Tokens!CreateToken(tokenCall)
        /\ Tokens!Answered(tokenCall, Tokens!OK) /\ UNCHANGED <<time, ahead, secret>>
    BY <1>5, <1>t DEF Tokens!IssueToken, Tokens!NoCall
  <2>2. /\ tokenCall.consumer \in Consumers /\ tokenCall.secret \in 0..MaxSecret
        /\ ahead[tokenCall.replica] \in 0..Skew
    BY <1>t, <2>1 DEF BoundedCalls
  <2>3. /\ tokenCall.secret \in 1..MaxSecret
        /\ Tokens!Now(tokenCall.replica) \in 1..(MaxTime + Skew)
        /\ Tokens!Now(tokenCall.replica) + Lifetime \in 1..(MaxTime + Skew + Lifetime)
    BY <1>n, <1>t, <2>1, <2>2 DEF Tokens!Now
  <2>4. lastToken' \in Tokens!Tokens
    BY <1>t, <2>1, <2>2, <2>3 DEF Tokens!CreateToken, Tokens!Tokens
  <2>5. QED
    BY <1>r, <2>1, <2>4, AnsweringKeepsTypes
<1>6. CASE Tokens!ValidateToken
  <2>1. PICK response \in {Tokens!OK, Tokens!ErrorResponse("AUTH_010"),
                           Tokens!ErrorResponse("AUTH_011")} :
            Tokens!Answered(tokenCall, response)
    <3>1. Tokens!Verdict(tokenCall) \in {"OK", "AUTH_010", "AUTH_011"}
      BY DEF Tokens!Verdict
    <3>2. QED
      BY <1>6, <3>1 DEF Tokens!ValidateToken
  <2>2. UNCHANGED <<time, ahead, secret, lastToken>>
    BY <1>6 DEF Tokens!ValidateToken
  <2>3. response \in Tokens!Responses
    BY <1>r, HandlersCodes, ErrorsAreResponses
  <2>4. QED
    BY <1>t, <2>1, <2>2, <2>3, AnsweringKeepsTypes
<1>7. ASSUME tokenAnswer' = Tokens!NoCall, UNCHANGED <<lastToken, tokenCall>>,
             time' \in 1..MaxTime, ahead' \in [Replicas -> 0..Skew],
             secret' \in [Consumers -> 0..MaxSecret]
      PROVE  TokensTypes'
  BY <1>7 DEF TokensTypes, Tokens!TypeOK
<1>8. ASSUME NEW c \in Consumers, NEW version \in 0..MaxSecret, Tokens!RotateSecret(c, version)
      PROVE  TokensTypes'
  BY <1>7, <1>8, <1>t DEF Tokens!RotateSecret, Tokens!NoAnswer
<1>9. ASSUME NEW r \in Replicas, NEW by \in 0..Skew, Tokens!AdjustClock(r, by)
      PROVE  TokensTypes'
  BY <1>7, <1>9, <1>t DEF Tokens!AdjustClock, Tokens!NoAnswer
<1>10. CASE Tokens!Tick
  BY <1>7, <1>10, <1>t, <1>n DEF Tokens!Tick, Tokens!NoAnswer
<1>11. CASE UNCHANGED tokensState
  BY <1>11 DEF tokensState, TokensTypes, Tokens!TypeOK
<1>12. QED
  BY <1>1, <1>2, <1>3, <1>4, <1>5, <1>6, <1>8, <1>9, <1>10, <1>11 DEF Tokens!Next

(***************************************************************************)
(* Types: the other endpoints and the telemetry exports                    *)
(***************************************************************************)

\* What HealthInv does not speak of: the flags and the answers.
HealthAnswers ==
    /\ redisBackend \in BOOLEAN /\ redisAnswers \in BOOLEAN /\ accepting \in BOOLEAN
    /\ probeAnswer \in [Probes -> {0, 200, 500, 503}]

\* Nobody has been answered yet.
LEMMA HealthAnswersInit == Health!Init => HealthAnswers
BY DEF Health!Init, Health!NoReply, HealthAnswers

\* An answer has one of the statuses the handlers use.
LEMMA HealthAnswersNext ==
    HealthInv /\ HealthAnswers /\ [Health!Next]_healthState => HealthAnswers'
<1> SUFFICES ASSUME HealthInv, HealthAnswers, [Health!Next]_healthState
             PROVE  HealthAnswers'
  OBVIOUS
<1>a. ASSUME NEW p \in Probes, NEW status \in {200, 500, 503}, Health!Reply(p, status)
      PROVE  probeAnswer' \in [Probes -> {0, 200, 500, 503}]
  BY <1>a DEF Health!Reply, HealthAnswers
<1>1. ASSUME NEW p \in Probes,
             \/ Health!HandleHealthCheck(p)
             \/ \E cache \in Results : Health!PingAnswered(p, cache)
             \/ Health!CheckEnds(p)
      PROVE  HealthAnswers'
  <2>1. UNCHANGED <<redisBackend, redisAnswers, accepting>>
    BY <1>1 DEF Health!HandleHealthCheck, Health!PingAnswered, Health!CheckEnds,
                Health!environment
  <2>2. \/ UNCHANGED probeAnswer
        \/ probeAnswer' = [probeAnswer EXCEPT ![p] = 0]
    BY <1>1 DEF Health!HandleHealthCheck, Health!PingAnswered, Health!CheckEnds,
                Health!NoReply
  <2>3. QED
    BY <2>1, <2>2 DEF HealthAnswers
<1>2. ASSUME NEW p \in Probes, NEW gateway \in BOOLEAN, NEW exporter \in BOOLEAN,
             Health!HealthAnswered(p, gateway, exporter)
      PROVE  HealthAnswers'
  BY <1>a, <1>2 DEF Health!HealthAnswered, HealthAnswers, Health!environment
<1>3. ASSUME NEW p \in Probes, Health!HealthFails(p)
      PROVE  HealthAnswers'
  BY <1>a, <1>3 DEF Health!HealthFails, HealthAnswers, Health!environment
<1>4. ASSUME NEW p \in Probes, Health!HandleReadinessCheck(p)
      PROVE  HealthAnswers'
  BY <1>a, <1>4 DEF Health!HandleReadinessCheck, Health!NoReply, HealthAnswers,
                    Health!environment
<1>5. ASSUME NEW p \in Probes, NEW gateway \in BOOLEAN, Health!ReadinessAnswered(p, gateway)
      PROVE  HealthAnswers'
  BY <1>a, <1>5 DEF Health!ReadinessAnswered, HealthAnswers, Health!environment
<1>6. CASE Health!RedisChanges \/ Health!LeaveReady \/ Health!Tick
  <2>1. UNCHANGED <<redisBackend, probeAnswer>>
    BY <1>6 DEF Health!RedisChanges, Health!LeaveReady, Health!Tick
  <2>2. redisAnswers' \in BOOLEAN /\ accepting' \in BOOLEAN
    BY <1>6, Zenon DEF Health!RedisChanges, Health!LeaveReady, Health!Tick, HealthAnswers
  <2>3. QED
    BY <2>1, <2>2 DEF HealthAnswers
<1>7. CASE UNCHANGED healthState
  BY <1>7 DEF healthState, HealthAnswers
<1>8. QED
  BY <1>1, <1>2, <1>3, <1>4, <1>5, <1>6, <1>7 DEF Health!Next, Results

\* Together with the invariant of the checks these are the types.
LEMMA HealthTypes == HealthInv /\ HealthAnswers => Health!TypeOK
BY DEF HealthInv, HealthAnswers, Health!TypeOK, Results, CheckAges, CheckStages

\* The invariant of the statistics holds the types.
LEMMA MetricsTypes == MetricsInv => Metrics!MetricsTypeOK
BY DEF MetricsInv, Metrics!MetricsTypeOK

(***************************************************************************)
(* Requests and those that follow an answer                                *)
(***************************************************************************)

\* The fallback allows a served path its method and OPTIONS.
LEMMA ServedPaths ==
    /\ DOMAIN Routing!EndpointMethods = DOMAIN Routing!Routes
    /\ \A path \in DOMAIN Routing!Routes :
         /\ Routing!Routes[path] \in {"GET", "POST"}
         /\ Routing!EndpointMethods[path] = {Routing!Routes[path], "OPTIONS"}
BY DEF Routing!EndpointMethods, Routing!Routes, Routing!Methods

\* Which request gets which answer, and the Allow header of a 405.
LEMMA AnswersAgree ==
    ASSUME NEW request
    PROVE  LET answer == Routing!Answered(request)
               path == request.path
               served == path \in DOMAIN Routing!Routes
           IN  /\ answer \in Routing!Answers
               /\ served /\ request.method = Routing!Routes[path] => answer.by = "handler"
               /\ served /\ request.method = "OPTIONS" => answer.by = "204"
               /\ answer.by = "405" =>
                    served /\ answer.allow = {Routing!Routes[path], "OPTIONS"}
<1> DEFINE path == request.path
           method == request.method
           allowed == Routing!IsMethodAllowed(method, path)
           served == path \in DOMAIN Routing!Routes /\ Routing!Routes[path] = method
           options == method = "OPTIONS"
           by == CASE served                                    -> "handler"
                   [] ~served /\ ~allowed                        -> "405"
                   [] ~served /\ allowed /\ options              -> "204"
                   [] ~served /\ allowed /\ ~options /\ Routing!RefusedBody(request) -> "400"
                   [] OTHER                                      -> "404"
           allow == IF served \/ allowed THEN {} ELSE Routing!AllowedMethods(path)
<1>1. Routing!Answered(request) = [by |-> by, allow |-> allow]
  BY DEF Routing!Answered
<1>2. path \in DOMAIN Routing!Routes =>
        /\ Routing!AllowedMethods(path) = {Routing!Routes[path], "OPTIONS"}
        /\ allowed <=> method \in {Routing!Routes[path], "OPTIONS"}
        /\ Routing!Routes[path] \in {"GET", "POST"}
  BY ServedPaths DEF Routing!AllowedMethods, Routing!IsMethodAllowed
<1>3. path \notin DOMAIN Routing!Routes => allowed
  BY ServedPaths DEF Routing!AllowedMethods, Routing!IsMethodAllowed
<1> HIDE DEF allowed
<1>4. by \in {"handler", "405", "204", "400", "404"}
  OBVIOUS
<1>5. allow \subseteq {"GET", "POST", "OPTIONS"}
  BY <1>2, <1>3
<1>6. path \in DOMAIN Routing!Routes /\ method = Routing!Routes[path] => by = "handler"
  OBVIOUS
<1>7. path \in DOMAIN Routing!Routes /\ method = "OPTIONS" => by = "204"
  <2>1. path \in DOMAIN Routing!Routes /\ method = "OPTIONS" => ~served /\ allowed /\ options
    BY <1>2
  <2>2. QED
    BY <2>1
<1>8. by = "405" => ~served /\ ~allowed
  OBVIOUS
<1>9. by = "405" =>
        path \in DOMAIN Routing!Routes /\ allow = {Routing!Routes[path], "OPTIONS"}
  BY <1>2, <1>3, <1>8
<1> HIDE DEF by, allow
<1>10. QED
  BY <1>1, <1>4, <1>5, <1>6, <1>7, <1>9 DEF Routing!Answers

\* Served and documented methods are the same.
LEMMA MethodsAgree ==
    /\ \A path \in DOMAIN Routing!DocumentedOperations \cap DOMAIN Routing!Routes :
          Routing!DocumentedOperations[path] = Routing!Routes[path]
    /\ \A path \in DOMAIN Routing!DocumentedOperations :
          Routing!DocumentedOperations[path] \in {"GET", "POST"}
BY DEF Routing!DocumentedOperations, Routing!Routes, Routing!Methods

\* The last answer is that of the last request.
ExchangesInv ==
    /\ exchange.request.method \in {"GET", "POST", "PUT", "OPTIONS"}
    /\ exchange.answer = Routing!Answered(exchange.request)
    /\ exchange.follows \in {"nothing", "allow", "document"}
    /\ Routing!AdviceWorks

\* The first request follows nothing.
LEMMA ExchangesInvInit == Routing!ExchangesInit => ExchangesInv
BY DEF Routing!ExchangesInit, ExchangesInv, Routing!AdviceWorks

\* Neither an Allow header nor the document leads to a refusal.
LEMMA ExchangesInvNext == ExchangesInv /\ [Routing!ExchangesNext]_routingState => ExchangesInv'
<1> SUFFICES ASSUME ExchangesInv, [Routing!ExchangesNext]_routingState PROVE ExchangesInv'
  OBVIOUS
<1>1. CASE Routing!Ask
  <2>1. PICK request \in Routing!HttpRequest : Routing!Exchange(request, "nothing")
    BY <1>1 DEF Routing!Ask
  <2>2. request.method \in {"GET", "POST", "PUT", "OPTIONS"}
    BY DEF Routing!HttpRequest
  <2>3. QED
    BY <2>1, <2>2 DEF Routing!Exchange, ExchangesInv, Routing!AdviceWorks
<1>2. CASE Routing!FollowAllow
  <2> DEFINE old == exchange.request
  <2>1. PICK method \in exchange.answer.allow :
            /\ exchange.answer.by = "405"
            /\ Routing!Exchange([old EXCEPT !.method = method], "allow")
    BY <1>2 DEF Routing!FollowAllow
  <2>2. /\ old.path \in DOMAIN Routing!Routes
        /\ method \in {Routing!Routes[old.path], "OPTIONS"}
    BY <2>1, AnswersAgree DEF ExchangesInv
  <2> DEFINE request == [old EXCEPT !.method = method]
  <2>3. request.path = old.path /\ request.method = method
    BY DEF ExchangesInv
  <2>4. Routing!Answered(request).by \in {"handler", "204"}
    BY <2>2, <2>3, AnswersAgree
  <2>5. method \in {"GET", "POST", "OPTIONS"}
    BY <2>2, ServedPaths
  <2>6. exchange' = [request |-> request, answer |-> Routing!Answered(request),
                     follows |-> "allow"]
    BY <2>1 DEF Routing!Exchange
  <2> HIDE DEF request
  <2>7. QED
    BY <2>3, <2>4, <2>5, <2>6 DEF ExchangesInv, Routing!AdviceWorks
<1>3. CASE Routing!FollowDocument
  <2>1. PICK path \in DOMAIN Routing!DocumentedOperations :
            Routing!Exchange([path |-> path, method |-> Routing!DocumentedOperations[path],
                              body |-> "accepted"], "document")
    BY <1>3 DEF Routing!FollowDocument
  <2> DEFINE request == [path |-> path, method |-> Routing!DocumentedOperations[path],
                         body |-> "accepted"]
  <2>2. request.path = path /\ request.method = Routing!DocumentedOperations[path]
    OBVIOUS
  <2>3. path \in DOMAIN Routing!Routes => Routing!Answered(request).by = "handler"
    BY <2>2, MethodsAgree, AnswersAgree
  <2>4. request.method \in {"GET", "POST"}
    BY <2>2, MethodsAgree
  <2>5. exchange' = [request |-> request, answer |-> Routing!Answered(request),
                     follows |-> "document"]
    BY <2>1 DEF Routing!Exchange
  <2> HIDE DEF request
  <2>6. QED
    BY <2>2, <2>3, <2>4, <2>5 DEF ExchangesInv, Routing!AdviceWorks
<1>4. CASE UNCHANGED routingState
  BY <1>4 DEF routingState, ExchangesInv, Routing!AdviceWorks
<1>5. QED
  BY <1>1, <1>2, <1>3, <1>4 DEF Routing!ExchangesNext

\* An exchange has its types.
LEMMA ExchangesTypes == ExchangesInv => Routing!ExchangesTypeOK
BY AnswersAgree DEF ExchangesInv, Routing!ExchangesTypeOK

(***************************************************************************)
(* GET /: the document and the copies of it                                *)
(***************************************************************************)

\* A copy came without an ETag or with that of its format and version.
DocumentInv ==
    /\ Document!DocumentTypeOK
    /\ \A c \in DocumentClients :
          copy[c].etag \in {Document!NoETag, Document!ETag(copy[c].format, copy[c].version)}
    /\ Document!NotModifiedMeansCurrent

\* Nobody holds a copy.
LEMMA DocumentInvInit == Document!DocumentInit => DocumentInv
<1> SUFFICES ASSUME Document!DocumentInit PROVE DocumentInv
  OBVIOUS
<1>1. MaxVersion \in Nat /\ 0 \in 0..MaxVersion /\ 1 \in 1..MaxVersion
  BY EndpointsAssumption
<1>2. Document!NoETag \in (Document!Formats \cup {"none"}) \X (0..MaxVersion)
  BY <1>1 DEF Document!NoETag
<1>3. Document!NoCopy \in Document!Copies
  BY <1>1, <1>2 DEF Document!NoCopy, Document!Copies
<1>4. Document!DocumentTypeOK
  BY <1>1, <1>3 DEF Document!DocumentInit, Document!DocumentTypeOK
<1>5. /\ \A c \in DocumentClients : copy[c].etag = Document!NoETag
      /\ Document!NotModifiedMeansCurrent
  BY DEF Document!DocumentInit, Document!NoCopy, Document!NotModifiedMeansCurrent
<1>6. QED
  BY <1>4, <1>5 DEF DocumentInv

\* An answer keeps the ETags of the copies and is right about them.
LEMMA DocumentAnswered ==
    ASSUME DocumentInv, NEW c \in DocumentClients, NEW format \in Document!Formats,
           NEW conditional \in BOOLEAN, NEW known,
           Document!Answer(c, format, conditional, known)
    PROVE  /\ copy' \in [DocumentClients -> Document!Copies]
           /\ documentAnswer' \in [DocumentClients -> [status : {0, 200, 304},
                   format : Document!Formats \cup {"none"}, version : 0..MaxVersion]]
           /\ \A d \in DocumentClients :
                /\ copy'[d].etag \in
                      {Document!NoETag, Document!ETag(copy'[d].format, copy'[d].version)}
                /\ documentAnswer'[d].status = 304 =>
                      /\ copy'[d].format = documentAnswer'[d].format
                      /\ copy'[d].version = documentAnswer'[d].version
<1> DEFINE etag == IF format \in known THEN Document!ETag(format, deployed) ELSE Document!NoETag
           notModified == etag # Document!NoETag /\ conditional /\ copy[c].etag = etag
           new == [format |-> format, version |-> deployed, etag |-> etag]
           given == [status |-> IF notModified THEN 304 ELSE 200, format |-> format,
                    version |-> deployed]
<1>1. /\ documentAnswer' = [documentAnswer EXCEPT ![c] = given]
      /\ copy' = [copy EXCEPT ![c] = IF notModified THEN @ ELSE new]
  BY DEF Document!Answer
<1>2. /\ copy \in [DocumentClients -> Document!Copies]
      /\ documentAnswer \in [DocumentClients -> [status : {0, 200, 304},
                   format : Document!Formats \cup {"none"}, version : 0..MaxVersion]]
      /\ deployed \in 1..MaxVersion /\ deployed \in 0..MaxVersion
  BY EndpointsAssumption DEF DocumentInv, Document!DocumentTypeOK
<1>3. etag \in (Document!Formats \cup {"none"}) \X (0..MaxVersion)
  BY <1>2, EndpointsAssumption DEF Document!ETag, Document!NoETag
<1>4. new \in Document!Copies
  BY <1>2, <1>3 DEF Document!Copies
<1>5. /\ given \in [status : {0, 200, 304}, format : Document!Formats \cup {"none"},
                   version : 0..MaxVersion]
  BY <1>2
<1>6. notModified => copy[c].format = format /\ copy[c].version = deployed
  BY DEF DocumentInv, Document!ETag
<1>7. new.etag \in {Document!NoETag, Document!ETag(new.format, new.version)}
  OBVIOUS
<1>8. /\ given.format = format /\ given.version = deployed
      /\ given.status = 304 => notModified
  OBVIOUS
<1> HIDE DEF new, given, notModified, etag
<1>9. ASSUME NEW d \in DocumentClients
      PROVE  /\ copy'[d].etag \in
                   {Document!NoETag, Document!ETag(copy'[d].format, copy'[d].version)}
             /\ documentAnswer'[d].status = 304 =>
                   /\ copy'[d].format = documentAnswer'[d].format
                   /\ copy'[d].version = documentAnswer'[d].version
  <2>1. CASE d = c
    <3>1. /\ documentAnswer'[d] = given
          /\ copy'[d] = IF notModified THEN copy[c] ELSE new
      BY <1>1, <1>2, <2>1
    <3>2. CASE notModified
      BY <3>1, <3>2, <1>6, <1>8 DEF DocumentInv
    <3>3. CASE ~notModified
      BY <3>1, <3>3, <1>7, <1>8
    <3>4. QED
      BY <3>2, <3>3
  <2>2. CASE d # c
    <3>1. documentAnswer'[d] = documentAnswer[d] /\ copy'[d] = copy[d]
      BY <1>1, <1>2, <2>2
    <3>2. QED
      BY <3>1 DEF DocumentInv, Document!NotModifiedMeansCurrent
  <2>3. QED
    BY <2>1, <2>2
<1>10. QED
  BY <1>1, <1>2, <1>4, <1>5, <1>9

\* Readers, the digests they await and a new deployment keep the invariant.
LEMMA DocumentInvNext == DocumentInv /\ [Document!DocumentNext]_documentState => DocumentInv'
<1> SUFFICES ASSUME DocumentInv, [Document!DocumentNext]_documentState PROVE DocumentInv'
  OBVIOUS
<1> USE EndpointsAssumption
<1>1. ASSUME NEW c \in DocumentClients, NEW format \in Document!Formats,
             NEW conditional \in BOOLEAN, Document!ServeDocument(c, format, conditional)
      PROVE  DocumentInv'
  <2>1. /\ Document!Answer(c, format, conditional, etags)
        /\ UNCHANGED <<deployed, documentCached, etags, reading>>
    BY <1>1 DEF Document!ServeDocument
  <2>2. QED
    BY <2>1, DocumentAnswered
       DEF DocumentInv, Document!DocumentTypeOK, Document!NotModifiedMeansCurrent
<1>2. ASSUME NEW c \in DocumentClients, NEW format \in Document!Formats,
             NEW conditional \in BOOLEAN, Document!TagComputed(c, format, conditional)
      PROVE  DocumentInv'
  <2>1. CASE reading[c] = "json"
    <3>1. /\ etags' = etags \cup {"json"}
          /\ reading' = [reading EXCEPT ![c] = "yaml"]
          /\ UNCHANGED <<deployed, documentCached, copy, documentAnswer>>
      BY <1>2, <2>1 DEF Document!TagComputed
    <3>2. DocumentInv /\ {"json", "yaml"} = Document!Formats
      BY DEF Document!Formats
    <3>3. /\ etags' \subseteq Document!Formats
          /\ reading' \in [DocumentClients -> Document!Formats \cup {"idle"}]
      BY <3>1, <3>2 DEF DocumentInv, Document!DocumentTypeOK
    <3>4. QED
      BY <3>1, <3>3
         DEF DocumentInv, Document!DocumentTypeOK, Document!NotModifiedMeansCurrent
  <2>2. CASE reading[c] # "json"
    <3>1. /\ etags' = etags \cup {"yaml"}
          /\ reading' = [reading EXCEPT ![c] = "idle"]
          /\ Document!Answer(c, format, conditional, etags')
          /\ UNCHANGED <<deployed, documentCached>>
      BY <1>2, <2>2 DEF Document!TagComputed
    <3>2. /\ deployed' \in 1..MaxVersion /\ documentCached' \in BOOLEAN
          /\ etags' \subseteq Document!Formats
          /\ reading' \in [DocumentClients -> Document!Formats \cup {"idle"}]
      BY <3>1 DEF DocumentInv, Document!DocumentTypeOK, Document!Formats
    <3>3. QED
      BY <3>1, <3>2, DocumentAnswered
         DEF DocumentInv, Document!DocumentTypeOK, Document!NotModifiedMeansCurrent
  <2>3. QED
    BY <2>1, <2>2
<1>3. ASSUME NEW c \in DocumentClients, Document!GenerateDocument(c)
      PROVE  DocumentInv'
  <2>1. /\ documentCached' = TRUE /\ reading' = [reading EXCEPT ![c] = "json"]
        /\ UNCHANGED <<deployed, etags, copy, documentAnswer>>
    BY <1>3 DEF Document!GenerateDocument
  <2>2. "json" \in Document!Formats
    BY DEF Document!Formats
  <2>3. reading' \in [DocumentClients -> Document!Formats \cup {"idle"}]
    BY <2>1, <2>2 DEF DocumentInv, Document!DocumentTypeOK
  <2>4. QED
    BY <2>1, <2>3
       DEF DocumentInv, Document!DocumentTypeOK, Document!NotModifiedMeansCurrent
<1>4. CASE Document!Redeploy
  <2>1. /\ deployed < MaxVersion /\ deployed' = deployed + 1
        /\ documentCached' = FALSE /\ etags' = {}
        /\ reading' = [c \in DocumentClients |-> "idle"]
        /\ UNCHANGED <<copy, documentAnswer>>
    BY <1>4 DEF Document!Redeploy
  <2>2. /\ deployed' \in 1..MaxVersion
        /\ reading' \in [DocumentClients -> Document!Formats \cup {"idle"}]
    BY <2>1 DEF DocumentInv, Document!DocumentTypeOK
  <2>3. Document!DocumentTypeOK'
    BY <2>1, <2>2, Zenon DEF DocumentInv, Document!DocumentTypeOK
  <2>4. QED
    BY <2>1, <2>3 DEF DocumentInv, Document!NotModifiedMeansCurrent
<1>5. CASE UNCHANGED documentState
  BY <1>5 DEF documentState, DocumentInv, Document!DocumentTypeOK,
              Document!NotModifiedMeansCurrent
<1>6. QED
  BY <1>1, <1>2, <1>3, <1>4, <1>5 DEF Document!DocumentNext

Counts == [attempts : 0..MaxExports, succeeded : Nat, failed : Nat]

\* What ended was begun, and the guardian whose interval runs has its trackers.
ExportsInv == exports \in [Exports!Signals -> Counts] /\ Exports!ExportsTypeOK

\* Nothing has been exported.
LEMMA ExportsInvInit == Exports!ExportsInit => ExportsInv
<1>1. 0 \in 0..MaxExports
  BY EndpointsAssumption
<1>2. QED
  BY <1>1 DEF Exports!ExportsInit, ExportsInv, Counts, Exports!ExportsTypeOK,
              Exports!UnderWay, Exports!NoGuardian, Exports!HeapLevels

\* The pressure is one of four, whatever the rates and the backlog.
LEMMA PressureIsOneOfFour == Exports!CalculatePressure \in Exports!Pressures
<1> DEFINE failing == \E s \in Exports!Signals : Exports!FailureRate(s) >= 25
           backlog == Exports!TotalBacklog
<1> HIDE DEF failing, backlog
<1>1. QED
  BY DEF Exports!CalculatePressure, Exports!Pressures, failing, backlog

\* Exports begin and end, and the guardian is made, looks and goes.
LEMMA ExportsInvNext == ExportsInv /\ [Exports!ExportsNext]_exportsState => ExportsInv'
<1> SUFFICES ASSUME ExportsInv, [Exports!ExportsNext]_exportsState PROVE ExportsInv'
  OBVIOUS
<1>m. MaxExports \in Nat
  BY EndpointsAssumption
<1>t. \A s \in Exports!Signals :
          /\ exports[s] \in Counts
          /\ exports[s].attempts \in Nat /\ exports[s].attempts <= MaxExports
          /\ exports[s].succeeded \in Nat /\ exports[s].failed \in Nat
          /\ exports[s].attempts - exports[s].succeeded - exports[s].failed >= 0
  BY <1>m DEF ExportsInv, Exports!ExportsTypeOK, Exports!UnderWay, Counts
<1>a. ASSUME NEW s \in Exports!Signals, NEW counts \in Counts,
             counts.attempts - counts.succeeded - counts.failed >= 0,
             exports' = [exports EXCEPT ![s] = counts],
             UNCHANGED <<telemetryMode, heapPercent, guardian, lastPressure>>
      PROVE  ExportsInv'
  <2>1. exports' \in [Exports!Signals -> Counts]
    BY <1>a DEF ExportsInv
  <2>2. \A r \in Exports!Signals : exports'[r] = IF r = s THEN counts ELSE exports[r]
    BY <1>a DEF ExportsInv
  <2>3. \A r \in Exports!Signals :
            Exports!UnderWay(r)' >= 0 /\ exports'[r].attempts \in 0..MaxExports
    BY <1>a, <2>2 DEF ExportsInv, Exports!ExportsTypeOK, Exports!UnderWay, Counts
  <2>4. QED
    BY <1>a, <2>1, <2>3 DEF ExportsInv, Exports!ExportsTypeOK
<1>b. ASSUME UNCHANGED exports, telemetryMode' \in {"off", "console", "otlp"},
             heapPercent' \in Exports!HeapLevels,
             guardian' \in [made : BOOLEAN, tracked : BOOLEAN, running : BOOLEAN],
             guardian'.running => guardian'.made /\ guardian'.tracked /\ telemetryMode' = "otlp",
             lastPressure' \in Exports!Pressures \cup {"none"}
      PROVE  ExportsInv'
  BY <1>b DEF ExportsInv, Exports!ExportsTypeOK, Exports!UnderWay
<1>c. /\ telemetryMode \in {"off", "console", "otlp"} /\ heapPercent \in Exports!HeapLevels
      /\ guardian \in [made : BOOLEAN, tracked : BOOLEAN, running : BOOLEAN]
      /\ guardian.running => guardian.made /\ guardian.tracked /\ telemetryMode = "otlp"
      /\ lastPressure \in Exports!Pressures \cup {"none"}
  BY DEF ExportsInv, Exports!ExportsTypeOK
<1>1. ASSUME NEW mode \in {"console", "otlp"}, Exports!InitializeTelemetry(mode)
      PROVE  ExportsInv'
  BY <1>1, <1>b, <1>c DEF Exports!InitializeTelemetry
<1>2. ASSUME NEW s \in Exports!Signals, Exports!BeginExport(s)
      PROVE  ExportsInv'
  <2> DEFINE counts == [exports[s] EXCEPT !.attempts = @ + 1]
  <2>1. counts \in Counts /\ counts.attempts - counts.succeeded - counts.failed >= 0
    <3>1. exports[s].attempts + 1 \in 0..MaxExports
      BY <1>2, <1>m, <1>t DEF Exports!BeginExport
    <3>2. counts \in Counts
      BY <1>t, <3>1 DEF Counts
    <3>3. /\ counts.attempts = exports[s].attempts + 1
          /\ counts.succeeded = exports[s].succeeded /\ counts.failed = exports[s].failed
      BY <1>t DEF Counts
    <3>4. QED
      BY <1>t, <3>2, <3>3
  <2>2. /\ exports' = [exports EXCEPT ![s] = counts]
        /\ UNCHANGED <<telemetryMode, heapPercent, guardian, lastPressure>>
    BY <1>2 DEF Exports!BeginExport
  <2> HIDE DEF counts
  <2>3. QED
    BY <1>a, <2>1, <2>2
<1>3. ASSUME NEW s \in Exports!Signals, NEW ok \in BOOLEAN, Exports!EndExport(s, ok)
      PROVE  ExportsInv'
  <2> DEFINE counts == IF ok THEN [exports[s] EXCEPT !.succeeded = @ + 1]
                       ELSE [exports[s] EXCEPT !.failed = @ + 1]
  <2>0. exports[s].attempts - exports[s].succeeded - exports[s].failed > 0
    BY <1>3 DEF Exports!EndExport, Exports!UnderWay
  <2>1. counts \in Counts /\ counts.attempts - counts.succeeded - counts.failed >= 0
    <3>1. exports[s].succeeded + 1 \in Nat /\ exports[s].failed + 1 \in Nat
      BY <1>t
    <3>2. counts \in Counts
      BY <1>t, <3>1 DEF Counts
    <3>3. /\ counts.attempts = exports[s].attempts
          /\ counts.succeeded = IF ok THEN exports[s].succeeded + 1 ELSE exports[s].succeeded
          /\ counts.failed = IF ok THEN exports[s].failed ELSE exports[s].failed + 1
      BY <1>t DEF Counts
    <3>4. QED
      BY <1>t, <2>0, <3>2, <3>3
  <2>2. /\ exports' = [exports EXCEPT ![s] = counts]
        /\ UNCHANGED <<telemetryMode, heapPercent, guardian, lastPressure>>
    BY <1>3 DEF Exports!EndExport
  <2> HIDE DEF counts
  <2>3. QED
    BY <1>a, <2>1, <2>2
<1>4. CASE Exports!CheckHealth
  BY <1>4, <1>b, <1>c, PressureIsOneOfFour DEF Exports!CheckHealth
<1>5. CASE Exports!GetTelemetryStatus
  BY <1>5, <1>b, <1>c, PressureIsOneOfFour DEF Exports!GetTelemetryStatus
<1>6. CASE Exports!ShutdownTelemetry
  BY <1>6, <1>b, <1>c DEF Exports!ShutdownTelemetry, Exports!NoGuardian
<1>7. CASE Exports!HeapChanges
  BY <1>7, <1>b, <1>c DEF Exports!HeapChanges
<1>8. CASE UNCHANGED exportsState
  BY <1>8, <1>b, <1>c DEF exportsState
<1>9. QED
  BY <1>1, <1>2, <1>3, <1>4, <1>5, <1>6, <1>7, <1>8 DEF Exports!ExportsNext

(***************************************************************************)
(* Types: the cache manager                                                *)
(***************************************************************************)

\* Nobody knows of a backend or a run that was never made, and a run that
\* connects has made the backend it connects.
KnownInv ==
    /\ backend <= Len(backends) /\ promise <= Len(initializations)
    /\ connected \subseteq 1..Len(backends)
    /\ \A u \in Users : user[u].on <= Len(backends) + Len(initializations)
    /\ \A i \in 1..Len(initializations) :
          /\ initializations[i].made <= Len(backends)
          /\ initializations[i].phase = "connecting" => initializations[i].made # 0

\* Nothing has been made.
LEMMA KnownInvInit == Manager!ManagerInit => KnownInv
BY DEF Manager!ManagerInit, Manager!Idle, Manager!At, KnownInv

\* A user takes up what there is, and references are dropped.
LEMMA NothingNewIsKnown ==
    ASSUME ManagerTypes, KnownInv, UNCHANGED <<backends, initializations>>,
           backend' \in {0, backend}, promise' \in {0, promise}, connected' \subseteq connected,
           NEW u \in Users, NEW on \in Nat, on <= Len(backends) \/ on <= Len(initializations),
           UNCHANGED user \/ \E pc : user' = [user EXCEPT ![u] = Manager!At(pc, on)]
    PROVE  KnownInv'
<1>1. Len(backends) \in Nat /\ Len(initializations) \in Nat
  BY DEF ManagerTypes
<1>2. \A v \in Users : user'[v] = user[v] \/ user'[v].on = on
  BY DEF ManagerTypes, Manager!At
<1>3. \A v \in Users : user'[v].on <= Len(backends) + Len(initializations)
  BY <1>1, <1>2 DEF KnownInv
<1>4. backend' <= Len(backends) /\ promise' <= Len(initializations)
  BY <1>1 DEF KnownInv
<1>5. QED
  BY <1>3, <1>4 DEF KnownInv

\* A run is started, which its user waits for.
LEMMA NewRunIsKnown ==
    ASSUME ManagerTypes, KnownInv, NEW u \in Users, NEW pc \in {"owns", "makes"},
           Manager!StartInitialize(u, pc), strategy' \in Manager!Strategies,
           UNCHANGED backends, backend' \in {0, backend}, connected' \subseteq connected
    PROVE  KnownInv'
<1> DEFINE run == [phase |-> "creating", strategy |-> strategy', made |-> 0]
<1>1. /\ Len(backends) \in Nat /\ Len(initializations) \in Nat
      /\ initializations \in Seq(Runs)
  BY DEF ManagerTypes
<1>2. run \in Runs /\ run.phase = "creating" /\ run.made = 0
  BY DEF Runs
<1>3. initializations' = Append(initializations, run)
  BY DEF Manager!StartInitialize
<1> HIDE DEF run
<1>4. /\ Len(initializations') = Len(initializations) + 1
      /\ \A i \in 1..Len(initializations') :
            \/ initializations'[i] = run
            \/ i \in 1..Len(initializations) /\ initializations'[i] = initializations[i]
  BY <1>1, <1>2, <1>3
<1>5. /\ promise' = Len(initializations) + 1
      /\ user' = [user EXCEPT ![u] = [pc |-> pc, on |-> Len(initializations) + 1]]
  BY StartingARun
<1>6. \A v \in Users : user'[v] = user[v] \/ user'[v].on = Len(initializations) + 1
  BY <1>5 DEF ManagerTypes
<1>7. \A v \in Users : user[v].on \in Nat
  BY DEF ManagerTypes, Positions
<1>8. \A v \in Users : user'[v].on <= Len(backends) + Len(initializations')
  BY <1>1, <1>4, <1>6, <1>7 DEF KnownInv
<1>9. \A i \in 1..Len(initializations') :
          /\ initializations'[i].made <= Len(backends)
          /\ initializations'[i].phase = "connecting" => initializations'[i].made # 0
  BY <1>1, <1>2, <1>4 DEF KnownInv
<1>10. backend' <= Len(backends) /\ promise' <= Len(initializations')
  BY <1>1, <1>4, <1>5 DEF KnownInv
<1>11. QED
  BY <1>8, <1>9, <1>10 DEF KnownInv

\* A run makes a backend: the one it connects, or the memory it falls back to.
LEMMA NewBackendIsKnown ==
    ASSUME ManagerTypes, KnownInv, NEW i \in DOMAIN initializations,
           Manager!CreateBackend(i) \/ Manager!FallBackToMemory(i)
    PROVE  KnownInv'
<1>0. /\ initializations[i] \in Runs /\ i \in 1..Len(initializations)
      /\ Len(initializations) \in Nat /\ Len(backends) \in Nat
      /\ backends \in Seq(Manager!Strategies) /\ initializations \in Seq(Runs)
  BY DEF ManagerTypes
<1>1. /\ UNCHANGED <<connected, promise, user>> /\ backend' = Len(backends')
      /\ \E kind : backends' = Append(backends, kind)
      /\ \/ initializations' = [initializations EXCEPT ![i].phase = "connecting",
                                                       ![i].made = Len(backends')]
         \/ initializations' = [initializations EXCEPT ![i].phase = "done"]
  BY DEF Manager!CreateBackend, Manager!FallBackToMemory
<1>2. Len(backends') = Len(backends) + 1
  BY <1>0, <1>1
<1>3. PICK new \in Runs :
          /\ initializations' = [initializations EXCEPT ![i] = new]
          /\ \/ new.made = Len(backends')
             \/ new.made = initializations[i].made /\ new.phase = "done"
  <2> DEFINE connects == [initializations[i] EXCEPT !.phase = "connecting", !.made = Len(backends')]
             done == [initializations[i] EXCEPT !.phase = "done"]
  <2>0. Len(backends') \in Nat
    BY <1>0, <1>2
  <2>1. connects \in Runs /\ connects.made = Len(backends')
    BY <1>0, <2>0 DEF Runs
  <2>2. done \in Runs /\ done.made = initializations[i].made /\ done.phase = "done"
    BY <1>0 DEF Runs
  <2>3. \/ initializations' = [initializations EXCEPT ![i] = connects]
        \/ initializations' = [initializations EXCEPT ![i] = done]
    BY <1>0, <1>1
  <2> HIDE DEF connects, done
  <2>4. QED
    BY <2>1, <2>2, <2>3
<1>4. /\ Len(initializations') = Len(initializations) /\ initializations'[i] = new
      /\ \A j \in 1..Len(initializations) :
            j # i => initializations'[j] = initializations[j]
  BY <1>0, <1>3
<1>5. \A j \in 1..Len(initializations) :
          /\ initializations[j].made \in Nat
          /\ initializations'[j].made <= Len(backends')
          /\ initializations'[j].phase = "connecting" => initializations'[j].made # 0
  <2> TAKE j \in 1..Len(initializations)
  <2>0. initializations[j] \in Runs
    BY <1>0
  <2>1. initializations[j].made \in Nat
    BY <2>0 DEF Runs
  <2>2. CASE j # i
    BY <1>0, <1>2, <1>4, <2>1, <2>2 DEF KnownInv
  <2>3. CASE j = i
    <3>1. initializations[i].made <= Len(backends)
      BY <1>0 DEF KnownInv
    <3>2. QED
      BY <1>0, <1>2, <1>3, <1>4, <2>1, <2>3, <3>1
  <2>4. QED
    BY <2>2, <2>3
<1>6. \A u \in Users : user[u].on \in Nat
  BY DEF ManagerTypes, Positions
<1>7. QED
  BY <1>0, <1>1, <1>2, <1>5, <1>6, <1>4 DEF KnownInv

\* What is connected is what the run has made.
LEMMA ConnectingIsKnown ==
    ASSUME ManagerTypes, KnownInv, NEW i \in DOMAIN initializations, NEW ok \in BOOLEAN,
           Manager!BackendConnects(i, ok)
    PROVE  KnownInv'
<1>0. /\ initializations[i] \in Runs /\ i \in 1..Len(initializations)
      /\ initializations \in Seq(Runs)
      /\ Len(initializations) \in Nat /\ Len(backends) \in Nat
  BY DEF ManagerTypes
<1>m. initializations[i].made \in Nat
  BY <1>0 DEF Runs
<1>1. /\ UNCHANGED <<backends, backend, promise, user>>
      /\ initializations[i].phase = "connecting"
      /\ connected' \subseteq connected \cup {initializations[i].made}
      /\ \E phase \in {"done", "fallingBack", "failed"} :
            initializations' = [initializations EXCEPT ![i].phase = phase]
  BY DEF Manager!BackendConnects
<1>2. initializations[i].made \in 1..Len(backends)
  BY <1>0, <1>1, <1>m DEF KnownInv
<1>3. /\ Len(initializations') = Len(initializations)
      /\ \A j \in 1..Len(initializations) :
            \/ initializations'[j] = initializations[j]
            \/ /\ initializations'[j].made = initializations[j].made
               /\ initializations'[j].phase # "connecting"
  BY <1>0, <1>1 DEF Runs
<1>4. QED
  BY <1>1, <1>2, <1>3 DEF KnownInv

\* The users, the runs and the factory keep to what has been made.
LEMMA KnownInvNext ==
    ManagerInv /\ KnownInv /\ [Manager!ManagerNext]_managerState => KnownInv'
<1> SUFFICES ASSUME ManagerInv, KnownInv, [Manager!ManagerNext]_managerState
             PROVE  KnownInv'
  OBVIOUS
<1>0. /\ ManagerTypes /\ backend \in Nat /\ promise \in Nat /\ 0 \in Nat
      /\ backend <= Len(backends) /\ promise <= Len(initializations)
      /\ 0 <= Len(backends) /\ strategy \in Manager!Strategies
  BY DEF ManagerInv, ManagerTypes, KnownInv
<1>1. ASSUME NEW u \in Users, Manager!Use(u)
      PROVE  KnownInv'
  <2>1. UNCHANGED <<strategy, backends, backend, connected>> /\ Manager!EnsureInitialized(u)
    BY <1>1 DEF Manager!Use
  <2>2. CASE /\ user' = [user EXCEPT ![u] = Manager!At("using", backend)]
             /\ UNCHANGED <<initializations, promise>>
    BY <1>0, <2>1, <2>2, NothingNewIsKnown
  <2>3. CASE /\ user' = [user EXCEPT ![u] = Manager!At("waits", promise)]
             /\ UNCHANGED <<initializations, promise>>
    BY <1>0, <2>1, <2>3, NothingNewIsKnown
  <2>4. CASE Manager!StartInitialize(u, "owns")
    BY <1>0, <2>1, <2>4, NewRunIsKnown
  <2>5. QED
    BY <2>1, <2>2, <2>3, <2>4 DEF Manager!EnsureInitialized
<1>2. ASSUME NEW u \in Users, Manager!InitializationSettles(u)
      PROVE  KnownInv'
  <2>1. /\ UNCHANGED <<backends, backend, connected, initializations>>
        /\ promise' \in {0, promise}
        /\ \E on \in {0, backend} : \E pc : user' = [user EXCEPT ![u] = Manager!At(pc, on)]
    BY <1>2 DEF Manager!InitializationSettles, Manager!Idle
  <2>2. QED
    BY <1>0, <2>1, NothingNewIsKnown
<1>3. ASSUME NEW u \in Users, Manager!OperationEnds(u)
      PROVE  KnownInv'
  <2>1. /\ UNCHANGED <<backends, backend, connected, initializations, promise>>
        /\ user' = [user EXCEPT ![u] = Manager!At("idle", 0)]
    BY <1>3 DEF Manager!OperationEnds, Manager!Idle
  <2>2. QED
    BY <1>0, <2>1, NothingNewIsKnown
<1>4. ASSUME NEW u \in Users, NEW pc, Manager!StartShutdown(u, pc)
      PROVE  KnownInv'
  <2>1. /\ UNCHANGED <<backends, backend, connected, initializations, promise>>
        /\ user' = [user EXCEPT ![u] = Manager!At(pc, backend)]
    BY <1>4 DEF Manager!StartShutdown
  <2>2. QED
    BY <1>0, <2>1, NothingNewIsKnown
<1>5. ASSUME NEW u \in Users, Manager!Disconnected(u)
      PROVE  KnownInv'
  <2>1. UNCHANGED backends /\ backend' = 0 /\ connected' \subseteq connected
    BY <1>5 DEF Manager!Disconnected
  <2>2. CASE user[u].pc = "shutsDown"
    <3>1. /\ UNCHANGED initializations /\ promise' = 0
          /\ user' = [user EXCEPT ![u] = Manager!At("idle", 0)]
      BY <1>5, <2>2 DEF Manager!Disconnected, Manager!Idle
    <3>2. QED
      BY <1>0, <2>1, <3>1, NothingNewIsKnown
  <2>3. CASE user[u].pc # "shutsDown"
    <3>1. strategy' \in Manager!Strategies /\ Manager!StartInitialize(u, "owns")
      BY <1>5, <2>3 DEF Manager!Disconnected
    <3>2. QED
      BY <1>0, <2>1, <3>1, NewRunIsKnown
  <2>4. QED
    BY <2>2, <2>3
<1>6. ASSUME NEW u \in Users, Manager!CreateKongCache(u)
      PROVE  KnownInv'
  <2>1. UNCHANGED <<backends, backend, connected>>
    BY <1>6 DEF Manager!CreateKongCache
  <2>2. CASE factoryPromise
    <3>1. /\ UNCHANGED <<initializations, promise>>
          /\ user' = [user EXCEPT ![u] = Manager!At("awaitsFactory", 0)]
      BY <1>6, <2>2 DEF Manager!CreateKongCache
    <3>2. QED
      BY <1>0, <2>1, <3>1, NothingNewIsKnown
  <2>3. CASE ~factoryPromise
    <3>1. UNCHANGED strategy /\ Manager!StartInitialize(u, "makes")
      BY <1>6, <2>3 DEF Manager!CreateKongCache, Manager!InitializeCache
    <3>2. QED
      BY <1>0, <2>1, <3>1, NewRunIsKnown
  <2>4. QED
    BY <2>2, <2>3
<1>7. ASSUME NEW u \in Users, Manager!ManagerPublished(u) \/ Manager!FactorySettles(u)
      PROVE  KnownInv'
  <2>1. /\ UNCHANGED <<backends, backend, connected, initializations>>
        /\ promise' \in {0, promise}
        /\ user' = [user EXCEPT ![u] = Manager!At("idle", 0)]
    BY <1>7 DEF Manager!ManagerPublished, Manager!FactorySettles, Manager!Idle
  <2>2. QED
    BY <1>0, <2>1, NothingNewIsKnown
<1>8. ASSUME NEW u \in Users, NEW wanted \in Manager!Strategies, Manager!KeepBackend(u, wanted)
      PROVE  KnownInv'
  BY <1>8 DEF Manager!KeepBackend, KnownInv
<1>9. ASSUME NEW i \in DOMAIN initializations,
             \/ Manager!CreateBackend(i) \/ Manager!FallBackToMemory(i)
             \/ \E ok \in BOOLEAN : Manager!BackendConnects(i, ok)
      PROVE  KnownInv'
  BY <1>0, <1>9, NewBackendIsKnown, ConnectingIsKnown
<1>10. CASE UNCHANGED managerState
  BY <1>10 DEF managerState, KnownInv
<1>11. QED
  BY <1>1, <1>2, <1>3, <1>4, <1>5, <1>6, <1>7, <1>8, <1>9, <1>10
     DEF Manager!ManagerNext, Manager!Reconfigure

\* Together with the invariant of the one cache these are the types.
LEMMA CacheManagerTypes == ManagerInv /\ KnownInv => Manager!ManagerTypeOK
<1> SUFFICES ASSUME ManagerInv, KnownInv PROVE Manager!ManagerTypeOK
  OBVIOUS
<1>1. ManagerTypes /\ Len(backends) \in Nat /\ Len(initializations) \in Nat
  BY DEF ManagerInv, ManagerTypes
<1>2. backend \in 0..Len(backends) /\ promise \in 0..Len(initializations)
  BY <1>1 DEF ManagerTypes, KnownInv
<1>3. user \in [Users -> [pc : {"idle", "owns", "waits", "using", "shutsDown",
                                "awaitsFactory", "makes"} \cup Manager!Strategies,
                          on : 0..Len(backends) + Len(initializations)]]
  BY <1>1 DEF ManagerTypes, KnownInv, Positions
<1>4. QED
  BY <1>1, <1>2, <1>3 DEF ManagerTypes, KnownInv, Manager!ManagerTypeOK

(***************************************************************************)
(* Types: the configuration                                                *)
(***************************************************************************)

\* The environment is one that was looked at; what is remembered was merged
\* from one and has passed the schema; the proxy's copy is the same one.
ConfigurationInv ==
    /\ environment \in Configuration!Environments
    /\ \A config \in cachedConfig :
          \E env : /\ config = Configuration!Merged(env)
                   /\ Configuration!AppConfigSchemaAccepts(config)
    /\ proxyConfig # {} => proxyConfig = cachedConfig
    /\ startRefused \in BOOLEAN

\* The environments a process may be changed to are among those looked at.
LEMMA ChangedEnvironments ==
    {Configuration!Required, Configuration!With("PORT", 1)} \subseteq Configuration!Environments
<1>1. Configuration!With("PORT", 1) \in Configuration!Environments
  <2>1. "PORT" \in Configuration!Numbers
    BY DEF Configuration!Numbers, Configuration!DefaultNumbers
  <2>2. Configuration!EnvRange["PORT"] = <<1, 65535>> /\ "PORT" \in DOMAIN Configuration!EnvRange
    BY DEF Configuration!EnvRange
  <2>3. 1 \in Configuration!Boundaries("PORT")
    BY <2>2 DEF Configuration!Boundaries
  <2> DEFINE one(n) == {Configuration!With(n, value) : value \in Configuration!Boundaries(n)}
  <2>4. Configuration!With("PORT", 1) \in one("PORT")
    BY <2>3, Zenon
  <2>5. one("PORT") \in {one(n) : n \in Configuration!Numbers}
    BY <2>1, Zenon
  <2>6. Configuration!With("PORT", 1) \in UNION {one(n) : n \in Configuration!Numbers}
    BY <2>4, <2>5, Zenon
  <2> HIDE DEF one
  <2>7. UNION {one(n) : n \in Configuration!Numbers} \subseteq Configuration!Environments
    BY DEF Configuration!Environments, one
  <2>8. QED
    BY <2>6, <2>7
<1>2. Configuration!Required \in Configuration!Environments
  <2> DEFINE unset == [NODE_ENV |-> "unset", KONG_MODE |-> "unset", KONG_ADMIN_TOKEN |-> "unset",
                       KONG_ADMIN_URL |-> "unset", OTEL_SERVICE_NAME |-> "unset"]
  <2>1. unset \in Configuration!KongTexts
    BY DEF Configuration!KongTexts
  <2>2. \A n \in DOMAIN unset : unset[n] = "unset"
    OBVIOUS
  <2> HIDE DEF unset
  <2>3. DOMAIN Configuration!ThoseSet(unset) = {}
    BY <2>2 DEF Configuration!ThoseSet, Configuration!SetOf
  <2>4. Configuration!Required
            = [n \in DOMAIN Configuration!Required |-> Configuration!Required[n]]
    BY DEF Configuration!Required
  <2>5. Configuration!Spread(Configuration!Required, Configuration!ThoseSet(unset))
            = Configuration!Required
    BY <2>3, <2>4 DEF Configuration!Spread
  <2>6. unset \in Configuration!KongTexts \cup Configuration!OtherTexts
    BY <2>1, Zenon
  <2>7. Configuration!Spread(Configuration!Required, Configuration!ThoseSet(unset))
            \in {Configuration!Spread(Configuration!Required, Configuration!ThoseSet(texts)) :
                    texts \in Configuration!KongTexts \cup Configuration!OtherTexts}
    BY <2>6, Zenon
  <2> DEFINE those == {Configuration!Spread(Configuration!Required, Configuration!ThoseSet(texts)) :
                            texts \in Configuration!KongTexts \cup Configuration!OtherTexts}
  <2>8. those \subseteq Configuration!Environments
    BY DEF Configuration!Environments
  <2>9. QED
    BY <2>5, <2>7, <2>8
<1>3. QED
  BY <1>1, <1>2

\* Every switch of the merged configuration is on or off, whatever the
\* environment says or leaves out.
LEMMA SwitchesAreSwitches ==
    ASSUME NEW env
    PROVE  Configuration!Merged(env).switches \in [Configuration!Switches -> BOOLEAN]
<1> DEFINE given == Configuration!GivenSwitches(env)
<1>1. Configuration!Merged(env).switches
          = Configuration!Spread(Configuration!DefaultSwitches, given)
  BY DEF Configuration!Merged
<1>2. DOMAIN given = Configuration!Switches
  BY DEF Configuration!GivenSwitches
<1>3. ASSUME NEW s \in Configuration!Switches
      PROVE  given[s] \in BOOLEAN
  <2>1. (Configuration!Text(env, s, "") = "true") \in BOOLEAN
    BY Zenon
  <2>2. ASSUME NEW fallback \in BOOLEAN
        PROVE  Configuration!ToBool(env, s, fallback) \in BOOLEAN
    <3>1. (env[s] \in {"true", "yes"}) \in BOOLEAN
      OBVIOUS
    <3>2. QED
      BY <3>1, Zenon DEF Configuration!ToBool
  <2>3. \/ given[s] = (Configuration!Text(env, s, "") = "true")
        \/ \E fallback \in BOOLEAN : given[s] = Configuration!ToBool(env, s, fallback)
    BY DEF Configuration!GivenSwitches, Configuration!NoFallback,
           Configuration!Switches, Configuration!DefaultOn, Configuration!DefaultOff
  <2> HIDE DEF given
  <2>4. QED
    BY <2>1, <2>2, <2>3, Zenon
<1>4. DOMAIN Configuration!DefaultSwitches = Configuration!Switches
  BY DEF Configuration!DefaultSwitches
<1> HIDE DEF given
<1>5. QED
  BY <1>1, <1>2, <1>3, <1>4 DEF Configuration!Spread

\* Nothing is loaded.
LEMMA ConfigurationInvInit == Configuration!ConfigurationInit => ConfigurationInv
BY DEF Configuration!ConfigurationInit, ConfigurationInv

\* What is loaded has passed the schema, or was loaded already.
LEMMA CurrentIsAccepted ==
    ASSUME ConfigurationInv, NEW config \in Configuration!Current
    PROVE  \E env : /\ config = Configuration!Merged(env)
                    /\ Configuration!AppConfigSchemaAccepts(config)
<1>1. CASE cachedConfig # {}
  BY <1>1 DEF Configuration!Current, ConfigurationInv
<1>2. CASE cachedConfig = {}
  BY <1>2 DEF Configuration!Current, Configuration!InitializeConfig
<1>3. QED
  BY <1>1, <1>2

\* Loading, reading through the proxy, resetting and changes of the
\* environment keep the copies equal and conforming.
LEMMA ConfigurationInvNext ==
    ConfigurationInv /\ [Configuration!ConfigurationNext]_configurationState => ConfigurationInv'
<1> SUFFICES ASSUME ConfigurationInv,
                    [Configuration!ConfigurationNext]_configurationState
             PROVE  ConfigurationInv'
  OBVIOUS
<1>1. CASE Configuration!GetConfig
  <2>1. /\ cachedConfig' = Configuration!Current /\ UNCHANGED <<environment, proxyConfig>>
        /\ startRefused' \in BOOLEAN
    BY <1>1 DEF Configuration!GetConfig, Configuration!Load
  <2>2. cachedConfig # {} => Configuration!Current = cachedConfig
    BY DEF Configuration!Current
  <2>3. proxyConfig # {} => cachedConfig # {} /\ proxyConfig = cachedConfig
    BY DEF ConfigurationInv
  <2>4. environment \in Configuration!Environments
    BY DEF ConfigurationInv
  <2>5. QED
    BY <2>1, <2>2, <2>3, <2>4, CurrentIsAccepted DEF ConfigurationInv
<1>2. CASE Configuration!ReadProxy
  <2>1. /\ cachedConfig' = Configuration!Current /\ proxyConfig' = Configuration!Current
        /\ UNCHANGED environment /\ startRefused' \in BOOLEAN
    BY <1>2 DEF Configuration!ReadProxy, Configuration!Load
  <2>2. environment \in Configuration!Environments
    BY DEF ConfigurationInv
  <2>3. QED
    BY <2>1, <2>2, CurrentIsAccepted DEF ConfigurationInv
<1>3. CASE Configuration!ResetConfigCache
  BY <1>3 DEF Configuration!ResetConfigCache, ConfigurationInv
<1>4. CASE Configuration!ChangeEnvironment
  BY <1>4, ChangedEnvironments DEF Configuration!ChangeEnvironment, ConfigurationInv
<1>5. CASE UNCHANGED configurationState
  BY <1>5 DEF configurationState, ConfigurationInv
<1>6. QED
  BY <1>1, <1>2, <1>3, <1>4, <1>5 DEF Configuration!ConfigurationNext

\* A merged configuration has its switches, so the invariant says what the
\* types ask for.
LEMMA ConfigurationTypes == ConfigurationInv => Configuration!ConfigurationTypeOK
BY SwitchesAreSwitches, Zenon DEF ConfigurationInv, Configuration!ConfigurationTypeOK

(***************************************************************************)
(* Types: the composition                                                  *)
(***************************************************************************)

\* A step of the composition is one of each component or leaves it alone.
LEMMA ComponentSteps ==
    [Next]_vars =>
        /\ [OnDemand!Next]_onDemandState
        /\ [Routing!ExchangesNext]_routingState
        /\ [Document!DocumentNext]_documentState
        /\ [KeyspaceNext]_keyspaceVars
        /\ [TrackerNext]_trackerVars
        /\ [CreationNext]_creationVars
        /\ [ExportBreakerNext]_exportBreakerVars
        /\ [Exports!ExportsNext]_exportsState
        /\ [LabelsNext]_labelVars
        /\ [Configuration!ConfigurationNext]_configurationState
<1> SUFFICES ASSUME [Next]_vars
             PROVE  /\ [OnDemand!Next]_onDemandState
                    /\ [Routing!ExchangesNext]_routingState
                    /\ [Document!DocumentNext]_documentState
                    /\ [KeyspaceNext]_keyspaceVars
                    /\ [TrackerNext]_trackerVars
                    /\ [CreationNext]_creationVars
                    /\ [ExportBreakerNext]_exportBreakerVars
                    /\ [Exports!ExportsNext]_exportsState
                    /\ [LabelsNext]_labelVars
                    /\ [Configuration!ConfigurationNext]_configurationState
  OBVIOUS
<1>0. [OnDemand!Next]_onDemandState /\ [Routing!ExchangesNext]_routingState
  BY DEF Next, Only, vars
<1>1. [Document!DocumentNext]_documentState
  BY DEF Next, Only, vars
<1>2. [KeyspaceNext]_keyspaceVars /\ [TrackerNext]_trackerVars
  BY DEF Next, Only, vars
<1>3. [CreationNext]_creationVars /\ [ExportBreakerNext]_exportBreakerVars
  BY DEF Next, Only, vars
<1>4. [Exports!ExportsNext]_exportsState /\ [LabelsNext]_labelVars
  BY DEF Next, Only, vars
<1>5. [Configuration!ConfigurationNext]_configurationState
  BY DEF Next, Only, vars
<1>6. QED
  BY <1>0, <1>1, <1>2, <1>3, <1>4, <1>5

\* What each component's types rest on.
ComponentsInv ==
    /\ Profiling!TypeOK
    /\ SessionsInv
    /\ TokensTypes
    /\ HealthInv /\ HealthAnswers
    /\ MetricsInv
    /\ ExchangesInv /\ DocumentInv
    /\ ManagerInv /\ KnownInv
    /\ KeyspaceInv /\ KeyspaceBounds
    /\ TrackerTypeOK
    /\ CreationInv /\ RealmTypes
    /\ ExportBreakerInv
    /\ ExportsInv
    /\ LabelsInv /\ LabelCounts
    /\ ConfigurationInv

\* Each component starts in its invariant.
LEMMA ComponentsInvInit == Init => ComponentsInv
BY ProfilingTypesInit, SessionsInvInit, TokensTypesInit, HealthInvInit, HealthAnswersInit,
   MetricsInvInit, ExchangesInvInit, DocumentInvInit, ManagerInvInit, KnownInvInit,
   KeyspaceInvInit, KeyspaceBoundsInit, TrackerTypesInit, CreationInvInit, RealmTypesInit,
   ExportBreakerInvInit, ExportsInvInit, LabelsInvInit, LabelCountsInit, ConfigurationInvInit,
   Zenon DEF Init, ComponentsInv

\* Each component keeps its own, by its steps and by those of the others.
LEMMA ComponentsInvNext == ComponentsInv /\ [Next]_vars => ComponentsInv'
<1> SUFFICES ASSUME ComponentsInv, [Next]_vars
             PROVE  ComponentsInv'
  OBVIOUS
<1>1. Profiling!TypeOK' /\ SessionsInv' /\ TokensTypes'
  BY ProfilingSteps, ProfilingTypesNext, ComponentSteps, SessionsInvNext, TokensSteps,
     TokensTypesNext, Zenon DEF ComponentsInv
<1>2. HealthInv' /\ HealthAnswers' /\ MetricsInv' /\ ExchangesInv' /\ DocumentInv'
  BY HealthSteps, HealthInvNext, HealthAnswersNext, MetricsSteps, MetricsInvNext,
     ComponentSteps, ExchangesInvNext, DocumentInvNext, Zenon DEF ComponentsInv
<1>3. ManagerInv' /\ KnownInv'
  BY ManagerSteps, ManagerInvNext, KnownInvNext, Zenon DEF ComponentsInv
<1>4. KeyspaceInv' /\ KeyspaceBounds' /\ TrackerTypeOK' /\ CreationInv' /\ RealmTypes'
  BY ComponentSteps, KeyspaceInvNext, KeyspaceBoundsNext, TrackerTypesNext, CreationInvNext,
     RealmTypesNext, Zenon DEF ComponentsInv
<1>5. ExportBreakerInv' /\ ExportsInv' /\ LabelsInv' /\ LabelCounts' /\ ConfigurationInv'
  BY ComponentSteps, ExportBreakerInvNext, ExportsInvNext, LabelsInvNext, LabelCountsNext,
     ConfigurationInvNext, Zenon DEF ComponentsInv
<1>6. QED
  BY <1>1, <1>2, <1>3, <1>4, <1>5, Zenon DEF ComponentsInv

\* For every value of the constants: the variables of every component stay
\* in their types and bounds, and with them what the types say beyond: a
\* sweep finds only keys of its pattern, no bucket is used below the limit,
\* the proxy reads what the getters return.
THEOREM EveryComponentKeepsItsTypes == Spec => []TypeOK
<1>1. ComponentsInv => TypeOK
  <2> SUFFICES ASSUME ComponentsInv
               PROVE  TypeOK
    OBVIOUS
  <2>1. Profiling!TypeOK /\ OnDemand!TypeOK /\ Tokens!TypeOK
    BY SessionsInvTypes, Zenon DEF ComponentsInv, TokensTypes
  <2>2. /\ Health!TypeOK /\ Metrics!MetricsTypeOK
        /\ Routing!ExchangesTypeOK /\ Document!DocumentTypeOK
    BY HealthTypes, MetricsTypes, ExchangesTypes, Zenon DEF ComponentsInv, DocumentInv
  <2>3. Manager!ManagerTypeOK /\ KeyspaceTypeOK /\ TrackerTypeOK
    BY CacheManagerTypes, KeyspaceTypes, Zenon DEF ComponentsInv
  <2>4. CreationTypeOK /\ ExportBreakerTypeOK /\ Exports!ExportsTypeOK
    BY CreationTypes, Zenon DEF ComponentsInv, ExportBreakerInv, ExportsInv
  <2>5. LabelsTypeOK /\ Configuration!ConfigurationTypeOK
    BY LabelsTypes, ConfigurationTypes, Zenon DEF ComponentsInv
  <2>6. QED
    BY <2>1, <2>2, <2>3, <2>4, <2>5, Zenon DEF TypeOK
<1>2. QED
  BY <1>1, ComponentsInvInit, ComponentsInvNext, PTL DEF Spec

(***************************************************************************)
(* Answers a client can go by                                              *)
(***************************************************************************)

\* For any readers and deployments: a client that is told its copy of the
\* document is current holds the current document in the format it asked
\* for, and one that goes by an Allow header or by the document is answered.
THEOREM NobodyIsMisled == Spec => []ClientsAreNotMisled
<1>1. Init => DocumentInv /\ ExchangesInv
  BY DocumentInvInit, ExchangesInvInit DEF Init
<1>2. DocumentInv /\ ExchangesInv /\ [Next]_vars => (DocumentInv /\ ExchangesInv)'
  BY ComponentSteps, DocumentInvNext, ExchangesInvNext
<1>3. DocumentInv /\ ExchangesInv => ClientsAreNotMisled
  BY DEF DocumentInv, ExchangesInv, ClientsAreNotMisled
<1>4. QED
  BY <1>1, <1>2, <1>3, PTL DEF Spec
=============================================================================
