----------------------------- MODULE TokenRequests -----------------------------
(***************************************************************************)
(* GET /tokens and GET /tokens/validate.                                   *)
(*                                                                         *)
(*   src/handlers/tokens.ts        handleTokenRequest, handleTokenValidation *)
(*   src/services/jwt.service.ts   createToken, validateToken              *)
(*                                                                         *)
(* Replicas answer requests, each by its own clock, which may run ahead of *)
(* the true time by up to Skew.  Between the answer to a handler's lookup  *)
(* of the secret and the use of it secrets rotate and clocks run.  One     *)
(* request is followed at a time (requests meet only in the caches, the    *)
(* subject of ConsumerSecrets) and one token, the last one given out.  A   *)
(* token is its claims and the secret it is signed with; HMAC is perfect.  *)
(***************************************************************************)
EXTENDS HttpErrors

CONSTANTS
    Consumers,
    Replicas,
    Lifetime,           \* config.jwt.expirationMinutes, in ticks
    Skew,               \* how far a clock may run ahead, in ticks
    MaxTime,            \* bounds the true time
    MaxSecret           \* bounds the rotations of a consumer

VARIABLES
    time,               \* the true time
    ahead,              \* [Replicas -> 0..Skew], changed when clocks are adjusted
    secret,             \* [Consumers -> its secret in Kong], 0 when it has none
    lastToken,          \* the last token given out
    tokenCall,          \* the request in progress
    tokenAnswer         \* the answer just given, and what it was given for

tokenVars == <<time, ahead, secret, lastToken, tokenCall, tokenAnswer>>

\* What a client may send as Authorization: nothing, an empty bearer token,
\* something that none of our secrets signed, or the token it was given.
Junk == {[kind |-> k] : k \in {"none", "empty", "forged"}}
Tokens == [kind : {"token"}, owner : Consumers, secret : 1..MaxSecret,
           made : 1..MaxTime, nbf : 1..(MaxTime + Skew), exp : 1..(MaxTime + Skew + Lifetime)]
NoToken == [kind |-> "none"]

\* The headers Kong adds name a consumer, or are at fault.
Headers == Consumers \cup {"missing", "too long", "anonymous"}
NoCall == [kind |-> "idle"]

Init ==
    /\ time = 1
    /\ ahead = [r \in Replicas |-> 0]
    /\ secret = [c \in Consumers |-> 1]
    /\ lastToken = NoToken
    /\ tokenCall = NoCall
    /\ tokenAnswer = NoCall

\* validateKongHeaders
HeaderError(headers) ==
    CASE headers = "missing" -> "AUTH_001"
      [] headers = "too long" -> "AUTH_007"
      [] headers = "anonymous" -> "AUTH_009"

Now(r) == time + ahead[r]

Answered(call, response) ==
    /\ tokenCall' = NoCall
    /\ tokenAnswer' = [kind |-> call.kind, consumer |-> call.consumer, token |-> call.token,
                       secret |-> call.secret, response |-> response]

NoAnswer == tokenAnswer' = NoCall
Await(call) == tokenCall' = call /\ NoAnswer

(***************************************************************************)
(* The handlers up to the lookup of the secret                             *)
(***************************************************************************)
HandleTokenRequest(headers, r) ==
    LET call == [kind |-> "issue", consumer |-> headers, replica |-> r, token |-> NoToken,
                 secret |-> 0]
    IN  /\ tokenCall = NoCall
        /\ IF headers \in Consumers THEN Await(call)
           ELSE Answered(call, ErrorResponse(HeaderError(headers)))
        /\ UNCHANGED <<time, ahead, secret, lastToken>>

\* The Authorization header is looked at before those of Kong.
HandleTokenValidation(headers, r, token) ==
    LET call == [kind |-> "validate", consumer |-> headers, replica |-> r, token |-> token,
                 secret |-> 0]
    IN  /\ tokenCall = NoCall
        /\ CASE token.kind = "none" -> Answered(call, ErrorResponse("AUTH_012"))
             [] token.kind = "empty" -> Answered(call, ErrorResponse("AUTH_011"))
             [] token.kind \notin {"none", "empty"} /\ headers \notin Consumers ->
                    Answered(call, ErrorResponse(HeaderError(headers)))
             [] OTHER -> Await(call)
        /\ UNCHANGED <<time, ahead, secret, lastToken>>

(***************************************************************************)
(* lookupConsumerSecret                                                    *)
(***************************************************************************)
SecretFound ==
    /\ tokenCall # NoCall /\ tokenCall.secret = 0
    /\ secret[tokenCall.consumer] > 0
    /\ Await([tokenCall EXCEPT !.secret = secret[tokenCall.consumer]])
    /\ UNCHANGED <<time, ahead, secret, lastToken>>

\* Null: no credential, or Kong is unavailable and nothing stale is held.
NoSecret ==
    /\ tokenCall # NoCall /\ tokenCall.secret = 0
    /\ Answered(tokenCall, ErrorResponse("AUTH_002"))
    /\ UNCHANGED <<time, ahead, secret, lastToken>>

\* The lookup throws: 503 when issuing; validation has no handler of its
\* own for it.
LookupFails ==
    /\ tokenCall # NoCall /\ tokenCall.secret = 0
    /\ Answered(tokenCall, ErrorResponse(IF tokenCall.kind = "issue" THEN "AUTH_004"
                                         ELSE "AUTH_008"))
    /\ UNCHANGED <<time, ahead, secret, lastToken>>

(***************************************************************************)
(* createToken and validateToken                                           *)
(***************************************************************************)
CreateToken(call) ==
    [kind |-> "token", owner |-> call.consumer, secret |-> call.secret, made |-> time,
     nbf |-> Now(call.replica), exp |-> Now(call.replica) + Lifetime]

IssueToken ==
    /\ tokenCall.kind = "issue" /\ tokenCall.secret > 0
    /\ lastToken' = CreateToken(tokenCall)
    /\ Answered(tokenCall, OK)
    /\ UNCHANGED <<time, ahead, secret>>

SignedWith(token, call) ==
    token.kind = "token" /\ token.owner = call.consumer /\ token.secret = call.secret

\* Mutant: a token is no longer valid in the second it expires.
ExpiredAtExp(token, now) == token.exp <= now

Expired(token, now) == token.exp < now

Verdict(call) ==
    IF ~SignedWith(call.token, call) THEN "AUTH_011"
    ELSE IF Expired(call.token, Now(call.replica)) THEN "AUTH_010"
    ELSE IF call.token.nbf > Now(call.replica) THEN "AUTH_011"
    ELSE "OK"

ValidateToken ==
    /\ tokenCall.kind = "validate" /\ tokenCall.secret > 0
    /\ LET verdict == Verdict(tokenCall)
       IN  Answered(tokenCall, IF verdict = "OK" THEN OK ELSE ErrorResponse(verdict))
    /\ UNCHANGED <<time, ahead, secret, lastToken>>

\* Signing fails, or the latency cannot be reported: getSlaMonitor() creates
\* its monitor on first use and throws when the profile directory cannot be
\* made.  A token that was signed is thrown away.
HandlerThrows ==
    /\ tokenCall # NoCall /\ tokenCall.secret > 0
    /\ tokenCall.kind = "issue" \/ Verdict(tokenCall) = "OK"
    /\ Answered(tokenCall, ErrorResponse("AUTH_008"))
    /\ UNCHANGED <<time, ahead, secret, lastToken>>

(***************************************************************************)
(* The environment                                                         *)
(***************************************************************************)
RotateSecret(c, version) ==
    /\ version = 0 \/ version = secret[c] + 1
    /\ version <= MaxSecret
    /\ secret[c] > 0
    /\ secret' = [secret EXCEPT ![c] = version]
    /\ NoAnswer
    /\ UNCHANGED <<time, ahead, lastToken, tokenCall>>

AdjustClock(r, by) ==
    /\ by # ahead[r]
    /\ ahead' = [ahead EXCEPT ![r] = by]
    /\ NoAnswer
    /\ UNCHANGED <<time, secret, lastToken, tokenCall>>

Tick ==
    /\ time < MaxTime
    /\ time' = time + 1
    /\ NoAnswer
    /\ UNCHANGED <<ahead, secret, lastToken, tokenCall>>

Next ==
    \/ \E headers \in Headers, r \in Replicas :
           \/ HandleTokenRequest(headers, r)
           \/ \E token \in Junk \cup {lastToken} : HandleTokenValidation(headers, r, token)
    \/ SecretFound
    \/ NoSecret
    \/ LookupFails
    \/ IssueToken
    \/ ValidateToken
    \/ HandlerThrows
    \/ \E c \in Consumers, version \in 0..MaxSecret : RotateSecret(c, version)
    \/ \E r \in Replicas, by \in 0..Skew : AdjustClock(r, by)
    \/ Tick

Spec == Init /\ [][Next]_tokenVars

(***************************************************************************)
(* Properties                                                              *)
(***************************************************************************)
\* Types and bounds.
TypeOK ==
    /\ time \in 1..MaxTime
    /\ ahead \in [Replicas -> 0..Skew]
    /\ secret \in [Consumers -> 0..MaxSecret]
    /\ lastToken \in Tokens \cup {NoToken}
    /\ tokenCall = NoCall \/
           /\ tokenCall.token \in Tokens \cup Junk
           /\ tokenCall.secret \in 0..MaxSecret
    /\ tokenAnswer = NoCall \/ tokenAnswer.response \in Responses

Judged == tokenAnswer # NoCall /\ tokenAnswer.kind = "validate"
Age == time - tokenAnswer.token.made
Genuine == SignedWith(tokenAnswer.token, tokenAnswer)

\* What a verdict on a token means by true time, whichever replicas issued
\* and judged it and however the secret and the clocks moved in between:
\* a token is accepted only if it was made for this consumer, under the
\* secret that was looked up, no longer ago than its lifetime and the skew;
\* it is called expired only when it is; and one that is neither too young
\* nor too old for the skew is never refused as invalid or expired.
VerdictMatchesToken ==
    Judged =>
        /\ tokenAnswer.response = OK => Genuine /\ Age <= Lifetime + Skew
        /\ tokenAnswer.response.code = "AUTH_010" => Genuine /\ Age > Lifetime - Skew
        /\ Genuine /\ tokenAnswer.secret > 0 /\ Age \in Skew..(Lifetime - Skew) =>
               tokenAnswer.response.code \notin {"AUTH_010", "AUTH_011"}
=============================================================================
