---------------------------- MODULE RequestRouting ----------------------------
(***************************************************************************)
(* Which answer a request gets before any handler sees it, and a client    *)
(* that goes by what it was told.                                          *)
(*                                                                         *)
(*   src/routes/router.ts            createRoutes                          *)
(*   src/middleware/validation.ts    ENDPOINT_METHODS, validateContentType *)
(*   src/middleware/error-handler.ts, src/utils/cors.ts                    *)
(*   src/openapi-generator.ts        registerAllRoutes                     *)
(*                                                                         *)
(* The served routes, the methods the fallback allows and the documented   *)
(* operations are three tables kept by hand in three files.  A client      *)
(* learns of the second by a 405 and of the third from the OpenAPI         *)
(* document, and sends its next request accordingly.                       *)
(***************************************************************************)
VARIABLE
    exchange            \* the last request, its answer, and what it followed

(***************************************************************************)
(* Requests                                                                *)
(***************************************************************************)
Methods(gets, posts) ==
    [path \in gets \cup posts |-> IF path \in gets THEN "GET" ELSE "POST"]

\* createRoutes: every path is served for one method.
Routes == Methods(
    {"/", "/health", "/health/telemetry", "/health/metrics", "/health/ready", "/metrics",
     "/tokens", "/tokens/validate", "/debug/profiling/status",
     "/debug/profiling/reports", "/debug/profiling/report"},
    {"/debug/metrics/test", "/debug/metrics/export", "/debug/profiling/start",
     "/debug/profiling/stop", "/debug/profiling/cleanup"})

EndpointMethods ==
    LET table == Methods(
            {"/", "/health", "/health/telemetry", "/health/metrics", "/health/ready",
             "/tokens", "/tokens/validate", "/metrics", "/debug/profiling/status",
             "/debug/profiling/reports", "/debug/profiling/report"},
            {"/debug/metrics/test", "/debug/metrics/export", "/debug/profiling/start",
             "/debug/profiling/stop", "/debug/profiling/cleanup"})
    IN  [path \in DOMAIN table |-> {table[path], "OPTIONS"}]

AllowedMethods(path) == IF path \in DOMAIN EndpointMethods THEN EndpointMethods[path] ELSE {}

\* A path without an entry allows everything.
IsMethodAllowed(method, path) == AllowedMethods(path) = {} \/ method \in AllowedMethods(path)

HttpRequest ==
    [path : DOMAIN Routes \cup {"/memory/health", "/unknown"},
     method : {"GET", "POST", "PUT", "OPTIONS"},
     body : {"accepted", "otherType", "tooLarge"}]

\* validateContentType and validateBodySize
RefusedBody(request) == request.method \in {"POST", "PUT"} /\ request.body # "accepted"

\* Bun calls the handler of a route; everything else goes to fallbackFetch,
\* which checks in this order.  allow is the Allow header.
Answered(request) ==
    LET served == request.path \in DOMAIN Routes /\ Routes[request.path] = request.method
        allowed == IsMethodAllowed(request.method, request.path)
        options == request.method = "OPTIONS"
    IN  [by |-> CASE served                                    -> "handler"
                  [] ~served /\ ~allowed                        -> "405"
                  [] ~served /\ allowed /\ options              -> "204"
                  [] ~served /\ allowed /\ ~options /\ RefusedBody(request) -> "400"
                  [] OTHER                                      -> "404",
         allow |-> IF served \/ allowed THEN {} ELSE AllowedMethods(request.path)]

(***************************************************************************)
(* The document: an operation per path                                     *)
(***************************************************************************)

\* registerAllRoutes
DocumentedOperations == Methods(
    {"/", "/tokens", "/tokens/validate", "/health", "/health/telemetry",
     "/health/metrics", "/metrics", "/debug/profiling/report",
     "/debug/profiling/status", "/debug/profiling/reports",
     "/memory/health", "/memory/metrics", "/memory/baseline"},
    {"/debug/metrics/test", "/debug/metrics/export", "/debug/profiling/start",
     "/debug/profiling/stop", "/debug/profiling/cleanup", "/memory/actions"})

(***************************************************************************)
(* A client                                                                *)
(***************************************************************************)
Exchange(request, follows) ==
    exchange' = [request |-> request, answer |-> Answered(request), follows |-> follows]

ExchangesInit ==
    LET first == [path |-> "/", method |-> "GET", body |-> "accepted"]
    IN  exchange = [request |-> first, answer |-> Answered(first), follows |-> "nothing"]

Ask == \E request \in HttpRequest : Exchange(request, "nothing")

\* After a 405 the client sends the same with a method of the Allow header.
FollowAllow ==
    /\ exchange.answer.by = "405"
    /\ \E method \in exchange.answer.allow :
           Exchange([exchange.request EXCEPT !.method = method], "allow")

FollowDocument ==
    \E path \in DOMAIN DocumentedOperations :
        Exchange([path |-> path, method |-> DocumentedOperations[path], body |-> "accepted"],
                 "document")

ExchangesNext == Ask \/ FollowAllow \/ FollowDocument

(***************************************************************************)
(* Properties                                                              *)
(***************************************************************************)

Answers ==
    [by : {"handler", "405", "204", "400", "404"}, allow : SUBSET {"GET", "POST", "OPTIONS"}]

\* Types.
ExchangesTypeOK ==
    /\ exchange.request.method \in {"GET", "POST", "PUT", "OPTIONS"}
    /\ exchange.answer \in Answers
    /\ exchange.follows \in {"nothing", "allow", "document"}

\* Nobody is sent from one refusal to the next: a client that takes a method
\* from the Allow header of a 405 gets to the handler of the path or the
\* answer to a preflight, and one that goes by the document gets to the
\* handler of every documented path that is served at all.
AdviceWorks ==
    /\ exchange.follows = "allow" => exchange.answer.by \in {"handler", "204"}
    /\ exchange.follows = "document" /\ exchange.request.path \in DOMAIN Routes =>
           exchange.answer.by = "handler"
=============================================================================
