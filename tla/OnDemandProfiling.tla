--------------------------- MODULE OnDemandProfiling ---------------------------
(***************************************************************************)
(* Profiling sessions opened and closed through /debug/profiling/...       *)
(*                                                                         *)
(*   src/services/profiling.service.ts   ProfilingService                  *)
(*   src/handlers/profiling.ts           the handlers of its routes        *)
(*                                                                         *)
(* A session is bookkeeping for whoever profiles with the Chrome tools.    *)
(* No handler awaits anything between looking at the sessions and changing *)
(* them, so each is one step.                                              *)
(***************************************************************************)
EXTENDS HttpErrors

CONSTANT MaxSessions    \* bounds the sessions ever started

VARIABLES
    profilingEnabled,   \* isProfilingEnabled(), computed once
    sessions,           \* [the ids in the map -> "running" or "completed"]
    nextSession,        \* the next session id (random in the code)
    profilingAnswer     \* the last answer, and the session it is about (0: none)

onDemandVars == <<profilingEnabled, sessions, nextSession, profilingAnswer>>

Ids == 1..MaxSessions

Init ==
    /\ profilingEnabled \in BOOLEAN
    /\ sessions = [id \in {} |-> "running"]
    /\ nextSession = 1
    /\ profilingAnswer = [response |-> OK, session |-> 0]

Running == {id \in DOMAIN sessions : sessions[id] = "running"}

Answer(response, session) ==
    profilingAnswer' = [response |-> response, session |-> session]

Opened == [id \in DOMAIN sessions \cup {nextSession} |->
              IF id = nextSession THEN "running" ELSE sessions[id]]

\* Mutant: a session starts beside the one that is running.
StartProfilingBeside ==
    sessions' = Opened /\ nextSession' = nextSession + 1 /\ Answer(OK, nextSession)

\* startProfiling: null while a session is running.
StartProfiling ==
    IF Running # {}
    THEN /\ Answer(ErrorResponse("AUTH_007"), 0)
         /\ UNCHANGED <<sessions, nextSession>>
    ELSE /\ sessions' = Opened
         /\ nextSession' = nextSession + 1
         /\ Answer(OK, nextSession)

\* Every service method does nothing, and every handler says so, when
\* profiling is disabled.
Disabled ==
    /\ ~profilingEnabled
    /\ Answer(OK, 0)
    /\ UNCHANGED <<profilingEnabled, sessions, nextSession>>

HandleProfilingStart ==
    /\ profilingEnabled
    /\ nextSession <= MaxSessions
    /\ StartProfiling
    /\ UNCHANGED profilingEnabled

Completed(ids) == [id \in DOMAIN sessions |->
                      IF id \in ids THEN "completed" ELSE sessions[id]]

\* With an id: that session, which has to be running.
HandleProfilingStop(id) ==
    /\ profilingEnabled
    /\ IF id \in Running
       THEN sessions' = Completed({id}) /\ Answer(OK, id)
       ELSE Answer(ErrorResponse("AUTH_008"), id) /\ UNCHANGED sessions
    /\ UNCHANGED <<profilingEnabled, nextSession>>

\* Without an id: whatever is running, if anything.
HandleProfilingStopAll ==
    /\ profilingEnabled
    /\ sessions' = Completed(Running)
    /\ Answer(OK, 0)
    /\ UNCHANGED <<profilingEnabled, nextSession>>

\* Status and reports are only read; getReports() is always empty, so no
\* report is ever served.
HandleProfilingStatus ==
    /\ Answer(OK, 0)
    /\ UNCHANGED <<profilingEnabled, sessions, nextSession>>

HandleProfilingReport ==
    /\ profilingEnabled
    /\ Answer(ErrorResponse("AUTH_007"), 0)
    /\ UNCHANGED <<profilingEnabled, sessions, nextSession>>

\* The map is cleared, a running session with it.
HandleProfilingCleanup ==
    /\ profilingEnabled
    /\ sessions' = [id \in {} |-> "running"]
    /\ Answer(OK, 0)
    /\ UNCHANGED <<profilingEnabled, nextSession>>

Next ==
    \/ Disabled
    \/ HandleProfilingStart
    \/ \E id \in Ids : HandleProfilingStop(id)
    \/ HandleProfilingStopAll
    \/ HandleProfilingStatus
    \/ HandleProfilingReport
    \/ HandleProfilingCleanup

(***************************************************************************)
(* Types; and what a client was told stays true: there is never more than  *)
(* one session running, and a session never runs again after it ended.     *)
(***************************************************************************)
TypeOK ==
    /\ profilingEnabled \in BOOLEAN
    /\ DOMAIN sessions \subseteq 1..(nextSession - 1)
    /\ \A id \in DOMAIN sessions : sessions[id] \in {"running", "completed"}
    /\ \A i, j \in Running : i = j
    /\ profilingAnswer.response \in Responses
=============================================================================
