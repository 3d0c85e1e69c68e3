--------------------------- MODULE OperationTracker ---------------------------
(***************************************************************************)
(* The tracker of Redis operations a shutdown is meant to wait for.        *)
(*                                                                         *)
(*   src/services/cache/redis-operation-tracker.ts   RedisOperationTracker *)
(*   src/services/cache/shared-redis-cache.ts        disconnect (its user) *)
(*                                                                         *)
(* Nothing in the service calls startOperation: disconnect() finds nothing *)
(* pending and never drains.  The module models the tracker as its         *)
(* interface offers it, with callers that do use it.                       *)
(***************************************************************************)
EXTENDS Naturals, FiniteSets

CONSTANTS
    Operations,     \* handles that may be given out
    WaitTime        \* timeoutMs, in polling intervals

ASSUME TrackerAssumption == WaitTime \in Nat \ {0}

VARIABLES
    pendingOps,     \* pendingOperations
    finishedOps,    \* completedCount and failedCount: the operations counted
    acceptingOps,   \* acceptingOperations
    lifecycleUp,    \* ~lifecycleStateMachine.isShuttingDown()
    waiting,        \* polls left of waitForCompletion; WaitTime + 1: not called
    drained         \* what waitForCompletion answered: "none", "yes", "no"

trackerVars == <<pendingOps, finishedOps, acceptingOps, lifecycleUp, waiting, drained>>

TrackerInit ==
    /\ pendingOps = {} /\ finishedOps = {}
    /\ acceptingOps = TRUE /\ lifecycleUp = TRUE
    /\ waiting = WaitTime + 1 /\ drained = "none"

CanAcceptOperations == acceptingOps /\ lifecycleUp

\* Mutant: only the lifecycle is asked.
StartWhileUp(op) ==
    /\ lifecycleUp
    /\ op \notin pendingOps \cup finishedOps
    /\ pendingOps' = pendingOps \cup {op}
    /\ UNCHANGED <<finishedOps, acceptingOps, lifecycleUp, waiting, drained>>

\* Otherwise startOperation throws.
StartOperation(op) ==
    /\ CanAcceptOperations
    /\ op \notin pendingOps \cup finishedOps
    /\ pendingOps' = pendingOps \cup {op}
    /\ UNCHANGED <<finishedOps, acceptingOps, lifecycleUp, waiting, drained>>

\* completeOperation and failOperation; a second call changes nothing.
CompleteOperation(op) ==
    /\ op \in pendingOps
    /\ pendingOps' = pendingOps \ {op}
    /\ finishedOps' = finishedOps \cup {op}
    /\ UNCHANGED <<acceptingOps, lifecycleUp, waiting, drained>>

\* disconnect() stops the tracker only if something is pending, then waits.
StopAndWait ==
    /\ waiting = WaitTime + 1
    /\ pendingOps # {}
    /\ acceptingOps' = FALSE
    /\ waiting' = WaitTime
    /\ drained' = "none"
    /\ UNCHANGED <<pendingOps, finishedOps, lifecycleUp>>

\* A poll 50 ms later: done, timed out, or once more.
Poll ==
    /\ waiting \in 1..WaitTime
    /\ IF pendingOps = {} \/ waiting = 1
       THEN /\ drained' = IF pendingOps = {} THEN "yes" ELSE "no"
            /\ waiting' = 0
       ELSE /\ waiting' = waiting - 1
            /\ UNCHANGED drained
    /\ UNCHANGED <<pendingOps, finishedOps, acceptingOps, lifecycleUp>>

BeginDraining ==
    /\ lifecycleUp
    /\ lifecycleUp' = FALSE
    /\ UNCHANGED <<pendingOps, finishedOps, acceptingOps, waiting, drained>>

\* reset, for tests; an operation started before it may complete after it.
ResetTracker ==
    /\ waiting = 0
    /\ pendingOps' = {} /\ finishedOps' = {}
    /\ acceptingOps' = TRUE
    /\ waiting' = WaitTime + 1
    /\ drained' = "none"
    /\ UNCHANGED lifecycleUp

TrackerNext ==
    \/ \E op \in Operations : StartOperation(op) \/ CompleteOperation(op)
    \/ StopAndWait \/ Poll \/ BeginDraining \/ ResetTracker

TrackerSpec == TrackerInit /\ [][TrackerNext]_trackerVars

(***************************************************************************)
(* Properties                                                              *)
(***************************************************************************)

\* Types: an operation is not both pending and counted as finished.
TrackerTypeOK ==
    /\ pendingOps \subseteq Operations /\ finishedOps \subseteq Operations \ pendingOps
    /\ acceptingOps \in BOOLEAN /\ lifecycleUp \in BOOLEAN
    /\ waiting \in 0..WaitTime + 1
    /\ drained \in {"none", "yes", "no"}

\* Once the wait has answered that everything is done, the connection may be
\* closed: nothing is pending and nothing can start any more.
DrainedStaysDrained == drained = "yes" => pendingOps = {}
=============================================================================
