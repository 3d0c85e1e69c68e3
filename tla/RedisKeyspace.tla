---------------------------- MODULE RedisKeyspace ----------------------------
(***************************************************************************)
(* The entries the service keeps in Redis: written with two commands each, *)
(* found again with SCAN and deleted in batches.                           *)
(*                                                                         *)
(*   src/services/cache/shared-redis-cache.ts   set, setStale, delete,     *)
(*                                              clear, clearStale, getStats*)
(*   src/services/cache/cache-scan-iterator.ts  CacheScanIterator          *)
(*                                                                         *)
(* How these operations pass the breaker and the reconnection is in        *)
(* SharedRedisCache; here they have a connection, and every command may    *)
(* fail or time out.  A command that timed out may still have been carried *)
(* out.  SCAN visits the keyspace part by part: a key that is there from   *)
(* the first call to the last is returned, others may be.                  *)
(***************************************************************************)
EXTENDS Naturals, FiniteSets

CONSTANTS
    PrimaryKeys,    \* auth_service:*
    StaleKeys,      \* auth_service_stale:*
    PartOf,         \* [keys -> 1..Parts], the call of SCAN that returns it
    Parts,          \* cursor values until SCAN answers 0
    RetriesPerScan,
    MaxIterations,
    BatchSize

ASSUME KeyspaceAssumption ==
    /\ PrimaryKeys \cap StaleKeys = {}
    /\ {Parts, MaxIterations, BatchSize} \subseteq Nat \ {0} /\ RetriesPerScan \in Nat
    /\ PartOf \in [PrimaryKeys \cup StaleKeys -> 1..Parts]

VARIABLES
    stored,         \* [keys -> "absent", "expiring" or "lasting"]
    writes,         \* the keys whose EXPIRE is outstanding
    sweep,          \* the clear that is under way
    untouched       \* history: keys there since its start, and not written

keyspaceVars == <<stored, writes, sweep, untouched>>

Keys == PrimaryKeys \cup StaleKeys
Present == {k \in Keys : stored[k] # "absent"}

NoSweep == [pc |-> "none", pattern |-> {}, cursor |-> 1, attempt |-> 0, iterations |-> 0,
            found |-> {}, completed |-> FALSE]

KeyspaceInit ==
    /\ stored \in [Keys -> {"absent", "expiring"}]
    /\ writes = {}
    /\ sweep = NoSweep
    /\ untouched = {}

(***************************************************************************)
(* Writing                                                                 *)
(***************************************************************************)

\* SET: an entry without an expiry, until EXPIRE follows.
SetEntry(k) ==
    /\ k \notin writes
    /\ stored' = [stored EXCEPT ![k] = "lasting"]
    /\ writes' = writes \cup {k}
    /\ untouched' = untouched \ {k}
    /\ UNCHANGED sweep

\* EXPIRE, or nothing any more: the connection broke in between.
ExpireEntry(k, sent) ==
    /\ k \in writes
    /\ writes' = writes \ {k}
    /\ stored' = IF sent /\ stored[k] # "absent" THEN [stored EXCEPT ![k] = "expiring"] ELSE stored
    /\ UNCHANGED <<sweep, untouched>>

DeleteEntry(k) ==
    /\ stored[k] # "absent"
    /\ stored' = [stored EXCEPT ![k] = "absent"]
    /\ untouched' = untouched \ {k}
    /\ UNCHANGED <<writes, sweep>>

EntryExpires(k) ==
    /\ stored[k] = "expiring"
    /\ stored' = [stored EXCEPT ![k] = "absent"]
    /\ untouched' = untouched \ {k}
    /\ UNCHANGED <<writes, sweep>>

(***************************************************************************)
(* CacheScanIterator.collectAll                                            *)
(***************************************************************************)

\* clear, clearStale
StartClear(pattern) ==
    /\ sweep.pc \in {"none", "done"}
    /\ sweep' = [NoSweep EXCEPT !.pc = "scans", !.pattern = pattern, !.iterations = 1]
    /\ untouched' = Present \cap pattern
    /\ UNCHANGED <<stored, writes>>

\* collectAll keeps what it has found so far when a scan fails for good.
EndScan(s, completed) ==
    [s EXCEPT !.pc = IF s.found = {} THEN "done" ELSE "deletes", !.completed = completed]

\* The next iteration of iterate, unless there have been too many: SCAN may
\* take more calls than there are parts.
NextScan(s, advances) ==
    IF s.iterations = MaxIterations
    THEN EndScan(s, FALSE)
    ELSE [s EXCEPT !.cursor = IF advances THEN @ + 1 ELSE @, !.attempt = 0,
                   !.iterations = @ + 1]

\* Mutant: the scan that returns cursor 0 ends the iteration before its keys
\* are taken.
ScanAnswersTooLate(advances) ==
    /\ sweep.pc = "scans"
    /\ LET s == [sweep EXCEPT !.found = @ \cup {k \in Present \cap sweep.pattern :
                                                    PartOf[k] = sweep.cursor}]
       IN  sweep' = IF sweep.cursor = Parts /\ advances
                    THEN EndScan(sweep, TRUE) ELSE NextScan(s, advances)
    /\ UNCHANGED <<stored, writes, untouched>>

ScanAnswers(advances) ==
    /\ sweep.pc = "scans"
    /\ LET s == [sweep EXCEPT !.found = @ \cup {k \in Present \cap sweep.pattern :
                                                    PartOf[k] = sweep.cursor}]
       IN  sweep' = IF sweep.cursor = Parts /\ advances
                    THEN EndScan(s, TRUE) ELSE NextScan(s, advances)
    /\ UNCHANGED <<stored, writes, untouched>>

\* scanWithRetry: any error is retried, after the last retry it is thrown.
ScanFails ==
    /\ sweep.pc = "scans"
    /\ sweep' = IF sweep.attempt < RetriesPerScan
                THEN [sweep EXCEPT !.attempt = @ + 1]
                ELSE EndScan(sweep, FALSE)
    /\ UNCHANGED <<stored, writes, untouched>>

(***************************************************************************)
(* clear and clearStale, once the keys are collected                       *)
(***************************************************************************)

Removed(batch) == [k \in Keys |-> IF k \in batch THEN "absent" ELSE stored[k]]

\* Some order of the keys, a batch of them at a time; the end of the last
\* batch is the breaker's success, complete scan or not.
DeleteBatch(batch) ==
    /\ sweep.pc = "deletes"
    /\ batch \subseteq sweep.found
    /\ Cardinality(batch) = BatchSize \/ (batch = sweep.found /\ Cardinality(batch) < BatchSize)
    /\ stored' = Removed(batch)
    /\ untouched' = untouched \ batch
    /\ sweep' = [sweep EXCEPT !.found = @ \ batch,
                              !.pc = IF batch = sweep.found THEN "done" ELSE "deletes"]
    /\ UNCHANGED writes

\* DEL fails or times out, carried out or not: the rest of the keys stays.
DeleteFails(batch, carriedOut) ==
    /\ sweep.pc = "deletes"
    /\ batch \subseteq sweep.found
    /\ Cardinality(batch) = BatchSize \/ (batch = sweep.found /\ Cardinality(batch) < BatchSize)
    /\ stored' = IF carriedOut THEN Removed(batch) ELSE stored
    /\ untouched' = IF carriedOut THEN untouched \ batch ELSE untouched
    /\ sweep' = NoSweep
    /\ UNCHANGED writes

KeyspaceNext ==
    \/ \E k \in Keys : \/ SetEntry(k) \/ DeleteEntry(k) \/ EntryExpires(k)
                       \/ \E sent \in BOOLEAN : ExpireEntry(k, sent)
    \/ StartClear(PrimaryKeys) \/ StartClear(StaleKeys)
    \/ \E advances \in BOOLEAN : ScanAnswers(advances)
    \/ ScanFails
    \/ \E batch \in SUBSET sweep.found :
           DeleteBatch(batch) \/ \E carriedOut \in BOOLEAN : DeleteFails(batch, carriedOut)

KeyspaceSpec == KeyspaceInit /\ [][KeyspaceNext]_keyspaceVars

(***************************************************************************)
(* Properties                                                              *)
(***************************************************************************)

\* Types and bounds: a sweep finds only keys of its pattern.
KeyspaceTypeOK ==
    /\ stored \in [Keys -> {"absent", "expiring", "lasting"}]
    /\ writes \subseteq Keys
    /\ sweep.found \subseteq sweep.pattern
    /\ sweep.cursor \in 1..Parts /\ sweep.attempt \in 0..RetriesPerScan
    /\ sweep.iterations \in 0..MaxIterations
    /\ untouched \subseteq Present

\* A clear that ran to its end over a complete scan leaves no entry that was
\* there when it began, whatever was written, expired or deleted meanwhile
\* and whichever scans had to be retried.
ClearLeavesNothing == sweep.pc = "done" /\ sweep.completed => untouched = {}
=============================================================================
