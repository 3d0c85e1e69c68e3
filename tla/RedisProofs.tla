------------------------------ MODULE RedisProofs ------------------------------
(***************************************************************************)
(* Clearing the keyspace of Redis and waiting for its operations, for any  *)
(* keys, batches, retries, operations and times to wait.                   *)
(***************************************************************************)
EXTENDS RedisKeyspace, OperationTracker, TLAPS

(***************************************************************************)
(* A complete sweep leaves nothing it found standing still, in whatever    *)
(* order SCAN visits the keyspace.                                         *)
(***************************************************************************)

SweepType ==
    [pc : {"none", "scans", "deletes", "done"}, pattern : SUBSET Keys, cursor : 1..Parts,
     attempt : Nat, iterations : Nat, found : SUBSET Keys, completed : BOOLEAN]

\* The keys that stand still are all collected: while SCAN goes on those of
\* the parts it has passed, once a complete scan has ended every one.
KeyspaceInv ==
    /\ stored \in [Keys -> {"absent", "expiring", "lasting"}]
    /\ sweep \in SweepType
    /\ untouched \subseteq Present
    /\ sweep.pc = "scans" =>
          /\ untouched \subseteq sweep.pattern
          /\ \A k \in untouched : PartOf[k] < sweep.cursor => k \in sweep.found
    /\ sweep.pc = "deletes" /\ sweep.completed => untouched \subseteq sweep.found
    /\ sweep.pc = "done" /\ sweep.completed => untouched = {}

\* No sweep is under way at the start.
LEMMA KeyspaceInvInit == KeyspaceInit => KeyspaceInv
BY KeyspaceAssumption
   DEF KeyspaceInit, KeyspaceInv, SweepType, NoSweep, Keys, Present

\* Taking keys away from those that stand still, and leaving the others
\* where they are, keeps the invariant.
LEMMA FewerUntouched ==
    ASSUME KeyspaceInv, UNCHANGED sweep, untouched' \subseteq untouched,
           stored' \in [Keys -> {"absent", "expiring", "lasting"}],
           \A k \in untouched' : stored'[k] # "absent"
    PROVE  KeyspaceInv'
BY DEF KeyspaceInv, Present

\* What the end of an iteration makes of a sweep.
LEMMA EndOfScan ==
    ASSUME NEW s \in SweepType, NEW completed \in BOOLEAN
    PROVE  /\ EndScan(s, completed) \in SweepType
           /\ EndScan(s, completed).completed = completed
           /\ EndScan(s, completed).found = s.found
           /\ EndScan(s, completed).pc = IF s.found = {} THEN "done" ELSE "deletes"
BY DEF EndScan, SweepType

\* A sweep that goes on is still a sweep.
LEMMA AnotherScan ==
    ASSUME NEW s \in SweepType, NEW c \in 1..Parts
    PROVE  [s EXCEPT !.cursor = c, !.attempt = 0, !.iterations = @ + 1] \in SweepType
<1>1. s.iterations + 1 \in Nat
  BY DEF SweepType
<1>2. QED
  BY <1>1 DEF SweepType

\* A scan that answers collects the keys of its part; the last one ends the
\* iteration with everything that stands still.
LEMMA ScanAnswersKeeps ==
    ASSUME KeyspaceInv, NEW advances \in BOOLEAN, ScanAnswers(advances)
    PROVE  KeyspaceInv'
<1> DEFINE s == [sweep EXCEPT !.found = @ \cup {k \in Present \cap sweep.pattern :
                                                    PartOf[k] = sweep.cursor}]
<1>1. s \in SweepType /\ s.cursor = sweep.cursor /\ s.pc = "scans" /\ s.pattern = sweep.pattern
  BY DEF ScanAnswers, KeyspaceInv, SweepType, Present
<1>2. UNCHANGED <<stored, untouched>>
  BY DEF ScanAnswers
<1>3. \A k \in untouched : PartOf[k] \in 1..Parts /\ (PartOf[k] <= sweep.cursor => k \in s.found)
  BY KeyspaceAssumption DEF KeyspaceInv, SweepType, ScanAnswers, Present, Keys
<1> HIDE DEF s
<1>4. CASE sweep.cursor = Parts /\ advances
  <2>1. sweep' = EndScan(s, TRUE)
    BY <1>4 DEF ScanAnswers, s
  <2>2. untouched \subseteq s.found
    BY <1>3, <1>4, KeyspaceAssumption
  <2>3. QED
    BY <1>1, <1>2, <2>1, <2>2, EndOfScan DEF KeyspaceInv, Present
<1>5. CASE ~(sweep.cursor = Parts /\ advances) /\ s.iterations = MaxIterations
  <2>1. sweep' = EndScan(s, FALSE)
    BY <1>5 DEF ScanAnswers, NextScan, s
  <2>2. QED
    BY <1>1, <1>2, <2>1, EndOfScan DEF KeyspaceInv, Present
<1>6. CASE ~(sweep.cursor = Parts /\ advances) /\ s.iterations # MaxIterations
  <2>1. sweep' = [s EXCEPT !.cursor = IF advances THEN @ + 1 ELSE @, !.attempt = 0,
                           !.iterations = @ + 1]
    BY <1>6 DEF ScanAnswers, NextScan, s
  <2>2. sweep'.cursor = IF advances THEN sweep.cursor + 1 ELSE sweep.cursor
    BY <1>1, <2>1 DEF SweepType
  <2>3. sweep'.found = s.found /\ sweep'.pc = "scans" /\ sweep'.pattern = sweep.pattern
    BY <1>1, <2>1 DEF SweepType
  <2>a. sweep.cursor \in 1..Parts /\ Parts \in Nat
    BY KeyspaceAssumption DEF KeyspaceInv, SweepType
  <2>4. sweep'.cursor \in 1..Parts
    BY <1>6, <2>2, <2>a
  <2>5. sweep' \in SweepType
    <3>1. sweep' = [s EXCEPT !.cursor = sweep'.cursor, !.attempt = 0, !.iterations = @ + 1]
      BY <1>1, <2>1, <2>2
    <3>2. QED
      BY <1>1, <2>4, <3>1, AnotherScan
  <2>6. sweep.cursor \in 1..Parts /\ untouched \subseteq sweep.pattern
    BY DEF KeyspaceInv, SweepType, ScanAnswers
  <2>7. \A k \in untouched : PartOf[k] < sweep'.cursor => k \in sweep'.found
    BY <1>3, <2>2, <2>3, <2>6, KeyspaceAssumption
  <2>8. QED
    BY <1>2, <2>3, <2>5, <2>6, <2>7 DEF KeyspaceInv, Present
<1>7. QED
  BY <1>4, <1>5, <1>6

\* Every command, reply and failure keeps the keyspace's invariant.
LEMMA KeyspaceInvNext == KeyspaceInv /\ [KeyspaceNext]_keyspaceVars => KeyspaceInv'
<1> SUFFICES ASSUME KeyspaceInv, [KeyspaceNext]_keyspaceVars
             PROVE  KeyspaceInv'
  OBVIOUS
<1>1. ASSUME NEW k \in Keys, SetEntry(k) \/ DeleteEntry(k) \/ EntryExpires(k)
      PROVE  KeyspaceInv'
  <2>1. /\ UNCHANGED sweep
        /\ untouched' = untouched \ {k}
        /\ \A j \in Keys \ {k} : stored'[j] = stored[j]
        /\ stored' \in [Keys -> {"absent", "expiring", "lasting"}]
    BY <1>1 DEF SetEntry, DeleteEntry, EntryExpires, KeyspaceInv
  <2>2. \A j \in untouched' : stored'[j] # "absent"
    BY <2>1 DEF KeyspaceInv, Present
  <2>3. QED
    BY <2>1, <2>2, FewerUntouched
<1>2. ASSUME NEW k \in Keys, NEW sent \in BOOLEAN, ExpireEntry(k, sent)
      PROVE  KeyspaceInv'
  <2>1. /\ UNCHANGED <<sweep, untouched>>
        /\ stored' \in [Keys -> {"absent", "expiring", "lasting"}]
        /\ \A j \in Keys : stored[j] # "absent" => stored'[j] # "absent"
    BY <1>2 DEF ExpireEntry, KeyspaceInv
  <2>2. \A j \in untouched' : stored'[j] # "absent"
    BY <2>1 DEF KeyspaceInv, Present
  <2>3. QED
    BY <2>1, <2>2, FewerUntouched
<1>3. ASSUME NEW pattern \in SUBSET Keys, StartClear(pattern)
      PROVE  KeyspaceInv'
  <2>1. sweep' = [NoSweep EXCEPT !.pc = "scans", !.pattern = pattern, !.iterations = 1]
    BY <1>3 DEF StartClear
  <2>a. 1 \in 1..Parts /\ 0 \in 0..RetriesPerScan /\ 1 \in 0..MaxIterations
    <3>1. Parts \in Nat \ {0} /\ MaxIterations \in Nat \ {0} /\ RetriesPerScan \in Nat
      BY KeyspaceAssumption
    <3>2. QED
      BY <3>1
  <2>2. /\ sweep' \in SweepType
        /\ sweep'.pc = "scans" /\ sweep'.pattern = pattern /\ sweep'.cursor = 1
    BY <2>1, <2>a DEF NoSweep, SweepType
  <2>3. untouched' = Present \cap pattern /\ UNCHANGED stored
    BY <1>3 DEF StartClear
  <2>4. \A k \in untouched' : PartOf[k] >= 1
    BY <2>3, KeyspaceAssumption DEF Present, Keys
  <2>5. QED
    BY <2>2, <2>3, <2>4, KeyspaceAssumption DEF KeyspaceInv, Present, Keys
<1>4. ASSUME NEW advances \in BOOLEAN, ScanAnswers(advances)
      PROVE  KeyspaceInv'
  BY <1>4, ScanAnswersKeeps
<1>5. CASE ScanFails
  <2>1. UNCHANGED <<stored, untouched>> /\ sweep.pc = "scans" /\ sweep \in SweepType
    BY <1>5 DEF ScanFails, KeyspaceInv
  <2>2. CASE sweep' = [sweep EXCEPT !.attempt = @ + 1]
    BY <2>1, <2>2 DEF KeyspaceInv, SweepType, Present
  <2>3. CASE sweep' = EndScan(sweep, FALSE)
    BY <2>1, <2>3, EndOfScan DEF KeyspaceInv, Present
  <2>4. QED
    BY <1>5, <2>2, <2>3 DEF ScanFails
<1>6. ASSUME NEW batch \in SUBSET sweep.found, DeleteBatch(batch)
      PROVE  KeyspaceInv'
  <2>1. /\ untouched' = untouched \ batch
        /\ stored' \in [Keys -> {"absent", "expiring", "lasting"}]
        /\ \A k \in untouched' : stored'[k] # "absent"
    BY <1>6 DEF DeleteBatch, Removed, KeyspaceInv, Present
  <2>2. /\ sweep' \in SweepType
        /\ sweep'.found = sweep.found \ batch
        /\ sweep'.completed = sweep.completed
        /\ sweep'.pc = IF batch = sweep.found THEN "done" ELSE "deletes"
        /\ sweep.pc = "deletes"
    BY <1>6 DEF DeleteBatch, KeyspaceInv, SweepType
  <2>3. QED
    BY <2>1, <2>2 DEF KeyspaceInv, Present
<1>7. ASSUME NEW batch \in SUBSET sweep.found, NEW carriedOut \in BOOLEAN,
             DeleteFails(batch, carriedOut)
      PROVE  KeyspaceInv'
  <2>1. /\ untouched' \subseteq untouched
        /\ stored' \in [Keys -> {"absent", "expiring", "lasting"}]
        /\ \A k \in untouched' : stored'[k] # "absent"
    BY <1>7 DEF DeleteFails, Removed, KeyspaceInv, Present
  <2>2. sweep' = NoSweep
    BY <1>7 DEF DeleteFails
  <2>3. QED
    BY <2>1, <2>2, KeyspaceAssumption DEF KeyspaceInv, SweepType, NoSweep, Present
<1>8. CASE UNCHANGED keyspaceVars
  BY <1>8 DEF KeyspaceInv, keyspaceVars, Present
<1>9. QED
  BY <1>1, <1>2, <1>3, <1>4, <1>5, <1>6, <1>7, <1>8 DEF KeyspaceNext, Keys

\* While a clear scans it has collected every key of the pages it has passed
\* that was there from its start and was not written, and a complete scan
\* has collected them all.
THEOREM KeyspaceInvariant == KeyspaceSpec => []KeyspaceInv
<1>1. QED
  BY KeyspaceInvInit, KeyspaceInvNext, PTL DEF KeyspaceSpec

\* When a clear has run to its end over a complete scan, no entry is left
\* that was there when it began and was not written since.
THEOREM CompleteClearIsComplete == KeyspaceSpec => []ClearLeavesNothing
<1>1. KeyspaceInv => ClearLeavesNothing
  BY DEF KeyspaceInv, ClearLeavesNothing
<1>2. QED
  BY <1>1, KeyspaceInvariant, PTL

(***************************************************************************)
(* What a clear finds and how often it scans are bounded.                  *)
(***************************************************************************)

\* What an iteration collects belongs to the pattern of its clear; retries
\* and calls of SCAN are counted up to their limits.
BoundedSweep(s) ==
    /\ s.found \subseteq s.pattern
    /\ s.attempt \in 0..RetriesPerScan
    /\ s.iterations \in 0..MaxIterations

KeyspaceBounds == writes \subseteq Keys /\ BoundedSweep(sweep)

\* The end of a scan and its next call leave the sweep within its limits.
LEMMA ScansAreBounded ==
    ASSUME NEW s \in SweepType, BoundedSweep(s), NEW ok \in BOOLEAN
    PROVE  BoundedSweep(EndScan(s, ok)) /\ BoundedSweep(NextScan(s, ok))
<1>0. MaxIterations \in Nat /\ RetriesPerScan \in Nat
  BY KeyspaceAssumption
<1>1. BoundedSweep(EndScan(s, ok))
  BY DEF BoundedSweep, EndScan, SweepType
<1>2. CASE s.iterations = MaxIterations
  <2>1. NextScan(s, ok) = EndScan(s, FALSE)
    BY <1>2 DEF NextScan
  <2>2. BoundedSweep(EndScan(s, FALSE))
    BY DEF BoundedSweep, EndScan, SweepType
  <2>3. QED
    BY <1>1, <2>1, <2>2
<1>3. CASE s.iterations # MaxIterations
  <2>1. s.iterations + 1 \in 0..MaxIterations /\ 0 \in 0..RetriesPerScan
    BY <1>0, <1>3 DEF BoundedSweep
  <2>2. /\ NextScan(s, ok).found = s.found /\ NextScan(s, ok).pattern = s.pattern
        /\ NextScan(s, ok).attempt = 0 /\ NextScan(s, ok).iterations = s.iterations + 1
    BY <1>3 DEF NextScan, SweepType
  <2>3. QED
    BY <1>1, <2>1, <2>2 DEF BoundedSweep
<1>4. QED
  BY <1>2, <1>3

\* Nothing is outstanding and nothing is swept at the start.
LEMMA KeyspaceBoundsInit == KeyspaceInit => KeyspaceBounds
BY KeyspaceAssumption DEF KeyspaceInit, KeyspaceBounds, BoundedSweep, NoSweep, Keys

\* Writing, scanning and deleting stay within the keyspace and the limits.
LEMMA KeyspaceBoundsNext ==
    KeyspaceInv /\ KeyspaceBounds /\ [KeyspaceNext]_keyspaceVars => KeyspaceBounds'
<1> SUFFICES ASSUME KeyspaceInv, KeyspaceBounds, [KeyspaceNext]_keyspaceVars
             PROVE  KeyspaceBounds'
  OBVIOUS
<1>0. sweep \in SweepType /\ BoundedSweep(sweep) /\ writes \subseteq Keys
  BY DEF KeyspaceInv, KeyspaceBounds
<1>n. BoundedSweep(NoSweep)
  BY KeyspaceAssumption DEF BoundedSweep, NoSweep
<1>1. CASE \E k \in Keys : \/ SetEntry(k) \/ DeleteEntry(k) \/ EntryExpires(k)
                           \/ \E sent \in BOOLEAN : ExpireEntry(k, sent)
  BY <1>0, <1>1 DEF SetEntry, DeleteEntry, EntryExpires, ExpireEntry, KeyspaceBounds
<1>2. ASSUME NEW pattern \in SUBSET Keys, StartClear(pattern)
      PROVE  KeyspaceBounds'
  <2>1. sweep' = [NoSweep EXCEPT !.pc = "scans", !.pattern = pattern, !.iterations = 1]
    BY <1>2 DEF StartClear
  <2>2. 1 \in 0..MaxIterations /\ 0 \in 0..RetriesPerScan
    <3>1. MaxIterations \in Nat \ {0} /\ RetriesPerScan \in Nat
      BY KeyspaceAssumption
    <3>2. QED
      BY <3>1
  <2>3. BoundedSweep(sweep')
    BY <2>1, <2>2 DEF BoundedSweep, NoSweep
  <2>4. writes' = writes
    BY <1>2 DEF StartClear
  <2>5. QED
    BY <1>0, <2>3, <2>4 DEF KeyspaceBounds, BoundedSweep
<1>3. ASSUME NEW advances \in BOOLEAN, ScanAnswers(advances)
      PROVE  KeyspaceBounds'
  <2> DEFINE s == [sweep EXCEPT !.found = @ \cup {k \in Present \cap sweep.pattern :
                                                      PartOf[k] = sweep.cursor}]
  <2>1. s \in SweepType
    BY <1>0 DEF SweepType, Present
  <2>2. BoundedSweep(s)
    BY <1>0 DEF SweepType, BoundedSweep
  <2>3. sweep' \in {EndScan(s, TRUE), NextScan(s, advances)} /\ writes' = writes
    BY <1>3 DEF ScanAnswers
  <2> HIDE DEF s
  <2>4. BoundedSweep(sweep')
    BY <2>1, <2>2, <2>3, ScansAreBounded
  <2>5. QED
    BY <1>0, <2>3, <2>4 DEF KeyspaceBounds, BoundedSweep
<1>4. CASE ScanFails
  <2>1. CASE sweep' = [sweep EXCEPT !.attempt = @ + 1] /\ sweep.attempt < RetriesPerScan
    <3>1. sweep.attempt + 1 \in 0..RetriesPerScan
      BY <1>0, <2>1, KeyspaceAssumption DEF BoundedSweep
    <3>2. BoundedSweep(sweep')
      BY <1>0, <2>1, <3>1 DEF SweepType, BoundedSweep
    <3>3. QED
      BY <1>0, <1>4, <3>2 DEF ScanFails, KeyspaceBounds, BoundedSweep
  <2>2. CASE sweep' = EndScan(sweep, FALSE)
    <3>1. BoundedSweep(sweep')
      BY <1>0, <2>2, ScansAreBounded
    <3>2. QED
      BY <1>0, <1>4, <3>1 DEF ScanFails, KeyspaceBounds, BoundedSweep
  <2>3. QED
    BY <1>4, <2>1, <2>2 DEF ScanFails
<1>5. ASSUME NEW batch \in SUBSET sweep.found, DeleteBatch(batch)
      PROVE  KeyspaceBounds'
  <2>1. /\ sweep'.found = sweep.found \ batch /\ sweep'.pattern = sweep.pattern
        /\ sweep'.attempt = sweep.attempt /\ sweep'.iterations = sweep.iterations
    BY <1>0, <1>5 DEF DeleteBatch, SweepType
  <2>2. BoundedSweep(sweep')
    BY <1>0, <2>1 DEF BoundedSweep
  <2>3. QED
    BY <1>0, <1>5, <2>2 DEF DeleteBatch, KeyspaceBounds, BoundedSweep
<1>6. ASSUME NEW batch \in SUBSET sweep.found, NEW carriedOut \in BOOLEAN,
             DeleteFails(batch, carriedOut)
      PROVE  KeyspaceBounds'
  BY <1>0, <1>n, <1>6 DEF DeleteFails, KeyspaceBounds, BoundedSweep
<1>7. CASE UNCHANGED keyspaceVars
  BY <1>7 DEF keyspaceVars, KeyspaceBounds, BoundedSweep
<1>8. QED
  BY <1>1, <1>2, <1>3, <1>4, <1>5, <1>6, <1>7 DEF KeyspaceNext, Keys

\* The invariant and the limits are what the types ask for.
LEMMA KeyspaceTypes == KeyspaceInv /\ KeyspaceBounds => KeyspaceTypeOK
BY DEF KeyspaceInv, KeyspaceBounds, BoundedSweep, KeyspaceTypeOK, SweepType

\* For any keys and limits: a sweep finds only keys of its pattern, and
\* retries and iterates no more often than it may.
THEOREM KeyspaceTypesHold == KeyspaceSpec => []KeyspaceTypeOK
<1>1. QED
  BY KeyspaceInvInit, KeyspaceInvNext, KeyspaceBoundsInit, KeyspaceBoundsNext, KeyspaceTypes, PTL
     DEF KeyspaceSpec

(***************************************************************************)
(* A drain that answered "everything is done" stays true.                  *)
(***************************************************************************)

\* Nothing starts from the moment the wait begins until the tracker is
\* reset; so what is empty when the wait ends stays empty.
TrackerInv ==
    /\ waiting \in 0..WaitTime + 1
    /\ waiting <= WaitTime => acceptingOps = FALSE
    /\ drained = "yes" => waiting = 0 /\ pendingOps = {}

\* Nothing has been drained yet.
LEMMA TrackerInvInit == TrackerInit => TrackerInv
BY TrackerAssumption DEF TrackerInit, TrackerInv

\* Once the tracker has stopped accepting, pending operations only end.
LEMMA TrackerInvNext == TrackerInv /\ [TrackerNext]_trackerVars => TrackerInv'
<1> SUFFICES ASSUME TrackerInv, [TrackerNext]_trackerVars
             PROVE  TrackerInv'
  OBVIOUS
<1> USE TrackerAssumption DEF TrackerInv
<1>1. CASE \E op \in Operations : StartOperation(op)
  BY <1>1 DEF StartOperation, CanAcceptOperations
<1>2. CASE \E op \in Operations : CompleteOperation(op)
  BY <1>2 DEF CompleteOperation
<1>3. CASE StopAndWait
  BY <1>3 DEF StopAndWait
<1>4. CASE Poll
  BY <1>4 DEF Poll
<1>5. CASE BeginDraining
  BY <1>5 DEF BeginDraining
<1>6. CASE ResetTracker
  BY <1>6 DEF ResetTracker
<1>7. CASE UNCHANGED trackerVars
  BY <1>7 DEF trackerVars
<1>8. QED
  BY <1>1, <1>2, <1>3, <1>4, <1>5, <1>6, <1>7 DEF TrackerNext

\* After the wait answered that everything is done, no Redis operation is
\* pending, however operations start and end around the drain.
THEOREM DrainIsFinal == TrackerSpec => []DrainedStaysDrained
<1>1. TrackerInv /\ [TrackerNext]_trackerVars => TrackerInv'
  BY TrackerInvNext
<1>2. TrackerInv => DrainedStaysDrained
  BY DEF TrackerInv, DrainedStaysDrained
<1>3. QED
  BY TrackerInvInit, <1>1, <1>2, PTL DEF TrackerSpec

\* Nothing is pending, nothing counted.
LEMMA TrackerTypesInit == TrackerInit => TrackerTypeOK
BY TrackerAssumption DEF TrackerInit, TrackerTypeOK

\* An operation leaves the pending ones when it is counted, and comes back to
\* them only after a reset.
LEMMA TrackerTypesNext == TrackerTypeOK /\ [TrackerNext]_trackerVars => TrackerTypeOK'
<1> SUFFICES ASSUME TrackerTypeOK, [TrackerNext]_trackerVars
             PROVE  TrackerTypeOK'
  OBVIOUS
<1> USE TrackerAssumption DEF TrackerTypeOK
<1>1. CASE \E op \in Operations : StartOperation(op)
  BY <1>1 DEF StartOperation, CanAcceptOperations
<1>2. CASE \E op \in Operations : CompleteOperation(op)
  BY <1>2 DEF CompleteOperation
<1>3. CASE StopAndWait
  <2>1. waiting' \in 0..WaitTime + 1
    BY <1>3 DEF StopAndWait
  <2>2. QED
    BY <1>3, <2>1 DEF StopAndWait
<1>4. CASE Poll
  <2>1. waiting' \in 0..WaitTime + 1
    BY <1>4 DEF Poll
  <2>2. drained' \in {"none", "yes", "no"}
    BY <1>4 DEF Poll
  <2>3. QED
    BY <1>4, <2>1, <2>2 DEF Poll
<1>5. CASE BeginDraining
  BY <1>5 DEF BeginDraining
<1>6. CASE ResetTracker
  BY <1>6 DEF ResetTracker
<1>7. CASE UNCHANGED trackerVars
  BY <1>7 DEF trackerVars
<1>8. QED
  BY <1>1, <1>2, <1>3, <1>4, <1>5, <1>6, <1>7 DEF TrackerNext

\* For any operations and any time to wait: none is at once pending and
\* counted as finished, and the polls never exceed the wait.
THEOREM TrackerTypes == TrackerSpec => []TrackerTypeOK
<1>1. QED
  BY TrackerTypesInit, TrackerTypesNext, PTL DEF TrackerSpec
=============================================================================
