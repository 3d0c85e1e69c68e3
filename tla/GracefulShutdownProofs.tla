------------------------ MODULE GracefulShutdownProofs ------------------------
(***************************************************************************)
(* Theorems about the shutdown sequence, for any set of requests and every *)
(* choice of deadlines that leaves time for the final cleanup.             *)
(***************************************************************************)
EXTENDS GracefulShutdown, TLAPS

\* The deadlines are numbers, and the first three end before the last.
LEMMA Deadlines ==
    /\ FlushTimeout \in Nat \ {0} /\ DrainTimeout \in Nat \ {0}
    /\ ComponentTimeout \in Nat \ {0} /\ ExitTimeout \in Nat \ {0}
    /\ FlushTimeout + DrainTimeout + ComponentTimeout < ExitTimeout
BY ShutdownAssumption

\* Boot, None and Memory are told apart, and no request is one of them.
LEMMA BackendsDiffer ==
    /\ Boot \in Openers /\ Boot \notin Requests /\ Requests \subseteq Openers
    /\ Probes \subseteq Requests
    /\ None \notin Openers /\ Memory \notin Openers /\ None # Memory
BY ShutdownAssumption DEF Openers

(***************************************************************************)
(* Types                                                                   *)
(***************************************************************************)

\* The two clocks: each step keeps to its own deadline, so that the time since
\* the signal is at most the sum of the deadlines of the steps so far.
ClockInv ==
    /\ stepAge \in Nat /\ timer \in Nat
    /\ stepAge <= timer /\ timer <= ExitTimeout
    /\ step = "serving" => timer = 0
    /\ step = "flushing" => stepAge <= FlushTimeout /\ timer = stepAge
    /\ step = "draining" => stepAge <= DrainTimeout /\ timer <= FlushTimeout + stepAge
    /\ step = "components" =>
         stepAge <= ComponentTimeout /\ timer <= FlushTimeout + DrainTimeout + stepAge

\* The steps of gracefulShutdown, by what they do to the step and the clocks.
LEMMA ClockNext == ClockInv /\ [Next]_vars => ClockInv'
<1> SUFFICES ASSUME ClockInv, [Next]_vars PROVE ClockInv'
  OBVIOUS
<1> USE Deadlines DEF ClockInv
<1>1. CASE UNCHANGED <<step, stepAge, timer>>
  BY <1>1
<1>2. CASE Signal
  BY <1>2 DEF Signal, GoesTo
<1>3. CASE Flushed
  BY <1>3 DEF Flushed, ShutdownComponents, GoesTo
<1>4. CASE DrainEnds
  BY <1>4 DEF DrainEnds, ShutdownComponents, GoesTo
<1>5. CASE ComponentsEnd
  BY <1>5 DEF ComponentsEnd, GoesTo
<1>6. CASE CleanupEnds
  BY <1>6 DEF CleanupEnds, Exit, GoesTo
<1>7. CASE TimerFires
  BY <1>7 DEF TimerFires, Exit, GoesTo
<1>8. CASE Tick
  <2>1. timer' = timer + 1 /\ stepAge' = stepAge + 1 /\ step' = step /\ timer < ExitTimeout
    BY <1>8 DEF Tick
  <2>2. /\ step # "serving"
        /\ step = "flushing" => stepAge # FlushTimeout
        /\ step = "draining" => stepAge # DrainTimeout
        /\ step = "components" => stepAge # ComponentTimeout
    BY <1>8 DEF Tick, FlushDeadline, DrainDeadline, ComponentDeadline
  <2>3. QED
    BY <2>1, <2>2
<1>9. UNCHANGED <<step, stepAge, timer>> \/ Signal \/ Flushed \/ DrainEnds
      \/ ComponentsEnd \/ CleanupEnds \/ TimerFires \/ Tick
  BY DEF Next, ServerNext, Arrive, Respond, AwaitBoot, Initialize, ConnectionAnswered,
         InitializeEnds, ManagerShutDown, serverVars, vars
<1>10. QED
  BY <1>1, <1>2, <1>3, <1>4, <1>5, <1>6, <1>7, <1>8, <1>9

\* The initial state has the declared types.
LEMMA TypeInit == Init => TypeOK /\ ClockInv
<1> SUFFICES ASSUME Init PROVE TypeOK /\ ClockInv
  OBVIOUS
<1>1. ClockInv /\ stepAge \in 0..ExitTimeout /\ timer \in 0..ExitTimeout
  BY Deadlines DEF Init, ClockInv
<1>2. client \in [Openers -> {"none", "connecting", "open", "failed", "closed"}]
  BY DEF Init
<1>3. initializing \in [Openers -> BOOLEAN] /\ awaits \in [Requests -> Openers \cup {None}]
  BY DEF Init
<1>4. QED
  BY <1>1, <1>2, <1>3, BackendsDiffer DEF Init, TypeOK

\* What shutting the components down does to the manager.
LEMMA ShutdownComponentsIsTyped ==
    ASSUME TypeOK, ShutdownComponents
    PROVE  /\ state' = "stopping" /\ step' = "components"
           /\ disconnecting' \in BOOLEAN
           /\ client' \in [Openers -> {"none", "connecting", "open", "failed", "closed"}]
BY BackendsDiffer DEF TypeOK, ShutdownComponents, GoesTo

\* Every step keeps the types.
LEMMA TypeNext == TypeOK /\ ClockInv' /\ [Next]_vars => TypeOK'
<1> SUFFICES ASSUME TypeOK, ClockInv', [Next]_vars PROVE TypeOK'
  OBVIOUS
<1>0. stepAge' \in 0..ExitTimeout /\ timer' \in 0..ExitTimeout
  BY Deadlines DEF ClockInv
<1> USE <1>0, BackendsDiffer DEF serverVars, machineVars, managerVars, requestVars
<1>1. ASSUME NEW r \in Requests, Arrive(r) \/ Respond(r)
      PROVE  TypeOK'
  BY <1>1 DEF TypeOK, Arrive, Respond, Checks
<1>2. ASSUME NEW r \in Requests, AwaitBoot(r) \/ Initialize(r)
      PROVE  TypeOK'
  <2>1. CASE AwaitBoot(r)
    BY <2>1 DEF TypeOK, AwaitBoot
  <2>2. CASE Initialize(r)
    <3>1. /\ initializing' \in [Openers -> BOOLEAN]
          /\ client' \in [Openers -> {"none", "connecting", "open", "failed", "closed"}]
          /\ awaits' \in [Requests -> Openers \cup {None}]
          /\ backend' \in Openers
      BY <2>2 DEF TypeOK, Initialize
    <3>2. QED
      BY <2>2, <3>1 DEF TypeOK, Initialize
  <2>3. QED
    BY <1>2, <2>1, <2>2
<1>3. ASSUME NEW o \in Openers, ConnectionAnswered(o)
      PROVE  TypeOK'
  BY <1>3 DEF TypeOK, ConnectionAnswered
<1>4. ASSUME NEW o \in Openers, InitializeEnds(o)
      PROVE  TypeOK'
  BY <1>4 DEF TypeOK, InitializeEnds
<1>5. CASE Signal
  BY <1>5 DEF TypeOK, Signal, GoesTo
<1>6. CASE Flushed
  BY <1>6, ShutdownComponentsIsTyped DEF TypeOK, Flushed, GoesTo
<1>7. CASE DrainEnds
  BY <1>7, ShutdownComponentsIsTyped DEF TypeOK, DrainEnds
<1>8. CASE ManagerShutDown
  BY <1>8 DEF TypeOK, ManagerShutDown
<1>9. CASE ComponentsEnd
  BY <1>9 DEF TypeOK, ComponentsEnd, GoesTo
<1>10. CASE CleanupEnds
  BY <1>10 DEF TypeOK, CleanupEnds, Exit, GoesTo
<1>11. CASE TimerFires
  BY <1>11 DEF TypeOK, TimerFires, Exit, GoesTo
<1>12. CASE Tick
  BY <1>12 DEF TypeOK, Tick
<1>13. CASE UNCHANGED vars
  BY <1>13 DEF TypeOK, vars
<1>14. QED
  BY <1>1, <1>2, <1>3, <1>4, <1>5, <1>6, <1>7, <1>8, <1>9, <1>10, <1>11, <1>12, <1>13
     DEF Next, ServerNext

(***************************************************************************)
(* The order of the steps                                                  *)
(***************************************************************************)

Live(o) == client[o] \in {"connecting", "open"}

BeforeComponents == step \in {"serving", "flushing", "draining"}

\* What the lifecycle state says at each step; the drain result is written
\* only when the components are shut down, the exit code only at the end.
SequenceInv ==
    /\ BeforeComponents => ~drained
    /\ step = "draining" => state = "draining"
    /\ step \in {"components", "cleanup"} => state = "stopping"
    /\ exitCode # "none" => step = "exited"

\* Until the components are shut down the manager has a backend, so that only
\* the connection of the constructor can exist, and it is the backend's.
ConnectionInv ==
    BeforeComponents =>
        /\ backend \in {Boot, Memory}
        /\ ~disconnecting
        /\ \A r \in Requests : client[r] = "none" /\ ~initializing[r]
        /\ Live(Boot) => backend = Boot

\* Once the requests are drained, nobody but a probe is left who could open a
\* connection.
DrainedInv ==
    ~BeforeComponents /\ drained =>
        /\ inFlight \subseteq Probes
        /\ \A o \in Openers \ Probes : ~Live(o)

\* Together they are inductive.
ShutdownInv ==
    /\ TypeOK
    /\ ClockInv
    /\ SequenceInv
    /\ ConnectionInv

\* The service starts serving, while the constructor's backend connects.
LEMMA ShutdownInvInit == Init => ShutdownInv
BY TypeInit, BackendsDiffer
   DEF Init, ShutdownInv, SequenceInv, ConnectionInv, BeforeComponents, Live

\* Every step keeps to the sequence of the shutdown.
LEMMA SequenceNext == TypeOK /\ SequenceInv /\ [Next]_vars => SequenceInv'
<1> SUFFICES ASSUME TypeOK, SequenceInv, [Next]_vars PROVE SequenceInv'
  OBVIOUS
<1> USE DEF SequenceInv, BeforeComponents
<1>1. CASE UNCHANGED <<step, drained, state, exitCode>>
  BY <1>1
<1>2. CASE Signal
  BY <1>2 DEF Signal, GoesTo, machineVars
<1>3. CASE Flushed
  BY <1>3 DEF Flushed, ShutdownComponents, GoesTo
<1>4. CASE DrainEnds
  BY <1>4 DEF DrainEnds, ShutdownComponents, GoesTo
<1>5. CASE ComponentsEnd
  BY <1>5 DEF ComponentsEnd, GoesTo, machineVars
<1>6. CASE CleanupEnds
  BY <1>6 DEF CleanupEnds, Exit, GoesTo
<1>7. CASE TimerFires
  BY <1>7 DEF TimerFires, Exit, GoesTo
<1>8. UNCHANGED <<step, drained, state, exitCode>> \/ Signal \/ Flushed \/ DrainEnds
      \/ ComponentsEnd \/ CleanupEnds \/ TimerFires
  BY DEF Next, ServerNext, Arrive, Respond, AwaitBoot, Initialize, ConnectionAnswered,
         InitializeEnds, ManagerShutDown, Tick, serverVars, machineVars, vars
<1>9. QED
  BY <1>1, <1>2, <1>3, <1>4, <1>5, <1>6, <1>7, <1>8

\* Until the components are shut down, every step leaves the manager with a
\* backend, and the constructor's connection is the only one.
LEMMA ConnectionNext == TypeOK /\ ConnectionInv /\ [Next]_vars => ConnectionInv'
<1> SUFFICES ASSUME TypeOK, ConnectionInv, [Next]_vars, BeforeComponents'
             PROVE  ConnectionInv'
  BY DEF ConnectionInv
<1> USE BackendsDiffer
    DEF ConnectionInv, BeforeComponents, Live, serverVars, machineVars, managerVars,
        requestVars, TypeOK
<1>0. BeforeComponents
  BY DEF Next, ServerNext, Arrive, Respond, AwaitBoot, Initialize, ConnectionAnswered,
         InitializeEnds, ManagerShutDown, Tick, Signal, Flushed, DrainEnds,
         ComponentsEnd, CleanupEnds, TimerFires, ShutdownComponents, Exit, GoesTo, vars
<1>1. CASE UNCHANGED managerVars
  BY <1>0, <1>1
<1>2. ASSUME NEW r \in Requests, Initialize(r)
      PROVE  FALSE
  BY <1>0, <1>2 DEF Initialize, NeedsBackend
<1>3. ASSUME NEW o \in Openers, ConnectionAnswered(o)
      PROVE  ConnectionInv'
  BY <1>0, <1>3 DEF ConnectionAnswered, Openers
<1>4. ASSUME NEW o \in Openers, InitializeEnds(o)
      PROVE  ConnectionInv'
  BY <1>0, <1>4 DEF InitializeEnds, Openers
<1>5. CASE Flushed
  BY <1>0, <1>5 DEF Flushed, ShutdownComponents, GoesTo
<1>6. CASE DrainEnds \/ ManagerShutDown
  BY <1>0, <1>6 DEF DrainEnds, ShutdownComponents, GoesTo, ManagerShutDown
<1>7. QED
  BY <1>1, <1>2, <1>3, <1>4, <1>5, <1>6
     DEF Next, ServerNext, Arrive, Respond, AwaitBoot, Tick, Signal, ComponentsEnd,
         CleanupEnds, TimerFires, Exit, vars

\* Every step keeps the shutdown's invariant.
LEMMA ShutdownInvNext == ShutdownInv /\ [Next]_vars => ShutdownInv'
BY ClockNext, TypeNext, SequenceNext, ConnectionNext DEF ShutdownInv

\* In every behaviour the steps of the shutdown come in their order, and until
\* the components are shut down the one connection is the manager's backend.
THEOREM ShutdownInvariant == Spec => []ShutdownInv
<1>1. Init => ShutdownInv
  BY ShutdownInvInit
<1>2. ShutdownInv /\ [Next]_vars => ShutdownInv'
  BY ShutdownInvNext
<1>3. QED
  BY <1>1, <1>2, PTL DEF Spec

\* Types and bounds: the timers stay below the 15 s deadline, and the tracker
\* knows the requests in flight.
THEOREM TypesAndBounds == Spec => []TypeOK
<1>1. ShutdownInv => TypeOK
  BY DEF ShutdownInv
<1>2. QED
  BY <1>1, ShutdownInvariant, PTL

(***************************************************************************)
(* The forced exit                                                         *)
(***************************************************************************)

\* The flush, the drain and the components keep to their own deadlines, so the
\* exit timer can only interrupt the final cleanup.
THEOREM ForcedExitInterruptsOnlyCleanup == Spec => ForcedExitOnlyWhileCleaningUp
<1> DEFINE Forced == exitCode' = "forced" => step = "cleanup" /\ state = "stopping"
<1>1. ShutdownInv /\ [Next]_vars => [Forced]_vars
  <2> SUFFICES ASSUME ShutdownInv, Next, exitCode' = "forced"
               PROVE  step = "cleanup" /\ state = "stopping"
    OBVIOUS
  <2>1. step # "exited"
    BY DEF Next, ServerNext, Running, Arrive, Respond, AwaitBoot, Initialize,
           ConnectionAnswered, InitializeEnds, ManagerShutDown, Tick, Signal, Flushed,
           DrainEnds, ComponentsEnd, CleanupEnds, TimerFires
  <2>2. exitCode = "none"
    BY <2>1 DEF ShutdownInv, SequenceInv
  <2>3. TimerFires
    BY <2>2 DEF Next, ServerNext, Arrive, Respond, AwaitBoot, Initialize,
           ConnectionAnswered, InitializeEnds, ManagerShutDown, Tick, Signal, Flushed,
           DrainEnds, ComponentsEnd, CleanupEnds, Exit, serverVars
  <2>4. timer = ExitTimeout /\ step # "serving"
    BY <2>3 DEF TimerFires, TimerDue
  <2>5. step \notin {"flushing", "draining", "components"}
    BY <2>4, Deadlines DEF ShutdownInv, ClockInv
  <2>6. QED
    BY <2>1, <2>4, <2>5 DEF ShutdownInv, TypeOK, SequenceInv
<1>2. QED
  BY <1>1, ShutdownInvariant, PTL DEF Spec, ForcedExitOnlyWhileCleaningUp

(***************************************************************************)
(* Requests that go through the middleware                                 *)
(***************************************************************************)

\* With the middleware installed, a drain that reports success has left no
\* request behind that it checks, and none arrives afterwards.
LEMMA DrainedNext ==
    ASSUME Tracked
    PROVE  ShutdownInv /\ DrainedInv /\ [Next]_vars => DrainedInv'
<1> SUFFICES ASSUME ShutdownInv, DrainedInv, [Next]_vars
             PROVE  DrainedInv'
  OBVIOUS
<1> USE BackendsDiffer
    DEF DrainedInv, ShutdownInv, SequenceInv, BeforeComponents, Live, TypeOK,
        serverVars, machineVars, managerVars, requestVars
<1>1. CASE UNCHANGED <<step, drained, client, inFlight>>
  BY <1>1
<1>2. ASSUME NEW r \in Requests, Arrive(r) \/ Respond(r) \/ Initialize(r)
      PROVE  DrainedInv'
  BY <1>2 DEF Arrive, Respond, Initialize, CanAcceptRequests, Checks, Running
<1>3. ASSUME NEW o \in Openers, ConnectionAnswered(o)
      PROVE  DrainedInv'
  BY <1>3 DEF ConnectionAnswered
<1>4. ASSUME ShutdownComponents, BeforeComponents, inFlight' = inFlight,
             drained' => inFlight \subseteq Probes
      PROVE  DrainedInv'
  BY <1>4 DEF ShutdownComponents, ConnectionInv, GoesTo, Openers
<1>5. CASE Flushed
  BY <1>5, <1>4 DEF Flushed, GoesTo, Checks
<1>6. CASE DrainEnds
  BY <1>6, <1>4 DEF DrainEnds, Checks
<1>7. CASE Signal \/ ComponentsEnd \/ CleanupEnds \/ TimerFires
  BY <1>7 DEF Signal, ComponentsEnd, CleanupEnds, TimerFires, Exit, GoesTo
<1>8. QED
  BY <1>1, <1>2, <1>3, <1>5, <1>6, <1>7
     DEF Next, ServerNext, AwaitBoot, InitializeEnds, ManagerShutDown, Tick, vars

\* If the service tracks its requests: in every behaviour, once they are drained
\* none but probes are unanswered, and no connection is open or opening but what
\* a probe opened.
LEMMA DrainedInvariant == ASSUME Tracked PROVE Spec => []DrainedInv
<1>1. Init => DrainedInv
  BY DEF Init, DrainedInv
<1>2. ShutdownInv /\ DrainedInv /\ [Next]_vars => DrainedInv'
  BY DrainedNext
<1>3. QED
  BY <1>1, <1>2, ShutdownInvariant, PTL DEF Spec

\* With the middleware, no request but a health or metrics probe is cut off once
\* the drain has succeeded.
THEOREM DrainedMeansAnswered == ASSUME Tracked PROVE Spec => []NoRequestCutOff
<1>1. DrainedInv => NoRequestCutOff
  BY DEF DrainedInv, BeforeComponents, NoRequestCutOff
<1>2. QED
  BY <1>1, DrainedInvariant, PTL

\* With the middleware, a server whose requests were drained exits without a
\* connection to Redis, open or being opened, but one that a probe opened after
\* the manager was shut down.
THEOREM DrainedMeansDisconnected == ASSUME Tracked PROVE Spec => []NoClientLeftOpen
<1>1. DrainedInv => NoClientLeftOpen
  BY DEF DrainedInv, BeforeComponents, Live, NoClientLeftOpen
<1>2. QED
  BY <1>1, DrainedInvariant, PTL
=============================================================================
