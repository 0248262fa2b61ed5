---------------------------- MODULE ProcessProofs ----------------------------
(***************************************************************************)
(* Proofs about Process: it is Engine with fx's goroutine for one handler, *)
(* and a process that exits in time leaves no goroutine behind.            *)
(***************************************************************************)
EXTENDS Process, EngineProofs

-----------------------------------------------------------------------------
(* Process implements Engine *)

LEMMA ProcessStep == [ProcessNext]_processVars => [Next]_vars
  <1> SUFFICES ASSUME [ProcessNext]_processVars PROVE [Next]_vars
    OBVIOUS
  <1>1. CASE \/ SchedulerStarts \/ ListenFails \/ SchedulerStops
             \/ \E h \in Handlers, op \in Requests : Accepts(h, op)
    BY <1>1, MainAssumption DEF SchedulerStarts, ListenFails, SchedulerStops, Accepts, Next
  <1>2. CASE Listens \/ Signal \/ Exits \/ TimesOut \/ UNCHANGED processVars
    BY <1>2 DEF Listens, Signal, Exits, TimesOut, processVars
  <1>3. CASE \/ \E c \in Contexts : GoesOn(GoroutineStep(c))
             \/ \E h \in Handlers : GoesOn(HandlerStep(h))
    BY <1>3 DEF GoesOn, Next
  <1> QED BY <1>1, <1>2, <1>3 DEF ProcessNext

\* What is proved of Engine holds through start-up and shutdown.
THEOREM ProcessIsEngine == ProcessSpec => Spec
  BY ProcessStep, PTL DEF ProcessSpec, ProcessInit, Spec

-----------------------------------------------------------------------------
(* The shutdown *)

\* Of the shutdown: requests are over, and fx's Stop is on its way or done.
Drained ==
  /\ \A h \in Handlers \ {Main} : handler[h].pc = "idle"
  /\ handler[Main].pc \in {"stop", "wait", "parked", "woken", "idle"}
  /\ handler[Main].pc # "idle" => handler[Main].op = "stop"
  /\ handler[Main].pc # "stop" => ~isRunning
  /\ handler[Main].pc \in {"woken", "idle"} => wg = 0

PInv ==
  /\ IInv
  /\ Waited
  /\ phase \in Phase
  /\ phase = "stopping" => Drained
  /\ phase = "exited" => Drained /\ handler[Main].pc = "idle"

\* fx calls Stop when no request is under way.
LEMMA StopBegins ==
  ASSUME IInv, AllIdle, Request(Main, "stop") PROVE Drained'
  <1>1. handler \in [Handlers -> Handler] /\ Main \in Handlers /\ "stop" \in Requests
    BY MainAssumption DEF IInv, TypeOK
  <1> DEFINE r == [Idle EXCEPT !.op = "stop", !.pc = "stop"]
  <1>2. handler' = [handler EXCEPT ![Main] = r]
    BY DEF Request, FirstPc
  <1>3. r.op = "stop" /\ r.pc = "stop"
    BY DEF Idle
  <1> HIDE DEF r
  <1> QED BY <1>1, <1>2, <1>3 DEF Drained, AllIdle

\* It goes on as any Stop does, with nobody to disturb it.
LEMMA StopGoesOn ==
  ASSUME IInv, Waited, Drained,
         (\E c \in Contexts : GoroutineStep(c)) \/ \E h \in Handlers : HandlerStep(h)
  PROVE  Drained'
  <1>0. handler \in [Handlers -> Handler] /\ Main \in Handlers
    BY MainAssumption DEF IInv, TypeOK
  <1>1. ASSUME NEW c \in Contexts, GoroutineStep(c) PROVE Drained'
    <2>1. wg # 0 /\ UNCHANGED isRunning
      BY <1>1, GoroutineSteps
    <2>2. CASE UNCHANGED handler
      BY <2>1, <2>2 DEF Drained
    <2>3. CASE ~UNCHANGED handler
      <3>1. wg' = 0 /\ \A h \in Handlers :
              handler'[h] = IF handler[h].pc = "parked"
                            THEN [handler[h] EXCEPT !.pc = "woken"] ELSE handler[h]
        BY <1>1, <2>3, GoroutineSteps
      <3>2. \A h \in Handlers : handler'[h].op = handler[h].op
                                /\ handler'[h].pc = IF handler[h].pc = "parked"
                                                    THEN "woken" ELSE handler[h].pc
        BY <1>0, <3>1 DEF Handler
      <3> QED BY <1>0, <2>1, <3>1, <3>2 DEF Drained
    <2> QED BY <2>2, <2>3
  <1>2. ASSUME NEW h \in Handlers, HandlerStep(h) PROVE Drained'
    <2>1. handler[h].pc # "idle"
      BY <1>2 DEF HandlerStep, Start, StopAtOnce, StopCancels, Parks, StopReturns, WaitPanics,
         UpdateReads, UpdateWrites, Truncate, Trigger, TriggerEnds
    <2>2. h = Main /\ handler[h].op = "stop"
      BY <2>1 DEF Drained
    <2>3. \A x \in Handlers \ {Main} : handler'[x].pc = "idle"
      BY <1>2, <2>2, OneHandlerMoves DEF Drained
    <2>4. CASE StopAtOnce(h)
      <3>1. wg = 0
        BY <2>2, <2>4 DEF StopAtOnce, Waited, Drained
      <3>2. Return(h) /\ UNCHANGED <<isRunning, wg>> /\ ~isRunning
        BY <2>2, <2>4 DEF StopAtOnce, AfterStop, goroutines
      <3>3. handler'[Main].pc = "idle"
        BY <1>0, <2>2, <3>2 DEF Return, Idle
      <3> QED BY <2>3, <3>1, <3>2, <3>3 DEF Drained
    <2>5. CASE StopCancels(h)
      <3>1. handler'[Main].pc = "wait" /\ handler'[Main].op = "stop"
        BY <1>0, <2>2, <2>5 DEF StopCancels, Handler
      <3> QED BY <2>3, <2>5, <3>1 DEF StopCancels, Drained
    <2>6. CASE Parks(h)
      <3>1. handler'[Main].pc = "parked" /\ handler'[Main].op = "stop"
        BY <1>0, <2>2, <2>6 DEF Parks, GoTo, Handler
      <3> QED BY <2>2, <2>3, <2>6, <3>1 DEF Parks, Drained
    <2>7. CASE StopReturns(h)
      <3>1. Return(h) /\ UNCHANGED <<isRunning, wg>> /\ wg = 0 /\ ~isRunning
        BY <2>2, <2>7 DEF StopReturns, AfterStop, goroutines, Drained
      <3>2. handler'[Main].pc = "idle"
        BY <1>0, <2>2, <3>1 DEF Return, Idle
      <3> QED BY <2>3, <3>1, <3>2 DEF Drained
    <2>8. ~WaitPanics(h)
      BY <2>2 DEF WaitPanics, Drained
    <2> QED BY <1>2, <2>2, <2>4, <2>5, <2>6, <2>7, <2>8
            DEF HandlerStep, Start, UpdateReads, UpdateWrites, Truncate, Trigger, TriggerEnds,
                Drained
  <1> QED BY <1>1, <1>2

LEMMA PInvStep == PInv /\ [ProcessNext]_processVars => PInv'
  <1> SUFFICES ASSUME PInv, [ProcessNext]_processVars PROVE PInv'
    OBVIOUS
  <1>1. IInv' /\ Waited'
    BY ProcessStep, NextIInv, WaitedStep DEF PInv
  <1>2. CASE ListenFails \/ SchedulerStops
    BY <1>1, <1>2, StopBegins DEF ListenFails, SchedulerStops, PInv, Phase
  <1>3. CASE SchedulerStarts \/ Listens \/ Signal \/ TimesOut
             \/ \E h \in Handlers, op \in Requests : Accepts(h, op)
    BY <1>1, <1>3 DEF SchedulerStarts, Listens, Signal, TimesOut, Accepts, PInv, Phase, Gone
  <1>4. CASE Exits \/ UNCHANGED processVars
    BY <1>1, <1>4 DEF Exits, processVars, vars, PInv, Phase, Gone, Drained
  <1>5. CASE \/ \E c \in Contexts : GoesOn(GoroutineStep(c))
             \/ \E h \in Handlers : GoesOn(HandlerStep(h))
    <2>1. /\ phase \notin Gone /\ phase' = phase
          /\ (\E c \in Contexts : GoroutineStep(c)) \/ \E h \in Handlers : HandlerStep(h)
      BY <1>5 DEF GoesOn
    <2> QED BY <1>1, <2>1, StopGoesOn DEF PInv, Gone
  <1> QED BY <1>2, <1>3, <1>4, <1>5 DEF ProcessNext

LEMMA PInvariance == ProcessSpec => []PInv
  <1>1. ProcessInit => PInv
    <2> SUFFICES ASSUME ProcessInit PROVE PInv
      OBVIOUS
    <2>1. IInv
      BY InitIInv DEF ProcessInit
    <2>2. Waited
      BY DEF ProcessInit, Init, Waited
    <2> QED BY <2>1, <2>2 DEF ProcessInit, PInv, Phase
  <1> QED BY <1>1, PInvStep, PTL DEF ProcessSpec

\* Every variable keeps its type through the life of a process.
THEOREM ProcessTypeCorrect == ProcessSpec => []ProcessTypeOK
  <1>1. PInv => ProcessTypeOK
    BY DEF PInv, IInv, ProcessTypeOK
  <1> QED BY <1>1, PInvariance, PTL

\* A process that exits in time has no request and no goroutine left, however
\* many requests started and stopped the engine before the signal.
THEOREM CleanExitAlways == ProcessSpec => []CleanExit
  <1>1. PInv => CleanExit
    <2> SUFFICES ASSUME PInv, phase = "exited"
                 PROVE  AllIdle /\ \A c \in Contexts : ~Alive(c)
      BY DEF CleanExit
    <2>1. Drained /\ handler[Main].pc = "idle" /\ IInv
      BY DEF PInv
    <2> QED BY <2>1, NothingAlive DEF Drained, AllIdle
  <1> QED BY <1>1, PInvariance, PTL
=============================================================================
