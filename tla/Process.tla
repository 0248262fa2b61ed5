------------------------------- MODULE Process -------------------------------
(***************************************************************************)
(* The life of one process, as fx runs the hooks of main.go: start the     *)
(* scheduler, listen for requests, and at a signal drain the HTTP server   *)
(* and only then stop the scheduler.  fx gives up when its stop timeout    *)
(* passes, and the process ends with whatever is at work.                  *)
(***************************************************************************)
EXTENDS Engine

CONSTANT Main   \* fx's goroutine: it calls Start and Stop as a handler does

ASSUME MainAssumption == Main \in Handlers /\ {"start", "stop"} \subseteq Requests

VARIABLE phase

Gone == {"exited", "killed"}
Phase == {"starting", "listening", "serving", "draining", "stopping"} \cup Gone

processVars == <<vars, phase>>

ProcessTypeOK == TypeOK /\ phase \in Phase


ProcessInit == Init /\ phase = "starting"

-----------------------------------------------------------------------------
AllIdle == \A h \in Handlers : handler[h].pc = "idle"

\* OnStart of the scheduler, the first of the two to be constructed.
SchedulerStarts ==
  /\ phase = "starting"
  /\ Request(Main, "start")
  /\ phase' = "listening"

\* OnStart of the server.
Listens ==
  /\ phase = "listening"
  /\ AllIdle
  /\ phase' = "serving"
  /\ UNCHANGED vars

\* The port is taken: fx calls OnStop of what it has started.
ListenFails ==
  /\ phase = "listening"
  /\ AllIdle
  /\ Request(Main, "stop")
  /\ phase' = "stopping"

\* SIGTERM or SIGINT.
Signal ==
  /\ phase = "serving"
  /\ phase' = "draining"
  /\ UNCHANGED vars

\* Mutant: the hooks are called in the order of OnStart.
SchedulerStopsFirst ==
  /\ phase = "draining"
  /\ Request(Main, "stop")
  /\ phase' = "stopping"

\* OnStop of the server has waited for the requests under way; now the
\* scheduler's is called.
SchedulerStops ==
  /\ phase = "draining"
  /\ AllIdle
  /\ Request(Main, "stop")
  /\ phase' = "stopping"

Exits ==
  /\ phase = "stopping"
  /\ handler[Main].pc = "idle"
  /\ phase' = "exited"
  /\ UNCHANGED vars

\* fx's timeout passes before Shutdown, or Stop, has returned.
TimesOut ==
  /\ phase \in {"draining", "stopping"}
  /\ phase' = "killed"
  /\ UNCHANGED vars

\* A request whose connection was accepted before the signal may still come.
Accepts(h, op) ==
  /\ phase \in {"serving", "draining"}
  /\ h # Main
  /\ Request(h, op)
  /\ UNCHANGED phase

GoesOn(step) == phase \notin Gone /\ step /\ UNCHANGED phase

ProcessNext ==
  \/ SchedulerStarts \/ Listens \/ ListenFails \/ Signal \/ SchedulerStops \/ Exits \/ TimesOut
  \/ \E h \in Handlers, op \in Requests : Accepts(h, op)
  \/ \E c \in Contexts : GoesOn(GoroutineStep(c))
  \/ \E h \in Handlers : GoesOn(HandlerStep(h))

ProcessSpec == ProcessInit /\ [][ProcessNext]_processVars

-----------------------------------------------------------------------------
\* A process that was not cut off leaves nothing half done: no request is
\* under way, and of none of its contexts a goroutine is left.
CleanExit == phase = "exited" => AllIdle /\ \A c \in Contexts : ~Alive(c)

-----------------------------------------------------------------------------
\* As in Engine, while the process lives.  Neither a signal nor the timeout
\* has to come.
FairProcess ==
  /\ ProcessSpec
  /\ \A c \in Contexts :
       /\ WF_vars(GoesOn(BootNextJob(c))) /\ WF_vars(GoesOn(BootReturns(c)))
       /\ \A j \in Jobs :
            /\ WF_vars(GoesOn(startJob(c, j))) /\ WF_vars(GoesOn(TickerEndsJob(c, j)))
            /\ WF_vars(ticker[c][j].pc = "waits" /\ GoesOn(TickerReturns(c, j)))
  /\ \A h \in Handlers : WF_vars(GoesOn(HandlerStep(h)))
  /\ WF_processVars(Exits)

\* Whatever came before, the Stop of the shutdown itself returns: a Stop may
\* hang only beside a Start, and the server has been drained.
StopEnds == phase = "stopping" ~> phase \in Gone

\* Every Stop returns, if requests come one at a time.
StopsReturnAlone ==
  []alone => \A h \in Handlers :
    handler[h].pc \in {"wait", "parked", "woken"}
      ~> handler[h].pc \notin {"wait", "parked", "woken"} \/ phase \in Gone
=============================================================================
