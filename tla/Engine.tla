------------------------------- MODULE Engine -------------------------------
(***************************************************************************)
(* The scheduler of one process: HTTP handlers start and stop it, change   *)
(* its intervals, trigger a job or reset the database, while its           *)
(* goroutines run the jobs.                                                *)
(*                                                                         *)
(* What the code does under the mutex does not block, and is one action.   *)
(* wg.Wait is outside: a Stop waits while other handlers go on.  Contexts  *)
(* are numbered; the last one made is the one s.cancel ends.               *)
(***************************************************************************)
EXTENDS Integers, FiniteSets

CONSTANTS
  Handlers,    \* requests that may be under way together
  Requests,    \* the requests of this instance, of RequestKinds
  JobCount,    \* jobs, in the order of the initial execution
  Intervals,   \* settings of the tickers
  MaxStarts    \* bound: contexts made

RequestKinds == {"start", "stop", "update", "trigger", "reset"}

ASSUME EngineAssumption ==
  /\ IsFiniteSet(Handlers)
  /\ Requests \subseteq RequestKinds
  /\ JobCount \in Nat \ {0}
  /\ MaxStarts \in Nat

VARIABLES
  isRunning,
  made,        \* contexts made so far; made is the number of the last
  cancelled,   \* contexts cancelled
  wg,          \* the WaitGroup's counter
  boot,        \* of each context, the goroutine of the initial execution
  ticker,      \* of each context and job, the job's goroutine
  interval,    \* cfg.Scheduler's intervals
  handler,     \* what each handler is doing
  alone        \* history: requests have come one at a time, none of them a trigger

goroutines == <<wg, boot, ticker>>
vars == <<isRunning, made, cancelled, wg, boot, ticker, interval, handler, alone>>

Jobs == 1 .. JobCount
Contexts == 1 .. MaxStarts

\* A goroutine is between jobs, or at work on one.
Pc == {"none", "waits", "works", "gone"}

\* at: the job to run, then JobCount + the ticker to start, then AtReturn.
AtReturn == 2 * JobCount + 1
Boot == [pc : Pc, at : 1 .. AtReturn]
NoBoot == [pc |-> "none", at |-> 1]
NewBoot == [pc |-> "waits", at |-> 1]

Ticker == [pc : Pc, every : Intervals]

\* ctx is the context that the handler's Stop cancelled.
Handler == [op  : RequestKinds \cup {"none"},
            pc  : {"idle", "start", "read", "stop", "wait", "parked", "woken", "write",
                   "restart", "truncate", "lease", "job"},
            ctx : 0 .. MaxStarts,
            job : 0 .. JobCount]
Idle == [op |-> "none", pc |-> "idle", ctx |-> 0, job |-> 0]

TypeOK ==
  /\ isRunning \in BOOLEAN
  /\ made \in 0 .. MaxStarts
  /\ cancelled \subseteq 1 .. made
  /\ wg \in Nat
  /\ boot \in [Contexts -> Boot]
  /\ ticker \in [Contexts -> [Jobs -> Ticker]]
  /\ interval \in Intervals
  /\ handler \in [Handlers -> Handler]
  /\ alone \in BOOLEAN

Init ==
  /\ isRunning = FALSE
  /\ made = 0
  /\ cancelled = {}
  /\ wg = 0
  /\ boot = [c \in Contexts |-> NoBoot]
  /\ interval \in Intervals
  /\ ticker = [c \in Contexts |-> [j \in Jobs |-> [pc |-> "none", every |-> interval]]]
  /\ handler = [h \in Handlers |-> Idle]
  /\ alone = TRUE

-----------------------------------------------------------------------------
(* Goroutines *)

BootAlive(c) == boot[c].pc \in {"waits", "works"}
TickerAlive(c, j) == ticker[c][j].pc \in {"waits", "works"}
Alive(c) == BootAlive(c) \/ \E j \in Jobs : TickerAlive(c, j)

\* wg.Done; the last one wakes every handler that is parked in wg.Wait.
Done ==
  /\ wg' = wg - 1
  /\ handler' = [h \in Handlers |-> IF wg = 1 /\ handler[h].pc = "parked"
                                    THEN [handler[h] EXCEPT !.pc = "woken"] ELSE handler[h]]

\* runManagedJob of the initial execution: the context has not ended and
\* this instance gets the lease.
BootStartsJob(c) ==
  /\ boot[c].pc = "waits" /\ boot[c].at \in Jobs
  /\ c \notin cancelled
  /\ boot' = [boot EXCEPT ![c].pc = "works"]
  /\ UNCHANGED <<isRunning, made, cancelled, wg, ticker, interval, handler, alone>>

\* The job returns, or is not run because the lease check fails.
BootNextJob(c) ==
  /\ BootAlive(c) /\ boot[c].at \in Jobs
  /\ boot' = [boot EXCEPT ![c] = [pc |-> "waits", at |-> @.at + 1]]
  /\ UNCHANGED <<isRunning, made, cancelled, wg, ticker, interval, handler, alone>>

\* Mutant: the ticker's goroutine is not counted.
startJobUncounted(c, j) ==
  /\ BootAlive(c) /\ boot[c].at = JobCount + j
  /\ boot' = [boot EXCEPT ![c].at = @ + 1]
  /\ ticker' = [ticker EXCEPT ![c][j] = [pc |-> "waits", every |-> interval]]
  /\ UNCHANGED <<isRunning, made, cancelled, wg, interval, handler, alone>>

\* A ticker is started even if the context has ended meanwhile.
startJob(c, j) ==
  /\ BootAlive(c) /\ boot[c].at = JobCount + j
  /\ boot' = [boot EXCEPT ![c].at = @ + 1]
  /\ wg' = wg + 1
  /\ ticker' = [ticker EXCEPT ![c][j] = [pc |-> "waits", every |-> interval]]
  /\ UNCHANGED <<isRunning, made, cancelled, interval, handler, alone>>

BootReturns(c) ==
  /\ BootAlive(c) /\ boot[c].at = AtReturn
  /\ boot' = [boot EXCEPT ![c].pc = "gone"]
  /\ Done
  /\ UNCHANGED <<isRunning, made, cancelled, ticker, interval, alone>>

TickerStartsJob(c, j) ==
  /\ ticker[c][j].pc = "waits"
  /\ c \notin cancelled
  /\ ticker' = [ticker EXCEPT ![c][j].pc = "works"]
  /\ UNCHANGED <<isRunning, made, cancelled, wg, boot, interval, handler, alone>>

TickerEndsJob(c, j) ==
  /\ ticker[c][j].pc = "works"
  /\ ticker' = [ticker EXCEPT ![c][j].pc = "waits"]
  /\ UNCHANGED <<isRunning, made, cancelled, wg, boot, interval, handler, alone>>

\* Mutant: a job that panics takes the deferred wg.Done with it.
TickerReturnsUncounted(c, j) ==
  /\ \/ ticker[c][j].pc = "waits" /\ c \in cancelled
     \/ ticker[c][j].pc = "works"
  /\ ticker' = [ticker EXCEPT ![c][j].pc = "gone"]
  /\ IF ticker[c][j].pc = "works" THEN UNCHANGED <<wg, handler>> ELSE Done
  /\ UNCHANGED <<isRunning, made, cancelled, boot, interval, alone>>

\* ctx.Done is seen, or the job panicked and recover ended its goroutine.
TickerReturns(c, j) ==
  /\ \/ ticker[c][j].pc = "waits" /\ c \in cancelled
     \/ ticker[c][j].pc = "works"
  /\ ticker' = [ticker EXCEPT ![c][j].pc = "gone"]
  /\ Done
  /\ UNCHANGED <<isRunning, made, cancelled, boot, interval, alone>>

GoroutineStep(c) ==
  \/ BootStartsJob(c) \/ BootNextJob(c) \/ BootReturns(c)
  \/ \E j \in Jobs : startJob(c, j) \/ TickerStartsJob(c, j) \/ TickerEndsJob(c, j)
                     \/ TickerReturns(c, j)

-----------------------------------------------------------------------------
(* Handlers *)

GoTo(h, pc) == handler' = [handler EXCEPT ![h].pc = pc]
Return(h) == handler' = [handler EXCEPT ![h] = Idle]

FirstPc(op) == CASE op = "start" -> "start"
                 [] op \in {"stop", "reset"} -> "stop"
                 [] op = "update" -> "read"
                 [] op = "trigger" -> "lease"

\* Every request under way that may start the engine has a context left.
StartsLeft ==
  made + Cardinality({h \in Handlers : handler[h].op \in {"start", "update"}}) < MaxStarts

Request(h, op) ==
  /\ handler[h].pc = "idle"
  /\ op \in {"start", "update"} => StartsLeft
  /\ handler' = [handler EXCEPT ![h] = [Idle EXCEPT !.op = op, !.pc = FirstPc(op)]]
  /\ alone' = (alone /\ op # "trigger" /\ \A x \in Handlers : handler[x].pc = "idle")
  /\ UNCHANGED <<isRunning, made, cancelled, wg, boot, ticker, interval>>

\* Mutant: Start does not look at isRunning.
StartAgain(h) ==
  /\ handler[h].pc = "start"
  /\ isRunning' = TRUE
  /\ made' = made + 1
  /\ boot' = [boot EXCEPT ![made + 1] = NewBoot]
  /\ wg' = wg + 1
  /\ Return(h)
  /\ UNCHANGED <<cancelled, ticker, interval, alone>>

\* Start, the last thing its handlers do.
Start(h) ==
  /\ handler[h].pc = "start"
  /\ IF isRunning THEN UNCHANGED <<isRunning, made, boot, wg>>
     ELSE /\ isRunning' = TRUE
          /\ made' = made + 1
          /\ boot' = [boot EXCEPT ![made + 1] = NewBoot]
          /\ wg' = wg + 1
  /\ Return(h)
  /\ UNCHANGED <<cancelled, ticker, interval, alone>>

\* What a handler does after Stop has returned.
AfterStop(h) == CASE handler[h].op = "stop" -> Return(h)
                  [] handler[h].op = "reset" -> GoTo(h, "truncate")
                  [] handler[h].op = "update" -> GoTo(h, "restart")

\* Stop of an engine that is stopped already, or is being stopped.
StopAtOnce(h) ==
  /\ handler[h].pc = "stop"
  /\ ~isRunning
  /\ AfterStop(h)
  /\ UNCHANGED <<isRunning, made, cancelled, goroutines, interval, alone>>

\* The part of Stop under the mutex.
StopCancels(h) ==
  /\ handler[h].pc = "stop"
  /\ isRunning
  /\ isRunning' = FALSE
  /\ cancelled' = cancelled \cup {made}
  /\ handler' = [handler EXCEPT ![h] = [@ EXCEPT !.pc = "wait", !.ctx = made]]
  /\ UNCHANGED <<made, goroutines, interval, alone>>

Parks(h) ==
  /\ handler[h].pc = "wait"
  /\ wg > 0
  /\ GoTo(h, "parked")
  /\ UNCHANGED <<isRunning, made, cancelled, goroutines, interval, alone>>

\* Mutant: Stop does not wait.
StopReturnsUnwaited(h) ==
  /\ handler[h].pc = "wait"
  /\ AfterStop(h)
  /\ UNCHANGED <<isRunning, made, cancelled, goroutines, interval, alone>>

\* wg.Wait returns: the counter is zero, or was when the handler was woken.
StopReturns(h) ==
  /\ handler[h].pc \in {"wait", "woken"}
  /\ wg = 0
  /\ handler[h].pc = "woken" => \A x \in Handlers : handler[x].pc # "parked"
  /\ AfterStop(h)
  /\ UNCHANGED <<isRunning, made, cancelled, goroutines, interval, alone>>

\* A Start came between the wake-up and the waking: Wait panics with
\* "WaitGroup is reused", and net/http gives up the request.
WaitPanics(h) ==
  /\ handler[h].pc = "woken"
  /\ wg > 0 \/ \E x \in Handlers : handler[x].pc = "parked"
  /\ Return(h)
  /\ UNCHANGED <<isRunning, made, cancelled, goroutines, interval, alone>>

\* Mutant: a running engine is not stopped first.
UpdateReadsNoStop(h) ==
  /\ handler[h].pc = "read"
  /\ \/ Return(h)
     \/ GoTo(h, IF isRunning THEN "restart" ELSE "write")
  /\ UNCHANGED <<isRunning, made, cancelled, goroutines, interval, alone>>

\* UpdateIntervals refuses the settings, or reads isRunning.  "restart" is the
\* place of "write" for an engine that was running.
UpdateReads(h) ==
  /\ handler[h].pc = "read"
  /\ \/ Return(h)
     \/ GoTo(h, IF isRunning THEN "stop" ELSE "write")
  /\ UNCHANGED <<isRunning, made, cancelled, goroutines, interval, alone>>

UpdateWrites(h) ==
  /\ interval' \in Intervals
  /\ \/ handler[h].pc = "write" /\ Return(h)
     \/ handler[h].pc = "restart" /\ GoTo(h, "start")
  /\ UNCHANGED <<isRunning, made, cancelled, goroutines, alone>>

\* TRUNCATE, which may fail.
Truncate(h) ==
  /\ handler[h].pc = "truncate"
  /\ Return(h)
  /\ UNCHANGED <<isRunning, made, cancelled, goroutines, interval, alone>>

\* TriggerJob: a job in the handler's own goroutine, if the lease allows it.
Trigger(h) ==
  /\ handler[h].pc = "lease"
  /\ \/ \E j \in Jobs : handler' = [handler EXCEPT ![h] = [@ EXCEPT !.pc = "job", !.job = j]]
     \/ Return(h)
  /\ UNCHANGED <<isRunning, made, cancelled, goroutines, interval, alone>>

TriggerEnds(h) ==
  /\ handler[h].pc = "job"
  /\ Return(h)
  /\ UNCHANGED <<isRunning, made, cancelled, goroutines, interval, alone>>

HandlerStep(h) ==
  \/ Start(h) \/ StopAtOnce(h) \/ StopCancels(h) \/ Parks(h) \/ StopReturns(h) \/ WaitPanics(h)
  \/ UpdateReads(h) \/ UpdateWrites(h) \/ Truncate(h) \/ Trigger(h) \/ TriggerEnds(h)

Next ==
  \/ \E c \in Contexts : GoroutineStep(c)
  \/ \E h \in Handlers : HandlerStep(h) \/ \E op \in Requests : Request(h, op)

Spec == Init /\ [][Next]_vars

-----------------------------------------------------------------------------
\* No goroutine is out of reach: whatever handlers do at the same time, every
\* context with a goroutine left has ended, or is the one the next Stop ends.
NoOrphan ==
  \A c \in 1 .. made : c \in cancelled \/ (isRunning /\ c = made)

\* Those who run job j: an initial execution, tickers, triggers.
AtJob(j) ==
  {<<"boot", c>> : c \in {c \in Contexts : boot[c].pc = "works" /\ boot[c].at = j}}
    \cup {<<"ticker", c>> : c \in {c \in Contexts : ticker[c][j].pc = "works"}}
    \cup {<<"handler", h>> : h \in {h \in Handlers : handler[h].pc = "job" /\ handler[h].job = j}}

\* While requests come one at a time, no job runs beside itself in this
\* process, from one start to the next.
JobsSerial == alone => \A j \in Jobs : Cardinality(AtJob(j)) <= 1

\* When a Stop that has waited returns, whoever started what meanwhile, every
\* goroutine of the context it cancelled and of earlier ones has returned.
StopIsComplete ==
  [][\A h \in Handlers : StopReturns(h) => \A c \in 1 .. handler[h].ctx : ~Alive(c)]_vars

\* Of requests that come one at a time a reset truncates the tables only while
\* the engine is stopped and this process runs no job.
ResetAlone ==
  [][\A h \in Handlers : Truncate(h) /\ alone => ~isRunning /\ \A j \in Jobs : AtJob(j) = {}]_vars

\* Between requests that come one at a time the tickers of a running engine
\* have the intervals set last.
SettingsApply ==
  alone /\ isRunning /\ (\A h \in Handlers : handler[h].pc = "idle") =>
    \A j \in Jobs : TickerAlive(made, j) => ticker[made][j].every = interval

-----------------------------------------------------------------------------
\* Goroutines go on and handlers go on; nobody has to make a request.  A job
\* ends, for its context has a timeout, and select sees ctx.Done in the end.
FairSpec ==
  /\ Spec
  /\ \A c \in Contexts :
       /\ WF_vars(BootNextJob(c)) /\ WF_vars(BootReturns(c))
       /\ \A j \in Jobs : WF_vars(startJob(c, j)) /\ WF_vars(TickerEndsJob(c, j))
                          /\ WF_vars(ticker[c][j].pc = "waits" /\ TickerReturns(c, j))
  /\ \A h \in Handlers : WF_vars(HandlerStep(h))

\* Every Stop returns.
StopsReturn ==
  \A h \in Handlers :
    handler[h].pc \in {"wait", "parked", "woken"}
      ~> handler[h].pc \notin {"wait", "parked", "woken"}
=============================================================================
