----------------------------- MODULE ManagedJobs -----------------------------
(***************************************************************************)
(* What a goroutine does between StartJob and FinishJob of LeaderLease:    *)
(* the wrapper that every job has.  StartLog inserts a RUNNING row, the    *)
(* body of the job follows, and FinishLog writes the result, all under the *)
(* one context of the job.                                                 *)
(***************************************************************************)
EXTENDS LeaderLease, Sequences

CONSTANTS
  CartonSyncs,  \* goroutines that run job 2
  MaxLogs       \* bound of the model: more rows cannot be inserted

ASSUME JobsAssumption == CartonSyncs \subseteq Goroutines /\ MaxLogs \in Nat

VARIABLES
  logs,   \* scheduler_logs: the status of each row, by id
  job     \* the call of the job function of each goroutine

jobVars == <<vars, logs, job>>

Status == {"RUNNING", "SUCCESS", "FAILED"}

\* id is the row of StartLog.  ctx: the context lives, or was cut short before
\* the body's last statement, or ended late, after it.
Job == [step : {"off", "opens", "body", "SUCCESS", "FAILED"}, id : 0 .. MaxLogs,
        ctx : {"lives", "cut", "late"}]
Off == [step |-> "off", id |-> 0, ctx |-> "lives"]

Holds(i, g) == job[i][g].step \in {"body", "SUCCESS", "FAILED"}
Closes(i, g) == job[i][g].step \in {"SUCCESS", "FAILED"}
Lives(i, g) == job[i][g].ctx = "lives"

LogsOK ==
  /\ logs \in Seq(Status) /\ Len(logs) <= MaxLogs
  /\ job \in [Instances -> [Goroutines -> Job]]

JobInit ==
  /\ Init
  /\ logs = <<>>
  /\ job = [i \in Instances |-> [g \in Goroutines |-> Off]]

Become(i, g, j) == job' = [job EXCEPT ![i][g] = j]

\* The job function returns.
Return(i, g) == FinishJob(i, g) /\ Become(i, g, Off)

-----------------------------------------------------------------------------
CallJob(i, g) ==
  /\ StartJob(i, g)
  /\ Become(i, g, [step |-> "opens", id |-> 0, ctx |-> "lives"])
  /\ UNCHANGED logs

\* INSERT ... RETURNING id: ids go up by one, and start again at 1 after
\* RESTART IDENTITY.
InsertLog == Len(logs) < MaxLogs /\ logs' = Append(logs, "RUNNING")

StartLog(i, g) ==
  /\ job[i][g].step = "opens" /\ Lives(i, g)
  /\ InsertLog
  /\ Become(i, g, [step |-> "body", id |-> Len(logs'), ctx |-> "lives"])
  /\ UNCHANGED vars

\* Without a row there is no job.  The row may be there all the same.
StartLogFails(i, g) ==
  /\ job[i][g].step = "opens"
  /\ InsertLog \/ UNCHANGED logs
  /\ Return(i, g)

\* The job's timeout, or the engine's Stop.
ContextEnds(i, g) ==
  /\ job[i][g].step # "off" /\ Lives(i, g)
  /\ Become(i, g, [job[i][g] EXCEPT !.ctx = IF Closes(i, g) THEN "late" ELSE "cut"])
  /\ UNCHANGED <<vars, logs>>

\* A body reports an ended context as its error, but for doSyncCartons, which
\* skips a carton whose upsert failed, for whatever reason.
BodyEnds(i, g) ==
  /\ job[i][g].step = "body"
  /\ \E result \in {"SUCCESS", "FAILED"} :
       /\ result = "SUCCESS" => Lives(i, g) \/ g \in CartonSyncs
       /\ Become(i, g, [job[i][g] EXCEPT !.step = result])
  /\ UNCHANGED <<vars, logs>>

\* UPDATE ... WHERE id: nothing, if there is no such row.
WriteResult(i, g) ==
  logs' = [n \in DOMAIN logs |-> IF n = job[i][g].id THEN job[i][g].step ELSE logs[n]]

\* Mutant: the result is written under a context of its own, so that it is
\* not lost when the job's context has ended.
FinishLogDetached(i, g) ==
  /\ Closes(i, g)
  /\ WriteResult(i, g)
  /\ Return(i, g)

FinishLog(i, g) ==
  /\ Closes(i, g) /\ Lives(i, g)
  /\ WriteResult(i, g)
  /\ Return(i, g)

\* The error is logged and the row stays RUNNING for ever.
FinishLogFails(i, g) ==
  /\ Closes(i, g)
  /\ Return(i, g)
  /\ UNCHANGED logs

\* The ticker's goroutine recovers, and FinishLog is passed over.
JobPanics(i, g) ==
  /\ job[i][g].step = "body"
  /\ Return(i, g)
  /\ UNCHANGED logs

\* Mutant: a reset that does not stop the scheduler first.
ResetUnwaited(i) ==
  /\ holder' = Nobody /\ left' = LongPast
  /\ logs' = <<>>
  /\ UNCHANGED <<run, up, job>>

ResetAll(i) ==
  /\ Reset(i)
  /\ logs' = <<>>
  /\ UNCHANGED job

JobStep(i, g) ==
  \/ StartLog(i, g) \/ StartLogFails(i, g)
  \/ BodyEnds(i, g) \/ JobPanics(i, g)
  \/ FinishLog(i, g) \/ FinishLogFails(i, g)

JobNext ==
  \/ \E i \in Instances, g \in Goroutines :
       \/ CallJob(i, g) \/ JobStep(i, g) \/ ContextEnds(i, g)
       \/ (TryAcquireOrRenew(i, g) \/ CheckFails(i, g)) /\ UNCHANGED <<logs, job>>
  \/ \E i \in Instances :
       \/ Crash(i) /\ job' = [job EXCEPT ![i] = [g \in Goroutines |-> Off]] /\ UNCHANGED logs
       \/ Restart(i) /\ UNCHANGED <<logs, job>>
       \/ ResetAll(i)
  \/ Tick /\ UNCHANGED <<logs, job>>

JobSpec == JobInit /\ [][JobNext]_jobVars

-----------------------------------------------------------------------------
\* The row a run will write its result into is there, nobody has written into
\* it, and no other run has the same one, through crashes, lost answers, and
\* resets that begin the ids again.
OwnLog ==
  \A i, j \in Instances, g, h \in Goroutines :
    /\ Holds(i, g) => job[i][g].id \in DOMAIN logs /\ logs[job[i][g].id] = "RUNNING"
    /\ Holds(i, g) /\ Holds(j, h) /\ job[i][g].id = job[j][h].id => <<i, g>> = <<j, h>>

\* A row becomes SUCCESS only by a run whose body was not cut short, although
\* a body may hide that it was; and what was written is not written again.
SuccessIsWhole ==
  [][\A n \in DOMAIN logs \cap DOMAIN logs' :
       logs'[n] # logs[n] =>
         /\ logs[n] = "RUNNING"
         /\ logs'[n] = "SUCCESS" =>
              \E i \in Instances, g \in Goroutines :
                job[i][g].id = n /\ job[i][g].ctx # "cut" /\ job'[i][g] = Off]_jobVars

FairJobSpec ==
  /\ JobSpec
  /\ WF_jobVars(Tick /\ UNCHANGED <<logs, job>>)
  /\ \A i \in Instances, g \in Goroutines :
       /\ WF_jobVars(TryAcquireOrRenew(i, g) /\ UNCHANGED <<logs, job>>)
       /\ WF_jobVars(CallJob(i, g))
       /\ WF_jobVars(JobStep(i, g))
  /\ <>[][~ \/ \E i \in Instances : Crash(i) \/ Reset(i)
            \/ \E i \in Instances, g \in Goroutines : CheckFails(i, g)]_vars

=============================================================================
