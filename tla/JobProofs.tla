------------------------------ MODULE JobProofs ------------------------------
(***************************************************************************)
(* The wrapper of the jobs keeps the lease's promise, and what it writes   *)
(* into scheduler_logs is its own and true, for any number of instances,   *)
(* goroutines and rows.                                                    *)
(***************************************************************************)
EXTENDS ManagedJobs, LeaseProofs, SequenceTheorems

\* A job function is under way only in a goroutine that runs one.
CallsRun ==
  \A i \in Instances, g \in Goroutines :
    job[i][g].step # "off" => run[i][g].pc = "running"

JInv == TypeOK /\ LogsOK /\ CallsRun /\ OwnLog

-----------------------------------------------------------------------------
\* Each step of JobNext is a step of the lease, or leaves the lease alone.
LEMMA LeaseStep == JobNext => [Next]_vars
  BY DEF JobNext, Next, RunManagedJob, CallJob, JobStep, StartLog, StartLogFails,
         ContextEnds, BodyEnds, FinishLog, FinishLogFails, JobPanics, Return, ResetAll

LEMMA InitJInv == JobInit => JInv
  <1> SUFFICES ASSUME JobInit PROVE JInv
    OBVIOUS
  <1>1. TypeOK
    BY InitIInv DEF JobInit, IInv
  <1>2. logs \in Seq(Status) /\ Len(logs) = 0
    BY DEF JobInit
  <1>3. \A i \in Instances, g \in Goroutines : job[i][g] = Off
    BY DEF JobInit
  <1>4. LogsOK
    BY <1>2, JobsAssumption DEF JobInit, LogsOK, Off, Job
  <1>5. CallsRun /\ OwnLog
    BY <1>3 DEF CallsRun, OwnLog, Holds, Off
  <1> QED BY <1>1, <1>4, <1>5 DEF JInv

\* Where one goroutine's call changes, the others keep theirs.
LEMMA Becomes ==
  ASSUME LogsOK, NEW i \in Instances, NEW g \in Goroutines, NEW j, Become(i, g, j)
  PROVE  \A k \in Instances, h \in Goroutines :
           job'[k][h] = IF k = i /\ h = g THEN j ELSE job[k][h]
  BY DEF LogsOK, Become

\* So do the goroutines themselves when one returns.
LEMMA Finishes ==
  ASSUME TypeOK, NEW i \in Instances, NEW g \in Goroutines, FinishJob(i, g)
  PROVE  \A k \in Instances, h \in Goroutines :
           run'[k][h] = IF k = i /\ h = g THEN Idle ELSE run[k][h]
  BY DEF TypeOK, FinishJob

\* A step of the lease that no call takes part in.
LEMMA IdleStep ==
  ASSUME JInv, TypeOK', UNCHANGED <<logs, job>>,
         \A i \in Instances, g \in Goroutines :
           run[i][g].pc = "running" => run'[i][g].pc = "running"
  PROVE  JInv'
  BY DEF JInv, LogsOK, CallsRun, OwnLog, Holds

\* The rows stay, but for the one of this call.
RowsKept(i, g) ==
  /\ logs' \in Seq(Status)
  /\ Len(logs) <= Len(logs') /\ Len(logs') <= MaxLogs
  /\ \A n \in 1 .. Len(logs) :
       logs'[n] = logs[n] \/ (Holds(i, g) /\ n = job[i][g].id)

\* A call that returns leaves rows alone that are not its own.
LEMMA ReturnStep ==
  ASSUME JInv, TypeOK', NEW i \in Instances, NEW g \in Goroutines, Return(i, g), RowsKept(i, g)
  PROVE  JInv'
  <1>1. \A k \in Instances, h \in Goroutines :
          /\ job'[k][h] = IF k = i /\ h = g THEN Off ELSE job[k][h]
          /\ run'[k][h] = IF k = i /\ h = g THEN Idle ELSE run[k][h]
    BY Becomes, Finishes DEF JInv, Return
  <1>2. LogsOK'
    BY JobsAssumption DEF JInv, LogsOK, Return, RowsKept, Become, Off, Job, Status
  <1>3. CallsRun'
    BY <1>1 DEF JInv, CallsRun, Off
  <1>4. \A k \in Instances, h \in Goroutines :
          Holds(k, h)' => Holds(k, h) /\ <<k, h>> # <<i, g>> /\ job'[k][h] = job[k][h]
    BY <1>1 DEF Holds, Off
  <1>5. ASSUME NEW k \in Instances, NEW h \in Goroutines, Holds(k, h)'
        PROVE  job'[k][h].id \in DOMAIN logs' /\ logs'[job'[k][h].id] = "RUNNING"
    <2>1. /\ Holds(k, h) /\ <<k, h>> # <<i, g>> /\ job'[k][h] = job[k][h]
          /\ job[k][h].id \in DOMAIN logs /\ logs[job[k][h].id] = "RUNNING"
      BY <1>4, <1>5 DEF JInv, OwnLog
    <2>3. DOMAIN logs = 1 .. Len(logs) /\ DOMAIN logs' = 1 .. Len(logs')
          /\ Len(logs) \in Nat /\ Len(logs') \in Nat /\ Len(logs) <= Len(logs')
      BY DEF JInv, LogsOK, RowsKept
    <2>2. logs'[job[k][h].id] = logs[job[k][h].id]
      BY <2>1, <2>3 DEF JInv, OwnLog, RowsKept
    <2> QED BY <2>1, <2>2, <2>3
  <1>6. OwnLog'
    BY <1>4, <1>5 DEF JInv, OwnLog
  <1> QED BY <1>2, <1>3, <1>6 DEF JInv

\* A step of one call that takes no other part in the lease and whose row,
\* if it has one, is its own.
LEMMA WithinStep ==
  ASSUME JInv, TypeOK', LogsOK', NEW i \in Instances, NEW g \in Goroutines, NEW j,
         Become(i, g, j), UNCHANGED logs, run'[i][g].pc = "running",
         \A k \in Instances, h \in Goroutines :
           run[k][h].pc = "running" => run'[k][h].pc = "running",
         j.step \in {"body", "SUCCESS", "FAILED"} => Holds(i, g) /\ j.id = job[i][g].id
  PROVE  JInv'
  <1>1. \A k \in Instances, h \in Goroutines :
          job'[k][h] = IF k = i /\ h = g THEN j ELSE job[k][h]
    BY Becomes DEF JInv
  <1>2. CallsRun'
    BY <1>1 DEF JInv, CallsRun
  <1>3. \A k \in Instances, h \in Goroutines :
          Holds(k, h)' => Holds(k, h) /\ job'[k][h].id = job[k][h].id
    BY <1>1 DEF Holds
  <1>4. OwnLog'
    BY <1>3 DEF JInv, OwnLog
  <1> QED BY <1>2, <1>4 DEF JInv

LEMMA CallStep ==
  ASSUME JInv, TypeOK', NEW i \in Instances, NEW g \in Goroutines,
         CallJob(i, g) \/ ContextEnds(i, g) \/ BodyEnds(i, g)
  PROVE  JInv'
  <1>0. job[i][g] \in Job
    BY DEF JInv, LogsOK
  <1>1. CASE CallJob(i, g)
    <2>1. PICK j : j = [step |-> "opens", id |-> 0, ctx |-> "lives"]
      OBVIOUS
    <2>2. j \in Job /\ j.step = "opens" /\ Become(i, g, j)
      BY <1>1, <2>1, JobsAssumption DEF CallJob, Job
    <2>3. LogsOK' /\ UNCHANGED logs
      BY <1>1, <2>2 DEF CallJob, JInv, LogsOK, Become
    <2>4. \A k \in Instances, h \in Goroutines :
            run'[k][h] = IF k = i /\ h = g THEN [pc |-> "running", wait |-> JobTimeout]
                                           ELSE run[k][h]
      BY <1>1 DEF JInv, TypeOK, CallJob, StartJob
    <2> QED BY <2>2, <2>3, <2>4, WithinStep
  <1>2. CASE ContextEnds(i, g)
    <2>1. PICK j : j = [job[i][g] EXCEPT !.ctx = IF Closes(i, g) THEN "late" ELSE "cut"]
      OBVIOUS
    <2>2. /\ j \in Job /\ j.step = job[i][g].step /\ j.id = job[i][g].id
          /\ Become(i, g, j)
      BY <1>0, <1>2, <2>1 DEF ContextEnds, Job
    <2>3. UNCHANGED <<logs, run>> /\ run[i][g].pc = "running"
      BY <1>2 DEF ContextEnds, JInv, vars, CallsRun
    <2>4. LogsOK'
      BY <2>2, <2>3 DEF JInv, LogsOK, Become
    <2> QED BY <2>2, <2>3, <2>4, WithinStep DEF Holds
  <1>3. CASE BodyEnds(i, g)
    <2>1. PICK result \in {"SUCCESS", "FAILED"} :
            Become(i, g, [job[i][g] EXCEPT !.step = result])
      BY <1>3 DEF BodyEnds
    <2>2. PICK j : j = [job[i][g] EXCEPT !.step = result]
      OBVIOUS
    <2>3. /\ j \in Job /\ j.step = result /\ j.id = job[i][g].id
          /\ Become(i, g, j)
      BY <1>0, <2>1, <2>2 DEF Job
    <2>4. LogsOK' /\ UNCHANGED <<logs, run>> /\ run[i][g].pc = "running" /\ Holds(i, g)
      BY <1>3, <2>3 DEF BodyEnds, JInv, LogsOK, Become, vars, CallsRun, Holds
    <2> QED BY <2>3, <2>4, WithinStep
  <1> QED BY <1>1, <1>2, <1>3

LEMMA StartLogStep ==
  ASSUME JInv, TypeOK', NEW i \in Instances, NEW g \in Goroutines, StartLog(i, g)
  PROVE  JInv'
  <1> DEFINE opened == [step |-> "body", id |-> Len(logs'), ctx |-> "lives"]
  <1>1. /\ Len(logs') = Len(logs) + 1 /\ Len(logs) \in Nat /\ Len(logs) < MaxLogs
        /\ logs' \in Seq(Status) /\ logs'[Len(logs')] = "RUNNING"
        /\ DOMAIN logs = 1 .. Len(logs) /\ DOMAIN logs' = 1 .. Len(logs')
        /\ \A n \in 1 .. Len(logs) : logs'[n] = logs[n]
    BY DEF JInv, LogsOK, StartLog, InsertLog, Status
  <1>2. run'[i][g].pc = "running" /\ UNCHANGED run
    BY DEF JInv, CallsRun, StartLog, vars
  <1>3. opened \in Job /\ job' = [job EXCEPT ![i][g] = opened]
    BY <1>1, JobsAssumption DEF Job, StartLog, Become
  <1>4. \A k \in Instances, h \in Goroutines :
          job'[k][h] = IF k = i /\ h = g THEN opened ELSE job[k][h]
    BY <1>3 DEF JInv, LogsOK
  <1>5. LogsOK'
    BY <1>1, <1>3, JobsAssumption DEF JInv, LogsOK
  <1>6. CallsRun'
    BY <1>2, <1>4 DEF JInv, CallsRun
  <1>7. \A k \in Instances, h \in Goroutines :
          Holds(k, h)' => \/ k = i /\ h = g /\ job'[k][h].id = Len(logs')
                         \/ /\ ~(k = i /\ h = g)
                            /\ job'[k][h].id \in 1 .. Len(logs)
                            /\ Holds(k, h) /\ job'[k][h] = job[k][h]
    BY <1>1, <1>4 DEF JInv, OwnLog, Holds
  <1>8. OwnLog'
    BY <1>1, <1>7 DEF JInv, OwnLog
  <1> QED BY <1>5, <1>6, <1>8 DEF JInv

LEMMA ReturnSteps ==
  ASSUME JInv, TypeOK', NEW i \in Instances, NEW g \in Goroutines,
         \/ StartLogFails(i, g) \/ JobPanics(i, g)
         \/ FinishLog(i, g) \/ FinishLogFails(i, g)
  PROVE  JInv'
  <1>1. /\ logs \in Seq(Status) /\ Len(logs) \in Nat /\ Len(logs) <= MaxLogs
        /\ DOMAIN logs = 1 .. Len(logs) /\ job[i][g] \in Job
    BY DEF JInv, LogsOK
  <1>2. CASE UNCHANGED logs /\ Return(i, g)
    <2>1. RowsKept(i, g)
      BY <1>1, <1>2 DEF RowsKept
    <2> QED BY <1>2, <2>1, ReturnStep
  <1>3. CASE InsertLog /\ Return(i, g)
    <2>1. /\ logs' \in Seq(Status) /\ Len(logs') = Len(logs) + 1 /\ Len(logs) < MaxLogs
          /\ \A n \in 1 .. Len(logs) : logs'[n] = logs[n]
      BY <1>1, <1>3 DEF InsertLog, Status
    <2>2. RowsKept(i, g)
      BY <1>1, <2>1, JobsAssumption DEF RowsKept
    <2> QED BY <1>3, <2>2, ReturnStep
  <1>4. CASE FinishLog(i, g)
    <2>1. /\ logs' = [n \in DOMAIN logs |-> IF n = job[i][g].id THEN job[i][g].step ELSE logs[n]]
          /\ job[i][g].step \in Status /\ Holds(i, g) /\ Return(i, g)
      BY <1>4 DEF FinishLog, WriteResult, Closes, Holds, Status
    <2>2. \A n \in 1 .. Len(logs) : logs[n] \in Status
      BY <1>1
    <2>3. logs' \in [1 .. Len(logs) -> Status]
      BY <1>1, <2>1, <2>2
    <2>4. logs' \in Seq(Status) /\ Len(logs') = Len(logs)
      BY <1>1, <2>3, SeqDef
    <2>5. \A n \in 1 .. Len(logs) : logs'[n] = logs[n] \/ n = job[i][g].id
      BY <1>1, <2>1
    <2>6. RowsKept(i, g)
      BY <1>1, <2>1, <2>4, <2>5 DEF RowsKept
    <2> QED BY <2>1, <2>6, ReturnStep
  <1> QED BY <1>2, <1>3, <1>4 DEF StartLogFails, JobPanics, FinishLogFails

\* Once a crash or a reset is through with a goroutine, no call is left.
LEMMA EndSteps ==
  ASSUME JInv, TypeOK', NEW i \in Instances,
         \/ Crash(i) /\ job' = [job EXCEPT ![i] = [g \in Goroutines |-> Off]] /\ UNCHANGED logs
         \/ ResetAll(i)
  PROVE  JInv'
  <1>1. CASE Crash(i) /\ job' = [job EXCEPT ![i] = [g \in Goroutines |-> Off]] /\ UNCHANGED logs
    <2>1. \A k \in Instances, h \in Goroutines :
            /\ job'[k][h] = IF k = i THEN Off ELSE job[k][h]
            /\ k # i => run'[k][h] = run[k][h]
      BY <1>1 DEF JInv, TypeOK, LogsOK, Crash
    <2>2. Off \in Job
      BY JobsAssumption DEF Off, Job
    <2>3. LogsOK'
      BY <1>1, <2>2 DEF JInv, LogsOK
    <2>4. CallsRun'
      BY <2>1 DEF JInv, CallsRun, Off
    <2>5. \A k \in Instances, h \in Goroutines :
            Holds(k, h)' => Holds(k, h) /\ job'[k][h] = job[k][h]
      BY <2>1 DEF Holds, Off
    <2>6. OwnLog'
      BY <1>1, <2>5 DEF JInv, OwnLog
    <2> QED BY <2>3, <2>4, <2>6 DEF JInv
  <1>2. CASE ResetAll(i)
    <2>1. \A k \in Instances, h \in Goroutines : job[k][h].step = "off"
      BY <1>2 DEF ResetAll, Reset, Quiet, Active, JInv, CallsRun
    <2>2. UNCHANGED <<job, run>> /\ logs' = <<>>
      BY <1>2 DEF ResetAll, Reset
    <2>3. LogsOK'
      BY <2>2, JobsAssumption DEF JInv, LogsOK
    <2>4. CallsRun' /\ OwnLog'
      BY <2>1, <2>2 DEF CallsRun, OwnLog, Holds
    <2> QED BY <2>3, <2>4 DEF JInv
  <1> QED BY <1>1, <1>2

LEMMA JInductive == JInv /\ [JobNext]_jobVars => JInv'
  <1> SUFFICES ASSUME JInv, [JobNext]_jobVars PROVE JInv'
    OBVIOUS
  <1>0. TypeOK'
    <2>1. [Next]_vars
      BY LeaseStep DEF jobVars, vars
    <2> QED BY <2>1, TypeStep DEF JInv
  <1>1. ASSUME NEW i \in Instances, NEW g \in Goroutines,
               CallJob(i, g) \/ JobStep(i, g) \/ ContextEnds(i, g)
        PROVE  JInv'
    BY <1>0, <1>1, CallStep, StartLogStep, ReturnSteps DEF JobStep
  <1>2. ASSUME NEW i \in Instances, NEW g \in Goroutines, UNCHANGED <<logs, job>>,
               TryAcquireOrRenew(i, g) \/ CheckFails(i, g)
        PROVE  JInv'
    <2>1. run[i][g].pc # "running"
      BY <1>2 DEF TryAcquireOrRenew, CheckFails, Active
    <2>2. \A k \in Instances, h \in Goroutines :
            <<k, h>> # <<i, g>> => run'[k][h] = run[k][h]
      BY <1>2 DEF JInv, TypeOK, TryAcquireOrRenew, CheckFails
    <2>3. \A k \in Instances, h \in Goroutines :
            run[k][h].pc = "running" => run'[k][h].pc = "running"
      BY <2>1, <2>2
    <2> QED BY <1>0, <1>2, <2>3, IdleStep
  <1>3. ASSUME NEW i \in Instances,
               \/ Crash(i) /\ job' = [job EXCEPT ![i] = [g \in Goroutines |-> Off]] /\ UNCHANGED logs
               \/ ResetAll(i)
        PROVE  JInv'
    BY <1>0, <1>3, EndSteps
  <1>4. ASSUME NEW i \in Instances, Restart(i) /\ UNCHANGED <<logs, job>> PROVE JInv'
    BY <1>0, <1>4, IdleStep DEF Restart
  <1>5. CASE Tick /\ UNCHANGED <<logs, job>>
    <2>1. \A k \in Instances, h \in Goroutines : run'[k][h].pc = run[k][h].pc
      BY <1>5 DEF Tick, Later, JInv, TypeOK, Run
    <2> QED BY <1>0, <1>5, <2>1, IdleStep
  <1>6. CASE UNCHANGED jobVars
    BY <1>0, <1>6, IdleStep DEF jobVars, vars
  <1> QED BY <1>1, <1>2, <1>3, <1>4, <1>5, <1>6 DEF JobNext

LEMMA JInvariance == JobSpec => []JInv
  BY InitJInv, JInductive, PTL DEF JobSpec

\* The instances lease and run as LeaderLease says, whatever the jobs do.
THEOREM JobsImplementLease == JobSpec => Spec
  <1>1. JobInit => Init
    BY DEF JobInit
  <1>2. [JobNext]_jobVars => [Next]_vars
    BY LeaseStep DEF jobVars, vars
  <1> QED BY <1>1, <1>2, PTL DEF JobSpec, Spec

\* So their jobs exclude each other, given a lease that is long enough.
THEOREM JobsExclusive ==
  ASSUME LongLease PROVE JobSpec => []Exclusive
  BY JobsImplementLease, ExclusiveAlways, PTL

\* A run owns its row of scheduler_logs, which waits for its result.
THEOREM OwnLogAlways == JobSpec => []OwnLog
  <1>1. JInv => OwnLog
    BY DEF JInv
  <1> QED BY <1>1, JInvariance, PTL

\* A success that was recorded was one of a body that was not cut short.
THEOREM SuccessIsWholeAlways == JobSpec => SuccessIsWhole
  <1> DEFINE Whole ==
        \A n \in DOMAIN logs \cap DOMAIN logs' :
          logs'[n] # logs[n] =>
            /\ logs[n] = "RUNNING"
            /\ logs'[n] = "SUCCESS" =>
                 \E i \in Instances, g \in Goroutines :
                   job[i][g].id = n /\ job[i][g].ctx # "cut" /\ job'[i][g] = Off
  <1>1. ASSUME JInv, NEW i \in Instances, NEW g \in Goroutines, FinishLog(i, g)
        PROVE  Whole
    <2>1. /\ Holds(i, g) /\ job[i][g].ctx = "lives" /\ Return(i, g)
          /\ \A n \in DOMAIN logs : logs'[n] # logs[n] => n = job[i][g].id
      BY <1>1 DEF FinishLog, Closes, Holds, Lives, WriteResult
    <2>2. logs[job[i][g].id] = "RUNNING"
      BY <1>1, <2>1 DEF JInv, OwnLog
    <2>3. job'[i][g] = Off
      BY <1>1, <2>1, Becomes DEF Return, JInv
    <2> QED BY <2>1, <2>2, <2>3
  <1>2. ASSUME JInv, InsertLog PROVE Whole
    <2>1. \A n \in DOMAIN logs : logs'[n] = logs[n]
      BY <1>2 DEF JInv, LogsOK, InsertLog, Status
    <2> QED BY <2>1
  <1>3. ASSUME JInv, [JobNext]_jobVars,
               ~ \E i \in Instances, g \in Goroutines : FinishLog(i, g), ~ InsertLog
        PROVE  Whole
    <2>1. UNCHANGED logs \/ logs' = <<>>
      BY <1>3 DEF JobNext, jobVars, CallJob, JobStep, StartLog, StartLogFails, ContextEnds,
                  BodyEnds, FinishLogFails, JobPanics, ResetAll
    <2> QED BY <2>1
  <1>4. JInv /\ [JobNext]_jobVars => [Whole]_jobVars
    BY <1>1, <1>2, <1>3
  <1> QED BY <1>4, JInvariance, PTL DEF JobSpec, SuccessIsWhole
=============================================================================
