----------------------------- MODULE LeaderLease -----------------------------
(***************************************************************************)
(* The scheduler's leader lease: before every job a goroutine of an        *)
(* instance asks for the row of scheduler_leader, and runs the job only if *)
(* it gets it.  The lease is not renewed while a job runs.                 *)
(*                                                                         *)
(* Time passes in ticks.  left counts down to lease_until, and the wait of *)
(* a goroutine to the end of its context.  A statement's NOW() is the time *)
(* at which it began, up to AskTimeout before it takes effect: after that  *)
(* the client's context cancels it.                                        *)
(***************************************************************************)
EXTENDS Integers

CONSTANTS
  Instances,    \* processes that share the database
  Goroutines,   \* tickers and manual triggers of an instance
  Nobody,       \* no row in scheduler_leader
  Lease,        \* leader_lease_duration, in whole ticks
  AskTimeout,   \* the 2 s of leaderCtx
  JobTimeout    \* job_timeout

ASSUME LeaseAssumption ==
  /\ Lease \in Nat /\ AskTimeout \in Nat /\ JobTimeout \in Nat
  /\ AskTimeout < Lease
  /\ Nobody \notin Instances

VARIABLES
  holder,   \* leader_id
  left,     \* lease_until - NOW(), not below LongPast
  run,      \* what each goroutine is doing
  up        \* the instances whose scheduler runs

vars == <<holder, left, run, up>>

LongPast == -(AskTimeout + 1)   \* past for every statement under way

Run == [pc : {"idle", "granted", "running"}, wait : Nat]
Idle == [pc |-> "idle", wait |-> 0]
Active(i, g) == run[i][g].pc # "idle"

TypeOK ==
  /\ holder \in Instances \cup {Nobody}
  /\ left \in LongPast .. Lease
  /\ run \in [Instances -> [Goroutines -> Run]]
  /\ up \subseteq Instances

Init ==
  /\ holder = Nobody
  /\ left = LongPast
  /\ run = [i \in Instances |-> [g \in Goroutines |-> Idle]]
  /\ up = Instances

-----------------------------------------------------------------------------
\* Mutant: only the holder, or the first comer, gets the lease.
AcquireNeverExpires(i, g) ==
  /\ i \in up
  /\ ~Active(i, g)
  /\ \E ago \in 0 .. AskTimeout :
       /\ holder \in {i, Nobody}
       /\ holder' = i
       /\ left' = Lease - ago
       /\ run' = [run EXCEPT ![i][g] = [pc |-> "granted", wait |-> AskTimeout - ago]]
  /\ UNCHANGED up

\* The statement whose NOW() was `ago' ticks ago: it inserts the row, takes
\* over an expired one, or renews the instance's own.  (On a standby it
\* changes nothing, and the job is skipped.)
TryAcquireOrRenew(i, g) ==
  /\ i \in up
  /\ ~Active(i, g)
  /\ \E ago \in 0 .. AskTimeout :
       /\ holder = i \/ left < -ago
       /\ holder' = i
       /\ left' = Lease - ago
       /\ run' = [run EXCEPT ![i][g] = [pc |-> "granted", wait |-> AskTimeout - ago]]
  /\ UNCHANGED up

\* The answer is in: the job begins, with its own timeout.
StartJob(i, g) ==
  /\ run[i][g].pc = "granted"
  /\ run' = [run EXCEPT ![i][g] = [pc |-> "running", wait |-> JobTimeout]]
  /\ UNCHANGED <<holder, left, up>>

\* The answer is lost or late, although the statement took effect.
CheckFails(i, g) ==
  /\ run[i][g].pc = "granted"
  /\ run' = [run EXCEPT ![i][g] = Idle]
  /\ UNCHANGED <<holder, left, up>>

\* The job returns: done, failed, or out of time.
FinishJob(i, g) ==
  /\ run[i][g].pc = "running"
  /\ run' = [run EXCEPT ![i][g] = Idle]
  /\ UNCHANGED <<holder, left, up>>

\* The process dies, or its scheduler is stopped; nobody gives up the row.
Crash(i) ==
  /\ i \in up
  /\ up' = up \ {i}
  /\ run' = [run EXCEPT ![i] = [g \in Goroutines |-> Idle]]
  /\ UNCHANGED <<holder, left>>

Restart(i) ==
  /\ i \notin up
  /\ up' = up \cup {i}
  /\ UNCHANGED <<holder, left, run>>

Quiet == \A i \in Instances, g \in Goroutines : ~Active(i, g)

\* An instance truncates every table, the leader's row included, and has
\* stopped its scheduler before.  The Stop waits for the tickers of its own
\* instance; that nothing else is at work is this model's assumption.
Reset(i) ==
  /\ Quiet
  /\ holder' = Nobody
  /\ left' = LongPast
  /\ up' = up \ {i}
  /\ UNCHANGED run

Later(r) == [r EXCEPT !.wait = IF r.pc = "idle" THEN 0 ELSE r.wait - 1]

\* Mutant: the lease check has no timeout.
TickPatient ==
  /\ \A i \in Instances, g \in Goroutines : run[i][g].pc = "running" => run[i][g].wait > 0
  /\ left' = IF left = LongPast THEN left ELSE left - 1
  /\ run' = [i \in Instances |-> [g \in Goroutines |->
               IF run[i][g].pc = "granted" THEN run[i][g] ELSE Later(run[i][g])]]
  /\ UNCHANGED <<holder, up>>

\* Mutant: jobs have no timeout.
TickUnlimited ==
  /\ left' = IF left = LongPast THEN left ELSE left - 1
  /\ run' = [i \in Instances |-> [g \in Goroutines |-> Later(run[i][g])]]
  /\ UNCHANGED <<holder, up>>

\* Time passes, but not beyond the end of a context: its goroutine returns.
Tick ==
  /\ \A i \in Instances, g \in Goroutines : Active(i, g) => run[i][g].wait > 0
  /\ left' = IF left = LongPast THEN left ELSE left - 1
  /\ run' = [i \in Instances |-> [g \in Goroutines |-> Later(run[i][g])]]
  /\ UNCHANGED <<holder, up>>

RunManagedJob(i, g) == \/ TryAcquireOrRenew(i, g) \/ StartJob(i, g)
                       \/ CheckFails(i, g) \/ FinishJob(i, g)

Next ==
  \/ \E i \in Instances, g \in Goroutines : RunManagedJob(i, g)
  \/ \E i \in Instances : Crash(i) \/ Restart(i) \/ Reset(i)
  \/ Tick

Spec == Init /\ [][Next]_vars

-----------------------------------------------------------------------------
\* The lease outlasts a check and a job, whichever of two statements of the
\* leader is the later to take effect.  No setting of the code ensures it.
LongLease == Lease >= JobTimeout + 2 * AskTimeout

\* Jobs run on one instance at a time, through expiries, takeovers, crashes
\* and renewals that overtake each other.
Exclusive ==
  \A i, j \in Instances, g, h \in Goroutines :
    run[i][g].pc = "running" /\ run[j][h].pc = "running" => i = j

\* Time passes, each goroutine asks again and again, and what it started goes
\* on; from some time on no check fails, no instance dies and nobody resets.
FairSpec ==
  /\ Spec
  /\ WF_vars(Tick)
  /\ \A i \in Instances, g \in Goroutines :
       WF_vars(TryAcquireOrRenew(i, g)) /\ WF_vars(StartJob(i, g)) /\ WF_vars(FinishJob(i, g))
  /\ <>[][~ \/ \E i \in Instances : Crash(i) \/ Reset(i)
            \/ \E i \in Instances, g \in Goroutines : CheckFails(i, g)]_vars

\* As long as an instance is up jobs go on: when the leader dies a standby
\* takes over, with nobody to release the lease.
JobsGoOn ==
  [](up # {}) => []<>(\E i \in Instances, g \in Goroutines : run[i][g].pc = "running")
=============================================================================
