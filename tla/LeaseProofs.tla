----------------------------- MODULE LeaseProofs -----------------------------
(***************************************************************************)
(* A lease as long as LongLease asks makes the jobs of the instances       *)
(* exclude each other, for any number of instances and goroutines.         *)
(***************************************************************************)
EXTENDS LeaderLease, TLAPS

\* How long a goroutine may yet be at work: what is left of the check and
\* the whole job, or what is left of the job.
Remaining(r) == IF r.pc = "granted" THEN r.wait + JobTimeout ELSE r.wait

RunsBounded ==
  \A i \in Instances, g \in Goroutines :
    Active(i, g) => Remaining(run[i][g]) <= AskTimeout + JobTimeout

\* Whoever is at work is the holder, and done before the lease lapses.
LeaseCovers ==
  \A i \in Instances, g \in Goroutines :
    Active(i, g) => holder = i /\ Remaining(run[i][g]) <= left

IInv == TypeOK /\ RunsBounded /\ LeaseCovers

LEMMA InitIInv == Init => IInv
  BY LeaseAssumption
  DEF Init, IInv, TypeOK, Run, Idle, LongPast, RunsBounded, LeaseCovers, Active

LEMMA AcquireStep ==
  ASSUME IInv, LongLease, NEW i \in Instances, NEW g \in Goroutines, TryAcquireOrRenew(i, g)
  PROVE  IInv'
  <1>1. PICK ago \in 0 .. AskTimeout :
          /\ holder = i \/ left < -ago
          /\ holder' = i
          /\ left' = Lease - ago
          /\ run' = [run EXCEPT ![i][g] = [pc |-> "granted", wait |-> AskTimeout - ago]]
    BY DEF TryAcquireOrRenew
  <1> DEFINE granted == [pc |-> "granted", wait |-> AskTimeout - ago]
  <1>2. /\ granted \in Run
        /\ Remaining(granted) <= AskTimeout + JobTimeout
        /\ Remaining(granted) <= left'
    BY <1>1, LeaseAssumption DEF Run, Remaining, LongLease
  <1>3. left' \in LongPast .. Lease /\ AskTimeout + JobTimeout <= left'
    BY <1>1, LeaseAssumption DEF LongPast, LongLease
  <1>4. \A j \in Instances, h \in Goroutines :
          run'[j][h] = IF j = i /\ h = g THEN granted ELSE run[j][h]
    BY <1>1 DEF IInv, TypeOK
  <1>5. run' \in [Instances -> [Goroutines -> Run]]
    BY <1>1, <1>2 DEF IInv, TypeOK
  <1>6. TypeOK'
    BY <1>1, <1>3, <1>5 DEF IInv, TypeOK, TryAcquireOrRenew
  <1> HIDE DEF granted
  <1>7. RunsBounded'
    BY <1>2, <1>4 DEF IInv, RunsBounded, Active
  <1>8. ASSUME NEW j \in Instances, NEW h \in Goroutines, Active(j, h)'
        PROVE  holder' = j /\ Remaining(run'[j][h]) <= left'
    <2>1. CASE j = i /\ h = g
      BY <1>1, <1>2, <1>4, <2>1
    <2>2. CASE ~(j = i /\ h = g)
      <3>1. Active(j, h) /\ run'[j][h] = run[j][h]
        BY <1>4, <1>8, <2>2 DEF Active
      <3>2. /\ holder = j
            /\ Remaining(run[j][h]) <= left
            /\ Remaining(run[j][h]) <= AskTimeout + JobTimeout
        BY <3>1 DEF IInv, LeaseCovers, RunsBounded
      <3>3. Remaining(run[j][h]) \in Nat /\ left \in Int
        BY LeaseAssumption DEF IInv, TypeOK, Run, Remaining, LongPast
      <3>4. ~(left < -ago)
        BY <3>2, <3>3
      <3>5. j = i
        BY <1>1, <3>2, <3>4
      <3>6. Remaining(run[j][h]) <= left'
        BY <1>1, <1>3, <3>2, <3>3, LeaseAssumption
      <3> QED BY <1>1, <3>1, <3>5, <3>6
    <2> QED BY <2>1, <2>2
  <1> QED BY <1>6, <1>7, <1>8 DEF IInv, LeaseCovers

\* A step of one goroutine that takes it nearer to its end.
LEMMA RunStep ==
  ASSUME IInv, UNCHANGED <<holder, left>>, up' \subseteq Instances,
         run' \in [Instances -> [Goroutines -> Run]],
         \A i \in Instances, g \in Goroutines :
           Active(i, g)' => Active(i, g) /\ Remaining(run'[i][g]) <= Remaining(run[i][g])
  PROVE  IInv'
  <1>1. TypeOK'
    BY DEF IInv, TypeOK
  <1>2. ASSUME NEW i \in Instances, NEW g \in Goroutines, Active(i, g)'
        PROVE  /\ Remaining(run'[i][g]) <= AskTimeout + JobTimeout
               /\ holder' = i /\ Remaining(run'[i][g]) <= left'
    <2>1. /\ Remaining(run[i][g]) \in Nat /\ Remaining(run'[i][g]) \in Nat
          /\ left \in Int
      BY LeaseAssumption DEF IInv, TypeOK, Run, Remaining, LongPast
    <2>2. /\ Remaining(run[i][g]) <= AskTimeout + JobTimeout
          /\ holder = i /\ Remaining(run[i][g]) <= left
      BY <1>2 DEF IInv, RunsBounded, LeaseCovers
    <2> QED BY <1>2, <2>1, <2>2, LeaseAssumption
  <1> QED BY <1>1, <1>2 DEF IInv, RunsBounded, LeaseCovers

LEMMA TickStep ==
  ASSUME IInv, Tick PROVE IInv'
  <1>1. ASSUME NEW i \in Instances, NEW g \in Goroutines
        PROVE  /\ run'[i][g] = Later(run[i][g])
               /\ Later(run[i][g]) \in Run
               /\ Active(i, g)' =>
                    /\ Active(i, g)
                    /\ Remaining(run'[i][g]) = Remaining(run[i][g]) - 1
                    /\ Remaining(run'[i][g]) \in Nat
    <2>1. run[i][g] \in Run /\ (Active(i, g) => run[i][g].wait > 0)
      BY DEF IInv, TypeOK, Tick
    <2>2. run'[i][g] = Later(run[i][g])
      BY DEF Tick
    <2> QED BY <2>1, <2>2, LeaseAssumption DEF Later, Run, Active, Remaining
  <1>2. run' = [i \in Instances |-> [g \in Goroutines |-> Later(run[i][g])]]
    BY DEF Tick
  <1>3. TypeOK'
    BY <1>1, <1>2, LeaseAssumption DEF IInv, TypeOK, Tick, LongPast
  <1>4. ASSUME NEW i \in Instances, NEW g \in Goroutines, Active(i, g)'
        PROVE  /\ Remaining(run'[i][g]) <= AskTimeout + JobTimeout
               /\ holder' = i /\ Remaining(run'[i][g]) <= left'
    <2>1. /\ Remaining(run[i][g]) <= AskTimeout + JobTimeout
          /\ holder = i /\ Remaining(run[i][g]) <= left
          /\ Remaining(run'[i][g]) = Remaining(run[i][g]) - 1
          /\ Remaining(run'[i][g]) \in Nat
      BY <1>1, <1>4 DEF IInv, RunsBounded, LeaseCovers
    <2>2. Remaining(run[i][g]) \in Int /\ left \in Int
      BY LeaseAssumption DEF IInv, TypeOK, Run, Remaining, LongPast
    <2>3. left' = left - 1 /\ holder' = holder
      BY <2>1, <2>2, LeaseAssumption DEF Tick, LongPast
    <2> QED BY <2>1, <2>2, <2>3, LeaseAssumption
  <1> QED BY <1>3, <1>4 DEF IInv, RunsBounded, LeaseCovers

LEMMA Inductive == LongLease /\ IInv /\ [Next]_vars => IInv'
  <1> SUFFICES ASSUME LongLease, IInv, [Next]_vars PROVE IInv'
    OBVIOUS
  <1>0. run \in [Instances -> [Goroutines -> Run]] /\ up \subseteq Instances
    BY DEF IInv, TypeOK
  <1>1. ASSUME NEW i \in Instances, NEW g \in Goroutines, RunManagedJob(i, g) PROVE IInv'
    <2>1. CASE TryAcquireOrRenew(i, g)
      BY <2>1, AcquireStep
    <2>2. CASE StartJob(i, g)
      <3>1. run' = [run EXCEPT ![i][g] = [pc |-> "running", wait |-> JobTimeout]]
            /\ [pc |-> "running", wait |-> JobTimeout] \in Run
        BY <2>2, LeaseAssumption DEF StartJob, Run
      <3>2. JobTimeout <= Remaining(run[i][g])
        BY <1>0, <2>2, LeaseAssumption DEF StartJob, Remaining, Run
      <3>3. \A j \in Instances, h \in Goroutines :
              Active(j, h)' => Active(j, h) /\ Remaining(run'[j][h]) <= Remaining(run[j][h])
        BY <1>0, <2>2, <3>1, <3>2, LeaseAssumption DEF StartJob, Active, Remaining, Run
      <3> QED BY <1>0, <2>2, <3>1, <3>3, RunStep DEF StartJob
    <2>3. CASE CheckFails(i, g) \/ FinishJob(i, g)
      <3>1. run' = [run EXCEPT ![i][g] = Idle] /\ Idle \in Run
        BY <2>3 DEF CheckFails, FinishJob, Run, Idle
      <3>2. \A j \in Instances, h \in Goroutines :
              Active(j, h)' => Active(j, h) /\ Remaining(run'[j][h]) <= Remaining(run[j][h])
        BY <1>0, <3>1, LeaseAssumption DEF Active, Remaining, Idle, Run
      <3> QED BY <1>0, <2>3, <3>1, <3>2, RunStep DEF CheckFails, FinishJob
    <2> QED BY <1>1, <2>1, <2>2, <2>3 DEF RunManagedJob
  <1>2. ASSUME NEW i \in Instances, Crash(i) PROVE IInv'
    <2>1. run' = [run EXCEPT ![i] = [g \in Goroutines |-> Idle]] /\ Idle \in Run
      BY <1>2 DEF Crash, Run, Idle
    <2>2. \A j \in Instances, h \in Goroutines :
            Active(j, h)' => Active(j, h) /\ Remaining(run'[j][h]) <= Remaining(run[j][h])
      BY <1>0, <2>1, LeaseAssumption DEF Active, Remaining, Idle, Run
    <2> QED BY <1>0, <1>2, <2>1, <2>2, RunStep DEF Crash
  <1>3. ASSUME NEW i \in Instances, Restart(i) \/ UNCHANGED vars PROVE IInv'
    BY <1>0, <1>3 DEF Restart, vars, IInv, TypeOK, RunsBounded, LeaseCovers, Active
  <1>6. ASSUME NEW i \in Instances, Reset(i) PROVE IInv'
    <2>1. \A j \in Instances, h \in Goroutines : ~Active(j, h)'
      BY <1>6 DEF Reset, Quiet, Active
    <2>2. TypeOK'
      BY <1>0, <1>6, LeaseAssumption DEF Reset, TypeOK, LongPast
    <2> QED BY <2>1, <2>2 DEF IInv, RunsBounded, LeaseCovers
  <1>4. CASE UNCHANGED vars
    BY <1>4 DEF vars, IInv, TypeOK, RunsBounded, LeaseCovers, Active
  <1>5. CASE Tick
    BY <1>5, TickStep
  <1> QED BY <1>1, <1>2, <1>3, <1>4, <1>5, <1>6 DEF Next

LEMMA Invariance ==
  ASSUME LongLease PROVE Spec => []IInv
  <1>1. IInv /\ [Next]_vars => IInv'
    BY Inductive
  <1> QED BY <1>1, InitIInv, PTL DEF Spec

LEMMA TypeStep == TypeOK /\ [Next]_vars => TypeOK'
  <1> SUFFICES ASSUME TypeOK, [Next]_vars PROVE TypeOK'
    OBVIOUS
  <1>1. Idle \in Run
    BY DEF Idle, Run
  <1>2. ASSUME NEW i \in Instances, NEW g \in Goroutines, RunManagedJob(i, g) PROVE TypeOK'
    <2>1. CASE TryAcquireOrRenew(i, g)
      <3>1. PICK ago \in 0 .. AskTimeout :
              /\ holder' = i
              /\ left' = Lease - ago
              /\ run' = [run EXCEPT ![i][g] = [pc |-> "granted", wait |-> AskTimeout - ago]]
        BY <2>1 DEF TryAcquireOrRenew
      <3>2. [pc |-> "granted", wait |-> AskTimeout - ago] \in Run
        BY LeaseAssumption DEF Run
      <3>3. run' \in [Instances -> [Goroutines -> Run]]
        BY <3>1, <3>2 DEF TypeOK
      <3> QED BY <2>1, <3>1, <3>3, LeaseAssumption DEF TypeOK, LongPast, TryAcquireOrRenew
    <2>2. CASE StartJob(i, g)
      <3>1. [pc |-> "running", wait |-> JobTimeout] \in Run
        BY LeaseAssumption DEF Run
      <3> QED BY <2>2, <3>1 DEF TypeOK, StartJob
    <2>3. CASE CheckFails(i, g) \/ FinishJob(i, g)
      BY <1>1, <2>3 DEF TypeOK, CheckFails, FinishJob
    <2> QED BY <1>2, <2>1, <2>2, <2>3 DEF RunManagedJob
  <1>3. ASSUME NEW i \in Instances, Crash(i) \/ Restart(i) \/ Reset(i) PROVE TypeOK'
    BY <1>1, <1>3, LeaseAssumption DEF TypeOK, Crash, Restart, Reset, LongPast
  <1>4. CASE Tick
    <2>1. ASSUME NEW i \in Instances, NEW g \in Goroutines PROVE Later(run[i][g]) \in Run
      <3>1. run[i][g] \in Run /\ (Active(i, g) => run[i][g].wait > 0)
        BY <1>4 DEF TypeOK, Tick
      <3> QED BY <3>1 DEF Later, Run, Active
    <2> QED BY <1>4, <2>1, LeaseAssumption DEF TypeOK, Tick, LongPast
  <1>5. CASE UNCHANGED vars
    BY <1>5 DEF TypeOK, vars
  <1> QED BY <1>2, <1>3, <1>4, <1>5 DEF Next

\* Every variable keeps its type; in particular no goroutine outlives the
\* context it works under.
THEOREM LeaseTypeCorrect == Spec => []TypeOK
  <1>1. Init => TypeOK
    BY InitIInv DEF IInv
  <1> QED BY <1>1, TypeStep, PTL DEF Spec

\* If the lease outlasts a job and two checks, jobs run on one instance at a
\* time, for any number of instances, goroutines and crashes.
THEOREM ExclusiveAlways ==
  ASSUME LongLease PROVE Spec => []Exclusive
  <1>1. IInv => Exclusive
    BY DEF IInv, LeaseCovers, Exclusive, Active
  <1> QED BY <1>1, Invariance, PTL
=============================================================================
