---------------------------- MODULE WorkersProofs ----------------------------
(***************************************************************************)
(* Proofs about SyncWorkers, for any orders, products, details, limit and  *)
(* number of attempts.                                                     *)
(***************************************************************************)
EXTENDS SyncWorkers, FiniteSetTheorems, TLAPS

USE DEF tables, client

-----------------------------------------------------------------------------
(* The calls to Flux *)

\* Every request was sent by an attempt that its call has begun, and by an
\* earlier one, if the call is between attempts.
RequestsCounted ==
  \A m \in travelling \cup processed :
    /\ m.attempt <= call[m.call].attempt
    /\ call[m.call].pc \in {"idle", "try", "backoff"} => m.attempt < call[m.call].attempt

\* A call that has its answer was answered by this attempt's request.
AnswersGiven == \A c \in Calls : call[c].pc = "answered" => This(c) \in processed

CInv == ClientTypeOK /\ RequestsCounted /\ AnswersGiven

USE ClientAssumption

LEMMA ClientInitially == ClientInit => CInv
  BY DEF ClientInit, CInv, ClientTypeOK, CallState, NoCall, RequestsCounted, AnswersGiven

\* No step of a call, of its caller, or of Flux loses count of requests.
LEMMA BeginCounts ==
  ASSUME CInv, NEW c \in Calls, Begin(c)
  PROVE  CInv'
  BY DEF CInv, Begin, CallIs, ClientTypeOK, CallState, Sent, RequestsCounted, AnswersGiven, This

LEMMA AttemptCounts ==
  ASSUME CInv, NEW c \in Calls, NEW live \in BOOLEAN, Attempt(c, live)
  PROVE  CInv'
  <1>1. CASE Send(c, live)
    BY <1>1 DEF CInv, Send, CallIs, ClientTypeOK, CallState, Sent, RequestsCounted, AnswersGiven, This
  <1>2. CASE AttemptFails(c, live)
    BY <1>2 DEF CInv, AttemptFails, ClientTypeOK, CallState, Sent, RequestsCounted, AnswersGiven, This
  <1>3. CASE AttemptAnswered(c)
    BY <1>3 DEF CInv, AttemptAnswered, CallIs, ClientTypeOK, CallState, Sent, RequestsCounted,
                AnswersGiven, This
  <1>4. CASE BackoffOver(c)
    BY <1>4 DEF CInv, BackoffOver, CallIs, ClientTypeOK, CallState, Sent, RequestsCounted,
                AnswersGiven, This
  <1>5. CASE BackoffCut(c, live)
    BY <1>5 DEF CInv, BackoffCut, CallIs, ClientTypeOK, CallState, Sent, RequestsCounted,
                AnswersGiven, This
  <1> QED BY <1>1, <1>2, <1>3, <1>4, <1>5 DEF Attempt

LEMMA ProcessingCounts ==
  ASSUME CInv, NEW m \in travelling, FluxProcesses(m)
  PROVE  CInv'
  BY DEF CInv, FluxProcesses, ClientTypeOK, RequestsCounted, AnswersGiven, This

LEMMA HangUpCounts ==
  ASSUME CInv, NEW c \in Calls, HangUp(c)
  PROVE  CInv'
  BY DEF CInv, HangUp, ClientTypeOK, CallState, NoCall, Sent, RequestsCounted, AnswersGiven, This

LEMMA ForgetCounts == Forget => CInv'
  BY DEF CInv, Forget, ClientTypeOK, CallState, NoCall, RequestsCounted, AnswersGiven

\* Requests of one call differ in their attempts.
LEMMA RequestsPerAttempt ==
  ASSUME ClientTypeOK, NEW c \in Calls, NEW n \in Nat,
         \A m \in Requests(c) : m.attempt < n
  PROVE  Cardinality(Requests(c)) <= n
  <1> DEFINE f == [m \in Requests(c) |-> m.attempt]
  <1>1. Requests(c) \subseteq Sent
    BY DEF ClientTypeOK, Requests
  <1>2. f \in [Requests(c) -> 0 .. n - 1]
    BY <1>1 DEF Sent
  <1>3. \A x, y \in Requests(c) : f[x] = f[y] => x = y
    BY <1>1 DEF Sent, Requests
  <1>4. f \in Injection(Requests(c), 0 .. n - 1)
    BY <1>2, <1>3 DEF Injection, IsInjective
  <1>5. IsFiniteSet(0 .. n - 1) /\ Cardinality(0 .. n - 1) = n
    BY FS_Interval
  <1> HIDE DEF f
  <1> QED BY <1>4, <1>5, FS_Injection

LEMMA CountedIsBounded == CInv => CallsBounded
  <1> SUFFICES ASSUME CInv, NEW c \in Calls
               PROVE  /\ Cardinality(Requests(c)) <= RetryMax + 1
                      /\ call[c].pc = "answered" => Requests(c) \cap processed # {}
                      /\ call[c].pc \in {"idle", "try", "backoff"} =>
                           Cardinality(Requests(c)) <= call[c].attempt
    BY DEF CallsBounded
  <1>1. call[c].attempt \in Nat /\ call[c].attempt <= RetryMax
    BY DEF CInv, ClientTypeOK, CallState
  <1>2. \A m \in Requests(c) : m.attempt \in Nat /\ m.attempt <= call[c].attempt
    BY DEF CInv, RequestsCounted, Requests, ClientTypeOK, Sent
  <1>3. \A m \in Requests(c) : m.attempt < RetryMax + 1
    BY <1>1, <1>2
  <1>4. Cardinality(Requests(c)) <= RetryMax + 1
    BY <1>3, RequestsPerAttempt DEF CInv
  <1>5. ASSUME call[c].pc = "answered" PROVE Requests(c) \cap processed # {}
    BY <1>5 DEF CInv, AnswersGiven, This, Requests
  <1>6. ASSUME call[c].pc \in {"idle", "try", "backoff"}
        PROVE  Cardinality(Requests(c)) <= call[c].attempt
    <2>1. \A m \in Requests(c) : m.attempt < call[c].attempt
      BY <1>6 DEF CInv, RequestsCounted, Requests
    <2> QED BY <1>1, <2>1, RequestsPerAttempt DEF CInv
  <1> QED BY <1>4, <1>5, <1>6

LEMMA ClientRests == CInv /\ UNCHANGED client => CInv'
  BY DEF CInv, ClientTypeOK, RequestsCounted, AnswersGiven, This

-----------------------------------------------------------------------------
(* The run and its workers *)

\* A worker has something parsed exactly while its transaction is under way.
ParsedToInsert == \A o \in OrderIds : worker[o].pc = "insert" <=> worker[o].parsed # NoItems

\* Without a run there is no worker, and none for an order g.Go has yet to see.
NoWorkerYet ==
  /\ run.pc = "idle" => run.todo = {} /\ worker = [o \in OrderIds |-> NoWorker]
  /\ \A o \in run.todo : worker[o] = NoWorker

\* What the job's goroutines keep, and what the rows' locks say of them.
JobInv ==
  /\ run \in Run
  /\ worker \in [OrderIds -> Worker]
  /\ owner \in [Products -> OrderIds \cup {Free}]
  /\ ParsedToInsert
  /\ NoWorkerYet
  /\ LockersAct

WorkersInv == TablesTypeOK /\ CInv /\ JobInv

USE WorkersAssumption, TablesAssumption DEF Run, Worker, NoWorker, DoneWorker, IdleRun

LEMMA WorkerValues ==
  /\ NoWorker \in Worker /\ DoneWorker \in Worker
  /\ \A n \in 0 .. MaxRuns : IdleRun(n) \in Run
  OBVIOUS


LEMMA UpsertType ==
  ASSUME TablesTypeOK, NEW o \in OrderIds, UpsertOrder(o), UNCHANGED <<items, cartons, outbox>>
  PROVE  TablesTypeOK'
  BY DEF TablesTypeOK, UpsertOrder, OrderRow, OrderStatus, NoOrder

LEMMA InsertType ==
  ASSUME TablesTypeOK, NEW o \in OrderIds, NEW k \in Contents, InsertOrderItems(o, k),
         UNCHANGED <<orders, cartons, outbox>>
  PROVE  TablesTypeOK'
  BY DEF TablesTypeOK, InsertOrderItems

LEMMA MarkType ==
  ASSUME TablesTypeOK, MarkSyncedAsPending, UNCHANGED <<items, cartons, outbox>>
  PROVE  TablesTypeOK'
  BY DEF TablesTypeOK, MarkSyncedAsPending, OrderRow, OrderStatus

LEMMA TablesRest == TablesTypeOK /\ UNCHANGED tables => TablesTypeOK'
  BY DEF TablesTypeOK

LEMMA JobRests == JobInv /\ UNCHANGED <<run, worker, owner>> => JobInv'
  BY DEF JobInv, ParsedToInsert, NoWorkerYet, LockersAct

\* The run's end, whether g.Wait has returned or the process is gone.
LEMMA RunOver ==
  ASSUME WorkersInv, run' = IdleRun(run.number), Forgotten
  PROVE  JobInv' /\ CInv'
  BY ForgetCounts DEF WorkersInv, JobInv, Forgotten, ParsedToInsert, NoWorkerYet, LockersAct

\* A worker returns and unlocks what it has locked.
LEMMA WorkerReturns ==
  ASSUME JobInv, NEW o \in OrderIds, worker[o].pc = "insert", Unlock(o), Become(o, DoneWorker),
         UNCHANGED run
  PROVE  JobInv'
  BY DEF JobInv, Unlock, Become, ParsedToInsert, NoWorkerYet, LockersAct

\* A worker at its call goes on to w, with nothing locked yet.
LEMMA WorkerGoesOn ==
  ASSUME JobInv, NEW o \in OrderIds, worker[o].pc = "fetch", NEW w \in Worker, Become(o, w),
         w.pc = "insert" <=> w.parsed # NoItems, UNCHANGED <<run, owner>>
  PROVE  JobInv'
  BY DEF JobInv, Become, ParsedToInsert, NoWorkerYet, LockersAct

LEMMA WorkersInitially == Init => WorkersInv
  BY ClientInitially DEF Init, WorkersInv, TablesTypeOK, OrderRow, OrderStatus, NoOrder, OutboxRow,
     OutboxStatus, NoIntent, Catalog, NoCatalog, JobInv, ParsedToInsert, NoWorkerYet, LockersAct

LEMMA RunKeeps ==
  ASSUME WorkersInv, Start \/ Finish \/ FinishFails \/ ContextEnds \/ Crash
  PROVE  WorkersInv'
  <1>1. CASE Start
    <2>1. JobInv'
      BY <1>1 DEF Start, WorkersInv, JobInv, ParsedToInsert, NoWorkerYet, LockersAct
    <2> QED BY <1>1, <2>1, TablesRest, ClientRests DEF Start, WorkersInv
  <1>2. CASE Finish
    BY <1>2, RunOver, MarkType DEF Finish, WorkersInv
  <1>3. CASE FinishFails
    BY <1>3, RunOver, TablesRest DEF FinishFails, WorkersInv
  <1>4. CASE ContextEnds
    <2>1. JobInv'
      BY <1>4 DEF ContextEnds, WorkersInv, JobInv, ParsedToInsert, NoWorkerYet, LockersAct
    <2> QED BY <1>4, <2>1, TablesRest, ClientRests DEF ContextEnds, WorkersInv
  <1>5. CASE Crash
    BY <1>5, RunOver, TablesRest DEF Crash, WorkersInv
  <1> QED BY <1>1, <1>2, <1>3, <1>4, <1>5

LEMMA GoKeeps ==
  ASSUME WorkersInv, NEW o \in OrderIds, Go(o)
  PROVE  WorkersInv'
  <1>1. CInv'
    BY BeginCounts DEF WorkersInv, Go
  <1>2. JobInv'
    BY DEF WorkersInv, Go, JobInv, ParsedToInsert, NoWorkerYet, LockersAct
  <1> QED BY <1>1, <1>2, TablesRest DEF WorkersInv, Go

LEMMA WorkerKeeps ==
  ASSUME WorkersInv, NEW o \in OrderIds, WorkerNext(o)
  PROVE  WorkersInv'
  <1> USE DEF WorkersInv
  <1>1. CASE Attempt(o, run.live) /\ UNCHANGED <<tables, run, worker, owner>>
    <2>1. run.live \in BOOLEAN
      BY DEF JobInv
    <2> QED BY <1>1, <2>1, AttemptCounts, TablesRest, JobRests
  <1>2. CASE FetchFails(o)
    BY <1>2, HangUpCounts, TablesRest, WorkerGoesOn, WorkerValues DEF FetchFails
  <1>3. CASE Upsert(o)
    <2>1. PICK k \in DetailOf(o) :
            Become(o, IF k = NoItems THEN DoneWorker
                      ELSE [pc |-> "insert", parsed |-> k, locked |-> 0])
      BY <1>3 DEF Upsert
    <2>2. JobInv'
      BY <1>3, <2>1, WorkerGoesOn DEF Upsert
    <2> QED BY <1>3, <2>2, HangUpCounts, UpsertType DEF Upsert
  <1>4. CASE UpsertProduct(o)
    <2>1. JobInv'
      <3> USE DEF JobInv
      <3>1. worker[o].pc = "insert" /\ worker[o].locked \in Nat
        BY <1>4 DEF UpsertProduct, Wants
      <3>2. LockersAct'
        BY <1>4, <3>1 DEF UpsertProduct, Wanted, LockersAct
      <3>3. worker' \in [OrderIds -> Worker] /\ run' \in Run
        BY <1>4, <3>1 DEF UpsertProduct
      <3>4. owner' \in [Products -> OrderIds \cup {Free}]
        BY <1>4 DEF UpsertProduct
      <3>5. ParsedToInsert'
        BY <1>4, <3>1 DEF UpsertProduct, ParsedToInsert
      <3>6. NoWorkerYet'
        BY <1>4, <3>1 DEF UpsertProduct, NoWorkerYet
      <3> QED BY <3>2, <3>3, <3>4, <3>5, <3>6
    <2> QED BY <1>4, <2>1, TablesRest, ClientRests DEF UpsertProduct
  <1>5. CASE CommitItems(o)
    <2>1. worker[o].parsed \in Contents
      BY DEF JobInv
    <2> QED BY <1>5, <2>1, InsertType, WorkerReturns, ClientRests DEF CommitItems
  <1>6. CASE Rollback(o)
    BY <1>6, TablesRest, WorkerReturns, ClientRests DEF Rollback
  <1> QED BY <1>1, <1>2, <1>3, <1>4, <1>5, <1>6 DEF WorkerNext

LEMMA WorkersStep == WorkersInv /\ [Next]_vars => WorkersInv'
  <1> SUFFICES ASSUME WorkersInv, [Next]_vars PROVE WorkersInv'
    OBVIOUS
  <1>1. CASE Start \/ Finish \/ FinishFails \/ ContextEnds \/ Crash
    BY <1>1, RunKeeps
  <1>2. ASSUME NEW o \in OrderIds, Go(o) \/ WorkerNext(o) PROVE WorkersInv'
    BY <1>2, GoKeeps, WorkerKeeps
  <1>3. ASSUME NEW m \in travelling, FluxProcesses(m), UNCHANGED <<tables, run, worker, owner>>
        PROVE  WorkersInv'
    BY <1>3, ProcessingCounts, TablesRest, JobRests DEF WorkersInv
  <1>4. CASE UNCHANGED vars
    BY <1>4, TablesRest, ClientRests, JobRests DEF WorkersInv, vars
  <1> QED BY <1>1, <1>2, <1>3, <1>4 DEF Next

-----------------------------------------------------------------------------
(* What holds of every behaviour *)

LEMMA WorkersInvariant == Spec => []WorkersInv
  BY WorkersInitially, WorkersStep, PTL DEF Spec

\* The tables, the calls, the run, its workers and the locks keep their types.
THEOREM WorkersTypeCorrect == Spec => []TypeOK
  <1>1. WorkersInv => TypeOK
    BY DEF WorkersInv, CInv, JobInv, TypeOK
  <1> QED BY <1>1, WorkersInvariant, PTL

\* A call makes at most 1 + RetryMax requests, and returns as an answer only
\* the answer to one of them, whatever Flux does with those given up
\* (doGetWithRetry).
THEOREM CallsKeepCount == Spec => []CallsBounded
  <1>1. WorkersInv => CallsBounded
    BY CountedIsBounded DEF WorkersInv
  <1> QED BY <1>1, WorkersInvariant, PTL

\* No row stays locked by a worker that has returned or whose run is over
\* (the deferred Rollback of InsertOrderItems).
THEOREM LocksAreReleased == Spec => []LockersAct
  <1>1. WorkersInv => LockersAct
    BY DEF WorkersInv, JobInv
  <1> QED BY <1>1, WorkersInvariant, PTL

-----------------------------------------------------------------------------
(* Refinement: a run with its calls, limit and locks is a run of           *)
(* OrderSyncJob.                                                           *)

\* What the run looks like to OrderSyncJob: a function of run and worker.
Detail == run.todo \cup {o \in OrderIds : worker[o].pc = "fetch"}
Parsed == [o \in OrderIds |-> worker[o].parsed]
View == [pc |-> run.pc, detail |-> Detail, parsed |-> Parsed]

LEMMA JobSyncIsView == jobSync = [r \in {"job"} |-> View] /\ jobSync' = [r \in {"job"} |-> View']
  BY DEF jobSync, View, Detail, Parsed

\* A step of the abstract run is known by what it makes of the view.
LEMMA ViewStep ==
  ASSUME NEW x, View' = x
  PROVE  jobSync' = [jobSync EXCEPT !["job"] = x] /\ jobSync["job"] = View
  BY JobSyncIsView

\* Two fields of the view, changed one after the other.
LEMMA StartedView ==
  ASSUME NEW x, NEW y
  PROVE  [View EXCEPT !.pc = x, !.detail = y] = [pc |-> x, detail |-> y, parsed |-> Parsed]
  <1>1. [View EXCEPT !.pc = x, !.detail = y] = [[View EXCEPT !.pc = x] EXCEPT !.detail = y]
    BY DEF View
  <1>2. [View EXCEPT !.pc = x] = [pc |-> x, detail |-> Detail, parsed |-> Parsed]
    BY DEF View
  <1>3. [[pc |-> x, detail |-> Detail, parsed |-> Parsed] EXCEPT !.detail = y]
          = [pc |-> x, detail |-> y, parsed |-> Parsed]
    OBVIOUS
  <1> QED BY <1>1, <1>2, <1>3

LEMMA FetchedView ==
  ASSUME NEW x, NEW y
  PROVE  [View EXCEPT !.detail = x, !.parsed = y] = [pc |-> run.pc, detail |-> x, parsed |-> y]
  <1>1. [View EXCEPT !.detail = x, !.parsed = y]
          = [[View EXCEPT !.detail = x] EXCEPT !.parsed = y]
    BY DEF View
  <1>2. [View EXCEPT !.detail = x] = [pc |-> run.pc, detail |-> x, parsed |-> Parsed]
    BY DEF View
  <1>3. [[pc |-> run.pc, detail |-> x, parsed |-> Parsed] EXCEPT !.parsed = y]
          = [pc |-> run.pc, detail |-> x, parsed |-> y]
    OBVIOUS
  <1> QED BY <1>1, <1>2, <1>3

LEMMA ViewRests ==
  ASSUME UNCHANGED tables, Detail' = Detail, Parsed' = Parsed, run'.pc = run.pc
  PROVE  UNCHANGED <<tables, jobSync>>
  BY JobSyncIsView DEF View

LEMMA JobInitially == Init => Job1!SyncInit
  <1> SUFFICES ASSUME Init PROVE Job1!SyncInit
    OBVIOUS
  <1>1. Detail = {}
    BY DEF Init, Detail
  <1>2. Parsed = Job1!NothingParsed
    BY DEF Init, Parsed, Job1!NothingParsed
  <1>3. View = Job1!IdleSync
    BY <1>1, <1>2 DEF Init, View, Job1!IdleSync
  <1> QED BY <1>3, JobSyncIsView DEF Job1!SyncInit

LEMMA RunRefines ==
  ASSUME WorkersInv, Start \/ Finish \/ FinishFails \/ ContextEnds \/ Crash
  PROVE  Job1!SyncNext("job") \/ UNCHANGED <<tables, jobSync>>
  <1> USE DEF WorkersInv, JobInv
  <1>1. CASE Start
    <2>1. PICK listed \in SUBSET OrderIds :
            run' = [pc |-> "workers", todo |-> listed, live |-> TRUE, number |-> run.number + 1]
      BY <1>1 DEF Start
    <2>2. worker' = worker /\ worker = [o \in OrderIds |-> NoWorker]
      BY <1>1 DEF Start, NoWorkerYet
    <2>3. Detail' = listed
      BY <2>1, <2>2 DEF Detail
    <2>4. Parsed' = Parsed
      BY <2>2 DEF Parsed
    <2>5. View' = [pc |-> "workers", detail |-> listed, parsed |-> Parsed]
      BY <2>1, <2>3, <2>4 DEF View
    <2>6. View' = [View EXCEPT !.pc = "workers", !.detail = listed]
      BY <2>5, StartedView
    <2>7. Job1!SyncStart("job")
      <3>1. jobSync["job"].pc = "idle"
        BY <1>1, JobSyncIsView DEF Start, View
      <3>2. jobSync' = [jobSync EXCEPT !["job"] =
                          [jobSync["job"] EXCEPT !.pc = "workers", !.detail = listed]]
        BY <2>6, ViewStep
      <3> QED BY <1>1, <3>1, <3>2 DEF Start, Job1!SyncStart, Job1!tables
    <2> QED BY <2>7 DEF Job1!SyncNext
  <1>2. ASSUME run' = IdleRun(run.number), Forgotten PROVE View' = Job1!IdleSync
    BY <1>2 DEF Forgotten, View, Detail, Parsed, Job1!IdleSync, Job1!NothingParsed
  <1>3. CASE Finish
    <2>1. Detail = {} /\ Parsed = Job1!NothingParsed
      BY <1>3 DEF Finish, AllDone, AtWork, Detail, Parsed, Job1!NothingParsed, ParsedToInsert
    <2>2. Job1!SyncFinish("job")
      BY <1>2, <1>3, <2>1, ViewStep DEF Finish, AllDone, View, Job1!SyncFinish,
         MarkSyncedAsPending, Job1!MarkSyncedAsPending
    <2> QED BY <2>2 DEF Job1!SyncNext
  <1>4. CASE FinishFails \/ Crash
    <2>1. Job1!SyncAbort("job")
      BY <1>2, <1>4, ViewStep DEF FinishFails, Crash, AllDone, View, Job1!SyncAbort, Job1!tables
    <2> QED BY <2>1 DEF Job1!SyncNext
  <1>5. CASE ContextEnds
    BY <1>5, ViewRests DEF ContextEnds, Detail, Parsed
  <1> QED BY <1>1, <1>3, <1>4, <1>5

LEMMA GoRefines ==
  ASSUME WorkersInv, NEW o \in OrderIds, Go(o)
  PROVE  UNCHANGED <<tables, jobSync>>
  <1> USE DEF WorkersInv, JobInv, Go
  <1>1. Detail' = Detail
    BY DEF Detail, NoWorkerYet
  <1>2. Parsed' = Parsed
    BY DEF Parsed
  <1> QED BY <1>1, <1>2, ViewRests

\* A worker that leaves its call has fetched what it goes on to insert.
LEMMA FetchedStep ==
  ASSUME JobInv, NEW o \in OrderIds, worker[o].pc = "fetch", NEW w \in Worker, w.pc # "fetch",
         Become(o, w), UNCHANGED run
  PROVE  /\ o \in jobSync["job"].detail
         /\ jobSync' = [jobSync EXCEPT !["job"] = Job1!Fetched("job", o, w.parsed)]
  <1>1. o \in Detail /\ o \notin run.todo
    BY DEF Detail, JobInv, NoWorkerYet
  <1>2. Detail' = Detail \ {o}
    BY <1>1 DEF Detail, Become, JobInv
  <1>3. Parsed' = [Parsed EXCEPT ![o] = w.parsed]
    BY DEF Parsed, Become, JobInv
  <1>4. View' = [pc |-> run.pc, detail |-> Detail \ {o}, parsed |-> [Parsed EXCEPT ![o] = w.parsed]]
    BY <1>2, <1>3 DEF View
  <1>5. View' = [View EXCEPT !.detail = Detail \ {o}, !.parsed = [Parsed EXCEPT ![o] = w.parsed]]
    BY <1>4, FetchedView
  <1>6. jobSync["job"] = View /\ View.detail = Detail /\ View.parsed = Parsed
    BY JobSyncIsView DEF View
  <1>7. Job1!Fetched("job", o, w.parsed) = View'
    BY <1>5, <1>6 DEF Job1!Fetched
  <1> QED BY <1>1, <1>6, <1>7, ViewStep

\* A worker that ends its transaction has nothing left to insert.
LEMMA InsertedStep ==
  ASSUME JobInv, NEW o \in OrderIds, worker[o].pc = "insert", Become(o, DoneWorker), UNCHANGED run
  PROVE  /\ jobSync["job"].parsed[o] = worker[o].parsed
         /\ worker[o].parsed # NoItems
         /\ jobSync' = [jobSync EXCEPT !["job"] = Job1!Inserted("job", o)]
  <1>1. worker[o].parsed # NoItems
    BY DEF JobInv, ParsedToInsert
  <1>2. Detail' = Detail
    BY DEF Detail, Become, JobInv
  <1>3. Parsed' = [Parsed EXCEPT ![o] = NoItems]
    BY DEF Parsed, Become, JobInv
  <1>4. View' = [View EXCEPT !.parsed = [Parsed EXCEPT ![o] = NoItems]]
    BY <1>2, <1>3 DEF View
  <1>5. jobSync["job"] = View /\ View.parsed = Parsed /\ Parsed[o] = worker[o].parsed
    BY JobSyncIsView DEF View, Parsed
  <1>6. Job1!Inserted("job", o) = View'
    BY <1>4, <1>5 DEF Job1!Inserted
  <1> QED BY <1>1, <1>5, <1>6, ViewStep

LEMMA WorkerRefines ==
  ASSUME WorkersInv, NEW o \in OrderIds, WorkerNext(o)
  PROVE  Job1!SyncNext("job") \/ UNCHANGED <<tables, jobSync>>
  <1> USE DEF WorkersInv
  <1>1. CASE Attempt(o, run.live) /\ UNCHANGED <<tables, run, worker, owner>>
    BY <1>1, ViewRests DEF Detail, Parsed
  <1>2. CASE FetchFails(o)
    <2>1. Job1!SyncWorkerFails("job", o)
      BY <1>2, FetchedStep, WorkerValues DEF FetchFails, Job1!SyncWorkerFails, Job1!tables
    <2> QED BY <2>1 DEF Job1!SyncNext, Job1!SyncWorker
  <1>3. CASE Upsert(o)
    <2>1. PICK k \in DetailOf(o) :
            Become(o, IF k = NoItems THEN DoneWorker
                      ELSE [pc |-> "insert", parsed |-> k, locked |-> 0])
      BY <1>3 DEF Upsert
    <2>2. /\ o \in jobSync["job"].detail
          /\ jobSync' = [jobSync EXCEPT !["job"] = Job1!Fetched("job", o, k)]
      BY <1>3, <2>1, FetchedStep DEF Upsert
    <2>3. Job1!SyncUpsert("job", o)
      BY <1>3, <2>2 DEF Upsert, Job1!SyncUpsert, UpsertOrder, Job1!UpsertOrder, NoOrder, Job1!NoOrder
    <2> QED BY <2>3 DEF Job1!SyncNext, Job1!SyncWorker
  <1>4. CASE UpsertProduct(o)
    <2>1. Detail' = Detail
      BY <1>4 DEF UpsertProduct, Detail, JobInv
    <2>2. Parsed' = Parsed
      BY <1>4 DEF UpsertProduct, Parsed, JobInv
    <2> QED BY <1>4, <2>1, <2>2, ViewRests DEF UpsertProduct
  <1>5. CASE CommitItems(o)
    <2>1. Job1!SyncInsertItems("job", o)
      BY <1>5, InsertedStep DEF CommitItems, Job1!SyncInsertItems, InsertOrderItems,
         Job1!InsertOrderItems, HasOrder, Job1!HasOrder
    <2> QED BY <2>1 DEF Job1!SyncNext, Job1!SyncWorker
  <1>6. CASE Rollback(o)
    <2>1. Job1!SyncWorkerFails("job", o)
      BY <1>6, InsertedStep DEF Rollback, Job1!SyncWorkerFails, Job1!tables
    <2> QED BY <2>1 DEF Job1!SyncNext, Job1!SyncWorker
  <1> QED BY <1>1, <1>2, <1>3, <1>4, <1>5, <1>6 DEF WorkerNext

LEMMA StepRefines ==
  WorkersInv /\ [Next]_vars => [\E r \in {"job"} : Job1!SyncNext(r)]_<<tables, jobSync>>
  <1> SUFFICES ASSUME WorkersInv, [Next]_vars
               PROVE  Job1!SyncNext("job") \/ UNCHANGED <<tables, jobSync>>
    OBVIOUS
  <1>1. CASE Start \/ Finish \/ FinishFails \/ ContextEnds \/ Crash
    BY <1>1, RunRefines
  <1>2. ASSUME NEW o \in OrderIds, Go(o) \/ WorkerNext(o)
        PROVE  Job1!SyncNext("job") \/ UNCHANGED <<tables, jobSync>>
    BY <1>2, GoRefines, WorkerRefines
  <1>3. ASSUME UNCHANGED <<tables, run, worker, owner>> PROVE UNCHANGED <<tables, jobSync>>
    BY <1>3, ViewRests DEF Detail, Parsed
  <1>4. CASE UNCHANGED vars
    BY <1>3, <1>4 DEF vars
  <1> QED BY <1>1, <1>2, <1>3, <1>4 DEF Next

\* Every run of job 1 does what OrderSyncJob says, with the limit of the
\* errgroup, the client's attempts and the locks of the transactions
\* (doSyncOrders).
THEOREM WorkersImplementJob == Spec => ImplementsJob
  BY JobInitially, WorkersInvariant, StepRefines, PTL DEF Spec, ImplementsJob
=============================================================================
