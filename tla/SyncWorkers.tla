---------------------------- MODULE SyncWorkers ----------------------------
(***************************************************************************)
(* One run of job 1 with what OrderSyncJob leaves out: the limit of the    *)
(* errgroup, the attempts of GetOrderDetail, and the row locks that the    *)
(* transactions of InsertOrderItems take on the products they share.       *)
(*                                                                         *)
(* A transaction upserts the products of its order in the order of the     *)
(* detail, keeps each row locked to its end, and waits for rows that       *)
(* others have locked.  PostgreSQL ends a deadlock by aborting one of the  *)
(* transactions in it.                                                     *)
(***************************************************************************)
EXTENDS Tables, FluxClient, Sequences

CONSTANTS
  Limit,         \* g.SetLimit
  Products,      \* products.sku
  DetailOf(_),   \* the contents Flux may answer with for an order
  ProductsOf(_), \* the products of contents, in the order of the detail
  Free,          \* a row nobody has locked
  MaxRuns        \* bound of the model: runs of the job

ASSUME WorkersAssumption ==
  /\ Limit \in Nat \ {0} /\ MaxRuns \in Nat
  /\ Calls = OrderIds
  /\ Free \notin OrderIds
  /\ \A o \in OrderIds : DetailOf(o) \subseteq Contents

VARIABLES
  run,      \* the goroutine of the job
  worker,   \* the goroutine of each order
  owner     \* who has locked each product's row

vars == <<tables, client, run, worker, owner>>

Run == [pc : {"idle", "workers"}, todo : SUBSET OrderIds, live : BOOLEAN,
        number : 0 .. MaxRuns]
IdleRun(n) == [pc |-> "idle", todo |-> {}, live |-> FALSE, number |-> n]

\* locked counts the products upserted.
Worker == [pc : {"none", "fetch", "insert", "done"}, parsed : Contents, locked : Nat]
NoWorker == [pc |-> "none", parsed |-> NoItems, locked |-> 0]
DoneWorker == [pc |-> "done", parsed |-> NoItems, locked |-> 0]

TypeOK ==
  /\ TablesTypeOK
  /\ ClientTypeOK
  /\ run \in Run
  /\ worker \in [OrderIds -> Worker]
  /\ owner \in [Products -> OrderIds \cup {Free}]

AtWork == {o \in OrderIds : worker[o].pc \in {"fetch", "insert"}}
Forgotten == /\ worker' = [o \in OrderIds |-> NoWorker]
             /\ owner' = [p \in Products |-> Free]
             /\ Forget

Init ==
  /\ orders = [o \in OrderIds |-> NoOrder]
  /\ items = [o \in OrderIds |-> NoItems]
  /\ cartons = NoCatalog
  /\ outbox = [o \in OrderIds |-> NoIntent]
  /\ run = IdleRun(0)
  /\ worker = [o \in OrderIds |-> NoWorker]
  /\ owner = [p \in Products |-> Free]
  /\ ClientInit

-----------------------------------------------------------------------------
(* The goroutine of the job *)

\* GetOrders.
Start ==
  /\ run.pc = "idle" /\ run.number < MaxRuns
  /\ \E listed \in SUBSET OrderIds :
       run' = [pc |-> "workers", todo |-> listed, live |-> TRUE,
               number |-> run.number + 1]
  /\ UNCHANGED <<tables, client, worker, owner>>

\* g.Go, which blocks while Limit workers are at work.
Go(o) ==
  /\ o \in run.todo
  /\ Cardinality(AtWork) < Limit
  /\ run' = [run EXCEPT !.todo = @ \ {o}]
  /\ worker' = [worker EXCEPT ![o].pc = "fetch"]
  /\ Begin(o)
  /\ UNCHANGED <<tables, owner>>

AllDone == run.pc = "workers" /\ run.todo = {} /\ AtWork = {}

\* Mutant: the orders are marked without waiting for the workers.
FinishUnwaited ==
  /\ run.pc = "workers" /\ run.todo = {} /\ run.live
  /\ MarkSyncedAsPending
  /\ run' = IdleRun(run.number)
  /\ Forgotten
  /\ UNCHANGED <<items, cartons, outbox>>

\* g.Wait returns, and the SYNCED orders become PENDING.
Finish ==
  /\ AllDone /\ run.live
  /\ MarkSyncedAsPending
  /\ run' = IdleRun(run.number)
  /\ Forgotten
  /\ UNCHANGED <<items, cartons, outbox>>

\* MarkSyncedAsPending fails, for one because the context has ended.
FinishFails ==
  /\ AllDone
  /\ run' = IdleRun(run.number)
  /\ Forgotten
  /\ UNCHANGED tables

\* The job's timeout, or the engine's Stop.
ContextEnds ==
  /\ run.live
  /\ run' = [run EXCEPT !.live = FALSE]
  /\ UNCHANGED <<tables, client, worker, owner>>

\* The process dies, and the database rolls its transactions back.
Crash ==
  /\ run.pc # "idle"
  /\ run' = IdleRun(run.number)
  /\ Forgotten
  /\ UNCHANGED tables

-----------------------------------------------------------------------------
(* The worker of order o *)

Become(o, w) == worker' = [worker EXCEPT ![o] = w]

\* No detail: the worker logs it and returns nil.
FetchFails(o) ==
  /\ worker[o].pc = "fetch"
  /\ call[o].pc \in {"failed", "answered"}
  /\ HangUp(o)
  /\ Become(o, DoneWorker)
  /\ UNCHANGED <<tables, run, owner>>

\* The detail is there and the order upserted.  Without an item that can be
\* parsed the worker returns and leaves the items alone.
Upsert(o) ==
  /\ worker[o].pc = "fetch" /\ call[o].pc = "answered"
  /\ run.live
  /\ HangUp(o)
  /\ UpsertOrder(o)
  /\ \E contents \in DetailOf(o) :
       Become(o, IF contents = NoItems THEN DoneWorker
                 ELSE [pc |-> "insert", parsed |-> contents, locked |-> 0])
  /\ UNCHANGED <<items, cartons, outbox, run, owner>>

\* The product whose row the transaction wants next.
Wanted(o) == ProductsOf(worker[o].parsed)[worker[o].locked + 1]
Wants(o) == worker[o].pc = "insert" /\ worker[o].locked < Len(ProductsOf(worker[o].parsed))

UpsertProduct(o) ==
  /\ Wants(o)
  /\ owner[Wanted(o)] \in {o, Free}
  /\ owner' = [owner EXCEPT ![Wanted(o)] = o]
  /\ worker' = [worker EXCEPT ![o].locked = @ + 1]
  /\ UNCHANGED <<tables, client, run>>

Unlock(o) == owner' = [p \in Products |-> IF owner[p] = o THEN Free ELSE owner[p]]

\* Every product is upserted; items are replaced, and the transaction commits.
CommitItems(o) ==
  /\ worker[o].pc = "insert" /\ ~Wants(o)
  /\ run.live
  /\ InsertOrderItems(o, worker[o].parsed)
  /\ Unlock(o)
  /\ Become(o, DoneWorker)
  /\ UNCHANGED <<orders, cartons, outbox, client, run>>

\* Mutant: no deferred Rollback.
RollbackForgotten(o) ==
  /\ worker[o].pc = "insert"
  /\ Become(o, DoneWorker)
  /\ UNCHANGED <<tables, client, run, owner>>

\* The transaction is rolled back and the worker returns nil.
Rollback(o) ==
  /\ worker[o].pc = "insert"
  /\ Unlock(o)
  /\ Become(o, DoneWorker)
  /\ UNCHANGED <<tables, client, run>>

\* Transactions that wait for each other in a circle, each for the next.
Circle(S) ==
  /\ \A x \in S : Wants(x) /\ owner[Wanted(x)] \in S \ {x}
  /\ S = {owner[Wanted(x)] : x \in S}

\* PostgreSQL finds o in a circle and aborts its transaction.
Deadlocked(o) == (\E S \in SUBSET AtWork : o \in S /\ Circle(S)) /\ Rollback(o)

WorkerNext(o) ==
  \/ Attempt(o, run.live) /\ UNCHANGED <<tables, run, worker, owner>>
  \/ FetchFails(o) \/ Upsert(o) \/ UpsertProduct(o) \/ CommitItems(o) \/ Rollback(o)

Next ==
  \/ Start \/ Finish \/ FinishFails \/ ContextEnds \/ Crash
  \/ \E o \in OrderIds : Go(o) \/ WorkerNext(o)
  \/ \E m \in travelling : FluxProcesses(m) /\ UNCHANGED <<tables, run, worker, owner>>

Spec == Init /\ [][Next]_vars

-----------------------------------------------------------------------------
\* A row is locked only by a transaction that is under way and has upserted
\* it, through failures, aborts, and the end of the run: nobody waits for a
\* worker that has returned.
LockersAct ==
  \A p \in Products : owner[p] # Free =>
    LET o == owner[p] IN
    /\ worker[o].pc = "insert"
    /\ \E k \in 1 .. worker[o].locked : ProductsOf(worker[o].parsed)[k] = p

\* What the run looks like to OrderSyncJob: the detail of an order is still to
\* be fetched while its worker waits for g.Go or is at its call.
jobSync == [r \in {"job"} |->
  [pc     |-> run.pc,
   detail |-> run.todo \cup {o \in OrderIds : worker[o].pc = "fetch"},
   parsed |-> [o \in OrderIds |-> worker[o].parsed]]]

Job1 == INSTANCE OrderSyncJob WITH SyncRuns <- {"job"}, sync <- jobSync

\* The run does what OrderSyncJob says, whatever the attempts, the locks and
\* the limit make of it: in particular no order is marked before every worker
\* has returned, and items are replaced as a whole or not at all.
ImplementsJob ==
  Job1!SyncInit /\ [][\E r \in {"job"} : Job1!SyncNext(r)]_<<tables, jobSync>>

-----------------------------------------------------------------------------
\* Goroutines and the database go on, an attempt ends by the client's timeout,
\* and PostgreSQL finds deadlocks.  No context has to end, and Flux need not
\* answer.
FairSpec ==
  /\ Spec
  /\ WF_vars(Finish \/ FinishFails)
  /\ \A o \in OrderIds :
       /\ WF_vars(Go(o))
       /\ WF_vars(Attempt(o, run.live) /\ UNCHANGED <<tables, run, worker, owner>>)
       /\ WF_vars(FetchFails(o) \/ Upsert(o))
       /\ WF_vars(UpsertProduct(o))
       /\ WF_vars(CommitItems(o) \/ (~run.live /\ Rollback(o)))
       /\ WF_vars(Deadlocked(o))

\* Every run comes to its end: workers that wait for each other's rows, or for
\* a Flux that never answers, hold it up only for a time.
RunEnds == run.pc = "workers" ~> run.pc = "idle"
=============================================================================
