---------------------------- MODULE OrderSyncJob ----------------------------
(***************************************************************************)
(* Job 1, doSyncOrders: list the orders of Flux, then let concurrent       *)
(* workers fetch each order's detail, upsert the order and replace its     *)
(* items; when all have returned, turn every SYNCED order PENDING.         *)
(*                                                                         *)
(* What Flux answers is arbitrary: any set of orders, and any contents for *)
(* an order each time its detail is fetched.  The limit of 10 workers is   *)
(* not modelled: any number of them may be under way.                      *)
(***************************************************************************)
EXTENDS Tables

CONSTANT SyncRuns   \* runs of the job that may overlap

VARIABLE sync

SyncRun == [pc     : {"idle", "workers"},
            detail : SUBSET OrderIds,          \* orders whose detail is to be fetched
            parsed : [OrderIds -> Contents]]   \* items a worker has yet to insert

NothingParsed == [o \in OrderIds |-> NoItems]
IdleSync == [pc |-> "idle", detail |-> {}, parsed |-> NothingParsed]

SyncTypeOK == sync \in [SyncRuns -> SyncRun]

SyncInit == sync = [r \in SyncRuns |-> IdleSync]

-----------------------------------------------------------------------------
\* GetOrders.
SyncStart(r) ==
  /\ sync[r].pc = "idle"
  /\ \E listed \in SUBSET OrderIds :
       sync' = [sync EXCEPT ![r] = [@ EXCEPT !.pc = "workers", !.detail = listed]]
  /\ UNCHANGED tables

\* The run's variables when worker o has fetched and parsed its detail, and
\* when it has no items left to insert.
Fetched(r, o, contents) ==
  [sync[r] EXCEPT !.detail = @ \ {o}, !.parsed = [@ EXCEPT ![o] = contents]]
Inserted(r, o) == [sync[r] EXCEPT !.parsed = [@ EXCEPT ![o] = NoItems]]

\* A worker has its order's detail and upserts the order.  When no item of
\* the detail can be parsed the worker returns and leaves the items alone.
SyncUpsert(r, o) ==
  /\ o \in sync[r].detail
  /\ UpsertOrder(o)
  /\ \E contents \in Contents : sync' = [sync EXCEPT ![r] = Fetched(r, o, contents)]
  /\ UNCHANGED <<items, cartons, outbox>>

SyncInsertItems(r, o) ==
  /\ sync[r].parsed[o] # NoItems
  /\ InsertOrderItems(o, sync[r].parsed[o])
  /\ sync' = [sync EXCEPT ![r] = Inserted(r, o)]
  /\ UNCHANGED <<orders, cartons, outbox>>

\* A worker's call fails: it logs and returns nil, and the others go on.
SyncWorkerFails(r, o) ==
  /\ \/ /\ o \in sync[r].detail
        /\ sync' = [sync EXCEPT ![r] = Fetched(r, o, NoItems)]
     \/ /\ sync[r].parsed[o] # NoItems
        /\ sync' = [sync EXCEPT ![r] = Inserted(r, o)]
  /\ UNCHANGED tables

\* g.Wait returns when every worker has: the SYNCED orders become PENDING.
SyncFinish(r) ==
  /\ sync[r].pc = "workers"
  /\ sync[r].detail = {}
  /\ sync[r].parsed = NothingParsed
  /\ MarkSyncedAsPending
  /\ sync' = [sync EXCEPT ![r] = IdleSync]
  /\ UNCHANGED <<items, cartons, outbox>>

\* MarkSyncedAsPending fails, the job's context ends, or the process dies.
SyncAbort(r) ==
  /\ sync[r].pc # "idle"
  /\ sync' = [sync EXCEPT ![r] = IdleSync]
  /\ UNCHANGED tables

SyncWorker(r, o) == SyncUpsert(r, o) \/ SyncInsertItems(r, o) \/ SyncWorkerFails(r, o)

SyncNext(r) ==
  \/ SyncStart(r) \/ SyncFinish(r) \/ SyncAbort(r)
  \/ \E o \in OrderIds : SyncWorker(r, o)
=============================================================================
