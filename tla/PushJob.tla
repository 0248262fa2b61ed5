------------------------------ MODULE PushJob ------------------------------
(***************************************************************************)
(* Job 4, doPushRecommendations: write a push intent for every decided     *)
(* order, then POST the due outbox rows to Flux and record the outcome.    *)
(*                                                                         *)
(* Flux is the environment: received[o] is the set of assignments Flux has *)
(* applied to order o, wire the requests that a client gave up on and that *)
(* may still arrive.                                                       *)
(***************************************************************************)
EXTENDS Tables

CONSTANTS
  PushRuns,    \* runs of the job that may overlap
  PushBatch,   \* push_batch_size
  Refused      \* orders whose assignment Flux answers with an error every time

ASSUME PushAssumption == PushBatch \in Nat \ {0}

VARIABLES push, received, wire

wms == <<received, wire>>

Candidate == [id : OrderIds, status : {"RECOMMENDED", "NO RECOMMENDATION"},
              carton : CartonIds \cup {Null}]
Request == [order : OrderIds, flux : Assignment]
DueRow == [order : OrderIds, flux : Assignment, id : Nat]

PushRun == [pc      : {"idle", "scan", "resolve", "enqueue", "cartons", "list",
                       "post", "delivered", "retry"},
            last    : Nat,                       \* lastID of the scan
            page    : SUBSET Candidate,          \* candidates still to enqueue
            intent  : Assignment \cup {Null},    \* fluxCartonID just resolved
            catalog : Catalog,                   \* cartonMap
            rows    : SUBSET DueRow]             \* outbox rows still to deliver

IdlePush == [pc |-> "idle", last |-> 0, page |-> {}, intent |-> Null,
             catalog |-> NoCatalog, rows |-> {}]

PushTypeOK ==
  /\ push \in [PushRuns -> PushRun]
  /\ received \in [OrderIds -> SUBSET Assignment]
  /\ wire \subseteq Request

PushInit ==
  /\ push = [p \in PushRuns |-> IdlePush]
  /\ received = [o \in OrderIds |-> {}]
  /\ wire = {}

-----------------------------------------------------------------------------
(* enqueuePushIntents *)

PushStart(p) ==
  /\ push[p].pc = "idle"
  /\ push' = [push EXCEPT ![p].pc = "scan"]
  /\ UNCHANGED <<tables, wms>>

\* A page of candidates, with the status and carton each has now.
PushScan(p) ==
  /\ push[p].pc = "scan"
  /\ LET ids == PageOfOrders({"RECOMMENDED", "NO RECOMMENDATION"}, push[p].last, PushBatch)
         page == {[id |-> o, status |-> orders[o].status, carton |-> orders[o].carton] :
                    o \in ids}
     IN push' = [push EXCEPT ![p] =
                   IF ids = {} THEN [IdlePush EXCEPT !.pc = "cartons"]
                               ELSE [@ EXCEPT !.pc = "resolve", !.page = page]]
  /\ UNCHANGED <<tables, wms>>

\* The candidate the loop is at.
AtCandidate(p, e) ==
  /\ e \in push[p].page
  /\ \A x \in push[p].page : e.id <= x.id

PastCandidate(p, e) ==
  [push[p] EXCEPT !.last = e.id, !.page = @ \ {e}, !.intent = Null,
                  !.pc = IF push[p].page = {e} THEN "scan" ELSE "resolve"]
LeaveCandidate(p, e) == push' = [push EXCEPT ![p] = PastCandidate(p, e)]

\* resolveFluxCartonIDForPush: "0" for an order no carton fits, otherwise the
\* Flux id the recommended carton has now.
PushResolve(p, e) ==
  /\ push[p].pc = "resolve"
  /\ AtCandidate(p, e)
  /\ \/ /\ e.status = "NO RECOMMENDATION"
        /\ push' = [push EXCEPT ![p] = [@ EXCEPT !.pc = "enqueue", !.intent = NoCarton]]
     \/ /\ e.status = "RECOMMENDED"
        /\ e.carton \in Active(cartons)
        /\ push' = [push EXCEPT ![p] = [@ EXCEPT !.pc = "enqueue",
                                                 !.intent = cartons[e.carton].flux]]
  /\ UNCHANGED <<tables, wms>>

\* The carton is missing, or the query for it fails: the order waits.
PushUnresolved(p, e) ==
  /\ push[p].pc = "resolve"
  /\ AtCandidate(p, e)
  /\ e.status = "RECOMMENDED"
  /\ LeaveCandidate(p, e)
  /\ UNCHANGED <<tables, wms>>

PushEnqueue(p, e) ==
  /\ push[p].pc = "enqueue"
  /\ AtCandidate(p, e)
  /\ EnqueuePushIntent(e.id, push[p].intent)
  /\ LeaveCandidate(p, e)
  /\ UNCHANGED <<orders, items, cartons, wms>>

\* The INSERT fails; the loop logs it and goes on.
PushEnqueueFails(p, e) ==
  /\ push[p].pc = "enqueue"
  /\ AtCandidate(p, e)
  /\ LeaveCandidate(p, e)
  /\ UNCHANGED <<tables, wms>>

-----------------------------------------------------------------------------
(* doPushRecommendations: the delivery loop *)

\* GetActiveCartons into cartonMap, once for the whole run.
PushCartons(p) ==
  /\ push[p].pc = "cartons"
  /\ push' = [push EXCEPT ![p] = [@ EXCEPT !.pc = "list", !.catalog = cartons]]
  /\ UNCHANGED <<tables, wms>>

\* A batch of due rows; the loop ends when nothing is due.
PushList(p) ==
  /\ push[p].pc = "list"
  /\ LET rows == DuePushes(PushBatch) IN
     push' = [push EXCEPT ![p] = IF rows = {} THEN IdlePush
                                 ELSE [@ EXCEPT !.pc = "post", !.rows = rows]]
  /\ UNCHANGED <<tables, wms>>

AtRow(p, row) ==
  /\ row \in push[p].rows
  /\ \A x \in push[p].rows : row.id <= x.id

PastRow(p, row) ==
  [push[p] EXCEPT !.rows = @ \ {row},
                  !.pc = IF push[p].rows = {row} THEN "list" ELSE "post"]
LeaveRow(p, row) == push' = [push EXCEPT ![p] = PastRow(p, row)]

RequestOf(row) == [order |-> row.order, flux |-> row.flux]

Receive(o, assignment) == received' = [received EXCEPT ![o] = @ \cup {assignment}]

\* Attempts whose answer never came may reach Flux later, or never.
Straggle(row) == wire' \in {wire, wire \cup {RequestOf(row)}}

\* AssignCarton returns an answer: Flux has applied the request.
PushAccepted(p, row) ==
  /\ push[p].pc = "post"
  /\ AtRow(p, row)
  /\ row.order \notin Refused
  /\ Receive(row.order, row.flux)
  /\ Straggle(row)
  /\ push' = [push EXCEPT ![p].pc = "delivered"]
  /\ UNCHANGED tables

\* Mutant: the error of AssignCarton is not looked at.
PushFailsUnseen(p, row) ==
  /\ push[p].pc = "post"
  /\ AtRow(p, row)
  /\ push' = [push EXCEPT ![p].pc = "delivered"]
  /\ UNCHANGED <<tables, wms>>

\* AssignCarton returns an error after its last attempt: refused, timed out,
\* or applied with the answer lost or unreadable (a straggler that arrives).
PushFails(p, row) ==
  /\ push[p].pc = "post"
  /\ AtRow(p, row)
  /\ IF row.order \in Refused THEN UNCHANGED wire ELSE Straggle(row)
  /\ push' = [push EXCEPT ![p].pc = "retry"]
  /\ UNCHANGED <<tables, received>>

\* Mutant: the first carton of the map is taken for the pushed one.
DeliveredFirst(p, row) ==
  \E c \in Active(push[p].catalog) : MarkDelivered(row, c)

\* The local carton with the pushed Flux id, as of the run's cartonMap: any
\* one of them if several share it (map order), nil if none does.
Delivered(p, row) ==
  LET same == {c \in Active(push[p].catalog) : push[p].catalog[c].flux = row.flux} IN
  \E c \in IF same = {} THEN {Null} ELSE same : MarkDelivered(row, c)

PushDelivered(p, row) ==
  /\ push[p].pc = "delivered"
  /\ AtRow(p, row)
  /\ Delivered(p, row)
  /\ LeaveRow(p, row)
  /\ UNCHANGED <<items, cartons, wms>>

\* MarkDelivered returns an error: rolled back, or committed with the
\* acknowledgement lost.
PushDeliveredFails(p, row) ==
  /\ push[p].pc = "delivered"
  /\ AtRow(p, row)
  /\ Delivered(p, row) \/ UNCHANGED <<orders, outbox>>
  /\ push' = [push EXCEPT ![p].pc = "retry"]
  /\ UNCHANGED <<items, cartons, wms>>

PushRetry(p, row) ==
  /\ push[p].pc = "retry"
  /\ AtRow(p, row)
  /\ MarkRetry(row)
  /\ LeaveRow(p, row)
  /\ UNCHANGED <<orders, items, cartons, wms>>

\* MarkRetry fails: the row stays as it was, due at once.
PushRetryFails(p, row) ==
  /\ push[p].pc = "retry"
  /\ AtRow(p, row)
  /\ LeaveRow(p, row)
  /\ UNCHANGED <<tables, wms>>

\* A query fails, the job's context ends, or the process dies.
PushAbort(p) ==
  /\ push[p].pc # "idle"
  /\ push' = [push EXCEPT ![p] = IdlePush]
  /\ UNCHANGED <<tables, wms>>

PushCandidate(p, e) == \/ PushResolve(p, e) \/ PushUnresolved(p, e)
                       \/ PushEnqueue(p, e) \/ PushEnqueueFails(p, e)

DeliverOutboxRecord(p, row) ==
  \/ PushAccepted(p, row) \/ PushFails(p, row)
  \/ PushDelivered(p, row) \/ PushDeliveredFails(p, row)
  \/ PushRetry(p, row) \/ PushRetryFails(p, row)

PushNext(p) ==
  \/ PushStart(p) \/ PushScan(p) \/ PushCartons(p) \/ PushList(p) \/ PushAbort(p)
  \/ \E e \in push[p].page : PushCandidate(p, e)
  \/ \E row \in push[p].rows : DeliverOutboxRecord(p, row)

-----------------------------------------------------------------------------
\* A request the client gave up on arrives after all.
FluxApplies(m) ==
  /\ m \in wire
  /\ Receive(m.order, m.flux)
  /\ wire' = wire \ {m}
  /\ UNCHANGED <<tables, push>>
=============================================================================
