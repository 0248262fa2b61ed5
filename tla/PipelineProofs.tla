--------------------------- MODULE PipelineProofs ---------------------------
(***************************************************************************)
(* Proofs about Pipeline, for any sets of orders, cartons and runs, any    *)
(* batch sizes and any catalogue.                                          *)
(***************************************************************************)
EXTENDS Pipeline, FiniteSetTheorems, TLAPS

USE DEF tables, wms

-----------------------------------------------------------------------------
(* Type correctness *)

\* A value that is not there has its type.
LEMMA EmptyValues ==
  /\ NoCatalog \in Catalog
  /\ IdleRec \in RecRun
  /\ IdleSync \in SyncRun
  /\ IdleCartons \in CartonRun
  /\ IdlePush \in PushRun
  /\ NoOrder \in OrderRow
  /\ NoIntent \in OutboxRow
  BY TablesAssumption
  DEF NoCatalog, Catalog, IdleRec, RecRun, IdleSync, SyncRun, NothingParsed, IdleCartons,
      CartonRun, IdlePush, PushRun, NoOrder, OrderRow, OrderStatus, NoIntent, OutboxRow,
      OutboxStatus

LEMMA InitTypeOK == Init => TypeOK
  <1> SUFFICES ASSUME Init PROVE TypeOK
    OBVIOUS
  <1>1. TablesTypeOK
    <2>1. orders \in [OrderIds -> OrderRow]
      BY TablesAssumption DEF Init, OrderRow, OrderStatus, NoOrder
    <2>2. items \in [OrderIds -> Contents]
      BY TablesAssumption DEF Init
    <2>3. cartons \in Catalog
      BY CatalogAssumption DEF Init
    <2>4. outbox \in [OrderIds -> OutboxRow]
      BY EmptyValues DEF Init
    <2> QED BY <2>1, <2>2, <2>3, <2>4 DEF TablesTypeOK
  <1>2. CartonTypeOK
    BY EmptyValues DEF Init, CartonInit, CartonTypeOK
  <1>3. SyncTypeOK
    BY EmptyValues DEF Init, SyncInit, SyncTypeOK
  <1>4. RecTypeOK
    BY EmptyValues DEF Init, RecInit, RecTypeOK
  <1>5. PushTypeOK
    BY EmptyValues DEF Init, PushInit, PushTypeOK
  <1> QED BY <1>1, <1>2, <1>3, <1>4, <1>5 DEF TypeOK

LEMMA CartonType ==
  ASSUME TypeOK, CartonStep PROVE TypeOK'
  <1>0. PICK r \in CartonRuns : CartonNext(r)
    BY DEF CartonStep
  <1>1. CASE CartonStart(r)
    BY <1>1, CatalogAssumption
    DEF CartonStart, TypeOK, TablesTypeOK, CartonTypeOK, CartonRun, SyncTypeOK, RecTypeOK,
        PushTypeOK, CartonStep
  <1>2. CASE CartonEnd(r)
    BY <1>2, EmptyValues
    DEF CartonEnd, TypeOK, TablesTypeOK, CartonTypeOK, SyncTypeOK, RecTypeOK,
        PushTypeOK, CartonStep
  <1>3. ASSUME NEW c \in CartonIds, CartonUpsert(r, c) PROVE TypeOK'
    <2>1. csync[r].todo[c] \in CartonRow /\ csync[r].todo \in Catalog
      BY <1>3 DEF CartonUpsert, TypeOK, CartonTypeOK, CartonRun, Catalog
    <2>2. cartons' \in Catalog
      BY <1>3, <2>1 DEF CartonUpsert, UpsertCarton, TypeOK, TablesTypeOK, Catalog
    <2>3. CartonTypeOK'
      BY <1>3, <2>1 DEF CartonUpsert, TypeOK, CartonTypeOK, CartonRun, Catalog
    <2> QED
      BY <1>3, <2>2, <2>3 DEF CartonUpsert, TypeOK, TablesTypeOK, SyncTypeOK, RecTypeOK,
         PushTypeOK, CartonStep
  <1>4. ASSUME NEW c \in CartonIds, CartonSkip(r, c) PROVE TypeOK'
    BY <1>4 DEF CartonSkip, TypeOK, TablesTypeOK, CartonTypeOK, CartonRun, Catalog, SyncTypeOK,
       RecTypeOK, PushTypeOK, CartonStep
  <1> QED BY <1>0, <1>1, <1>2, <1>3, <1>4 DEF CartonNext

LEMMA SyncRunTypes ==
  ASSUME SyncTypeOK, NEW r \in SyncRuns, NEW o \in OrderIds
  PROVE  /\ Inserted(r, o) \in SyncRun
         /\ \A contents \in Contents : Fetched(r, o, contents) \in SyncRun
  <1>1. sync[r] \in SyncRun
    BY DEF SyncTypeOK
  <1>2. \A contents \in Contents :
          [sync[r].parsed EXCEPT ![o] = contents] \in [OrderIds -> Contents]
    BY <1>1 DEF SyncRun
  <1> QED BY <1>1, <1>2, TablesAssumption DEF SyncRun, Inserted, Fetched

LEMMA SyncType ==
  ASSUME TypeOK, SyncStep PROVE TypeOK'
  <1>0. PICK r \in SyncRuns : SyncNext(r)
    BY DEF SyncStep
  <1> USE DEF TypeOK, TablesTypeOK, CartonTypeOK, SyncTypeOK, RecTypeOK, PushTypeOK, SyncStep
  <1>1. CASE SyncStart(r)
    BY <1>1 DEF SyncStart, SyncRun
  <1>2. CASE SyncFinish(r)
    BY <1>2, EmptyValues DEF SyncFinish, MarkSyncedAsPending, OrderRow, OrderStatus
  <1>3. CASE SyncAbort(r)
    BY <1>3, EmptyValues DEF SyncAbort
  <1>4. ASSUME NEW o \in OrderIds, SyncUpsert(r, o) PROVE TypeOK'
    <2>1. orders' \in [OrderIds -> OrderRow]
      BY <1>4, TablesAssumption DEF SyncUpsert, UpsertOrder, OrderRow, OrderStatus, NoOrder
    <2>2. sync' \in [SyncRuns -> SyncRun]
      BY <1>4, SyncRunTypes DEF SyncUpsert
    <2> QED BY <1>4, <2>1, <2>2 DEF SyncUpsert
  <1>5. ASSUME NEW o \in OrderIds, SyncInsertItems(r, o) PROVE TypeOK'
    <2>1. sync[r].parsed[o] \in Contents
      BY DEF SyncRun
    <2> QED BY <1>5, <2>1, SyncRunTypes DEF SyncInsertItems, InsertOrderItems
  <1>6. ASSUME NEW o \in OrderIds, SyncWorkerFails(r, o) PROVE TypeOK'
    BY <1>6, SyncRunTypes, TablesAssumption DEF SyncWorkerFails
  <1> QED BY <1>0, <1>1, <1>2, <1>3, <1>4, <1>5, <1>6 DEF SyncNext, SyncWorker

LEMMA RecType ==
  ASSUME TypeOK, RecStep PROVE TypeOK'
  <1>0. PICK r \in RecRuns : RecNext(r)
    BY DEF RecStep
  <1> USE DEF TypeOK, TablesTypeOK, CartonTypeOK, SyncTypeOK, RecTypeOK, PushTypeOK, RecStep
  <1>1. CASE RecStart(r)
    BY <1>1 DEF RecStart, RecRun
  <1>2. CASE RecCartons(r)
    BY <1>2, EmptyValues DEF RecCartons, RecRun
  <1>3. CASE RecPage(r)
    BY <1>3, EmptyValues DEF RecPage, RecRun, PageOfOrders, FirstPage
  <1>4. CASE RecItems(r)
    BY <1>4, TablesAssumption DEF RecItems, RecRun, ItemsOf
  <1>5. CASE RecAbort(r)
    BY <1>5, EmptyValues DEF RecAbort
  <1>6. ASSUME NEW o \in OrderIds, LeaveOrder(r, o) PROVE RecTypeOK'
    <2>1. rec[r] \in RecRun /\ o \in Nat
      BY TablesAssumption
    <2>2. PastOrder(r, o) \in RecRun
      BY <2>1 DEF PastOrder, RecRun
    <2> QED BY <1>6, <2>2 DEF LeaveOrder
  <1>7. ASSUME NEW o \in OrderIds, Recommend(r, o) PROVE TypeOK'
    <2>1. PICK c \in BestCartons(rec[r].catalog, rec[r].goods[o]) :
            UpdateOrderStatus(o, "RECOMMENDED", c)
      BY <1>7 DEF Recommend
    <2>2. c \in CartonIds
      BY DEF BestCartons, Active
    <2>3. orders' \in [OrderIds -> OrderRow]
      BY <2>1, <2>2 DEF UpdateOrderStatus, OrderRow, OrderStatus
    <2> QED BY <1>6, <1>7, <2>3 DEF Recommend
  <1>8. ASSUME NEW o \in OrderIds, NoneFits(r, o) PROVE TypeOK'
    BY <1>6, <1>8 DEF NoneFits, UpdateOrderStatus, OrderRow, OrderStatus
  <1>9. ASSUME NEW o \in OrderIds, RecSkip(r, o) PROVE TypeOK'
    BY <1>6, <1>9 DEF RecSkip
  <1> QED BY <1>0, <1>1, <1>2, <1>3, <1>4, <1>5, <1>7, <1>8, <1>9
          DEF RecNext, ProcessRecommendationOrder

LEMMA PushRunTypes ==
  ASSUME PushTypeOK, NEW p \in PushRuns
  PROVE  /\ \A e \in push[p].page : e \in Candidate /\ PastCandidate(p, e) \in PushRun
         /\ \A row \in push[p].rows : row \in DueRow /\ PastRow(p, row) \in PushRun
         /\ \A pc \in {"scan", "delivered", "retry"} : [push[p] EXCEPT !.pc = pc] \in PushRun
  <1>1. push[p] \in PushRun
    BY DEF PushTypeOK
  <1>2. ASSUME NEW e \in push[p].page PROVE e \in Candidate /\ PastCandidate(p, e) \in PushRun
    <2>1. e \in Candidate /\ e.id \in Nat
      BY <1>1, TablesAssumption DEF PushRun, Candidate
    <2> QED BY <1>1, <2>1 DEF PushRun, PastCandidate
  <1>3. ASSUME NEW row \in push[p].rows PROVE row \in DueRow /\ PastRow(p, row) \in PushRun
    BY <1>1 DEF PushRun, PastRow
  <1> QED BY <1>1, <1>2, <1>3 DEF PushRun

LEMMA WriteTypes ==
  ASSUME TablesTypeOK, NEW o \in OrderIds
  PROVE  /\ \A c \in CartonIds \cup {Null} : \A row :
              MarkDelivered(row, c) => orders' \in [OrderIds -> OrderRow]
                                       /\ outbox' \in [OrderIds -> OutboxRow]
         /\ \A row : MarkRetry(row) => outbox' \in [OrderIds -> OutboxRow]
         /\ BackoffElapses(o) => outbox' \in [OrderIds -> OutboxRow]
         /\ \A a \in Assignment :
              EnqueuePushIntent(o, a) => outbox' \in [OrderIds -> OutboxRow]
  <1> USE DEF TablesTypeOK
  <1>1. ASSUME NEW c \in CartonIds \cup {Null}, NEW row, MarkDelivered(row, c)
        PROVE  orders' \in [OrderIds -> OrderRow] /\ outbox' \in [OrderIds -> OutboxRow]
    <2>1. orders' \in [OrderIds -> OrderRow]
      BY <1>1 DEF MarkDelivered, OrderRow, OrderStatus
    <2>2. \A x \in OrderIds : DeliveredRow(outbox[x]) \in OutboxRow
      BY DEF DeliveredRow, OutboxRow, OutboxStatus
    <2> QED BY <1>1, <2>1, <2>2 DEF MarkDelivered, OutboxWith
  <1>2. ASSUME NEW row, MarkRetry(row) PROVE outbox' \in [OrderIds -> OutboxRow]
    <2>1. \A x \in OrderIds : RetryRow(outbox[x]) \in OutboxRow
      BY DEF RetryRow, OutboxRow, OutboxStatus
    <2> QED BY <1>2, <2>1 DEF MarkRetry, OutboxWith
  <1>3. ASSUME BackoffElapses(o) PROVE outbox' \in [OrderIds -> OutboxRow]
    BY <1>3 DEF BackoffElapses, OutboxRow, OutboxStatus
  <1>4. ASSUME NEW a \in Assignment, EnqueuePushIntent(o, a)
        PROVE  outbox' \in [OrderIds -> OutboxRow]
    <2> DEFINE rows == {x \in OrderIds : outbox[x].status # "ABSENT"}
               row == [status |-> "PENDING", flux |-> a, due |-> TRUE,
                       id |-> 1 + Cardinality(rows)]
    <2>1. Cardinality(rows) \in Nat
      BY TablesAssumption, FS_Subset, FS_CardinalityType
    <2>2. row \in OutboxRow
      BY <2>1 DEF OutboxRow, OutboxStatus
    <2>3. outbox' = outbox \/ outbox' = [outbox EXCEPT ![o] = row]
      BY <1>4 DEF EnqueuePushIntent
    <2> QED BY <2>2, <2>3
  <1> QED BY <1>1, <1>2, <1>3, <1>4

\* An outbox row that is there has an assignment.
RowsFilled ==
  \A o \in OrderIds : outbox[o].status # "ABSENT" <=> outbox[o].flux \in Assignment

\* What the two pages of job 4 hold.
LEMMA Pages ==
  ASSUME TablesTypeOK, RowsFilled, NEW last, NEW k
  PROVE  /\ \A row \in DuePushes(k) :
              /\ row \in DueRow
              /\ outbox[row.order].status \in {"PENDING", "RETRY"}
              /\ row.flux = outbox[row.order].flux
              /\ row.id = outbox[row.order].id
         /\ \A statuses : \A o \in PageOfOrders(statuses, last, k) :
              o \in OrderIds /\ orders[o].status \in statuses
  <1>1. ASSUME NEW row \in DuePushes(k)
        PROVE  /\ row \in DueRow
               /\ outbox[row.order].status \in {"PENDING", "RETRY"}
               /\ row.flux = outbox[row.order].flux
               /\ row.id = outbox[row.order].id
    <2>1. PICK o \in OrderIds :
            /\ outbox[o].status \in {"PENDING", "RETRY"}
            /\ row = [order |-> o, flux |-> outbox[o].flux, id |-> outbox[o].id]
      BY DEF DuePushes
    <2>2. outbox[o].flux \in Assignment /\ outbox[o].id \in Nat
      BY <2>1 DEF TablesTypeOK, OutboxRow, RowsFilled
    <2> QED BY <2>1, <2>2 DEF DueRow
  <1> QED BY <1>1 DEF PageOfOrders, FirstPage

LEMMA PushType ==
  ASSUME TypeOK, PushStep, RowsFilled,
         \A p \in PushRuns : push[p].pc = "enqueue" => push[p].intent \in Assignment
  PROVE  TypeOK'
  <1>0. PICK p \in PushRuns : PushNext(p)
    BY DEF PushStep
  <1> USE DEF TypeOK, TablesTypeOK, CartonTypeOK, SyncTypeOK, RecTypeOK, PushTypeOK, PushStep
  <1>1. CASE PushStart(p)
    BY <1>1, PushRunTypes DEF PushStart
  <1>2. CASE PushScan(p)
    <2> DEFINE ids == PageOfOrders({"RECOMMENDED", "NO RECOMMENDATION"}, push[p].last, PushBatch)
               page == {[id |-> o, status |-> orders[o].status, carton |-> orders[o].carton] :
                          o \in ids}
    <2>1. page \subseteq Candidate
      <3>1. ASSUME NEW o \in ids
            PROVE  [id |-> o, status |-> orders[o].status, carton |-> orders[o].carton]
                     \in Candidate
        <4>1. o \in OrderIds /\ orders[o].status \in {"RECOMMENDED", "NO RECOMMENDATION"}
          BY <3>1, Pages
        <4> QED BY <4>1 DEF Candidate, OrderRow
      <3> QED BY <3>1
    <2>2. [push[p] EXCEPT !.pc = "resolve", !.page = page] \in PushRun
      BY <2>1 DEF PushRun
    <2>3. [IdlePush EXCEPT !.pc = "cartons"] \in PushRun
      BY EmptyValues DEF PushRun
    <2>4. push' \in [PushRuns -> PushRun]
      BY <1>2, <2>2, <2>3 DEF PushScan
    <2> QED BY <1>2, <2>4 DEF PushScan
  <1>3. CASE PushCartons(p)
    <2>1. [push[p] EXCEPT !.pc = "list", !.catalog = cartons] \in PushRun
      BY DEF PushRun
    <2> QED BY <1>3, <2>1 DEF PushCartons
  <1>4. CASE PushList(p)
    <2>1. DuePushes(PushBatch) \subseteq DueRow
      BY Pages
    <2>2. [push[p] EXCEPT !.pc = "post", !.rows = DuePushes(PushBatch)] \in PushRun
      BY <2>1 DEF PushRun
    <2> QED BY <1>4, <2>2, EmptyValues DEF PushList
  <1>5. CASE PushAbort(p)
    BY <1>5, EmptyValues DEF PushAbort
  <1>6. ASSUME NEW e \in push[p].page, PushCandidate(p, e) PROVE TypeOK'
    <2>1. CASE PushResolve(p, e)
      <3>1. \A a \in Assignment : [push[p] EXCEPT !.pc = "enqueue", !.intent = a] \in PushRun
        BY DEF PushRun
      <3>2. NoCarton \in Assignment
            /\ (e.carton \in Active(cartons) => cartons[e.carton].flux \in Assignment)
        BY DEF Assignment, Active, Catalog, CartonRow
      <3> QED BY <2>1, <3>1, <3>2 DEF PushResolve
    <2>2. CASE PushUnresolved(p, e)
      BY <2>2, PushRunTypes DEF PushUnresolved, LeaveCandidate
    <2>3. CASE PushEnqueue(p, e)
      <3>1. e.id \in OrderIds
        BY PushRunTypes DEF Candidate
      <3>2. outbox' \in [OrderIds -> OutboxRow]
        BY <2>3, <3>1, WriteTypes DEF PushEnqueue
      <3> QED BY <2>3, <3>2, PushRunTypes DEF PushEnqueue, LeaveCandidate
    <2>4. CASE PushEnqueueFails(p, e)
      BY <2>4, PushRunTypes DEF PushEnqueueFails, LeaveCandidate
    <2> QED BY <1>6, <2>1, <2>2, <2>3, <2>4 DEF PushCandidate
  <1>7. ASSUME NEW row \in push[p].rows, DeliverOutboxRecord(p, row) PROVE TypeOK'
    <2>0. row.order \in OrderIds /\ row.flux \in Assignment /\ RequestOf(row) \in Request
      BY PushRunTypes DEF DueRow, RequestOf, Request
    <2>1. Delivered(p, row) => orders' \in [OrderIds -> OrderRow]
                               /\ outbox' \in [OrderIds -> OutboxRow]
      BY <2>0, WriteTypes DEF Delivered, Active
    <2>2. CASE PushAccepted(p, row)
      BY <2>2, <2>0, PushRunTypes DEF PushAccepted, Receive, Straggle
    <2>3. CASE PushFails(p, row)
      BY <2>3, <2>0, PushRunTypes DEF PushFails, Straggle
    <2>4. CASE PushDelivered(p, row)
      BY <2>4, <2>1, PushRunTypes DEF PushDelivered, LeaveRow
    <2>5. CASE PushDeliveredFails(p, row)
      BY <2>5, <2>1, PushRunTypes DEF PushDeliveredFails
    <2>6. CASE PushRetry(p, row)
      BY <2>6, <2>0, WriteTypes, PushRunTypes DEF PushRetry, LeaveRow
    <2>7. CASE PushRetryFails(p, row)
      BY <2>7, PushRunTypes DEF PushRetryFails, LeaveRow
    <2> QED BY <1>7, <2>2, <2>3, <2>4, <2>5, <2>6, <2>7 DEF DeliverOutboxRecord
  <1> QED BY <1>0, <1>1, <1>2, <1>3, <1>4, <1>5, <1>6, <1>7 DEF PushNext

LEMMA OtherTypes ==
  ASSUME TypeOK, FluxStep \/ ClockStep \/ UNCHANGED vars
  PROVE  TypeOK'
  <1> USE DEF TypeOK, TablesTypeOK, CartonTypeOK, SyncTypeOK, RecTypeOK, PushTypeOK
  <1>1. CASE FluxStep
    <2>1. PICK m \in wire : FluxApplies(m)
      BY <1>1 DEF FluxStep
    <2>2. m.order \in OrderIds /\ m.flux \in Assignment
      BY DEF Request
    <2> QED BY <1>1, <2>1, <2>2 DEF FluxStep, FluxApplies, Receive
  <1>2. CASE ClockStep
    BY <1>2, WriteTypes DEF ClockStep, BackoffElapses
  <1>3. CASE UNCHANGED vars
    BY <1>3 DEF vars
  <1> QED BY <1>1, <1>2, <1>3

-----------------------------------------------------------------------------
(* The inductive invariant.  It holds for any number of overlapping runs.  *)

Rows == {o \in OrderIds : outbox[o].status # "ABSENT"}

\* Row ids are given out in order, one to each row.
IdsOrdered ==
  /\ \A o \in Rows : outbox[o].id <= Cardinality(Rows)
  /\ \A o, x \in Rows : outbox[o].id = outbox[x].id => o = x
  /\ \A o \in OrderIds : outbox[o].id = 0 <=> o \notin Rows

\* A run about to write an intent has resolved its assignment.
IntentsResolved ==
  \A p \in PushRuns : push[p].pc = "enqueue" => push[p].intent \in Assignment

\* The rows a run holds are those of the outbox, as far as a request goes.
BatchesFrozen ==
  \A p \in PushRuns : \A row \in push[p].rows :
    row.order \in Rows /\ row.flux = outbox[row.order].flux /\ row.id = outbox[row.order].id

\* A run marks a row delivered only after Flux has applied it.
AcceptedIsReceived ==
  \A p \in PushRuns : \A row \in push[p].rows :
    push[p].pc = "delivered" /\ AtRow(p, row) => row.flux \in received[row.order]

\* What the jobs rely on, from an empty database on ...
JInv ==
  /\ TypeOK
  /\ RowsFilled
  /\ IdsOrdered
  /\ IntentsResolved
  /\ BatchesFrozen
  /\ AcceptedIsReceived
  /\ PushedIsReceived

\* ... and what Flux may rely on as well, from its first request on.
IInv == JInv /\ OneAssignment

LEMMA InitIInv == Init => IInv
  <1> SUFFICES ASSUME Init PROVE IInv
    OBVIOUS
  <1>1. TypeOK
    BY InitTypeOK
  <1>2. \A o \in OrderIds : outbox[o] = NoIntent /\ received[o] = {} /\ orders[o].status # "PUSHED"
    BY DEF Init, PushInit, NoOrder
  <1>3. wire = {} /\ push = [p \in PushRuns |-> IdlePush]
    BY DEF Init, PushInit
  <1>4. RowsFilled /\ IdsOrdered
    BY <1>2, TablesAssumption DEF RowsFilled, IdsOrdered, Rows, NoIntent, Assignment
  <1>5. IntentsResolved /\ BatchesFrozen /\ AcceptedIsReceived
    BY <1>3 DEF IntentsResolved, BatchesFrozen, AcceptedIsReceived, IdlePush
  <1>6. OneAssignment /\ PushedIsReceived
    BY <1>2, <1>3 DEF OneAssignment, PushedIsReceived, Told, NoIntent
  <1> QED BY <1>1, <1>4, <1>5, <1>6 DEF IInv, JInv

\* Which run of job 4 holds what, after its own step.
LEMMA TypeStep ==
  ASSUME JInv, [Next]_vars PROVE TypeOK'
  BY CartonType, SyncType, RecType, PushType, OtherTypes
  DEF JInv, IntentsResolved, Next

\* The rows stay as they are, but for their status and due time ...
SameRows ==
  \A o \in OrderIds :
    /\ outbox'[o].status # "ABSENT" <=> outbox[o].status # "ABSENT"
    /\ outbox'[o].flux = outbox[o].flux
    /\ outbox'[o].id = outbox[o].id

\* ... or a row is added.
RowAdded(o, a) ==
  /\ o \notin Rows
  /\ outbox' = [outbox EXCEPT ![o] = [status |-> "PENDING", flux |-> a, due |-> TRUE,
                                      id |-> 1 + Cardinality(Rows)]]

\* ... by a run of job 4, for the candidate it is at.
EnqueuedBy(p, e) ==
  /\ push[p].pc = "enqueue" /\ AtCandidate(p, e)
  /\ RowAdded(e.id, push[p].intent)
  /\ UNCHANGED <<orders, items, cartons, received, wire>>

\* A statement by id changes the row that the run has seen, and no other.
LEMMA ReplacedRow ==
  ASSUME JInv, NEW p \in PushRuns, NEW row \in push[p].rows
  PROVE  /\ OutboxWith(row.id, DeliveredRow) => SameRows
         /\ OutboxWith(row.id, RetryRow) =>
              SameRows /\ \A o \in OrderIds :
                            outbox'[o].status = "DELIVERED" => outbox[o].status = "DELIVERED"
         /\ OutboxWith(row.id, DeliveredRow) =>
              \A o \in OrderIds \ {row.order} : outbox'[o] = outbox[o]
  <1>0. outbox \in [OrderIds -> OutboxRow] /\ row.order \in Rows
        /\ row.id = outbox[row.order].id
    BY DEF JInv, BatchesFrozen, TypeOK, TablesTypeOK
  <1>1. ASSUME NEW o \in OrderIds, o # row.order PROVE outbox[o].id # row.id
    <2>1. CASE o \in Rows
      BY <1>0, <1>1, <2>1 DEF JInv, IdsOrdered
    <2>2. CASE o \notin Rows
      <3>1. row.order \in OrderIds
        BY <1>0 DEF Rows
      <3> QED BY <1>0, <2>2, <3>1 DEF JInv, IdsOrdered
    <2> QED BY <2>1, <2>2
  <1>2. ASSUME NEW o \in OrderIds
        PROVE  /\ DeliveredRow(outbox[o]).status = "DELIVERED"
               /\ DeliveredRow(outbox[o]).flux = outbox[o].flux
               /\ DeliveredRow(outbox[o]).id = outbox[o].id
               /\ RetryRow(outbox[o]).status = "RETRY"
               /\ RetryRow(outbox[o]).flux = outbox[o].flux
               /\ RetryRow(outbox[o]).id = outbox[o].id
    BY <1>0 DEF DeliveredRow, RetryRow, OutboxRow
  <1> HIDE DEF DeliveredRow, RetryRow
  <1>3. OutboxWith(row.id, DeliveredRow) =>
          SameRows /\ \A o \in OrderIds \ {row.order} : outbox'[o] = outbox[o]
    BY <1>0, <1>1, <1>2 DEF OutboxWith, SameRows, Rows
  <1>4. OutboxWith(row.id, RetryRow) =>
          SameRows /\ \A o \in OrderIds :
                        outbox'[o].status = "DELIVERED" => outbox[o].status = "DELIVERED"
    BY <1>0, <1>1, <1>2 DEF OutboxWith, SameRows, Rows
  <1> QED BY <1>3, <1>4

LEMMA RowSteps ==
  ASSUME JInv, [Next]_vars
  PROVE  SameRows \/ \E p \in PushRuns : \E e \in push[p].page : EnqueuedBy(p, e)
  <1> USE DEF tables
  <1>1. outbox' = outbox => SameRows
    BY DEF SameRows
  <1>2. CASE CartonStep \/ SyncStep \/ RecStep \/ FluxStep \/ UNCHANGED vars
    <2>1. outbox' = outbox
      BY <1>2 DEF vars, CartonStep, CartonNext, CartonStart, CartonEnd, CartonUpsert, CartonSkip,
         SyncStep, SyncNext, SyncWorker, SyncStart, SyncUpsert, SyncInsertItems, SyncWorkerFails,
         SyncFinish, SyncAbort, RecStep, RecNext, RecStart, RecCartons, RecPage, RecItems,
         RecAbort, ProcessRecommendationOrder, Recommend, NoneFits, RecSkip, FluxStep, FluxApplies
    <2> QED BY <2>1, <1>1
  <1>3. CASE ClockStep
    BY <1>3 DEF ClockStep, BackoffElapses, SameRows, JInv, TypeOK, TablesTypeOK, OutboxRow
  <1>4. CASE PushStep
    <2>1. PICK p \in PushRuns : PushNext(p)
      BY <1>4 DEF PushStep
    <2>2. CASE PushStart(p) \/ PushScan(p) \/ PushCartons(p) \/ PushList(p) \/ PushAbort(p)
      BY <2>2, <1>1 DEF PushStart, PushScan, PushCartons, PushList, PushAbort
    <2>3. ASSUME NEW e \in push[p].page, PushCandidate(p, e)
          PROVE  SameRows \/ EnqueuedBy(p, e)
      <3>1. CASE PushEnqueue(p, e)
        <4>1. outbox' = outbox \/ RowAdded(e.id, push[p].intent)
          BY <3>1 DEF PushEnqueue, EnqueuePushIntent, RowAdded, Rows
        <4> QED BY <3>1, <4>1, <1>1 DEF PushEnqueue, EnqueuedBy
      <3> QED BY <2>3, <3>1, <1>1 DEF PushCandidate, PushResolve, PushUnresolved, PushEnqueueFails
    <2>4. ASSUME NEW row \in push[p].rows, DeliverOutboxRecord(p, row)
          PROVE  SameRows
      <3>0. (OutboxWith(row.id, DeliveredRow) => SameRows)
            /\ (OutboxWith(row.id, RetryRow) => SameRows)
        BY ReplacedRow
      <3>2. ASSUME NEW c, MarkDelivered(row, c) PROVE SameRows
        BY <3>0, <3>2 DEF MarkDelivered
      <3>3. MarkRetry(row) => SameRows
        BY <3>0 DEF MarkRetry
      <3>4. PushAccepted(p, row) \/ PushFails(p, row) \/ PushRetryFails(p, row) => outbox' = outbox
        BY DEF PushAccepted, PushFails, PushRetryFails
      <3> QED BY <2>4, <3>2, <3>3, <3>4, <1>1
              DEF DeliverOutboxRecord, PushDelivered, PushDeliveredFails, Delivered, PushRetry
    <2> QED BY <2>1, <2>2, <2>3, <2>4 DEF PushNext
  <1> QED BY <1>2, <1>3, <1>4 DEF Next

LEMMA OutboxSteps ==
  ASSUME JInv, [Next]_vars
  PROVE  SameRows \/ \E o \in OrderIds, a \in Assignment : RowAdded(o, a)
  <1>1. ASSUME NEW p \in PushRuns, NEW e \in push[p].page, EnqueuedBy(p, e)
        PROVE  e.id \in OrderIds /\ push[p].intent \in Assignment
    BY <1>1, PushRunTypes DEF JInv, TypeOK, IntentsResolved, EnqueuedBy, Candidate
  <1> QED BY <1>1, RowSteps DEF EnqueuedBy

\* No row goes away, and no row changes its assignment or its id.
RowsKept ==
  \A o \in Rows : o \in Rows' /\ outbox'[o].flux = outbox[o].flux
                               /\ outbox'[o].id = outbox[o].id

LEMMA OutboxStep ==
  ASSUME JInv, [Next]_vars
  PROVE  RowsFilled' /\ IdsOrdered' /\ RowsKept
  <1>1. CASE SameRows
    <2>1. Rows' = Rows
      BY <1>1 DEF SameRows, Rows
    <2> QED BY <1>1, <2>1 DEF SameRows, JInv, RowsFilled, IdsOrdered, RowsKept, Rows
  <1>2. ASSUME NEW o \in OrderIds, NEW a \in Assignment, RowAdded(o, a)
        PROVE  RowsFilled' /\ IdsOrdered' /\ RowsKept
    <2>0. outbox \in [OrderIds -> OutboxRow]
      BY DEF JInv, TypeOK, TablesTypeOK
    <2>1. /\ outbox'[o].status = "PENDING" /\ outbox'[o].flux = a
          /\ outbox'[o].id = 1 + Cardinality(Rows)
          /\ \A x \in OrderIds \ {o} : outbox'[x] = outbox[x]
      BY <1>2, <2>0 DEF RowAdded
    <2>2. Rows' = Rows \cup {o} /\ o \notin Rows
      BY <1>2, <2>1 DEF RowAdded, Rows
    <2>3. IsFiniteSet(Rows)
      BY TablesAssumption, FS_Subset DEF Rows
    <2>4. Cardinality(Rows) \in Nat /\ Cardinality(Rows') = 1 + Cardinality(Rows)
      BY <2>2, <2>3, FS_CardinalityType, FS_AddElement
    <2>5. RowsFilled'
      BY <2>1 DEF RowsFilled, JInv
    <2>6. IdsOrdered'
      <3>1. \A x \in Rows : outbox'[x].id = outbox[x].id /\ outbox[x].id \in Nat
                            /\ outbox[x].id <= Cardinality(Rows)
        BY <2>0, <2>1, <2>2 DEF JInv, IdsOrdered, Rows, OutboxRow
      <3> QED BY <2>1, <2>2, <2>4, <3>1 DEF JInv, IdsOrdered
    <2> QED BY <2>1, <2>2, <2>5, <2>6 DEF RowsKept, Rows
  <1> QED BY <1>1, <1>2, OutboxSteps

\* What a step does to the runs of job 4, to Flux and to the closed orders.
LEMMA PushRunSteps ==
  ASSUME JInv, [Next]_vars, NEW p \in PushRuns
  PROVE  /\ push'[p].pc = "enqueue" =>
              \/ push[p].pc = "enqueue" /\ push'[p].intent = push[p].intent
              \/ push'[p].intent \in Assignment
         /\ \A row \in push'[p].rows : row \in push[p].rows \/ row \in DuePushes(PushBatch)
  <1> DEFINE Goal == /\ push'[p].pc = "enqueue" =>
                          \/ push[p].pc = "enqueue" /\ push'[p].intent = push[p].intent
                          \/ push'[p].intent \in Assignment
                     /\ \A row \in push'[p].rows :
                          row \in push[p].rows \/ row \in DuePushes(PushBatch)
  <1>0. push \in [PushRuns -> PushRun] /\ cartons \in Catalog
    BY DEF JInv, TypeOK, TablesTypeOK, PushTypeOK
  <1>1. CASE push' = push
    BY <1>1
  <1>2. CASE CartonStep \/ SyncStep \/ RecStep \/ FluxStep \/ ClockStep \/ UNCHANGED vars
    BY <1>1, <1>2 DEF vars, CartonStep, SyncStep, RecStep, FluxStep, FluxApplies, ClockStep
  <1>3. CASE PushStep
    <2>1. PICK q \in PushRuns : PushNext(q)
      BY <1>3 DEF PushStep
    <2>2. CASE PushStart(q)
      BY <2>2, <1>0 DEF PushStart, PushRun
    <2>3. CASE PushScan(q)
      BY <2>3, <1>0 DEF PushScan, PushRun, IdlePush
    <2>4. CASE PushCartons(q)
      BY <2>4, <1>0 DEF PushCartons, PushRun
    <2>5. CASE PushList(q)
      BY <2>5, <1>0 DEF PushList, PushRun, IdlePush
    <2>6. CASE PushAbort(q)
      BY <2>6, <1>0 DEF PushAbort, PushRun, IdlePush
    <2>7. ASSUME NEW e \in push[q].page, PushCandidate(q, e) PROVE Goal
      <3>1. CASE PushResolve(q, e)
        <4>1. e.carton \in Active(cartons) => cartons[e.carton].flux \in Assignment
          BY <1>0 DEF Active, Catalog, CartonRow, Assignment
        <4>2. \E a \in Assignment :
                push' = [push EXCEPT ![q] = [@ EXCEPT !.pc = "enqueue", !.intent = a]]
          BY <3>1, <4>1 DEF PushResolve, Assignment
        <4> QED BY <4>2, <1>0 DEF PushRun
      <3>2. CASE LeaveCandidate(q, e)
        BY <3>2, <1>0 DEF LeaveCandidate, PastCandidate, PushRun
      <3> QED BY <2>7, <3>1, <3>2
              DEF PushCandidate, PushUnresolved, PushEnqueue, PushEnqueueFails
    <2>8. ASSUME NEW row \in push[q].rows, DeliverOutboxRecord(q, row) PROVE Goal
      <3>1. CASE LeaveRow(q, row)
        BY <3>1, <1>0 DEF LeaveRow, PastRow, PushRun
      <3>2. CASE push' = [push EXCEPT ![q].pc = "delivered"]
                 \/ push' = [push EXCEPT ![q].pc = "retry"]
        BY <3>2, <1>0 DEF PushRun
      <3> QED BY <2>8, <3>1, <3>2
              DEF DeliverOutboxRecord, PushAccepted, PushFails, PushDelivered,
                  PushDeliveredFails, PushRetry, PushRetryFails
    <2> HIDE DEF Goal
    <2>9. Goal
      BY <2>1, <2>2, <2>3, <2>4, <2>5, <2>6, <2>7, <2>8 DEF PushNext, Goal
    <2> QED BY <2>9 DEF Goal
  <1> QED BY <1>2, <1>3 DEF Next

LEMMA BatchStep ==
  ASSUME JInv, [Next]_vars
  PROVE  IntentsResolved' /\ BatchesFrozen'
  <1>1. IntentsResolved'
    BY PushRunSteps DEF JInv, IntentsResolved
  <1>2. ASSUME NEW p \in PushRuns, NEW row \in push'[p].rows
        PROVE  row.order \in Rows' /\ row.flux = outbox'[row.order].flux
                                   /\ row.id = outbox'[row.order].id
    <2>1. row.order \in Rows /\ row.flux = outbox[row.order].flux /\ row.id = outbox[row.order].id
      <3>1. CASE row \in push[p].rows
        BY <3>1 DEF JInv, BatchesFrozen
      <3>2. CASE row \in DuePushes(PushBatch)
        BY <3>2, Pages DEF JInv, TypeOK, DueRow, Rows
      <3> QED BY <3>1, <3>2, PushRunSteps
    <2> QED BY <2>1, OutboxStep DEF RowsKept
  <1> QED BY <1>1, <1>2 DEF BatchesFrozen

-----------------------------------------------------------------------------
(* What Flux is told *)

\* A step leaves Flux alone, or is about one request: one that is on the way
\* or that an outbox row asks for.
Asked(o, a) ==
  /\ a # Null
  /\ a = outbox[o].flux \/ [order |-> o, flux |-> a] \in wire
About(o, a) ==
  /\ Asked(o, a)
  /\ received' = received \/ received' = [received EXCEPT ![o] = @ \cup {a}]
  /\ wire' \subseteq wire \cup {[order |-> o, flux |-> a]}
  /\ UNCHANGED tables

LEMMA RequestSteps ==
  ASSUME JInv, [Next]_vars
  PROVE  UNCHANGED wms \/ \E o \in OrderIds, a \in Assignment : About(o, a)
  <1>1. CASE CartonStep \/ SyncStep \/ RecStep \/ ClockStep \/ UNCHANGED vars
    BY <1>1 DEF vars, CartonStep, SyncStep, RecStep, ClockStep
  <1>2. CASE FluxStep
    <2>1. PICK m \in wire : FluxApplies(m)
      BY <1>2 DEF FluxStep
    <2>2. /\ m.order \in OrderIds /\ m.flux \in Assignment /\ m.flux # Null
          /\ m = [order |-> m.order, flux |-> m.flux]
      BY TablesAssumption DEF Request, JInv, TypeOK, PushTypeOK, Assignment
    <2>3. About(m.order, m.flux)
      BY <2>1, <2>2 DEF About, Asked, FluxApplies, Receive
    <2> QED BY <2>2, <2>3
  <1>3. CASE PushStep
    <2>1. PICK p \in PushRuns : PushNext(p)
      BY <1>3 DEF PushStep
    <2>2. CASE \/ PushStart(p) \/ PushScan(p) \/ PushCartons(p) \/ PushList(p) \/ PushAbort(p)
               \/ \E e \in push[p].page : PushCandidate(p, e)
      BY <2>2 DEF PushStart, PushScan, PushCartons, PushList, PushAbort, PushCandidate,
         PushResolve, PushUnresolved, PushEnqueue, PushEnqueueFails
    <2>3. ASSUME NEW row \in push[p].rows, DeliverOutboxRecord(p, row)
          PROVE  UNCHANGED wms \/ About(row.order, row.flux)
      <3>1. row.flux # Null /\ row.flux = outbox[row.order].flux
        BY PushRunTypes, TablesAssumption
        DEF JInv, TypeOK, BatchesFrozen, DueRow, Assignment
      <3>2. CASE PushAccepted(p, row) \/ PushFails(p, row)
        BY <3>1, <3>2 DEF PushAccepted, PushFails, Receive, Straggle, RequestOf, About, Asked
      <3>3. CASE ~(PushAccepted(p, row) \/ PushFails(p, row))
        BY <2>3, <3>3 DEF DeliverOutboxRecord, PushDelivered, PushDeliveredFails, PushRetry,
           PushRetryFails
      <3> QED BY <3>2, <3>3
    <2>4. \A row \in push[p].rows : row.order \in OrderIds /\ row.flux \in Assignment
      BY PushRunTypes DEF JInv, TypeOK, DueRow
    <2> QED BY <2>1, <2>2, <2>3, <2>4 DEF PushNext
  <1> QED BY <1>1, <1>2, <1>3 DEF Next

\* Flux forgets nothing, and is told only what was asked for.
LEMMA FluxSteps ==
  ASSUME JInv, [Next]_vars, NEW o \in OrderIds
  PROVE  /\ received[o] \subseteq received'[o]
         /\ \A a : a \in received'[o] => a \in received[o] \/ Asked(o, a)
         /\ \A a : [order |-> o, flux |-> a] \in wire'
                     => [order |-> o, flux |-> a] \in wire \/ Asked(o, a)
  <1>0. received \in [OrderIds -> SUBSET Assignment]
    BY DEF JInv, TypeOK, PushTypeOK
  <1>1. CASE UNCHANGED wms
    BY <1>1
  <1>2. ASSUME NEW x \in OrderIds, NEW b \in Assignment, About(x, b)
        PROVE  /\ received[o] \subseteq received'[o]
               /\ \A a : a \in received'[o] => a \in received[o] \/ Asked(o, a)
               /\ \A a : [order |-> o, flux |-> a] \in wire'
                           => [order |-> o, flux |-> a] \in wire \/ Asked(o, a)
    <2>1. received[o] \subseteq received'[o]
          /\ \A a : a \in received'[o] => a \in received[o] \/ (o = x /\ a = b)
      BY <1>0, <1>2 DEF About
    <2>2. \A a : [order |-> o, flux |-> a] \in wire'
                   => [order |-> o, flux |-> a] \in wire \/ (o = x /\ a = b)
      BY <1>2 DEF About
    <2> QED BY <1>2, <2>1, <2>2 DEF About
  <1> QED BY <1>1, <1>2, RequestSteps

LEMMA AssignmentStep ==
  ASSUME IInv, [Next]_vars
  PROVE  OneAssignment'
  <1> SUFFICES ASSUME NEW o \in OrderIds, NEW a,
                      a \in received'[o] \/ [order |-> o, flux |-> a] \in wire'
               PROVE  a = outbox'[o].flux /\ a # Null
    BY DEF OneAssignment, Told
  <1>0. wire \subseteq Request
    BY DEF IInv, JInv, TypeOK, PushTypeOK
  <1>1. \A b : [order |-> o, flux |-> b] \in wire => b \in Assignment
    BY <1>0 DEF Request
  <1>2. \A b : b \in received[o] \/ [order |-> o, flux |-> b] \in wire
                 => b = outbox[o].flux /\ b # Null
    BY <1>1 DEF IInv, JInv, OneAssignment, Told
  <1>3. a = outbox[o].flux /\ a # Null
    BY <1>2, FluxSteps DEF IInv, Asked
  <1>4. o \in Rows
    BY <1>3 DEF IInv, JInv, RowsFilled, Rows, TypeOK, TablesTypeOK, OutboxRow
  <1> QED BY <1>3, <1>4, OutboxStep DEF IInv, RowsKept

-----------------------------------------------------------------------------
(* What is closed has been received *)

\* A run reaches "delivered" only by having its row accepted.
LEMMA DeliveredSteps ==
  ASSUME JInv, [Next]_vars, NEW p \in PushRuns, push'[p].pc = "delivered",
         NEW row \in push'[p].rows, AtRow(p, row)'
  PROVE  row.flux \in received'[row.order]
  <1>0. push \in [PushRuns -> PushRun] /\ received \in [OrderIds -> SUBSET Assignment]
    BY DEF JInv, TypeOK, PushTypeOK
  <1>1. ASSUME push'[p] = push[p] PROVE row.flux \in received'[row.order]
    <2>1. row.order \in OrderIds
      BY <1>1, PushRunTypes DEF JInv, TypeOK, DueRow
    <2>2. row.flux \in received[row.order]
      BY <1>1 DEF JInv, AcceptedIsReceived, AtRow
    <2> QED BY <2>1, <2>2, FluxSteps
  <1>2. CASE CartonStep \/ SyncStep \/ RecStep \/ FluxStep \/ ClockStep \/ UNCHANGED vars
    BY <1>1, <1>2 DEF vars, CartonStep, SyncStep, RecStep, FluxStep, FluxApplies, ClockStep
  <1>3. CASE PushStep
    <2>1. PICK q \in PushRuns : PushNext(q)
      BY <1>3 DEF PushStep
    <2>2. CASE q # p
      <3>1. push'[p] = push[p]
        BY <2>1, <2>2, <1>0
        DEF PushNext, PushStart, PushScan, PushCartons, PushList, PushAbort, PushCandidate,
            PushResolve, PushUnresolved, PushEnqueue, PushEnqueueFails, LeaveCandidate,
            DeliverOutboxRecord, PushAccepted, PushFails, PushDelivered, PushDeliveredFails,
            PushRetry, PushRetryFails, LeaveRow
      <3> QED BY <3>1, <1>1
    <2>3. CASE q = p
      <3>0. push[p] \in PushRun
        BY <1>0
      <3>1. PICK at \in push[p].rows : PushAccepted(p, at)
        <4>1. \/ PushStart(p) \/ PushScan(p) \/ PushCartons(p) \/ PushList(p) \/ PushAbort(p)
                => push'[p].pc # "delivered"
          <5>1. PushStart(p) => push'[p].pc # "delivered"
            BY <1>0, <3>0 DEF PushStart, PushRun
          <5>4. PushCartons(p) => push'[p].pc # "delivered"
            BY <1>0, <3>0 DEF PushCartons, PushRun
          <5>5. PushAbort(p) => push'[p].pc # "delivered"
            BY <1>0 DEF PushAbort, IdlePush
          <5>2. PushScan(p) => push'[p].pc # "delivered"
            BY <1>0, <3>0 DEF PushScan, PushRun, IdlePush
          <5>3. PushList(p) => push'[p].pc # "delivered"
            BY <1>0, <3>0 DEF PushList, PushRun, IdlePush
          <5> QED BY <5>1, <5>2, <5>3, <5>4, <5>5
        <4>3. ASSUME NEW e \in push[p].page, PushCandidate(p, e)
              PROVE  push'[p].pc # "delivered"
          <5>1. CASE PushResolve(p, e)
            BY <5>1, <1>0, <3>0 DEF PushResolve, PushRun
          <5>2. CASE LeaveCandidate(p, e)
            BY <5>2, <1>0, <3>0 DEF LeaveCandidate, PastCandidate, PushRun
          <5> QED BY <4>3, <5>1, <5>2
                  DEF PushCandidate, PushUnresolved, PushEnqueue, PushEnqueueFails
        <4>2. ASSUME NEW at \in push[p].rows,
                     \/ PushFails(p, at) \/ PushDelivered(p, at) \/ PushDeliveredFails(p, at)
                     \/ PushRetry(p, at) \/ PushRetryFails(p, at)
              PROVE  push'[p].pc # "delivered"
          BY <4>2, <1>0, <3>0
          DEF PushFails, PushDelivered, PushDeliveredFails, PushRetry, PushRetryFails, LeaveRow,
              PastRow, PushRun
        <4> QED BY <2>1, <2>3, <4>1, <4>2, <4>3 DEF PushNext, DeliverOutboxRecord
      <3>2. push'[p].rows = push[p].rows
        BY <3>1, <1>0 DEF PushAccepted, PushRun
      <3>3. /\ at \in DueRow /\ row \in DueRow
            /\ at.id = outbox[at.order].id /\ row.id = outbox[row.order].id
            /\ at.flux = outbox[at.order].flux /\ row.flux = outbox[row.order].flux
            /\ at.order \in Rows /\ row.order \in Rows
        BY <3>2, PushRunTypes DEF JInv, TypeOK, BatchesFrozen
      <3>4. at.id <= row.id /\ row.id <= at.id
        BY <3>1, <3>2 DEF PushAccepted, AtRow
      <3>5. at.id = row.id
        BY <3>3, <3>4 DEF DueRow
      <3>6. at.order = row.order
        BY <3>3, <3>5 DEF JInv, IdsOrdered
      <3> QED BY <1>0, <3>1, <3>3, <3>6 DEF PushAccepted, Receive, DueRow
    <2> QED BY <2>2, <2>3
  <1> QED BY <1>2, <1>3 DEF Next

\* Only MarkDelivered closes an order or a row.
LEMMA OpenStays ==
  ASSUME TablesTypeOK, NEW o \in OrderIds, NEW x \in OrderIds
  PROVE  /\ UpsertOrder(x) \/ MarkSyncedAsPending
              => (orders'[o].status = "PUSHED" => orders[o].status = "PUSHED")
         /\ \A c : \A s \in Decided :
              UpdateOrderStatus(x, s, c)
                => (orders'[o].status = "PUSHED" => orders[o].status = "PUSHED")
         /\ \A a : EnqueuePushIntent(x, a)
              => (outbox'[o].status = "DELIVERED" => outbox[o].status = "DELIVERED")
  <1> USE DEF TablesTypeOK
  <1>1. ASSUME UpsertOrder(x), orders'[o].status = "PUSHED" PROVE orders[o].status = "PUSHED"
    <2>1. CASE o # x
      BY <1>1, <2>1 DEF UpsertOrder
    <2>2. CASE o = x
      BY <1>1, <2>2 DEF UpsertOrder, NoOrder
    <2> QED BY <2>1, <2>2
  <1>2. ASSUME MarkSyncedAsPending, orders'[o].status = "PUSHED"
        PROVE  orders[o].status = "PUSHED"
    BY <1>2 DEF MarkSyncedAsPending, OrderRow
  <1>3. ASSUME NEW c, NEW s \in Decided, UpdateOrderStatus(x, s, c), orders'[o].status = "PUSHED"
        PROVE  orders[o].status = "PUSHED"
    <2>1. CASE o # x
      BY <1>3, <2>1 DEF UpdateOrderStatus
    <2>2. CASE o = x
      <3>1. orders'[o] = orders[o] \/ orders'[o].status = s
        BY <1>3, <2>2 DEF UpdateOrderStatus, OrderRow
      <3> QED BY <1>3, <3>1 DEF Decided
    <2> QED BY <2>1, <2>2
  <1>4. ASSUME NEW a, EnqueuePushIntent(x, a), outbox'[o].status = "DELIVERED"
        PROVE  outbox[o].status = "DELIVERED"
    <2> DEFINE row == [status |-> "PENDING", flux |-> a, due |-> TRUE,
                       id |-> 1 + Cardinality(Rows)]
    <2>1. outbox' = outbox \/ outbox' = [outbox EXCEPT ![x] = row]
      BY <1>4 DEF EnqueuePushIntent, Rows
    <2>2. row.status # "DELIVERED"
      OBVIOUS
    <2> HIDE DEF row
    <2> QED BY <1>4, <2>1, <2>2
  <1> QED BY <1>1, <1>2, <1>3, <1>4

\* A row becomes DELIVERED, and an order PUSHED, only once Flux has it.
LEMMA ClosingSteps ==
  ASSUME JInv, [Next]_vars, NEW o \in OrderIds,
         outbox'[o].status = "DELIVERED" \/ orders'[o].status = "PUSHED"
  PROVE  outbox[o].flux \in received[o]
  <1>0. outbox \in [OrderIds -> OutboxRow] /\ orders \in [OrderIds -> OrderRow]
    BY DEF JInv, TypeOK, TablesTypeOK
  <1>1. CASE outbox'[o].status = outbox[o].status /\ orders'[o].status = orders[o].status
    BY <1>1 DEF JInv, PushedIsReceived
  <1>2. CASE CartonStep \/ FluxStep \/ UNCHANGED vars
    <2>1. outbox' = outbox /\ orders' = orders
      BY <1>2 DEF vars, CartonStep, CartonNext, CartonStart, CartonEnd, CartonUpsert, CartonSkip,
         FluxStep, FluxApplies
    <2> QED BY <1>1, <2>1
  <1>3. CASE SyncStep
    <2>1. outbox' = outbox
      BY <1>3 DEF SyncStep, SyncNext, SyncWorker, SyncStart, SyncUpsert, SyncInsertItems,
         SyncWorkerFails, SyncFinish, SyncAbort
    <2>2. \/ orders' = orders \/ MarkSyncedAsPending
          \/ \E x \in OrderIds : UpsertOrder(x)
      BY <1>3 DEF SyncStep, SyncNext, SyncWorker, SyncStart, SyncUpsert, SyncInsertItems,
         SyncWorkerFails, SyncFinish, SyncAbort
    <2>3. orders'[o].status = "PUSHED" => orders[o].status = "PUSHED"
      BY <2>2, OpenStays DEF JInv, TypeOK
    <2> QED BY <2>1, <2>3 DEF JInv, PushedIsReceived
  <1>4. CASE RecStep
    <2>1. outbox' = outbox
      BY <1>4 DEF RecStep, RecNext, RecStart, RecCartons, RecPage, RecItems, RecAbort,
         ProcessRecommendationOrder, Recommend, NoneFits, RecSkip
    <2>2. orders' = orders
          \/ \E x \in OrderIds, s \in Decided : \E c : UpdateOrderStatus(x, s, c)
      BY <1>4 DEF RecStep, RecNext, RecStart, RecCartons, RecPage, RecItems, RecAbort,
         ProcessRecommendationOrder, Recommend, NoneFits, RecSkip, Decided
    <2>3. orders'[o].status = "PUSHED" => orders[o].status = "PUSHED"
      BY <2>2, OpenStays DEF JInv, TypeOK
    <2> QED BY <2>1, <2>3 DEF JInv, PushedIsReceived
  <1>5. CASE ClockStep
    <2>1. orders' = orders /\ (outbox'[o].status = outbox[o].status)
      BY <1>0, <1>5 DEF ClockStep, BackoffElapses, OutboxRow
    <2> QED BY <1>1, <2>1
  <1>6. CASE PushStep
    <2>1. PICK p \in PushRuns : PushNext(p)
      BY <1>6 DEF PushStep
    <2>2. CASE PushStart(p) \/ PushScan(p) \/ PushCartons(p) \/ PushList(p) \/ PushAbort(p)
      BY <1>1, <2>2 DEF PushStart, PushScan, PushCartons, PushList, PushAbort
    <2>3. ASSUME NEW e \in push[p].page, PushCandidate(p, e)
          PROVE  outbox[o].flux \in received[o]
      <3>1. orders' = orders
        BY <2>3 DEF PushCandidate, PushResolve, PushUnresolved, PushEnqueue, PushEnqueueFails
      <3>2. outbox'[o].status = "DELIVERED" => outbox[o].status = "DELIVERED"
        <4>1. e.id \in OrderIds
          BY PushRunTypes DEF JInv, TypeOK, Candidate
        <4>2. outbox' = outbox \/ EnqueuePushIntent(e.id, push[p].intent)
          BY <2>3 DEF PushCandidate, PushResolve, PushUnresolved, PushEnqueue, PushEnqueueFails
        <4> QED BY <4>1, <4>2, OpenStays DEF JInv, TypeOK
      <3> QED BY <3>1, <3>2 DEF JInv, PushedIsReceived
    <2>4. ASSUME NEW row \in push[p].rows, DeliverOutboxRecord(p, row)
          PROVE  outbox[o].flux \in received[o]
      <3>0. row.order \in OrderIds /\ row.flux = outbox[row.order].flux
        BY DEF JInv, BatchesFrozen, Rows
      <3>1. CASE outbox' = outbox /\ orders' = orders
        BY <1>1, <3>1
      <3>2. CASE MarkRetry(row) /\ orders' = orders
        <4>1. outbox'[o].status = "DELIVERED" => outbox[o].status = "DELIVERED"
          BY <3>2, ReplacedRow DEF MarkRetry
        <4> QED BY <4>1, <3>2 DEF JInv, PushedIsReceived
      <3>3. ASSUME push[p].pc = "delivered", AtRow(p, row), Delivered(p, row)
            PROVE  outbox[o].flux \in received[o]
        <4>1. PICK c : MarkDelivered(row, c)
          BY <3>3 DEF Delivered
        <4>2. row.flux \in received[row.order]
          BY <3>3 DEF JInv, AcceptedIsReceived
        <4>3. o # row.order => outbox'[o] = outbox[o] /\ orders'[o] = orders[o]
          BY <4>1, <1>0, <3>0, ReplacedRow DEF MarkDelivered
        <4> QED BY <1>1, <3>0, <4>2, <4>3
      <3> QED BY <2>4, <3>1, <3>2, <3>3
              DEF DeliverOutboxRecord, PushAccepted, PushFails, PushDelivered,
                  PushDeliveredFails, PushRetry, PushRetryFails
    <2> QED BY <2>1, <2>2, <2>3, <2>4 DEF PushNext
  <1> QED BY <1>2, <1>3, <1>4, <1>5, <1>6 DEF Next

LEMMA ReceivedStep ==
  ASSUME JInv, [Next]_vars
  PROVE  AcceptedIsReceived' /\ PushedIsReceived'
  <1>1. AcceptedIsReceived'
    BY DeliveredSteps DEF AcceptedIsReceived
  <1>2. ASSUME NEW o \in OrderIds,
               outbox'[o].status = "DELIVERED" \/ orders'[o].status = "PUSHED"
        PROVE  outbox'[o].flux \in received'[o]
    <2>1. outbox[o].flux \in received[o]
      BY <1>2, ClosingSteps
    <2>2. outbox[o].flux \in Assignment
      BY <2>1 DEF JInv, TypeOK, PushTypeOK
    <2>3. o \in Rows
      BY <2>2 DEF JInv, RowsFilled, Rows
    <2> QED BY <2>1, <2>3, FluxSteps, OutboxStep DEF RowsKept
  <1> QED BY <1>1, <1>2 DEF PushedIsReceived

-----------------------------------------------------------------------------
(* What a step does to an order *)

Settled == Decided \cup {"PUSHED"}

Upserted(o) == orders[o].status = "ABSENT" /\ orders'[o] = [NoOrder EXCEPT !.status = "SYNCED"]

MadePending(o) ==
  /\ orders[o].status = "SYNCED" /\ orders'[o].status = "PENDING"
  /\ orders'[o].carton = orders[o].carton

\* A run of job 3 decides on the items it has read.
DecidedBy(r, o) ==
  /\ AtOrder(r, o) /\ rec[r].goods[o] # NoItems /\ HasOrder(o)
  /\ \/ orders'[o].status = "RECOMMENDED" /\ orders'[o].carton \in Active(cartons)
     \/ orders'[o].status = "NO RECOMMENDATION" /\ orders'[o].carton = orders[o].carton
  /\ LeaveOrder(r, o)

\* The cartons a delivery may record.
Matching(p, row) ==
  LET same == {c \in Active(push[p].catalog) : push[p].catalog[c].flux = row.flux}
  IN  IF same = {} THEN {Null} ELSE same

\* A run of job 4 closes the order of a row that Flux has.
ClosedBy(p, row) ==
  LET o == row.order IN
  /\ push[p].pc = "delivered" /\ AtRow(p, row) /\ HasOrder(o)
  /\ orders'[o].status = "PUSHED"
  /\ \E c \in Matching(p, row) : orders'[o].carton = IF c = Null THEN orders[o].carton ELSE c
  /\ outbox' = [x \in OrderIds |-> IF outbox[x].id = row.id THEN DeliveredRow(outbox[x])
                                   ELSE outbox[x]]
  /\ \A x \in OrderIds \ {o} : orders'[x] = orders[x]
  /\ UNCHANGED wms

\* Each statement that writes orders, seen from one order.
LEMMA OrderSteps ==
  ASSUME JInv, [Next]_vars, NEW o \in OrderIds
  PROVE  \/ orders'[o] = orders[o]
         \/ Upserted(o) /\ outbox' = outbox
         \/ MadePending(o) /\ outbox' = outbox
         \/ (\E r \in RecRuns : DecidedBy(r, o)) /\ outbox' = outbox
         \/ \E p \in PushRuns : \E row \in push[p].rows : row.order = o /\ ClosedBy(p, row)
  <1> DEFINE Goal == \/ orders'[o] = orders[o]
                     \/ Upserted(o) /\ outbox' = outbox
                     \/ MadePending(o) /\ outbox' = outbox
                     \/ (\E r \in RecRuns : DecidedBy(r, o)) /\ outbox' = outbox
                     \/ \E p \in PushRuns : \E row \in push[p].rows :
                          row.order = o /\ ClosedBy(p, row)
  <1>0. orders \in [OrderIds -> OrderRow]
    BY DEF JInv, TypeOK, TablesTypeOK
  <1>1. CASE CartonStep \/ FluxStep \/ ClockStep \/ UNCHANGED vars
    BY <1>1 DEF vars, CartonStep, CartonNext, CartonStart, CartonEnd, CartonUpsert, CartonSkip,
       FluxStep, FluxApplies, ClockStep, BackoffElapses
  <1>2. CASE SyncStep
    <2>1. \/ orders' = orders
          \/ (\E x \in OrderIds : UpsertOrder(x)) /\ outbox' = outbox
          \/ MarkSyncedAsPending /\ outbox' = outbox
      BY <1>2 DEF SyncStep, SyncNext, SyncWorker, SyncStart, SyncUpsert, SyncInsertItems,
         SyncWorkerFails, SyncFinish, SyncAbort
    <2>2. ASSUME NEW x \in OrderIds, UpsertOrder(x)
          PROVE  orders'[o] = orders[o] \/ Upserted(o)
      BY <1>0, <2>2 DEF UpsertOrder, Upserted
    <2>3. ASSUME MarkSyncedAsPending PROVE orders'[o] = orders[o] \/ MadePending(o)
      <3>1. CASE orders[o].status = "SYNCED"
        BY <1>0, <2>3, <3>1 DEF MarkSyncedAsPending, MadePending, OrderRow
      <3>2. CASE orders[o].status # "SYNCED"
        BY <1>0, <2>3, <3>2 DEF MarkSyncedAsPending
      <3> QED BY <3>1, <3>2
    <2> QED BY <2>1, <2>2, <2>3
  <1>3. CASE RecStep
    <2>1. PICK r \in RecRuns : RecNext(r)
      BY <1>3 DEF RecStep
    <2>2. ASSUME NEW x \in OrderIds, NEW c \in CartonIds, AtOrder(r, x), rec[r].goods[x] # NoItems,
                 UpdateOrderStatus(x, "RECOMMENDED", c), LeaveOrder(r, x)
          PROVE  orders'[o] = orders[o] \/ DecidedBy(r, o)
      <3>1. CASE o # x \/ ~HasOrder(x)
        BY <1>0, <2>2, <3>1 DEF UpdateOrderStatus
      <3>2. CASE o = x /\ HasOrder(x)
        <4>1. orders'[o] = [status |-> "RECOMMENDED", carton |-> c]
          BY <1>0, <2>2, <3>2 DEF UpdateOrderStatus
        <4>2. c \in Active(cartons)
          BY <2>2, <3>2, TablesAssumption DEF UpdateOrderStatus, MayRefer
        <4> QED BY <2>2, <3>2, <4>1, <4>2 DEF DecidedBy
      <3> QED BY <3>1, <3>2
    <2>3. ASSUME NEW x \in OrderIds, AtOrder(r, x), rec[r].goods[x] # NoItems,
                 UpdateOrderStatus(x, "NO RECOMMENDATION", Null), LeaveOrder(r, x)
          PROVE  orders'[o] = orders[o] \/ DecidedBy(r, o)
      <3>1. CASE o # x \/ ~HasOrder(x)
        BY <1>0, <2>3, <3>1 DEF UpdateOrderStatus
      <3>2. CASE o = x /\ HasOrder(x)
        <4>1. orders'[o].status = "NO RECOMMENDATION" /\ orders'[o].carton = orders[o].carton
          BY <1>0, <2>3, <3>2 DEF UpdateOrderStatus, OrderRow
        <4> QED BY <2>3, <3>2, <4>1 DEF DecidedBy
      <3> QED BY <3>1, <3>2
    <2>4. CASE RecStart(r) \/ RecCartons(r) \/ RecPage(r) \/ RecItems(r) \/ RecAbort(r)
      BY <2>4 DEF RecStart, RecCartons, RecPage, RecItems, RecAbort
    <2>5. ASSUME NEW x \in OrderIds, ProcessRecommendationOrder(r, x) PROVE Goal
      <3>1. CASE Recommend(r, x)
        <4>1. PICK c \in BestCartons(rec[r].catalog, rec[r].goods[x]) :
                UpdateOrderStatus(x, "RECOMMENDED", c)
          BY <3>1 DEF Recommend
        <4>2. c \in CartonIds
          BY DEF BestCartons, Active
        <4> QED BY <2>2, <3>1, <4>1, <4>2 DEF Recommend
      <3>2. CASE NoneFits(r, x)
        BY <2>3, <3>2 DEF NoneFits
      <3>3. CASE RecSkip(r, x)
        BY <3>3 DEF RecSkip
      <3> QED BY <2>5, <3>1, <3>2, <3>3 DEF ProcessRecommendationOrder
    <2> QED BY <2>1, <2>4, <2>5 DEF RecNext
  <1>4. CASE PushStep
    <2>1. PICK p \in PushRuns : PushNext(p)
      BY <1>4 DEF PushStep
    <2>2. CASE \/ PushStart(p) \/ PushScan(p) \/ PushCartons(p) \/ PushList(p) \/ PushAbort(p)
               \/ \E e \in push[p].page : PushCandidate(p, e)
      BY <2>2 DEF PushStart, PushScan, PushCartons, PushList, PushAbort, PushCandidate,
         PushResolve, PushUnresolved, PushEnqueue, PushEnqueueFails
    <2>3. ASSUME NEW row \in push[p].rows, push[p].pc = "delivered", AtRow(p, row),
                 Delivered(p, row), UNCHANGED wms
          PROVE  orders'[o] = orders[o] \/ (row.order = o /\ ClosedBy(p, row))
      <3>1. PICK c \in Matching(p, row) : MarkDelivered(row, c)
        BY <2>3 DEF Delivered, Matching
      <3>2. CASE o # row.order \/ ~HasOrder(row.order)
        BY <1>0, <3>1, <3>2 DEF MarkDelivered
      <3>3. CASE o = row.order /\ HasOrder(o)
        <4>1. orders'[o] = [status |-> "PUSHED",
                            carton |-> IF c = Null THEN orders[o].carton ELSE c]
          BY <1>0, <3>1, <3>3 DEF MarkDelivered
        <4>2. OutboxWith(row.id, DeliveredRow)
          BY <3>1 DEF MarkDelivered
        <4>3. \A x \in OrderIds \ {o} : orders'[x] = orders[x]
          BY <1>0, <3>1, <3>3 DEF MarkDelivered
        <4> QED BY <2>3, <3>1, <3>3, <4>1, <4>2, <4>3 DEF ClosedBy, OutboxWith
      <3> QED BY <3>2, <3>3
    <2>4. ASSUME NEW row \in push[p].rows, DeliverOutboxRecord(p, row)
          PROVE  \/ orders' = orders
                 \/ push[p].pc = "delivered" /\ AtRow(p, row) /\ Delivered(p, row)
                    /\ UNCHANGED wms
      BY <2>4 DEF DeliverOutboxRecord, PushAccepted, PushFails, PushDelivered,
         PushDeliveredFails, PushRetry, PushRetryFails
    <2> QED BY <2>1, <2>2, <2>3, <2>4 DEF PushNext
  <1> QED BY <1>1, <1>2, <1>3, <1>4 DEF Next

\* What a step does to a run of job 3: its page and its items are those it
\* had, or those the tables have.
LEMMA RecRunSteps ==
  ASSUME JInv, [Next]_vars, NEW r \in RecRuns, NEW o \in OrderIds
  PROVE  /\ o \in rec'[r].page =>
              o \in rec[r].page \/ (orders[o].status = "PENDING" /\ UNCHANGED tables)
         /\ rec'[r].goods[o] # NoItems =>
              rec[r].goods[o] # NoItems \/ (items[o] # NoItems /\ UNCHANGED tables)
  <1> DEFINE Goal == /\ o \in rec'[r].page =>
                          o \in rec[r].page \/ (orders[o].status = "PENDING" /\ UNCHANGED tables)
                     /\ rec'[r].goods[o] # NoItems =>
                          rec[r].goods[o] # NoItems \/ (items[o] # NoItems /\ UNCHANGED tables)
  <1>0. rec \in [RecRuns -> RecRun]
    BY DEF JInv, TypeOK, RecTypeOK
  <1>1. CASE rec' = rec
    BY <1>1
  <1>2. CASE CartonStep \/ SyncStep \/ PushStep \/ FluxStep \/ ClockStep \/ UNCHANGED vars
    BY <1>1, <1>2 DEF vars, CartonStep, SyncStep, PushStep, FluxStep, ClockStep
  <1>3. CASE RecStep
    <2>1. PICK q \in RecRuns : RecNext(q)
      BY <1>3 DEF RecStep
    <2>2. CASE RecStart(q)
      BY <2>2, <1>0 DEF RecStart, RecRun
    <2>3. CASE RecCartons(q)
      BY <2>3, <1>0 DEF RecCartons, RecRun, IdleRec
    <2>4. CASE RecPage(q)
      <3>1. \A x \in PageOfOrders({"PENDING"}, rec[q].last, RecBatch) :
              orders[x].status = "PENDING"
        BY DEF PageOfOrders, FirstPage
      <3> QED BY <2>4, <3>1, <1>0 DEF RecPage, RecRun, IdleRec
    <2>5. CASE RecItems(q)
      BY <2>5, <1>0 DEF RecItems, RecRun, ItemsOf
    <2>6. CASE RecAbort(q)
      BY <2>6, <1>0 DEF RecAbort, RecRun, IdleRec
    <2>7. ASSUME NEW x \in OrderIds, ProcessRecommendationOrder(q, x) PROVE Goal
      <3>1. LeaveOrder(q, x)
        BY <2>7 DEF ProcessRecommendationOrder, Recommend, NoneFits, RecSkip
      <3> QED BY <3>1, <1>0 DEF LeaveOrder, PastOrder, RecRun
    <2> HIDE DEF Goal
    <2>8. Goal
      BY <2>1, <2>2, <2>3, <2>4, <2>5, <2>6, <2>7 DEF RecNext, Goal
    <2> QED BY <2>8 DEF Goal
  <1> QED BY <1>2, <1>3 DEF Next

\* The candidates of a run of job 4 are those it had, or decided orders.
Scanned(e) ==
  /\ orders[e.id].status \in Decided
  /\ e.status = orders[e.id].status /\ e.carton = orders[e.id].carton

LEMMA CandidateSteps ==
  ASSUME JInv, [Next]_vars, NEW p \in PushRuns, NEW e \in push'[p].page
  PROVE  e \in push[p].page \/ (e.id \in OrderIds /\ Scanned(e) /\ UNCHANGED tables
                                /\ push'[p].pc # "enqueue")
  <1> DEFINE Goal == e \in push[p].page \/ (e.id \in OrderIds /\ Scanned(e) /\ UNCHANGED tables
                                            /\ push'[p].pc # "enqueue")
  <1>0. push \in [PushRuns -> PushRun]
    BY DEF JInv, TypeOK, PushTypeOK
  <1>1. CASE push' = push
    BY <1>1
  <1>2. CASE CartonStep \/ SyncStep \/ RecStep \/ FluxStep \/ ClockStep \/ UNCHANGED vars
    BY <1>1, <1>2 DEF vars, CartonStep, SyncStep, RecStep, FluxStep, FluxApplies, ClockStep
  <1>3. CASE PushStep
    <2>1. PICK q \in PushRuns : PushNext(q)
      BY <1>3 DEF PushStep
    <2>2. CASE PushStart(q) \/ PushCartons(q) \/ PushAbort(q)
      <3>1. CASE PushStart(q)
        BY <3>1, <1>0 DEF PushStart, PushRun
      <3>2. CASE PushCartons(q)
        BY <3>2, <1>0 DEF PushCartons, PushRun
      <3>3. CASE PushAbort(q)
        BY <3>3, <1>0 DEF PushAbort, PushRun, IdlePush
      <3> QED BY <2>2, <3>1, <3>2, <3>3
    <2>3. CASE PushScan(q)
      <3> DEFINE ids == PageOfOrders({"RECOMMENDED", "NO RECOMMENDATION"}, push[q].last, PushBatch)
                 page == {[id |-> o, status |-> orders[o].status, carton |-> orders[o].carton] :
                            o \in ids}
      <3>1. \A o \in ids : o \in OrderIds /\ orders[o].status \in Decided
        BY Pages DEF JInv, TypeOK, Decided
      <3>2. ASSUME NEW x \in page PROVE x.id \in OrderIds /\ Scanned(x)
        <4>1. PICK o \in ids :
                x = [id |-> o, status |-> orders[o].status, carton |-> orders[o].carton]
          OBVIOUS
        <4>2. x.id = o /\ x.status = orders[o].status /\ x.carton = orders[o].carton
          BY <4>1
        <4> QED BY <3>1, <4>2 DEF Scanned
      <3>3. push'[q].page \in {{}, page} /\ push'[q].pc # "enqueue"
            /\ (q # p => push'[p] = push[p])
        BY <2>3, <1>0 DEF PushScan, PushRun, IdlePush
      <3>4. UNCHANGED tables
        BY <2>3 DEF PushScan
      <3> HIDE DEF page, ids
      <3> QED BY <3>2, <3>3, <3>4
    <2>4. CASE PushList(q)
      BY <2>4, <1>0 DEF PushList, PushRun, IdlePush
    <2>5. ASSUME NEW x \in push[q].page, PushCandidate(q, x) PROVE Goal
      <3>1. CASE PushResolve(q, x)
        <4>1. \E a : push' = [push EXCEPT ![q] = [@ EXCEPT !.pc = "enqueue", !.intent = a]]
          BY <3>1 DEF PushResolve
        <4> QED BY <4>1, <1>0 DEF PushRun
      <3>2. CASE LeaveCandidate(q, x)
        BY <3>2, <1>0 DEF LeaveCandidate, PastCandidate, PushRun
      <3> QED BY <2>5, <3>1, <3>2
              DEF PushCandidate, PushUnresolved, PushEnqueue, PushEnqueueFails
    <2>6. ASSUME NEW row \in push[q].rows, DeliverOutboxRecord(q, row) PROVE Goal
      <3>1. CASE LeaveRow(q, row)
        BY <3>1, <1>0 DEF LeaveRow, PastRow, PushRun
      <3>2. CASE push' = [push EXCEPT ![q].pc = "delivered"]
                 \/ push' = [push EXCEPT ![q].pc = "retry"]
        BY <3>2, <1>0 DEF PushRun
      <3> QED BY <2>6, <3>1, <3>2
              DEF DeliverOutboxRecord, PushAccepted, PushFails, PushDelivered,
                  PushDeliveredFails, PushRetry, PushRetryFails
    <2> HIDE DEF Goal
    <2>7. Goal
      BY <2>1, <2>2, <2>3, <2>4, <2>5, <2>6 DEF PushNext, Goal
    <2> QED BY <2>7 DEF Goal
  <1> QED BY <1>2, <1>3 DEF Next

-----------------------------------------------------------------------------
(* Items.  They come after their order and never go away again. *)

ItemsInv ==
  /\ DecidedHasItems
  /\ \A o \in Rows : items[o] # NoItems
  /\ \A r \in RecRuns, o \in OrderIds : rec[r].goods[o] # NoItems => items[o] # NoItems
  /\ \A p \in PushRuns : \A e \in push[p].page : items[e.id] # NoItems

LEMMA ItemsKept ==
  ASSUME JInv, [Next]_vars, NEW o \in OrderIds
  PROVE  items'[o] = items[o] \/ items'[o] # NoItems
  <1>1. CASE UNCHANGED items
    BY <1>1
  <1>2. ASSUME NEW r \in SyncRuns, NEW x \in OrderIds, SyncInsertItems(r, x)
        PROVE  items'[o] = items[o] \/ items'[o] # NoItems
    BY <1>2 DEF SyncInsertItems, InsertOrderItems, JInv, TypeOK, TablesTypeOK
  <1>3. CASE SyncStep
    <2>1. UNCHANGED items \/ \E r \in SyncRuns, x \in OrderIds : SyncInsertItems(r, x)
      BY <1>3 DEF SyncStep, SyncNext, SyncWorker, SyncStart, SyncUpsert, SyncWorkerFails,
         SyncFinish, SyncAbort
    <2> QED BY <1>1, <1>2, <2>1
  <1>4. CASE CartonStep \/ RecStep \/ FluxStep \/ ClockStep \/ UNCHANGED vars
    BY <1>1, <1>4 DEF vars, CartonStep, CartonNext, CartonStart, CartonEnd, CartonUpsert,
       CartonSkip, RecStep, RecNext, RecStart, RecCartons, RecPage, RecItems, RecAbort,
       ProcessRecommendationOrder, Recommend, NoneFits, RecSkip, FluxStep, FluxApplies,
       ClockStep, BackoffElapses
  <1>5. CASE PushStep
    BY <1>1, <1>5 DEF PushStep, PushNext, PushStart, PushScan, PushCartons, PushList, PushAbort,
       PushCandidate, PushResolve, PushUnresolved, PushEnqueue, PushEnqueueFails,
       DeliverOutboxRecord, PushAccepted, PushFails, PushDelivered, PushDeliveredFails,
       PushRetry, PushRetryFails
  <1> QED BY <1>3, <1>4, <1>5 DEF Next

LEMMA ItemsStep ==
  ASSUME JInv, ItemsInv, [Next]_vars PROVE ItemsInv'
  <1>0. \A o \in OrderIds : items[o] # NoItems => items'[o] # NoItems
    BY ItemsKept
  <1>1. DecidedHasItems'
    <2> SUFFICES ASSUME NEW o \in OrderIds, orders'[o].status \in Settled PROVE items'[o] # NoItems
      BY DEF DecidedHasItems, Settled
    <2>1. CASE orders'[o] = orders[o]
      BY <1>0, <2>1 DEF ItemsInv, DecidedHasItems, Settled
    <2>2. CASE Upserted(o) \/ MadePending(o)
      BY <2>2 DEF Upserted, MadePending, NoOrder, Settled, Decided
    <2>3. ASSUME NEW r \in RecRuns, DecidedBy(r, o) PROVE items'[o] # NoItems
      BY <1>0, <2>3 DEF DecidedBy, ItemsInv
    <2>4. ASSUME NEW p \in PushRuns, NEW row \in push[p].rows, row.order = o
          PROVE  items'[o] # NoItems
      BY <1>0, <2>4 DEF JInv, BatchesFrozen, ItemsInv
    <2> QED BY <2>1, <2>2, <2>3, <2>4, OrderSteps
  <1>2. \A o \in Rows' : items'[o] # NoItems
    <2>1. CASE SameRows
      BY <1>0, <2>1 DEF SameRows, Rows, ItemsInv
    <2>2. ASSUME NEW p \in PushRuns, NEW e \in push[p].page, EnqueuedBy(p, e)
          PROVE  \A o \in Rows' : items'[o] # NoItems
      <3>1. e.id \in OrderIds /\ items[e.id] # NoItems
        BY PushRunTypes DEF JInv, TypeOK, Candidate, ItemsInv
      <3>2. Rows' \subseteq Rows \cup {e.id}
        BY <2>2, <3>1 DEF EnqueuedBy, RowAdded, Rows, JInv, TypeOK, TablesTypeOK
      <3> QED BY <1>0, <3>1, <3>2 DEF ItemsInv, Rows
    <2> QED BY <2>1, <2>2, RowSteps
  <1>3. \A r \in RecRuns, o \in OrderIds : rec'[r].goods[o] # NoItems => items'[o] # NoItems
    BY <1>0, RecRunSteps DEF ItemsInv
  <1>4. \A p \in PushRuns : \A e \in push'[p].page : items'[e.id] # NoItems
    <2> SUFFICES ASSUME NEW p \in PushRuns, NEW e \in push'[p].page PROVE items'[e.id] # NoItems
      OBVIOUS
    <2>1. CASE e \in push[p].page
      <3>1. e.id \in OrderIds
        BY <2>1, PushRunTypes DEF JInv, TypeOK, Candidate
      <3> QED BY <1>0, <2>1, <3>1 DEF ItemsInv
    <2>2. CASE e.id \in OrderIds /\ Scanned(e)
      BY <1>0, <2>2 DEF Scanned, ItemsInv, DecidedHasItems
    <2> QED BY <2>1, <2>2, CandidateSteps
  <1> QED BY <1>1, <1>2, <1>3, <1>4 DEF ItemsInv

-----------------------------------------------------------------------------
(* The lifecycle of an order, when runs of job 3 do not overlap *)

OneRecRun == \A r, s \in RecRuns : r = s

\* The orders of a page wait until its run has come to them.
PageWaits == \A r \in RecRuns : \A o \in rec[r].page : orders[o].status = "PENDING"

\* A row, and a candidate for one, belongs to a decided order.
RowsSettled == \A o \in Rows : orders[o].status \in Settled
CandidatesSettled == \A p \in PushRuns : \A e \in push[p].page : orders[e.id].status \in Settled

DeliveredIsPushed ==
  \A o \in OrderIds : outbox[o].status = "DELIVERED" => orders[o].status = "PUSHED"

StagesInv == PageWaits /\ RowsSettled /\ CandidatesSettled /\ DeliveredIsPushed

LEMMA StageStep ==
  ASSUME JInv, StagesInv, [Next]_vars, NEW o \in OrderIds, orders'[o].status # orders[o].status
  PROVE  <<orders[o].status, orders'[o].status>> \in LifecycleSteps
  <1>1. CASE Upserted(o) \/ MadePending(o)
    BY <1>1 DEF Upserted, MadePending, NoOrder, LifecycleSteps
  <1>2. ASSUME NEW r \in RecRuns, DecidedBy(r, o)
        PROVE  <<orders[o].status, orders'[o].status>> \in LifecycleSteps
    <2>1. orders[o].status = "PENDING"
      BY <1>2 DEF DecidedBy, AtOrder, StagesInv, PageWaits
    <2> QED BY <1>2, <2>1 DEF DecidedBy, LifecycleSteps
  <1>3. ASSUME NEW p \in PushRuns, NEW row \in push[p].rows, row.order = o, ClosedBy(p, row)
        PROVE  <<orders[o].status, orders'[o].status>> \in LifecycleSteps
    <2>1. orders[o].status \in Settled /\ orders'[o].status = "PUSHED"
      BY <1>3 DEF ClosedBy, JInv, BatchesFrozen, StagesInv, RowsSettled
    <2> QED BY <2>1 DEF Settled, Decided, LifecycleSteps
  <1> QED BY <1>1, <1>2, <1>3, OrderSteps

\* A decision is not taken back, nor a push.
LEMMA StageKept ==
  ASSUME JInv, StagesInv, [Next]_vars, NEW o \in OrderIds
  PROVE  /\ orders[o].status \in Settled => orders'[o].status \in Settled
         /\ orders[o].status = "PUSHED" => orders'[o].status = "PUSHED"
  BY StageStep DEF LifecycleSteps, Settled, Decided

\* A row becomes DELIVERED together with its order.
LEMMA DeliverySteps ==
  ASSUME JInv, [Next]_vars, NEW o \in OrderIds,
         outbox'[o].status = "DELIVERED", outbox[o].status # "DELIVERED"
  PROVE  \E p \in PushRuns : \E row \in push[p].rows :
           row.order = o /\ \E c : MarkDelivered(row, c)
  <1> DEFINE Goal == \E p \in PushRuns : \E row \in push[p].rows :
                       row.order = o /\ \E c : MarkDelivered(row, c)
  <1>0. outbox \in [OrderIds -> OutboxRow]
    BY DEF JInv, TypeOK, TablesTypeOK
  <1>1. CASE CartonStep \/ SyncStep \/ RecStep \/ FluxStep \/ UNCHANGED vars
    <2>1. outbox' = outbox
      BY <1>1 DEF vars, CartonStep, CartonNext, CartonStart, CartonEnd, CartonUpsert, CartonSkip,
         SyncStep, SyncNext, SyncWorker, SyncStart, SyncUpsert, SyncInsertItems, SyncWorkerFails,
         SyncFinish, SyncAbort, RecStep, RecNext, RecStart, RecCartons, RecPage, RecItems,
         RecAbort, ProcessRecommendationOrder, Recommend, NoneFits, RecSkip, FluxStep, FluxApplies
    <2> QED BY <2>1
  <1>2. CASE ClockStep
    BY <1>0, <1>2 DEF ClockStep, BackoffElapses, OutboxRow
  <1>3. CASE PushStep
    <2>1. PICK p \in PushRuns : PushNext(p)
      BY <1>3 DEF PushStep
    <2>2. CASE PushStart(p) \/ PushScan(p) \/ PushCartons(p) \/ PushList(p) \/ PushAbort(p)
      BY <2>2 DEF PushStart, PushScan, PushCartons, PushList, PushAbort
    <2>3. ASSUME NEW e \in push[p].page, PushCandidate(p, e) PROVE FALSE
      <3>1. e.id \in OrderIds
        BY PushRunTypes DEF JInv, TypeOK, Candidate
      <3>2. outbox' = outbox \/ EnqueuePushIntent(e.id, push[p].intent)
        BY <2>3 DEF PushCandidate, PushResolve, PushUnresolved, PushEnqueue, PushEnqueueFails
      <3> QED BY <3>1, <3>2, OpenStays DEF JInv, TypeOK
    <2>4. ASSUME NEW row \in push[p].rows, DeliverOutboxRecord(p, row) PROVE Goal
      <3>1. ~MarkRetry(row)
        BY ReplacedRow DEF MarkRetry
      <3>2. PICK c : MarkDelivered(row, c)
        BY <2>4, <3>1 DEF DeliverOutboxRecord, PushAccepted, PushFails, PushDelivered,
           PushDeliveredFails, PushRetry, PushRetryFails, Delivered
      <3>3. row.order = o
        BY <3>2, ReplacedRow DEF MarkDelivered
      <3> QED BY <3>2, <3>3
    <2> HIDE DEF Goal
    <2>5. Goal
      BY <2>1, <2>2, <2>3, <2>4 DEF PushNext, Goal
    <2> QED BY <2>5 DEF Goal
  <1> QED BY <1>1, <1>2, <1>3 DEF Next

LEMMA StagesStep ==
  ASSUME OneRecRun, JInv, StagesInv, [Next]_vars PROVE StagesInv'
  <1>0. /\ orders \in [OrderIds -> OrderRow] /\ rec \in [RecRuns -> RecRun]
        /\ Rows \subseteq OrderIds
    BY DEF JInv, TypeOK, TablesTypeOK, RecTypeOK, Rows
  <1>1. PageWaits'
    <2> SUFFICES ASSUME NEW r \in RecRuns, NEW o \in OrderIds, o \in rec'[r].page
                 PROVE  orders'[o].status = "PENDING"
      <3>1. \A r \in RecRuns : rec'[r].page \subseteq OrderIds
        BY TypeStep DEF TypeOK, RecTypeOK, RecRun
      <3> QED BY <3>1 DEF PageWaits
    <2>1. CASE orders[o].status = "PENDING" /\ UNCHANGED tables
      BY <2>1
    <2>2. CASE o \in rec[r].page
      <3>1. orders[o].status = "PENDING"
        BY <2>2 DEF StagesInv, PageWaits
      <3>2. ~Upserted(o) /\ ~MadePending(o)
        BY <3>1 DEF Upserted, MadePending
      <3>3. ASSUME NEW s \in RecRuns, DecidedBy(s, o) PROVE FALSE
        <4>1. s = r
          BY DEF OneRecRun
        <4>2. rec'[r].page = rec[r].page \ {o}
          BY <1>0, <3>3, <4>1 DEF DecidedBy, LeaveOrder, PastOrder, RecRun
        <4> QED BY <4>2
      <3>4. o \notin Rows
        BY <3>1 DEF StagesInv, RowsSettled, Settled, Decided
      <3>5. \A p \in PushRuns : \A row \in push[p].rows : row.order # o
        BY <3>4 DEF JInv, BatchesFrozen
      <3> QED BY <3>1, <3>2, <3>3, <3>5, OrderSteps
    <2> QED BY <2>1, <2>2, RecRunSteps
  <1>2. RowsSettled'
    <2>1. CASE SameRows
      <3>1. Rows' = Rows
        BY <2>1 DEF SameRows, Rows
      <3> QED BY <1>0, <3>1, StageKept DEF StagesInv, RowsSettled
    <2>2. ASSUME NEW p \in PushRuns, NEW e \in push[p].page, EnqueuedBy(p, e)
          PROVE  RowsSettled'
      <3>1. e.id \in OrderIds
        BY PushRunTypes DEF JInv, TypeOK, Candidate
      <3>2. Rows' \subseteq Rows \cup {e.id}
        BY <2>2, <3>1 DEF EnqueuedBy, RowAdded, Rows, JInv, TypeOK, TablesTypeOK
      <3> QED BY <1>0, <3>1, <3>2, StageKept
              DEF StagesInv, RowsSettled, CandidatesSettled
    <2> QED BY <2>1, <2>2, RowSteps
  <1>3. CandidatesSettled'
    <2> SUFFICES ASSUME NEW p \in PushRuns, NEW e \in push'[p].page
                 PROVE  orders'[e.id].status \in Settled
      BY DEF CandidatesSettled
    <2>1. CASE e \in push[p].page
      <3>1. e.id \in OrderIds
        BY <2>1, PushRunTypes DEF JInv, TypeOK, Candidate
      <3> QED BY <2>1, <3>1, StageKept DEF StagesInv, CandidatesSettled
    <2>2. CASE Scanned(e) /\ UNCHANGED tables
      BY <2>2 DEF Scanned, Settled
    <2> QED BY <2>1, <2>2, CandidateSteps
  <1>4. DeliveredIsPushed'
    <2> SUFFICES ASSUME NEW o \in OrderIds, outbox'[o].status = "DELIVERED"
                 PROVE  orders'[o].status = "PUSHED"
      BY DEF DeliveredIsPushed
    <2>1. CASE outbox[o].status = "DELIVERED"
      BY <2>1, StageKept DEF StagesInv, DeliveredIsPushed
    <2>2. CASE outbox[o].status # "DELIVERED"
      <3>1. PICK p \in PushRuns : \E row \in push[p].rows :
              row.order = o /\ \E c : MarkDelivered(row, c)
        BY <2>2, DeliverySteps
      <3>2. o \in Rows
        BY <3>1 DEF JInv, BatchesFrozen
      <3>3. HasOrder(o)
        BY <3>2 DEF HasOrder, StagesInv, RowsSettled, Settled, Decided
      <3> QED BY <1>0, <3>1, <3>3 DEF MarkDelivered
    <2> QED BY <2>1, <2>2
  <1> QED BY <1>1, <1>2, <1>3, <1>4 DEF StagesInv

-----------------------------------------------------------------------------
(* What the engine records, when the catalogue does not change *)

\* Flux always lists the same cartons, each with an id of its own.
StableCatalog ==
  \A f, g \in FluxCatalogs :
    /\ f = g
    /\ \A c, d \in Active(f) : f[c].flux = f[d].flux => c = d

CatalogKept ==
  /\ cartons \in FluxCatalogs
  /\ \A r \in CartonRuns, c \in CartonIds : csync[r].todo[c] \in {Null, cartons[c]}

\* The Flux id of an order's carton.
Recorded(o) == IF orders[o].carton = Null THEN NoCarton ELSE cartons[orders[o].carton].flux

\* Only a decision gives an order a carton.
CartonOfStage ==
  \A o \in OrderIds :
    /\ orders[o].carton \in Active(cartons) \cup {Null}
    /\ orders[o].status = "RECOMMENDED" => orders[o].carton # Null
    /\ orders[o].status \in {"ABSENT", "SYNCED", "PENDING", "NO RECOMMENDATION"}
         => orders[o].carton = Null

RowsRecorded == \A o \in Rows : outbox[o].flux = Recorded(o)

CandidatesRecorded ==
  \A p \in PushRuns : \A e \in push[p].page :
    /\ e.carton = orders[e.id].carton
    /\ e.status = "RECOMMENDED" => e.carton # Null
    /\ e.status = "NO RECOMMENDATION" => e.carton = Null
    /\ push[p].pc = "enqueue" /\ AtCandidate(p, e) => push[p].intent = Recorded(e.id)

\* The delivery loop's cartonMap is up to date.
CatalogRead ==
  \A p \in PushRuns :
    push[p].pc \in {"list", "post", "delivered", "retry"} => push[p].catalog = cartons

RecordInv == CatalogKept /\ CartonOfStage /\ RowsRecorded /\ CandidatesRecorded /\ CatalogRead

\* A sync of the cartons writes what is there.
LEMMA CatalogStep ==
  ASSUME StableCatalog, JInv, CatalogKept, [Next]_vars
  PROVE  UNCHANGED cartons /\ CatalogKept'
  <1>0. cartons \in [CartonIds -> CartonRow \cup {Null}] /\ csync \in [CartonRuns -> CartonRun]
    BY DEF JInv, TypeOK, TablesTypeOK, CartonTypeOK, Catalog
  <1>1. CASE CartonStep
    <2>1. PICK r \in CartonRuns : CartonNext(r)
      BY <1>1 DEF CartonStep
    <2>2. CASE CartonStart(r)
      <3>1. PICK f \in FluxCatalogs : csync' = [csync EXCEPT ![r] = [pc |-> "upsert", todo |-> f]]
        BY <2>2 DEF CartonStart
      <3>2. f = cartons
        BY DEF StableCatalog, CatalogKept
      <3> QED BY <1>0, <2>2, <3>1, <3>2 DEF CartonStart, CatalogKept
    <2>3. CASE CartonEnd(r)
      BY <1>0, <2>3 DEF CartonEnd, IdleCartons, NoCatalog, CatalogKept
    <2>4. ASSUME NEW c \in CartonIds, CartonUpsert(r, c) \/ CartonSkip(r, c)
          PROVE  UNCHANGED cartons /\ CatalogKept'
      <3>1. UNCHANGED cartons
        BY <1>0, <2>4 DEF CartonUpsert, UpsertCarton, CartonSkip, CatalogKept
      <3>2. \A q \in CartonRuns, d \in CartonIds : csync'[q].todo[d] \in {Null, csync[q].todo[d]}
        BY <1>0, <2>4 DEF CartonUpsert, CartonSkip, CartonRun, Catalog
      <3> QED BY <3>1, <3>2 DEF CatalogKept
    <2> QED BY <2>1, <2>2, <2>3, <2>4 DEF CartonNext
  <1>2. CASE ~CartonStep
    <2>1. UNCHANGED <<cartons, csync>>
      BY <1>2 DEF Next, vars, SyncStep, SyncNext, SyncWorker, SyncStart, SyncUpsert,
         SyncInsertItems, SyncWorkerFails, SyncFinish, SyncAbort, RecStep, RecNext, RecStart,
         RecCartons, RecPage, RecItems, RecAbort, ProcessRecommendationOrder, Recommend, NoneFits,
         RecSkip, PushStep, PushNext, PushStart, PushScan, PushCartons, PushList, PushAbort,
         PushCandidate, PushResolve, PushUnresolved, PushEnqueue, PushEnqueueFails,
         DeliverOutboxRecord, PushAccepted, PushFails, PushDelivered, PushDeliveredFails,
         PushRetry, PushRetryFails, FluxStep, FluxApplies, ClockStep, BackoffElapses
    <2> QED BY <2>1 DEF CatalogKept
  <1> QED BY <1>1, <1>2

\* The carton that a delivery records is the one the order has.
LEMMA SameCarton ==
  ASSUME StableCatalog, JInv, RecordInv, NEW p \in PushRuns, NEW row \in push[p].rows,
         push[p].pc = "delivered"
  PROVE  Matching(p, row) = {orders[row.order].carton}
  <1> DEFINE o == row.order
             k == orders[o].carton
  <1>1. o \in OrderIds /\ row.flux = Recorded(o)
    BY DEF JInv, BatchesFrozen, RecordInv, RowsRecorded, Rows
  <1>2. push[p].catalog = cartons /\ cartons \in FluxCatalogs /\ cartons \in Catalog
    BY DEF RecordInv, CatalogRead, CatalogKept, JInv, TypeOK, TablesTypeOK
  <1>3. k \in Active(cartons) \cup {Null}
    BY <1>1 DEF RecordInv, CartonOfStage
  <1>4. \A c \in Active(cartons) : cartons[c].flux \in FluxIds
    BY <1>2 DEF Active, Catalog, CartonRow
  <1>5. CASE k = Null
    <2>1. {c \in Active(cartons) : cartons[c].flux = row.flux} = {}
      BY <1>1, <1>4, <1>5, TablesAssumption DEF Recorded
    <2> QED BY <1>2, <1>5, <2>1 DEF Matching
  <1>6. CASE k # Null
    <2>1. {c \in Active(cartons) : cartons[c].flux = row.flux} = {k}
      BY <1>1, <1>2, <1>3, <1>6 DEF Recorded, StableCatalog
    <2> QED BY <1>2, <2>1 DEF Matching
  <1> QED BY <1>5, <1>6

\* A decided order keeps its carton.
LEMMA CartonOfDecided ==
  ASSUME StableCatalog, JInv, StagesInv, RecordInv, [Next]_vars,
         NEW o \in OrderIds, orders[o].status \in Settled
  PROVE  orders'[o].carton = orders[o].carton
  <1>1. ~Upserted(o) /\ ~MadePending(o)
    BY DEF Upserted, MadePending, Settled, Decided
  <1>2. \A r \in RecRuns : ~DecidedBy(r, o)
    BY DEF DecidedBy, AtOrder, StagesInv, PageWaits, Settled, Decided
  <1>3. ASSUME NEW p \in PushRuns, NEW row \in push[p].rows, row.order = o, ClosedBy(p, row)
        PROVE  orders'[o].carton = orders[o].carton
    BY <1>3, SameCarton DEF ClosedBy
  <1> QED BY <1>1, <1>2, <1>3, OrderSteps

\* Only PushResolve brings a run to an INSERT, and only PushCartons reads the
\* catalogue for the delivery loop.
LEMMA PushPlaces ==
  ASSUME JInv, [Next]_vars, NEW p \in PushRuns
  PROVE  /\ push'[p].pc = "enqueue" =>
              push'[p] = push[p] \/ \E e \in push[p].page : PushResolve(p, e)
         /\ push'[p].pc \in {"list", "post", "delivered", "retry"} =>
              \/ /\ push[p].pc \in {"list", "post", "delivered", "retry"}
                 /\ push'[p].catalog = push[p].catalog
              \/ push'[p].catalog = cartons
  <1> DEFINE Loop == {"list", "post", "delivered", "retry"}
             Goal == /\ push'[p].pc = "enqueue" =>
                          push'[p] = push[p] \/ \E e \in push[p].page : PushResolve(p, e)
                     /\ push'[p].pc \in Loop =>
                          \/ push[p].pc \in Loop /\ push'[p].catalog = push[p].catalog
                          \/ push'[p].catalog = cartons
  <1>0. push \in [PushRuns -> PushRun]
    BY DEF JInv, TypeOK, PushTypeOK
  <1>1. CASE push'[p] = push[p]
    BY <1>1
  <1>2. CASE CartonStep \/ SyncStep \/ RecStep \/ FluxStep \/ ClockStep \/ UNCHANGED vars
    BY <1>1, <1>2 DEF vars, CartonStep, SyncStep, RecStep, FluxStep, FluxApplies, ClockStep
  <1>3. CASE PushStep
    <2>1. PICK q \in PushRuns : PushNext(q)
      BY <1>3 DEF PushStep
    <2>2. CASE q # p
      <3>1. push'[p] = push[p]
        BY <2>1, <2>2, <1>0
        DEF PushNext, PushStart, PushScan, PushCartons, PushList, PushAbort, PushCandidate,
            PushResolve, PushUnresolved, PushEnqueue, PushEnqueueFails, LeaveCandidate,
            DeliverOutboxRecord, PushAccepted, PushFails, PushDelivered, PushDeliveredFails,
            PushRetry, PushRetryFails, LeaveRow
      <3> QED BY <3>1, <1>1
    <2>3. CASE q = p
      <3>1. CASE PushStart(p)
        BY <3>1, <1>0 DEF PushStart, PushRun
      <3>2. CASE PushScan(p)
        BY <3>2, <1>0 DEF PushScan, PushRun, IdlePush
      <3>3. CASE PushCartons(p)
        BY <3>3, <1>0 DEF PushCartons, PushRun
      <3>4. CASE PushList(p)
        BY <3>4, <1>0 DEF PushList, PushRun, IdlePush
      <3>5. CASE PushAbort(p)
        BY <3>5, <1>0 DEF PushAbort, PushRun, IdlePush
      <3>6. ASSUME NEW e \in push[p].page, PushCandidate(p, e) PROVE Goal
        <4>1. CASE PushResolve(p, e)
          <5>1. \E a : push' = [push EXCEPT ![p] = [@ EXCEPT !.pc = "enqueue", !.intent = a]]
            BY <4>1 DEF PushResolve
          <5>2. push'[p].pc = "enqueue"
            BY <5>1, <1>0 DEF PushRun
          <5> QED BY <4>1, <5>2
        <4>2. CASE LeaveCandidate(p, e)
          BY <4>2, <1>0 DEF LeaveCandidate, PastCandidate, PushRun
        <4> QED BY <3>6, <4>1, <4>2
                DEF PushCandidate, PushUnresolved, PushEnqueue, PushEnqueueFails
      <3>7. ASSUME NEW row \in push[p].rows, DeliverOutboxRecord(p, row) PROVE Goal
        <4>0. push[p].pc \in Loop
          BY <3>7 DEF DeliverOutboxRecord, PushAccepted, PushFails, PushDelivered,
             PushDeliveredFails, PushRetry, PushRetryFails
        <4>1. CASE LeaveRow(p, row)
          BY <4>0, <4>1, <1>0 DEF LeaveRow, PastRow, PushRun
        <4>2. CASE push' = [push EXCEPT ![p].pc = "delivered"]
                   \/ push' = [push EXCEPT ![p].pc = "retry"]
          BY <4>0, <4>2, <1>0 DEF PushRun
        <4> QED BY <3>7, <4>1, <4>2
                DEF DeliverOutboxRecord, PushAccepted, PushFails, PushDelivered,
                    PushDeliveredFails, PushRetry, PushRetryFails
      <3> HIDE DEF Goal
      <3>8. Goal
        BY <2>1, <2>3, <3>1, <3>2, <3>3, <3>4, <3>5, <3>6, <3>7 DEF PushNext, Goal
      <3> QED BY <3>8 DEF Goal
    <2> QED BY <2>2, <2>3
  <1> QED BY <1>2, <1>3 DEF Next

LEMMA RecordStep ==
  ASSUME StableCatalog, JInv, StagesInv, RecordInv, [Next]_vars PROVE RecordInv'
  <1>0. /\ orders \in [OrderIds -> OrderRow] /\ push \in [PushRuns -> PushRun]
        /\ Rows \subseteq OrderIds
    BY DEF JInv, TypeOK, TablesTypeOK, PushTypeOK, Rows
  <1>1. UNCHANGED cartons /\ CatalogKept'
    BY CatalogStep DEF RecordInv
  <1>2. \A o \in OrderIds : orders[o].status \in Settled => orders'[o].carton = orders[o].carton
    BY CartonOfDecided
  <1>3. CartonOfStage'
    <2> SUFFICES ASSUME NEW o \in OrderIds
                 PROVE  /\ orders'[o].carton \in Active(cartons) \cup {Null}
                        /\ orders'[o].status = "RECOMMENDED" => orders'[o].carton # Null
                        /\ orders'[o].status \in {"ABSENT", "SYNCED", "PENDING",
                                                  "NO RECOMMENDATION"}
                             => orders'[o].carton = Null
      BY <1>1 DEF CartonOfStage, Active
    <2>0. Null \notin Active(cartons)
      BY TablesAssumption DEF Active
    <2>1. CASE orders'[o] = orders[o]
      <3>1. /\ orders[o].carton \in Active(cartons) \cup {Null}
            /\ orders[o].status = "RECOMMENDED" => orders[o].carton # Null
            /\ orders[o].status \in {"ABSENT", "SYNCED", "PENDING", "NO RECOMMENDATION"}
                 => orders[o].carton = Null
        BY DEF RecordInv, CartonOfStage
      <3> QED BY <2>1, <3>1
    <2>2. CASE Upserted(o) \/ MadePending(o)
      BY <2>2 DEF Upserted, MadePending, NoOrder, RecordInv, CartonOfStage
    <2>3. CASE \E r \in RecRuns : DecidedBy(r, o)
      <3>1. orders[o].status = "PENDING"
        BY <2>3 DEF DecidedBy, AtOrder, StagesInv, PageWaits
      <3> QED BY <2>0, <2>3, <3>1 DEF DecidedBy, RecordInv, CartonOfStage
    <2>4. CASE \E p \in PushRuns : \E row \in push[p].rows : row.order = o /\ ClosedBy(p, row)
      <3>1. orders[o].status \in Settled /\ orders'[o].status = "PUSHED"
        BY <2>4 DEF ClosedBy, JInv, BatchesFrozen, StagesInv, RowsSettled
      <3> QED BY <1>2, <3>1 DEF RecordInv, CartonOfStage
    <2> QED BY <2>1, <2>2, <2>3, <2>4, OrderSteps
  <1>4. \A o \in OrderIds : orders[o].status \in Settled => Recorded(o)' = Recorded(o)
    BY <1>1, <1>2 DEF Recorded
  <1>5. RowsRecorded'
    <2>1. \A o \in Rows : outbox'[o].flux = Recorded(o)'
      BY <1>0, <1>4, OutboxStep DEF RowsKept, StagesInv, RowsSettled, RecordInv, RowsRecorded
    <2>2. CASE SameRows
      BY <2>1, <2>2 DEF SameRows, Rows, RowsRecorded
    <2>3. ASSUME NEW p \in PushRuns, NEW e \in push[p].page, EnqueuedBy(p, e)
          PROVE  RowsRecorded'
      <3>1. e.id \in OrderIds
        BY PushRunTypes DEF JInv, TypeOK, Candidate
      <3>2. Rows' \subseteq Rows \cup {e.id} /\ outbox'[e.id].flux = push[p].intent
        BY <2>3, <3>1 DEF EnqueuedBy, RowAdded, Rows, JInv, TypeOK, TablesTypeOK
      <3>3. push[p].intent = Recorded(e.id) /\ Recorded(e.id)' = Recorded(e.id)
        BY <1>4, <2>3, <3>1
        DEF EnqueuedBy, RecordInv, CandidatesRecorded, StagesInv, CandidatesSettled
      <3> QED BY <2>1, <3>2, <3>3 DEF RowsRecorded
    <2> QED BY <2>2, <2>3, RowSteps
  <1>6. CandidatesRecorded'
    <2> SUFFICES ASSUME NEW p \in PushRuns, NEW e \in push'[p].page
                 PROVE  /\ e.carton = orders'[e.id].carton
                        /\ e.status = "RECOMMENDED" => e.carton # Null
                        /\ e.status = "NO RECOMMENDATION" => e.carton = Null
                        /\ push'[p].pc = "enqueue" /\ AtCandidate(p, e)' =>
                             push'[p].intent = Recorded(e.id)'
      BY DEF CandidatesRecorded
    <2>1. CASE e.id \in OrderIds /\ Scanned(e) /\ UNCHANGED tables /\ push'[p].pc # "enqueue"
      BY <2>1 DEF Scanned, RecordInv, CartonOfStage
    <2>2. CASE e \in push[p].page
      <3>1. /\ e \in Candidate /\ e.id \in OrderIds
            /\ orders[e.id].status \in Settled
        BY <2>2, PushRunTypes
        DEF JInv, TypeOK, Candidate, StagesInv, CandidatesSettled
      <3>2. Recorded(e.id)' = Recorded(e.id) /\ orders'[e.id].carton = orders[e.id].carton
        BY <1>2, <1>4, <3>1
      <3>3. ASSUME push'[p].pc = "enqueue", AtCandidate(p, e)'
            PROVE  push'[p].intent = Recorded(e.id)
        <4>1. CASE push'[p] = push[p]
          BY <2>2, <3>3, <4>1 DEF AtCandidate, RecordInv, CandidatesRecorded
        <4>2. ASSUME NEW x \in push[p].page, PushResolve(p, x)
              PROVE  push'[p].intent = Recorded(e.id)
          <5>1. PICK a : push' = [push EXCEPT ![p] = [@ EXCEPT !.pc = "enqueue", !.intent = a]]
            BY <4>2 DEF PushResolve
          <5>2. push'[p].page = push[p].page
            BY <5>1, <1>0 DEF PushRun
          <5>3. x \in Candidate
            BY PushRunTypes DEF JInv, TypeOK
          <5>4. x.id = e.id
            <6>1. x.id <= e.id /\ e.id <= x.id
              BY <2>2, <3>3, <4>2, <5>2 DEF AtCandidate, PushResolve
            <6>2. x.id \in Nat /\ e.id \in Nat
              BY <3>1, <5>3, TablesAssumption DEF Candidate
            <6> QED BY <6>1, <6>2
          <5>5. push'[p].intent = IF x.status = "NO RECOMMENDATION" THEN NoCarton
                                  ELSE cartons[x.carton].flux
            BY <1>0, <4>2 DEF PushResolve, PushRun
          <5>6. /\ x.carton = orders[x.id].carton
                /\ x.status = "RECOMMENDED" => x.carton # Null
                /\ x.status = "NO RECOMMENDATION" => x.carton = Null
            BY DEF RecordInv, CandidatesRecorded
          <5>7. x.status \in {"RECOMMENDED", "NO RECOMMENDATION"}
            BY <5>3 DEF Candidate
          <5> QED BY <5>4, <5>5, <5>6, <5>7 DEF Recorded
        <4> QED BY <3>3, <4>1, <4>2, PushPlaces
      <3> QED BY <2>2, <3>2, <3>3 DEF RecordInv, CandidatesRecorded
    <2> QED BY <2>1, <2>2, CandidateSteps
  <1>7. CatalogRead'
    BY <1>1, PushPlaces DEF RecordInv, CatalogRead
  <1> QED BY <1>1, <1>3, <1>5, <1>6, <1>7 DEF RecordInv

-----------------------------------------------------------------------------
(* The jobs implement Fulfilment *)

Choice == [o \in OrderIds |-> outbox[o].flux]
Closed == {o \in OrderIds : orders[o].status = "PUSHED"}

\* A new intent is a choice.
LEMMA EnqueueChooses ==
  ASSUME JInv, NEW p \in PushRuns, NEW e \in push[p].page, EnqueuedBy(p, e)
  PROVE  e.id \in OrderIds /\ Promise!Choose(e.id)
  <1>0. e.id \in OrderIds /\ push[p].intent \in Assignment
    BY PushRunTypes DEF JInv, TypeOK, IntentsResolved, EnqueuedBy, Candidate
  <1>1. Choice[e.id] = Null
    BY <1>0 DEF Choice, EnqueuedBy, RowAdded, Rows, JInv, RowsFilled, TypeOK, TablesTypeOK,
       OutboxRow
  <1>2. Choice' = [Choice EXCEPT ![e.id] = push[p].intent]
    <2>1. /\ outbox'[e.id].flux = push[p].intent
          /\ \A x \in OrderIds \ {e.id} : outbox'[x] = outbox[x]
      BY <1>0 DEF EnqueuedBy, RowAdded, JInv, TypeOK, TablesTypeOK
    <2> QED BY <1>0, <2>1 DEF Choice
  <1>3. received' = received /\ Closed' = Closed
    BY DEF EnqueuedBy, Closed
  <1> QED BY <1>0, <1>1, <1>2, <1>3 DEF Promise!Choose, Choice, Closed

\* A request that Flux applies is told.
LEMMA RequestTells ==
  ASSUME IInv, NEW o \in OrderIds, NEW a \in Assignment, About(o, a)
  PROVE  UNCHANGED <<Choice, received, Closed>> \/ Promise!Tell(o)
  <1>1. a = outbox[o].flux /\ a # Null
    BY DEF About, Asked, IInv, OneAssignment, Told
  <1>2. received[o] \subseteq {outbox[o].flux}
    BY DEF IInv, OneAssignment, Told
  <1>3. UNCHANGED <<Choice, Closed>>
    BY DEF About, Choice, Closed
  <1>4. Choice[o] = outbox[o].flux
    BY DEF Choice
  <1>5. received[o] \cup {a} = {Choice[o]}
    BY <1>1, <1>2, <1>4
  <1>6. received' = received \/ received' = [received EXCEPT ![o] = {Choice[o]}]
    BY <1>5 DEF About
  <1> QED BY <1>1, <1>3, <1>4, <1>6 DEF Promise!Tell, Choice, Closed

\* A delivery closes its order, and no other.
LEMMA DeliveryCloses ==
  ASSUME JInv, StagesInv, [Next]_vars, SameRows, UNCHANGED wms
  PROVE  UNCHANGED <<Choice, received, Closed>> \/ \E o \in OrderIds : Promise!Close(o)
  <1>1. Choice' = Choice
    BY DEF SameRows, Choice
  <1>2. Closed \subseteq Closed'
    BY StageKept DEF Closed
  <1>3. CASE Closed' \subseteq Closed
    BY <1>1, <1>2, <1>3
  <1>4. ASSUME NEW o \in Closed', o \notin Closed PROVE o \in OrderIds /\ Promise!Close(o)
    <2>0. o \in OrderIds /\ orders'[o].status = "PUSHED" /\ orders[o].status # "PUSHED"
      BY <1>4 DEF Closed
    <2>1. PICK p \in PushRuns : \E row \in push[p].rows : row.order = o /\ ClosedBy(p, row)
      BY <2>0, OrderSteps DEF Upserted, MadePending, NoOrder, DecidedBy
    <2>2. received[o] # {} /\ Closed' = Closed \cup {o}
      BY <2>0, <2>1 DEF ClosedBy, JInv, AcceptedIsReceived, Closed
    <2> QED BY <1>1, <2>0, <2>2 DEF Promise!Close, Choice, Closed
  <1> QED BY <1>3, <1>4

LEMMA PromiseStep ==
  ASSUME IInv, StagesInv, [Next]_vars
  PROVE  [Promise!Next]_<<Choice, received, Closed>>
  <1>0. JInv
    BY DEF IInv
  <1>1. ASSUME NEW p \in PushRuns, NEW e \in push[p].page, EnqueuedBy(p, e)
        PROVE  Promise!Next
    BY <1>0, <1>1, EnqueueChooses DEF Promise!Next
  <1>2. CASE SameRows /\ UNCHANGED wms
    BY <1>0, <1>2, DeliveryCloses DEF Promise!Next
  <1>3. ASSUME NEW o \in OrderIds, NEW a \in Assignment, About(o, a)
        PROVE  [Promise!Next]_<<Choice, received, Closed>>
    BY <1>3, RequestTells DEF Promise!Next
  <1> QED BY <1>0, <1>1, <1>2, <1>3, RowSteps, RequestSteps

-----------------------------------------------------------------------------
(* The theorems *)

\* The invariant is inductive.
LEMMA JobsKeep == JInv /\ [Next]_vars => JInv'
  BY TypeStep, OutboxStep, BatchStep, ReceivedStep DEF JInv

LEMMA Inductive == IInv /\ [Next]_vars => IInv'
  BY JobsKeep, AssignmentStep DEF IInv

LEMMA Invariance == Spec => []IInv
  BY InitIInv, Inductive, PTL DEF Spec

\* Every variable keeps its type, through every interleaving of the jobs.
THEOREM TypeCorrect == Spec => []TypeOK
  <1>1. IInv => TypeOK
    BY DEF IInv, JInv
  <1> QED BY <1>1, Invariance, PTL

\* However many runs overlap, fail and restart, every request about an order
\* carries the one assignment frozen in its outbox row.
THEOREM OneAssignmentAlways == Spec => []OneAssignment
  <1>1. IInv => OneAssignment
    BY DEF IInv, JInv
  <1> QED BY <1>1, Invariance, PTL

\* However many runs overlap, fail and restart, nothing is marked DELIVERED
\* or PUSHED before Flux has applied the assignment.
THEOREM PushedIsReceivedAlways == Spec => []PushedIsReceived
  <1>1. IInv => PushedIsReceived
    BY DEF IInv, JInv
  <1> QED BY <1>1, Invariance, PTL

\* No order is decided, or pushed, before it has items: a run of job 3 decides
\* on items it has read, and no statement takes items away.
THEOREM DecidedHasItemsAlways == Spec => []DecidedHasItems
  <1>1. Init => ItemsInv
    BY DEF Init, RecInit, PushInit, IdleRec, IdlePush, NoOrder, NoIntent, ItemsInv,
       DecidedHasItems, Decided, Rows
  <1>2. JInv /\ ItemsInv /\ [Next]_vars => ItemsInv'
    BY ItemsStep
  <1>3. IInv => JInv
    BY DEF IInv
  <1>4. ItemsInv => DecidedHasItems
    BY DEF ItemsInv
  <1> QED BY <1>1, <1>2, <1>3, <1>4, Invariance, PTL DEF Spec

\* Runs of job 3 that do not overlap keep the stages apart.
LEMMA StagesAlways == ASSUME OneRecRun PROVE Spec => []StagesInv
  <1>1. Init => StagesInv
    BY DEF Init, RecInit, PushInit, IdleRec, IdlePush, NoIntent, StagesInv, PageWaits,
       RowsSettled, CandidatesSettled, DeliveredIsPushed, Rows
  <1>2. JInv /\ StagesInv /\ [Next]_vars => StagesInv'
    BY StagesStep
  <1>3. IInv => JInv
    BY DEF IInv
  <1> QED BY <1>1, <1>2, <1>3, Invariance, PTL DEF Spec

\* Whatever else overlaps, fails and restarts, an order goes through its
\* stages one by one and never back.
THEOREM LifecycleKept == ASSUME OneRecRun PROVE Spec => Lifecycle
  <1> DEFINE Stage == \A o \in OrderIds :
                        orders'[o].status # orders[o].status
                          => <<orders[o].status, orders'[o].status>> \in LifecycleSteps
  <1>1. JInv /\ StagesInv /\ [Next]_vars => [Stage]_orders
    BY StageStep
  <1>2. IInv => JInv
    BY DEF IInv
  <1> QED BY <1>1, <1>2, Invariance, StagesAlways, PTL DEF Spec, Lifecycle

\* No decided order is left with a row that no delivery loop will look at.
THEOREM NoneStrandedAlways == ASSUME OneRecRun PROVE Spec => []NoneStranded
  <1>1. StagesInv => NoneStranded
    BY DEF StagesInv, DeliveredIsPushed, NoneStranded, Decided
  <1> QED BY <1>1, StagesAlways, PTL

\* What is recorded of a pushed order is what Flux was told: the carton's id
\* in a catalogue that stays as it is, or "0".
THEOREM RecordMatchesFluxAlways ==
  ASSUME OneRecRun, StableCatalog PROVE Spec => []RecordMatchesFlux
  <1>1. Init => RecordInv
    <2> SUFFICES ASSUME Init PROVE RecordInv
      OBVIOUS
    <2>1. CatalogKept
      BY DEF Init, CartonInit, IdleCartons, NoCatalog, CatalogKept
    <2>2. CartonOfStage /\ RowsRecorded
      BY DEF Init, NoOrder, NoIntent, CartonOfStage, RowsRecorded, Rows
    <2>3. CandidatesRecorded /\ CatalogRead
      BY DEF Init, PushInit, IdlePush, CandidatesRecorded, CatalogRead
    <2> QED BY <2>1, <2>2, <2>3 DEF RecordInv
  <1>2. JInv /\ StagesInv /\ RecordInv /\ [Next]_vars => RecordInv'
    BY RecordStep
  <1>3. IInv /\ RecordInv => RecordMatchesFlux
    <2> SUFFICES ASSUME IInv, RecordInv, NEW o \in OrderIds, orders[o].status = "PUSHED"
                 PROVE  received[o] = {Recorded(o)}
      BY DEF RecordMatchesFlux, Recorded
    <2>1. outbox[o].flux \in received[o]
      BY DEF IInv, JInv, PushedIsReceived
    <2>2. received[o] \subseteq {outbox[o].flux}
      BY DEF IInv, OneAssignment, Told
    <2>3. o \in Rows
      BY <2>1 DEF IInv, JInv, TypeOK, PushTypeOK, RowsFilled, Rows
    <2> QED BY <2>1, <2>2, <2>3 DEF RecordInv, RowsRecorded
  <1>4. IInv => JInv
    BY DEF IInv
  <1> QED BY <1>1, <1>2, <1>3, <1>4, Invariance, StagesAlways, PTL DEF Spec

\* The four jobs, as long as runs of job 3 do not overlap, are an
\* implementation of what the engine promises: for each order Flux is told one
\* assignment, before the order is closed, and closed is for good.
THEOREM KeepsPromiseAlways == ASSUME OneRecRun PROVE Spec => KeepsPromise
  <1>1. Init => Promise!Init
    BY DEF Init, PushInit, NoOrder, NoIntent, Promise!Init
  <1>2. IInv /\ StagesInv /\ [Next]_vars
          => [Promise!Next]_<<[o \in OrderIds |-> outbox[o].flux], received,
                              {o \in OrderIds : orders[o].status = "PUSHED"}>>
    BY PromiseStep DEF Choice, Closed
  <1> QED BY <1>1, <1>2, Invariance, StagesAlways, PTL DEF Spec, KeepsPromise, Promise!Spec
=============================================================================
