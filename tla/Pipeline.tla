------------------------------ MODULE Pipeline ------------------------------
(***************************************************************************)
(* The four jobs over the shared database.  Any number of runs of a job,   *)
(* given by the sets CartonRuns, SyncRuns, RecRuns and PushRuns, may be    *)
(* under way together; which numbers the scheduler allows is the subject   *)
(* of module LeaderLease.  Statements of different runs interleave freely. *)
(***************************************************************************)
EXTENDS CartonSyncJob, OrderSyncJob, RecommendJob, PushJob

CONSTANT Backlog   \* orders an earlier sync has already left PENDING

ASSUME BacklogAssumption == Backlog \subseteq OrderIds

vars == <<tables, csync, sync, rec, push, wms>>

\* A database in which earlier syncs have run and no order is decided yet.
Init ==
  /\ orders = [o \in OrderIds |-> IF o \in Backlog
                                  THEN [NoOrder EXCEPT !.status = "PENDING"] ELSE NoOrder]
  /\ \E contents \in [Backlog -> Contents] :
       items = [o \in OrderIds |-> IF o \in Backlog THEN contents[o] ELSE NoItems]
  /\ cartons \in FluxCatalogs
  /\ outbox = [o \in OrderIds |-> NoIntent]
  /\ CartonInit
  /\ SyncInit
  /\ RecInit
  /\ PushInit

CartonStep == (\E r \in CartonRuns : CartonNext(r)) /\ UNCHANGED <<sync, rec, push, wms>>
SyncStep == (\E r \in SyncRuns : SyncNext(r)) /\ UNCHANGED <<csync, rec, push, wms>>
RecStep == (\E r \in RecRuns : RecNext(r)) /\ UNCHANGED <<csync, sync, push, wms>>
PushStep == (\E p \in PushRuns : PushNext(p)) /\ UNCHANGED <<csync, sync, rec>>
FluxStep == (\E m \in wire : FluxApplies(m)) /\ UNCHANGED <<csync, sync, rec>>
ClockStep == (\E o \in OrderIds : BackoffElapses(o))
             /\ UNCHANGED <<csync, sync, rec, push, wms>>

Next == CartonStep \/ SyncStep \/ RecStep \/ PushStep \/ FluxStep \/ ClockStep

Spec == Init /\ [][Next]_vars

-----------------------------------------------------------------------------
(* Safety *)

\* Every variable has its type.
TypeOK ==
  /\ TablesTypeOK
  /\ CartonTypeOK
  /\ SyncTypeOK
  /\ RecTypeOK
  /\ PushTypeOK

Decided == {"RECOMMENDED", "NO RECOMMENDATION"}

\* Everything ever POSTed for an order, on the way or applied.
Told(o) == received[o] \cup {a \in Assignment : [order |-> o, flux |-> a] \in wire}

\* However the runs overlap, fail, restart and retry, and whatever is synced
\* meanwhile, every request for one order carries the one assignment frozen in
\* its outbox row (ON CONFLICT DO NOTHING): Flux is never told two cartons.
OneAssignment == \A o \in OrderIds : Told(o) \subseteq {outbox[o].flux} \ {Null}

\* No order is closed before Flux has the assignment: a row is DELIVERED, and
\* an order PUSHED, only if Flux applied the row's assignment.
PushedIsReceived ==
  \A o \in OrderIds :
    outbox[o].status = "DELIVERED" \/ orders[o].status = "PUSHED"
      => outbox[o].flux \in received[o]

\* A decided order is never stranded: while an order waits to be pushed, its
\* outbox row is not DELIVERED, so a delivery loop will still find it.
NoneStranded ==
  \A o \in OrderIds : orders[o].status \in Decided => outbox[o].status # "DELIVERED"

\* What the engine records as pushed is what Flux was told: the carton of a
\* PUSHED order has the Flux id Flux received, and no carton means "0".  (Of a
\* catalogue that does not change and whose Flux ids are unique.)
RecordMatchesFlux ==
  \A o \in OrderIds : orders[o].status = "PUSHED" =>
    received[o] = {IF orders[o].carton = Null THEN NoCarton
                   ELSE cartons[orders[o].carton].flux}

\* No order is decided on an empty item list, although a sync run inserts the
\* order before its items, and another run may make it PENDING in between.
DecidedHasItems ==
  \A o \in OrderIds :
    orders[o].status \in Decided \cup {"PUSHED"} => items[o] # NoItems

\* The stages an order may go through, in their order.
LifecycleSteps ==
  {<<"ABSENT", "SYNCED">>, <<"SYNCED", "PENDING">>, <<"PENDING", "RECOMMENDED">>,
   <<"PENDING", "NO RECOMMENDATION">>, <<"RECOMMENDED", "PUSHED">>,
   <<"NO RECOMMENDATION", "PUSHED">>}

\* An order's status only moves forward along the documented lifecycle, and
\* never skips a stage: no job puts a decided order back, decides it twice,
\* or pushes one that is not decided.
Lifecycle ==
  [][\A o \in OrderIds :
       orders'[o].status # orders[o].status
         => <<orders[o].status, orders'[o].status>> \in LifecycleSteps]_orders

-----------------------------------------------------------------------------
(* The promise the pipeline implements, when runs of job 3 do not overlap *)

Promise == INSTANCE Fulfilment WITH
  Orders <- OrderIds, Assignments <- Assignment, None <- Null,
  choice <- [o \in OrderIds |-> outbox[o].flux],
  told <- received,
  closed <- {o \in OrderIds : orders[o].status = "PUSHED"}

\* Every behaviour of the jobs is one that Fulfilment allows: one assignment
\* per order, told before the order is closed, and closed for good.
KeepsPromise == Promise!Spec

-----------------------------------------------------------------------------
(* Liveness *)

\* What the runs do when no call fails and no context ends.
RecProgress(r) ==
  /\ \/ RecStart(r) \/ RecCartons(r) \/ RecPage(r) \/ RecItems(r)
     \/ \E o \in OrderIds :
          \/ Recommend(r, o) \/ NoneFits(r, o)
          \/ rec[r].goods[o] = NoItems /\ RecSkip(r, o)
  /\ UNCHANGED <<csync, sync, push, wms>>

PushProgress(p) ==
  /\ \/ PushStart(p) \/ PushScan(p) \/ PushCartons(p) \/ PushList(p)
     \/ \E e \in push[p].page : PushResolve(p, e) \/ PushEnqueue(p, e)
     \/ \E row \in push[p].rows :
          \/ PushAccepted(p, row) \/ PushDelivered(p, row) \/ PushRetry(p, row)
          \/ row.order \in Refused /\ PushFails(p, row)
  /\ UNCHANGED <<csync, sync, rec>>

\* ListPendingPushes runs while the backoff of a row just refused lasts: the
\* backoff is 5 s or more, and the query follows the batch at once.
PromptList(p) ==
  /\ PushList(p)
  /\ \A o \in Refused : ~outbox[o].due
  /\ UNCHANGED <<csync, sync, rec>>

\* The tickers start each job again and again, and its goroutine keeps running.
Scheduled ==
  /\ \A r \in RecRuns : WF_vars(RecProgress(r))
  /\ \A p \in PushRuns : WF_vars(PushProgress(p)) /\ SF_vars(PromptList(p))
  /\ \A o \in OrderIds : WF_vars(BackoffElapses(o) /\ UNCHANGED <<csync, sync, rec, push, wms>>)

\* From some time on the database, Flux and the process do not fail.
FaultsEnd ==
  <>[][ \/ \E r \in RecRuns : RecProgress(r)
        \/ \E p \in PushRuns : PushProgress(p)
        \/ FluxStep \/ ClockStep ]_vars

FairSpec == Spec /\ Scheduled /\ FaultsEnd

\* Once faults end, every order that waits with items is decided and pushed,
\* whatever the faults left behind: a half-written batch, a row in RETRY, a
\* run that died between POST and MarkDelivered.  Orders without items and
\* orders that Flux refuses for ever do not hold up the others.
AllPushed ==
  \A o \in OrderIds \ Refused :
    orders[o].status = "PENDING" /\ items[o] # NoItems ~> orders[o].status = "PUSHED"

\* ... and its outbox row comes to rest: no row is delivered again for ever.
OutboxSettles ==
  \A o \in OrderIds \ Refused :
    outbox[o].status # "ABSENT" ~> [](outbox[o].status = "DELIVERED")
=============================================================================
