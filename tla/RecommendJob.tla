---------------------------- MODULE RecommendJob ----------------------------
(***************************************************************************)
(* Job 3, doProcessRecommendations: page through the PENDING orders by id  *)
(* and give each a carton, or find that none fits.                         *)
(*                                                                         *)
(* RecRuns are the runs of the job that may be under way at the same time: *)
(* the ticker's, a manual trigger's, another instance's.  rec[r] holds the *)
(* local variables of run r between two statements.                        *)
(***************************************************************************)
EXTENDS Tables

CONSTANTS RecRuns, RecBatch   \* recommendation_batch_size

ASSUME RecAssumption == RecBatch \in Nat \ {0}

VARIABLE rec

RecRun == [pc      : {"idle", "cartons", "page", "items", "orders"},
           catalog : Catalog,                   \* cartons, read once per run
           last    : Nat,                       \* lastID
           page    : SUBSET OrderIds,           \* orders of the page still to do
           goods   : [OrderIds -> Contents]]    \* itemsMap

IdleRec == [pc |-> "idle", catalog |-> NoCatalog, last |-> 0, page |-> {},
            goods |-> [o \in OrderIds |-> NoItems]]

RecTypeOK == rec \in [RecRuns -> RecRun]

RecInit == rec = [r \in RecRuns |-> IdleRec]

\* o is the order the run's loop is at: the page is sorted by id.
AtOrder(r, o) ==
  /\ rec[r].pc = "orders"
  /\ o \in rec[r].page
  /\ \A x \in rec[r].page : o <= x

\* Mutant: lastID advances only past orders that had items.
PastOrderWithItems(r, o) ==
  [rec[r] EXCEPT !.last = IF rec[r].goods[o] = NoItems THEN @ ELSE o, !.page = @ \ {o},
                 !.pc = IF rec[r].page = {o} THEN "page" ELSE "orders"]

\* The loop moves on from o, whatever became of it.
PastOrder(r, o) ==
  [rec[r] EXCEPT !.last = o, !.page = @ \ {o},
                 !.pc = IF rec[r].page = {o} THEN "page" ELSE "orders"]
LeaveOrder(r, o) == rec' = [rec EXCEPT ![r] = PastOrder(r, o)]

-----------------------------------------------------------------------------
\* CountByStatus(PENDING); a run that finds none returns at once.
RecStart(r) ==
  /\ rec[r].pc = "idle"
  /\ \E o \in OrderIds : orders[o].status = "PENDING"
  /\ rec' = [rec EXCEPT ![r].pc = "cartons"]
  /\ UNCHANGED tables

\* GetActiveCartons, once for the whole run; no cartons, no run.
RecCartons(r) ==
  /\ rec[r].pc = "cartons"
  /\ rec' = [rec EXCEPT ![r] = IF Active(cartons) = {} THEN IdleRec
                               ELSE [@ EXCEPT !.pc = "page", !.catalog = cartons]]
  /\ UNCHANGED tables

\* Mutant: the page takes the decided orders as well.
RecPageDecidedToo(r) ==
  /\ rec[r].pc = "page"
  /\ LET page == PageOfOrders({"PENDING", "RECOMMENDED"}, rec[r].last, RecBatch) IN
     rec' = [rec EXCEPT ![r] = IF page = {} THEN IdleRec
                               ELSE [@ EXCEPT !.pc = "items", !.page = page]]
  /\ UNCHANGED tables

\* The next page of PENDING orders; an empty page ends the run.
RecPage(r) ==
  /\ rec[r].pc = "page"
  /\ LET page == PageOfOrders({"PENDING"}, rec[r].last, RecBatch) IN
     rec' = [rec EXCEPT ![r] = IF page = {} THEN IdleRec
                               ELSE [@ EXCEPT !.pc = "items", !.page = page]]
  /\ UNCHANGED tables

RecItems(r) ==
  /\ rec[r].pc = "items"
  /\ rec' = [rec EXCEPT ![r] = [@ EXCEPT !.pc = "orders", !.goods = ItemsOf(rec[r].page)]]
  /\ UNCHANGED tables

\* Mutant: an order without items is not skipped.
RecommendAny(r, o) ==
  /\ AtOrder(r, o)
  /\ \E c \in BestCartons(rec[r].catalog, rec[r].goods[o]) :
       UpdateOrderStatus(o, "RECOMMENDED", c)
  /\ LeaveOrder(r, o)
  /\ UNCHANGED <<items, cartons, outbox>>

\* A smallest carton that suits the items read with the page.
Recommend(r, o) ==
  /\ AtOrder(r, o)
  /\ rec[r].goods[o] # NoItems
  /\ \E c \in BestCartons(rec[r].catalog, rec[r].goods[o]) :
       UpdateOrderStatus(o, "RECOMMENDED", c)
  /\ LeaveOrder(r, o)
  /\ UNCHANGED <<items, cartons, outbox>>

NoneFits(r, o) ==
  /\ AtOrder(r, o)
  /\ rec[r].goods[o] # NoItems
  /\ BestCartons(rec[r].catalog, rec[r].goods[o]) = {}
  /\ UpdateOrderStatus(o, "NO RECOMMENDATION", Null)
  /\ LeaveOrder(r, o)
  /\ UNCHANGED <<items, cartons, outbox>>

\* An order without items is skipped; one whose UPDATE fails or outlives the
\* record timeout is logged.  lastID moves past it either way.
RecSkip(r, o) ==
  /\ AtOrder(r, o)
  /\ LeaveOrder(r, o)
  /\ UNCHANGED tables

\* A query fails, the job's context ends, or the process dies.
RecAbort(r) ==
  /\ rec[r].pc # "idle"
  /\ rec' = [rec EXCEPT ![r] = IdleRec]
  /\ UNCHANGED tables

ProcessRecommendationOrder(r, o) == Recommend(r, o) \/ NoneFits(r, o) \/ RecSkip(r, o)

RecNext(r) ==
  \/ RecStart(r) \/ RecCartons(r) \/ RecPage(r) \/ RecItems(r) \/ RecAbort(r)
  \/ \E o \in OrderIds : ProcessRecommendationOrder(r, o)
=============================================================================
