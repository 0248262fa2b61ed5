------------------------------- MODULE Tables -------------------------------
(***************************************************************************)
(* The database of the Tetra engine: the rows of orders, order_items,      *)
(* cartons and push_outbox, and the SQL statements of internal/repository  *)
(* that read or write them.  Every statement is one atomic step of the     *)
(* job that executes it; the jobs share nothing but these tables.          *)
(*                                                                         *)
(* An order is known by its local id (orders.id, which the unique code     *)
(* determines), a carton by its local id.  Statements find their row by    *)
(* the id the job remembers, and do nothing when it is not there; a job    *)
(* remembers only rows it has seen, and rows only go away by a reset       *)
(* (module PipelineReset).  A missing row is a row whose status is         *)
(* "ABSENT" (orders, outbox) or Null (cartons).  Item lists and carton     *)
(* dimensions are members of Contents and Specs; which contents fit which  *)
(* dimensions is the constant relation Suits (module Packing).             *)
(***************************************************************************)
EXTENDS Naturals, FiniteSets

CONSTANTS
  OrderIds,      \* orders.id
  CartonIds,     \* cartons.id
  FluxIds,       \* cartons.flux_id, as the decimal string sent to Flux
  Contents,      \* the item lists an order may have
  NoItems,       \* the empty item list
  Specs,         \* the dimensions and maximum weight a carton may have
  Suits(_, _),   \* Suits(k, s): contents k may travel in a carton of spec s
  VolumeOf(_),   \* the inner volume of a spec
  Null           \* SQL NULL, Go nil

NoCarton == "0"  \* what Flux is told when no carton fits

ASSUME TablesAssumption ==
  /\ OrderIds \subseteq Nat \ {0}
  /\ IsFiniteSet(OrderIds)
  /\ NoItems \in Contents
  /\ NoCarton \notin FluxIds
  /\ Null \notin CartonIds \cup FluxIds \cup {NoCarton}

CartonRow == [flux : FluxIds, spec : Specs]
Catalog == [CartonIds -> CartonRow \cup {Null}]

ASSUME NullIsNoRow == Null \notin CartonRow

OrderStatus ==
  {"ABSENT", "SYNCED", "PENDING", "RECOMMENDED", "NO RECOMMENDATION", "PUSHED"}
OrderRow == [status : OrderStatus, carton : CartonIds \cup {Null}]

OutboxStatus == {"ABSENT", "PENDING", "RETRY", "DELIVERED"}
Assignment == FluxIds \cup {NoCarton}
OutboxRow == [status : OutboxStatus, flux : Assignment \cup {Null},
              due : BOOLEAN, id : Nat]

NoOrder == [status |-> "ABSENT", carton |-> Null]
NoIntent == [status |-> "ABSENT", flux |-> Null, due |-> FALSE, id |-> 0]
NoCatalog == [c \in CartonIds |-> Null]

VARIABLES
  orders,    \* the orders table
  items,     \* order_items, by order
  cartons,   \* the cartons table
  outbox     \* push_outbox, by order (order_id is unique)

tables == <<orders, items, cartons, outbox>>

TablesTypeOK ==
  /\ orders \in [OrderIds -> OrderRow]
  /\ items \in [OrderIds -> Contents]
  /\ cartons \in Catalog
  /\ outbox \in [OrderIds -> OutboxRow]

-----------------------------------------------------------------------------
(* Reads *)

\* ORDER BY id ASC LIMIT k, for a set of ids.
FirstPage(S, k) == {i \in S : Cardinality({j \in S : j < i}) < k}

\* Mutant: the status is not asked for.
PageOfAnyOrders(statuses, last, k) ==
  FirstPage({o \in OrderIds : o > last /\ orders[o].status # "ABSENT"}, k)

\* GetOrdersByStatus[es]AfterID: the ids of a page.
PageOfOrders(statuses, last, k) ==
  FirstPage({o \in OrderIds : o > last /\ orders[o].status \in statuses}, k)

\* Mutant: orders without rows in the answer have no entry at all.
ItemsOfAnswerOnly(S) == [o \in S |-> items[o]]

\* GetOrderItemsByOrderIDs: one query for a whole page.
ItemsOf(S) == [o \in OrderIds |-> IF o \in S THEN items[o] ELSE NoItems]

\* GetActiveCartons: every row, since no statement clears is_active.
Active(catalog) == {c \in CartonIds : catalog[c] # Null}

\* FindBestCarton over cartons sorted by volume: one of the smallest that
\* suit.  The query orders by volume alone, so equal volumes come in any order.
BestCartons(catalog, contents) ==
  LET suitable == {c \in Active(catalog) : Suits(contents, catalog[c].spec)}
  IN  {c \in suitable : \A d \in suitable :
                          VolumeOf(catalog[c].spec) <= VolumeOf(catalog[d].spec)}

\* Mutant: rows in RETRY are forgotten.
DuePushesPendingOnly(k) ==
  {[order |-> o, flux |-> outbox[o].flux, id |-> outbox[o].id] :
     o \in {x \in OrderIds : outbox[x].status = "PENDING" /\ outbox[x].due}}

\* ListPendingPushes: due rows, oldest id first, at most k; a snapshot.
DuePushes(k) ==
  LET due == {o \in OrderIds : outbox[o].status \in {"PENDING", "RETRY"} /\ outbox[o].due}
      ahead(o) == {x \in due : outbox[x].id < outbox[o].id}
  IN  {[order |-> o, flux |-> outbox[o].flux, id |-> outbox[o].id] :
         o \in {x \in due : Cardinality(ahead(x)) < k}}

-----------------------------------------------------------------------------
(* Writes.  Each is an assignment to the tables it changes. *)

\* Mutant: the conflicting row takes the inserted status as well.
UpsertOrderResetting(o) ==
  orders' = [orders EXCEPT ![o] = [@ EXCEPT !.status = "SYNCED"]]

\* INSERT ... ON CONFLICT (code) DO UPDATE leaves the status of a known order.
UpsertOrder(o) ==
  orders' = [orders EXCEPT ![o] =
               IF @.status = "ABSENT" THEN [NoOrder EXCEPT !.status = "SYNCED"] ELSE @]

HasOrder(o) == orders[o].status # "ABSENT"

\* DELETE and INSERT of an order's items in one transaction; order_id must
\* refer to an order.
InsertOrderItems(o, contents) ==
  /\ HasOrder(o)
  /\ items' = [items EXCEPT ![o] = contents]

\* One UPDATE for every SYNCED row, whichever run inserted it.
MarkSyncedAsPending ==
  orders' = [o \in OrderIds |->
               IF orders[o].status = "SYNCED"
               THEN [orders[o] EXCEPT !.status = "PENDING"] ELSE orders[o]]

UpsertCarton(c, row) == cartons' = [cartons EXCEPT ![c] = row]

\* carton_id must refer to a carton, in a row that is there.
MayRefer(o, c) == HasOrder(o) => c \in Active(cartons) \cup {Null}

\* UPDATE ... WHERE id = $n: the current status is not looked at.
UpdateOrderStatus(o, status, c) ==
  /\ MayRefer(o, c)
  /\ orders' = [orders EXCEPT ![o] =
                  CASE ~HasOrder(o) -> @
                    [] HasOrder(o) /\ status = "RECOMMENDED" -> [status |-> status, carton |-> c]
                    [] HasOrder(o) /\ status # "RECOMMENDED" -> [@ EXCEPT !.status = status]]

\* Mutant: ON CONFLICT (order_id) DO UPDATE SET flux_carton_id.
EnqueueOverwriting(o, flux) ==
  outbox' = [outbox EXCEPT ![o] =
               IF @.status = "ABSENT"
               THEN [status |-> "PENDING", flux |-> flux, due |-> TRUE, id |-> 1]
               ELSE [@ EXCEPT !.flux = flux]]

\* INSERT ... ON CONFLICT (order_id) DO NOTHING; order_id must refer to an order.
EnqueuePushIntent(o, flux) ==
  LET rows == {x \in OrderIds : outbox[x].status # "ABSENT"} IN
  /\ HasOrder(o)
  /\ outbox' = IF o \in rows THEN outbox
               ELSE [outbox EXCEPT ![o] = [status |-> "PENDING", flux |-> flux,
                                           due |-> TRUE, id |-> 1 + Cardinality(rows)]]

\* The outbox with the row of this id, if there is one, replaced.
OutboxWith(id, Changed(_)) ==
  outbox' = [o \in OrderIds |-> IF outbox[o].id = id THEN Changed(outbox[o]) ELSE outbox[o]]

DeliveredRow(old) == [old EXCEPT !.status = "DELIVERED"]
RetryRow(old) == [status |-> "RETRY", flux |-> old.flux, due |-> FALSE, id |-> old.id]

\* Mutant: the order's row is not part of the transaction.
MarkDeliveredOutboxOnly(row, c) ==
  /\ OutboxWith(row.id, DeliveredRow)
  /\ UNCHANGED orders

\* One transaction: the outbox row is DELIVERED, the order PUSHED, and its
\* carton COALESCE(c, carton_id).
MarkDelivered(row, c) ==
  /\ MayRefer(row.order, c)
  /\ OutboxWith(row.id, DeliveredRow)
  /\ orders' = [orders EXCEPT ![row.order] =
                  IF HasOrder(row.order)
                  THEN [status |-> "PUSHED", carton |-> IF c = Null THEN @.carton ELSE c]
                  ELSE @]

\* UPDATE ... WHERE id = $4, whatever the row's status; due again in 5 s or more.
MarkRetry(row) == OutboxWith(row.id, RetryRow)

\* next_attempt_at passes.
BackoffElapses(o) ==
  /\ outbox[o].status = "RETRY"
  /\ ~outbox[o].due
  /\ outbox' = [outbox EXCEPT ![o].due = TRUE]
  /\ UNCHANGED <<orders, items, cartons>>
=============================================================================
