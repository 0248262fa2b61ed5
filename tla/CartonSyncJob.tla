--------------------------- MODULE CartonSyncJob ---------------------------
(***************************************************************************)
(* Job 2, doSyncCartons: fetch Flux's cartons and upsert them one by one,  *)
(* by code.  A carton that Flux no longer lists is left as it is.          *)
(***************************************************************************)
EXTENDS Tables

CONSTANTS
  CartonRuns,    \* runs of the job that may overlap
  FluxCatalogs   \* the catalogues Flux may answer with (Null: not listed)

ASSUME CatalogAssumption == FluxCatalogs \subseteq Catalog

VARIABLE csync

CartonRun == [pc : {"idle", "upsert"}, todo : Catalog]

IdleCartons == [pc |-> "idle", todo |-> NoCatalog]

CartonTypeOK == csync \in [CartonRuns -> CartonRun]

CartonInit == csync = [r \in CartonRuns |-> IdleCartons]

-----------------------------------------------------------------------------
\* GetCartons; the loop works on this answer to the end of the run.
CartonStart(r) ==
  /\ csync[r].pc = "idle"
  /\ \E catalog \in FluxCatalogs :
       csync' = [csync EXCEPT ![r] = [pc |-> "upsert", todo |-> catalog]]
  /\ UNCHANGED tables

\* Flux lists its cartons in any order.
CartonUpsert(r, c) ==
  /\ csync[r].todo[c] # Null
  /\ UpsertCarton(c, csync[r].todo[c])
  /\ csync' = [csync EXCEPT ![r].todo[c] = Null]
  /\ UNCHANGED <<orders, items, outbox>>

\* A dimension that cannot be parsed, or an upsert that fails: next carton.
CartonSkip(r, c) ==
  /\ csync[r].todo[c] # Null
  /\ csync' = [csync EXCEPT ![r].todo[c] = Null]
  /\ UNCHANGED tables

\* The last carton is done, or the process dies before that.
CartonEnd(r) ==
  /\ csync[r].pc # "idle"
  /\ csync' = [csync EXCEPT ![r] = IdleCartons]
  /\ UNCHANGED tables

CartonNext(r) ==
  \/ CartonStart(r) \/ CartonEnd(r)
  \/ \E c \in CartonIds : CartonUpsert(r, c) \/ CartonSkip(r, c)
=============================================================================
