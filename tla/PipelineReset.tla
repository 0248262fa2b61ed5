---------------------------- MODULE PipelineReset ----------------------------
(***************************************************************************)
(* The four jobs and the reset of the dashboard, which truncates every     *)
(* table and begins the ids again.  Flux is not reset, and requests on     *)
(* their way stay there.                                                   *)
(*                                                                         *)
(* Module Engine says when a reset is alone: Stop waits for the tickers'   *)
(* jobs, but not for those triggered by hand.  An order gets the id it had *)
(* before; with several orders they could be others, which is worse.       *)
(***************************************************************************)
EXTENDS Pipeline

VARIABLE stale   \* history: requests on their way at the last reset

resetVars == <<vars, stale>>

ResetTypeOK == TypeOK /\ stale \subseteq Request

ResetInit == Init /\ stale = {}

\* TRUNCATE ... RESTART IDENTITY CASCADE.  received begins again, too: it is
\* what Flux has applied since.
Truncate ==
  /\ orders' = [o \in OrderIds |-> NoOrder]
  /\ items' = [o \in OrderIds |-> NoItems]
  /\ cartons' = NoCatalog
  /\ outbox' = [o \in OrderIds |-> NoIntent]
  /\ received' = [o \in OrderIds |-> {}]
  /\ stale' = wire
  /\ UNCHANGED <<csync, sync, rec, push, wire>>

NoneAtWork ==
  /\ \A r \in CartonRuns : csync[r] = IdleCartons
  /\ \A r \in SyncRuns : sync[r] = IdleSync
  /\ \A r \in RecRuns : rec[r] = IdleRec
  /\ \A p \in PushRuns : push[p] = IdlePush

\* Mutant: the reset does not wait for the jobs.
ResetUnwaited == Truncate

\* The reset of an engine without a job at work.
LoneReset == NoneAtWork /\ Truncate

LoneResetSpec ==
  ResetInit /\ [][(Next /\ UNCHANGED stale) \/ LoneReset]_resetVars

\* The reset beside a job that was triggered by hand.
AnyResetSpec == ResetInit /\ [][(Next /\ UNCHANGED stale) \/ Truncate]_resetVars

-----------------------------------------------------------------------------
\* After a reset Flux may still be told what was on its way before, but what
\* the engine sends is again one assignment for each order.
OneAssignmentSinceReset ==
  \A o \in OrderIds : \A a \in Told(o) :
    (a = outbox[o].flux /\ a # Null) \/ [order |-> o, flux |-> a] \in stale

\* An order's status moves along the lifecycle, until a reset takes the order
\* away; a new order begins at the beginning.
LifecycleUntilReset ==
  [][\A o \in OrderIds :
       orders'[o].status # orders[o].status
         => \/ <<orders[o].status, orders'[o].status>> \in LifecycleSteps
            \/ orders' = [x \in OrderIds |-> NoOrder]]_orders
=============================================================================
