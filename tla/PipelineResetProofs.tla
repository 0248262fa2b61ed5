------------------------- MODULE PipelineResetProofs -------------------------
(***************************************************************************)
(* Proofs about PipelineReset, when the reset waits for the jobs.          *)
(***************************************************************************)
EXTENDS PipelineReset, PipelineProofs

\* The jobs' invariant, and what is left of OneAssignment after a reset.
RInv ==
  /\ JInv
  /\ stale \subseteq Request
  /\ OneAssignmentSinceReset

LEMMA InitRInv == ResetInit => RInv
  <1> SUFFICES ASSUME ResetInit PROVE RInv
    OBVIOUS
  <1>1. IInv
    BY InitIInv DEF ResetInit
  <1>2. OneAssignmentSinceReset
    BY <1>1 DEF IInv, OneAssignment, OneAssignmentSinceReset
  <1> QED BY <1>1, <1>2 DEF IInv, RInv, ResetInit

\* Whatever Flux is told in a job's step was known before it.
LEMMA AssignmentSinceResetStep ==
  ASSUME RInv, [Next]_vars, UNCHANGED stale
  PROVE  OneAssignmentSinceReset'
  <1> SUFFICES ASSUME NEW o \in OrderIds, NEW a \in Told(o)'
               PROVE  \/ a = outbox'[o].flux /\ a # Null
                      \/ [order |-> o, flux |-> a] \in stale
    BY DEF OneAssignmentSinceReset
  <1>0. JInv
    BY DEF RInv
  <1>1. a \in Told(o) \/ (a = outbox[o].flux /\ a # Null)
    <2>1. a \in Assignment
      BY <1>0, TypeStep DEF TypeOK, PushTypeOK, Told
    <2> QED BY <1>0, <2>1, FluxSteps DEF Told, Asked
  <1>2. CASE a = outbox[o].flux /\ a # Null
    <2>1. o \in Rows
      BY <1>0, <1>2 DEF JInv, RowsFilled, Rows, TypeOK, TablesTypeOK, OutboxRow
    <2> QED BY <1>0, <1>2, <2>1, OutboxStep DEF RowsKept
  <1>3. CASE a \in Told(o) /\ [order |-> o, flux |-> a] \in stale
    BY <1>3
  <1> QED BY <1>1, <1>2, <1>3 DEF RInv, OneAssignmentSinceReset

LEMMA JobStep ==
  ASSUME RInv, Next \/ UNCHANGED vars, UNCHANGED stale PROVE RInv'
  <1>1. JInv'
    BY JobsKeep DEF RInv
  <1> QED BY <1>1, AssignmentSinceResetStep DEF RInv

\* The tables are empty and no run remembers a row of them.
LEMMA ResetStep ==
  ASSUME RInv, LoneReset PROVE RInv'
  <1> USE DEF LoneReset, Truncate
  <1>0. JInv /\ TypeOK
    BY DEF RInv, JInv
  <1>1. TypeOK'
    <2>1. TablesTypeOK'
      BY EmptyValues, TablesAssumption DEF TablesTypeOK
    <2>2. PushTypeOK'
      BY <1>0 DEF TypeOK, PushTypeOK
    <2> QED BY <1>0, <2>1, <2>2 DEF TypeOK, CartonTypeOK, SyncTypeOK, RecTypeOK
  <1>2. \A o \in OrderIds : outbox'[o] = NoIntent /\ orders'[o].status = "ABSENT"
    BY DEF NoOrder
  <1>3. Rows' = {}
    BY <1>2 DEF Rows, NoIntent
  <1>4. RowsFilled' /\ IdsOrdered'
    BY <1>2, <1>3, TablesAssumption DEF RowsFilled, IdsOrdered, NoIntent, Assignment
  <1>5. \A p \in PushRuns : push'[p] = IdlePush
    BY DEF NoneAtWork
  <1>6. IntentsResolved' /\ BatchesFrozen' /\ AcceptedIsReceived'
    BY <1>5 DEF IntentsResolved, BatchesFrozen, AcceptedIsReceived, IdlePush
  <1>7. PushedIsReceived'
    BY <1>2 DEF PushedIsReceived, NoIntent
  <1>8. OneAssignmentSinceReset'
    BY DEF OneAssignmentSinceReset, Told
  <1>9. stale' \subseteq Request
    BY <1>0 DEF TypeOK, PushTypeOK
  <1> QED BY <1>1, <1>4, <1>6, <1>7, <1>8, <1>9 DEF RInv, JInv

LEMMA ResetInvariance == LoneResetSpec => []RInv
  <1>1. RInv /\ [(Next /\ UNCHANGED stale) \/ LoneReset]_resetVars => RInv'
    BY JobStep, ResetStep DEF resetVars
  <1> QED BY InitRInv, <1>1, PTL DEF LoneResetSpec

\* Nothing is at work and nothing is there: what holds of rows and runs holds.
LEMMA AfterReset ==
  ASSUME LoneReset PROVE StagesInv' /\ ItemsInv'
  <1> USE DEF LoneReset, Truncate
  <1>1. /\ \A p \in PushRuns : push'[p].page = {}
        /\ \A r \in RecRuns : rec'[r].page = {} /\ rec'[r].goods = [o \in OrderIds |-> NoItems]
    BY DEF NoneAtWork, IdlePush, IdleRec
  <1>2. \A o \in OrderIds : outbox'[o].status = "ABSENT" /\ orders'[o].status = "ABSENT"
    BY DEF NoIntent, NoOrder
  <1>3. Rows' = {}
    BY <1>2 DEF Rows
  <1>4. StagesInv'
    BY <1>1, <1>2, <1>3 DEF StagesInv, PageWaits, RowsSettled, CandidatesSettled,
       DeliveredIsPushed
  <1>5. ItemsInv'
    BY <1>1, <1>2, <1>3 DEF ItemsInv, DecidedHasItems, Decided
  <1> QED BY <1>4, <1>5

\* The stages stay apart, before a reset and after it.
LEMMA StagesSinceReset == ASSUME OneRecRun PROVE LoneResetSpec => []StagesInv
  <1>1. ResetInit => StagesInv
    BY DEF ResetInit, Init, RecInit, PushInit, IdleRec, IdlePush, NoIntent, StagesInv,
       PageWaits, RowsSettled, CandidatesSettled, DeliveredIsPushed, Rows
  <1>2. RInv /\ StagesInv /\ [(Next /\ UNCHANGED stale) \/ LoneReset]_resetVars => StagesInv'
    BY StagesStep, AfterReset DEF RInv, resetVars
  <1> QED BY <1>1, <1>2, ResetInvariance, PTL DEF LoneResetSpec

-----------------------------------------------------------------------------
(* The theorems *)

\* Every variable keeps its type through resets as well.
THEOREM ResetTypeCorrect == LoneResetSpec => []ResetTypeOK
  <1>1. RInv => ResetTypeOK
    BY DEF RInv, JInv, ResetTypeOK
  <1> QED BY <1>1, ResetInvariance, PTL

\* A reset that waits for the jobs leaves one assignment for each order: the
\* only other requests Flux may still get are those on their way at the reset.
THEOREM OneAssignmentSinceResetAlways == LoneResetSpec => []OneAssignmentSinceReset
  <1>1. RInv => OneAssignmentSinceReset
    BY DEF RInv
  <1> QED BY <1>1, ResetInvariance, PTL

\* Nothing is closed before Flux has applied it since the last reset.
THEOREM PushedIsReceivedSinceReset == LoneResetSpec => []PushedIsReceived
  <1>1. RInv => PushedIsReceived
    BY DEF RInv, JInv
  <1> QED BY <1>1, ResetInvariance, PTL

\* With a reset as well, no decided order is left with a row that no delivery
\* loop will look at.
THEOREM NoneStrandedSinceReset == ASSUME OneRecRun PROVE LoneResetSpec => []NoneStranded
  <1>1. StagesInv => NoneStranded
    BY DEF StagesInv, DeliveredIsPushed, NoneStranded, Decided
  <1> QED BY <1>1, StagesSinceReset, PTL

\* An order leaves the lifecycle only by a reset, together with all the others.
THEOREM LifecycleUntilResetKept ==
  ASSUME OneRecRun PROVE LoneResetSpec => LifecycleUntilReset
  <1> DEFINE Stage == \A o \in OrderIds :
                        orders'[o].status # orders[o].status
                          => \/ <<orders[o].status, orders'[o].status>> \in LifecycleSteps
                             \/ orders' = [x \in OrderIds |-> NoOrder]
  <1>1. RInv /\ StagesInv /\ [(Next /\ UNCHANGED stale) \/ LoneReset]_resetVars
          => [Stage]_orders
    BY StageStep DEF RInv, resetVars, vars, LoneReset, Truncate
  <1> QED BY <1>1, ResetInvariance, StagesSinceReset, PTL DEF LoneResetSpec, LifecycleUntilReset

\* What is decided after a reset is decided on items inserted after it.
THEOREM DecidedHasItemsSinceReset == LoneResetSpec => []DecidedHasItems
  <1>1. ResetInit => ItemsInv
    BY DEF ResetInit, Init, RecInit, PushInit, IdleRec, IdlePush, NoOrder, NoIntent, ItemsInv,
       DecidedHasItems, Decided, Rows
  <1>2. RInv /\ ItemsInv /\ [(Next /\ UNCHANGED stale) \/ LoneReset]_resetVars => ItemsInv'
    BY ItemsStep, AfterReset DEF RInv, resetVars
  <1>3. ItemsInv => DecidedHasItems
    BY DEF ItemsInv
  <1> QED BY <1>1, <1>2, <1>3, ResetInvariance, PTL DEF LoneResetSpec
=============================================================================
