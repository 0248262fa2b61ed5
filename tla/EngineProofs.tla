---------------------------- MODULE EngineProofs ----------------------------
(***************************************************************************)
(* Proofs about Engine, for any number of requests together, of jobs and   *)
(* of starts.                                                              *)
(***************************************************************************)
EXTENDS Engine, FiniteSetTheorems, TLAPS

\* The goroutines the WaitGroup counts; <<c, 0>> is the initial execution.
Live == {x \in Contexts \X (0 .. JobCount) :
           IF x[2] = 0 THEN BootAlive(x[1]) ELSE TickerAlive(x[1], x[2])}

WgCounts == wg = Cardinality(Live)

\* Requests that may still start the engine.
Starters == {h \in Handlers : handler[h].op \in {"start", "update"}}
StartsBounded == made + Cardinality(Starters) <= MaxStarts

\* A handler is at a place its request leads to.
PlaceOfRequest ==
  \A h \in Handlers :
    /\ handler[h].pc = "start" => handler[h].op \in {"start", "update"}
    /\ handler[h].pc \in {"stop", "wait", "parked", "woken"}
         => handler[h].op \in {"stop", "reset", "update"}
    /\ handler[h].pc \in {"read", "write", "restart"} => handler[h].op = "update"

\* A goroutine is started once, after its context is made.
StartedOnce ==
  /\ \A c \in Contexts : c > made => boot[c] = NoBoot
  /\ \A c \in Contexts, j \in Jobs : boot[c].at <= JobCount + j => ticker[c][j].pc = "none"

\* A running engine has a context.
RunningMade == isRunning => made > 0

IInv == RunningMade /\ TypeOK /\ StartsBounded /\ PlaceOfRequest /\ StartedOnce /\ WgCounts /\ NoOrphan

-----------------------------------------------------------------------------
\* There are finitely many goroutines and handlers to count.
LEMMA Finite ==
  /\ IsFiniteSet(Live) /\ Cardinality(Live) \in Nat
  /\ IsFiniteSet(Starters) /\ Cardinality(Starters) \in Nat
  <1>1. IsFiniteSet(Contexts) /\ IsFiniteSet(0 .. JobCount)
    BY EngineAssumption, FS_Interval DEF Contexts
  <1>2. IsFiniteSet(Contexts \X (0 .. JobCount))
    BY <1>1, FS_Product
  <1>3. IsFiniteSet(Live)
    BY <1>2, FS_Subset DEF Live
  <1>4. IsFiniteSet(Starters)
    BY EngineAssumption, FS_Subset DEF Starters
  <1> QED BY <1>3, <1>4, FS_CardinalityType

\* The places of an initial execution, in their order.
LEMMA Places ==
  /\ JobCount \in Nat /\ AtReturn \in Nat /\ 1 < AtReturn
  /\ \A j \in Jobs : j \in Nat /\ 0 < j /\ j <= JobCount
  /\ \A j \in Jobs : j < AtReturn /\ JobCount + j < AtReturn
  BY EngineAssumption DEF Jobs, AtReturn

LEMMA InitIInv == Init => IInv
  <1> SUFFICES ASSUME Init PROVE IInv
    OBVIOUS
  <1> USE EngineAssumption
  <1>1. TypeOK
    <2>1. boot \in [Contexts -> Boot] /\ ticker \in [Contexts -> [Jobs -> Ticker]]
      BY Places DEF Init, Boot, NoBoot, Ticker, Pc
    <2>2. handler \in [Handlers -> Handler]
      BY DEF Init, Handler, Idle
    <2>3. isRunning \in BOOLEAN
      BY Zenon DEF Init
    <2>4. made \in 0 .. MaxStarts /\ cancelled \subseteq 1 .. made /\ wg \in Nat
          /\ interval \in Intervals
      BY DEF Init
    <2>5. alone \in BOOLEAN
      BY Zenon DEF Init
    <2> QED BY <2>1, <2>2, <2>3, <2>4, <2>5 DEF TypeOK
  <1>2. Live = {}
    BY DEF Init, Live, BootAlive, TickerAlive, NoBoot, Contexts, Jobs
  <1>3. Starters = {}
    BY DEF Init, Starters, Idle
  <1>4. WgCounts /\ StartsBounded
    BY <1>2, <1>3, FS_EmptySet DEF WgCounts, StartsBounded, Init
  <1>5. PlaceOfRequest
    BY DEF Init, PlaceOfRequest, Idle
  <1>6. StartedOnce
    BY DEF Init, StartedOnce, Contexts, Jobs
  <1>7. NoOrphan /\ RunningMade
    BY DEF Init, NoOrphan, RunningMade
  <1> QED BY <1>1, <1>4, <1>5, <1>6, <1>7 DEF IInv

\* Done changes no request, and moves handlers from "parked" to "woken" only.
LEMMA DoneHandlers ==
  ASSUME IInv, Done
  PROVE  handler' \in [Handlers -> Handler] /\ Starters' = Starters /\ PlaceOfRequest'
  BY DEF IInv, TypeOK, PlaceOfRequest, Starters, Done, Handler

-----------------------------------------------------------------------------
(* Steps of goroutines *)

\* One boot changes; what is left of StartedOnce is about its ticker.
LEMMA BootChanges ==
  ASSUME IInv, NEW c \in Contexts, boot[c].pc # "none", NEW b \in Boot, b.at >= boot[c].at,
         boot' = [boot EXCEPT ![c] = b], made' = made
  PROVE  /\ boot' \in [Contexts -> Boot]
         /\ \A x \in Contexts : boot'[x] = IF x = c THEN b ELSE boot[x]
         /\ \A x \in Contexts : x > made' => boot'[x] = NoBoot
         /\ \A x \in Contexts, y \in Jobs : boot'[x].at <= JobCount + y => boot[x].at <= JobCount + y
  <1> USE Places
  <1>1. boot \in [Contexts -> Boot] /\ made \in Nat
    BY DEF IInv, TypeOK
  <1>2. ~(c > made)
    BY DEF IInv, StartedOnce, NoBoot
  <1>3. \A x \in Contexts : boot'[x] = IF x = c THEN b ELSE boot[x]
    BY <1>1
  <1>4. \A x \in Contexts : boot[x].at \in Nat /\ boot'[x].at \in Nat
    BY <1>1, <1>3 DEF Boot
  <1>5. \A x \in Contexts : x > made' => boot'[x] = NoBoot
    BY <1>2, <1>3 DEF IInv, StartedOnce
  <1>6. \A x \in Contexts : boot[x].at <= boot'[x].at
    BY <1>3, <1>4
  <1> QED BY <1>1, <1>3, <1>4, <1>5, <1>6

LEMMA BootWorkIInv ==
  ASSUME IInv, NEW c \in Contexts, BootStartsJob(c) \/ BootNextJob(c)
  PROVE  IInv'
  <1> USE Places
  <1>1. UNCHANGED <<isRunning, made, cancelled, wg, ticker, interval, handler, alone>>
    BY DEF BootStartsJob, BootNextJob
  <1>2. boot[c] \in Boot /\ BootAlive(c) /\ boot[c].pc # "none" /\ boot[c].at \in Jobs
    BY DEF BootStartsJob, BootNextJob, IInv, TypeOK, BootAlive
  <1>3. PICK b \in Boot : /\ boot' = [boot EXCEPT ![c] = b]
                         /\ b.pc \in {"waits", "works"} /\ b.at >= boot[c].at
    <2>1. CASE BootStartsJob(c)
      <3> DEFINE d == [pc |-> "works", at |-> boot[c].at]
      <3>1. [boot[c] EXCEPT !.pc = "works"] = d
        BY <1>2 DEF Boot
      <3>2. boot' = [boot EXCEPT ![c] = d]
        BY <2>1, <3>1 DEF BootStartsJob
      <3>3. d \in Boot /\ d.pc = "works" /\ d.at >= boot[c].at
        BY <1>2 DEF Boot, Pc
      <3> HIDE DEF d
      <3> QED BY <3>2, <3>3
    <2>2. CASE BootNextJob(c)
      <3> DEFINE d == [pc |-> "waits", at |-> boot[c].at + 1]
      <3>1. boot' = [boot EXCEPT ![c] = d]
        BY <2>2 DEF BootNextJob
      <3>2. d \in Boot /\ d.pc = "waits" /\ d.at >= boot[c].at
        BY <1>2 DEF Boot, Pc
      <3> HIDE DEF d
      <3> QED BY <3>1, <3>2
    <2> QED BY <2>1, <2>2
  <1>4. /\ boot' \in [Contexts -> Boot]
        /\ \A x \in Contexts : boot'[x] = IF x = c THEN b ELSE boot[x]
        /\ \A x \in Contexts : x > made' => boot'[x] = NoBoot
        /\ \A x \in Contexts, y \in Jobs :
             boot'[x].at <= JobCount + y => boot[x].at <= JobCount + y
    BY <1>1, <1>2, <1>3, BootChanges
  <1>5. Live' = Live
    <2>1. \A x \in Contexts : BootAlive(x)' <=> BootAlive(x)
      BY <1>2, <1>3, <1>4 DEF BootAlive
    <2>2. \A x \in Contexts, y \in Jobs : TickerAlive(x, y)' <=> TickerAlive(x, y)
      BY <1>1 DEF TickerAlive
    <2>3. \A x \in Contexts \X (0 .. JobCount) : x[1] \in Contexts /\ (x[2] = 0 \/ x[2] \in Jobs)
      BY DEF Jobs
    <2> QED BY <2>1, <2>2, <2>3 DEF Live
  <1>6. StartedOnce'
    BY <1>1, <1>4 DEF IInv, StartedOnce
  <1>7. TypeOK'
    BY <1>1, <1>4 DEF IInv, TypeOK
  <1> QED BY <1>1, <1>5, <1>6, <1>7
          DEF IInv, RunningMade, StartsBounded, Starters, PlaceOfRequest, WgCounts, NoOrphan

LEMMA TickerWorkIInv ==
  ASSUME IInv, NEW c \in Contexts, NEW j \in Jobs, TickerStartsJob(c, j) \/ TickerEndsJob(c, j)
  PROVE  IInv'
  <1>1. UNCHANGED <<isRunning, made, cancelled, wg, boot, interval, handler, alone>>
    BY DEF TickerStartsJob, TickerEndsJob
  <1>2. ticker \in [Contexts -> [Jobs -> Ticker]] /\ ticker[c][j] \in Ticker /\ TickerAlive(c, j)
    BY DEF TickerStartsJob, TickerEndsJob, TickerAlive, IInv, TypeOK
  <1>3. PICK t \in Ticker : ticker' = [ticker EXCEPT ![c][j] = t] /\ t.pc \in {"waits", "works"}
    <2>1. PICK pc \in {"waits", "works"} : ticker' = [ticker EXCEPT ![c][j].pc = pc]
      BY DEF TickerStartsJob, TickerEndsJob
    <2> DEFINE t == [pc |-> pc, every |-> ticker[c][j].every]
    <2>2. t \in Ticker
      BY <1>2 DEF Ticker, Pc
    <2>3. [ticker[c][j] EXCEPT !.pc = pc] = t
      BY <1>2 DEF Ticker
    <2>4. ticker' = [ticker EXCEPT ![c][j] = t]
      BY <2>1, <2>3
    <2> QED BY <2>2, <2>4
  <1>4. \A x \in Contexts, y \in Jobs : ticker'[x][y] = IF x = c /\ y = j THEN t ELSE ticker[x][y]
    BY <1>2, <1>3
  <1>5. \A x \in Contexts, y \in Jobs : TickerAlive(x, y)' <=> TickerAlive(x, y)
    BY <1>2, <1>3, <1>4 DEF TickerAlive
  <1>6. Live' = Live
    <2>1. \A x \in Contexts : BootAlive(x)' <=> BootAlive(x)
      BY <1>1 DEF BootAlive
    <2>2. \A x \in Contexts \X (0 .. JobCount) : x[1] \in Contexts /\ (x[2] = 0 \/ x[2] \in Jobs)
      BY EngineAssumption DEF Jobs
    <2> QED BY <1>5, <2>1, <2>2 DEF Live
  <1>7. StartedOnce'
    BY <1>1, <1>2, <1>4 DEF IInv, StartedOnce, TickerAlive
  <1>8. TypeOK'
    <2>1. ticker' \in [Contexts -> [Jobs -> Ticker]]
      BY <1>2, <1>3
    <2> QED BY <1>1, <2>1 DEF IInv, TypeOK
  <1> QED BY <1>1, <1>6, <1>7, <1>8
          DEF IInv, RunningMade, StartsBounded, Starters, PlaceOfRequest, WgCounts, NoOrphan

\* A ticker is counted when it starts.
LEMMA StartJobIInv ==
  ASSUME IInv, NEW c \in Contexts, NEW j \in Jobs, startJob(c, j)
  PROVE  IInv'
  <1> USE Places
  <1>1. UNCHANGED <<isRunning, made, cancelled, interval, handler, alone>> /\ wg' = wg + 1
    BY DEF startJob
  <1>2. boot[c] \in Boot /\ BootAlive(c) /\ boot[c].pc # "none" /\ boot[c].at = JobCount + j
    BY DEF startJob, IInv, TypeOK, BootAlive
  <1> DEFINE b == [pc |-> boot[c].pc, at |-> boot[c].at + 1]
             t == [pc |-> "waits", every |-> interval]
  <1>3. boot' = [boot EXCEPT ![c] = b] /\ b \in Boot
    <2>1. [boot[c] EXCEPT !.at = boot[c].at + 1] = b
      BY <1>2 DEF Boot
    <2>2. b \in Boot
      BY <1>2 DEF Boot
    <2> QED BY <2>1, <2>2 DEF startJob
  <1>4. ticker' = [ticker EXCEPT ![c][j] = t] /\ t \in Ticker
    BY DEF startJob, IInv, TypeOK, Ticker, Pc
  <1>5. /\ boot' \in [Contexts -> Boot]
        /\ \A x \in Contexts : boot'[x] = IF x = c THEN b ELSE boot[x]
        /\ \A x \in Contexts : x > made' => boot'[x] = NoBoot
        /\ \A x \in Contexts, y \in Jobs :
             boot'[x].at <= JobCount + y => boot[x].at <= JobCount + y
    <2>1. b.at >= boot[c].at
      BY <1>2
    <2> QED BY <1>1, <1>2, <1>3, <2>1, BootChanges
  <1>6. /\ ticker' \in [Contexts -> [Jobs -> Ticker]]
        /\ \A x \in Contexts, y \in Jobs : ticker'[x][y] = IF x = c /\ y = j THEN t ELSE ticker[x][y]
    BY <1>4 DEF IInv, TypeOK
  <1>7. ticker[c][j].pc = "none"
    BY <1>2 DEF IInv, StartedOnce
  <1>8. Live' = Live \cup {<<c, j>>} /\ <<c, j>> \notin Live
    <2>1. \A x \in Contexts : BootAlive(x)' <=> BootAlive(x)
      BY <1>2, <1>5 DEF BootAlive
    <2>2. \A x \in Contexts, y \in Jobs :
            TickerAlive(x, y)' <=> TickerAlive(x, y) \/ (x = c /\ y = j)
      BY <1>6 DEF TickerAlive
    <2>3. ~TickerAlive(c, j)
      BY <1>7 DEF TickerAlive
    <2>4. \A x \in Contexts \X (0 .. JobCount) : x[1] \in Contexts /\ (x[2] = 0 \/ x[2] \in Jobs)
      BY DEF Jobs
    <2>5. <<c, j>> \in Contexts \X (0 .. JobCount) /\ j # 0
      BY DEF Jobs
    <2> QED BY <2>1, <2>2, <2>3, <2>4, <2>5 DEF Live
  <1>9. WgCounts' /\ wg' \in Nat
    <2>1. Cardinality(Live') = Cardinality(Live) + 1
      BY <1>8, Finite, FS_AddElement
    <2> QED BY <1>1, <2>1, Finite DEF IInv, WgCounts
  <1>10. TypeOK'
    BY <1>1, <1>5, <1>6, <1>9 DEF IInv, TypeOK
  <1>11. StartedOnce'
    <2>1. ~(boot'[c].at <= JobCount + j)
      BY <1>2, <1>5
    <2>2. \A x \in Contexts, y \in Jobs : boot'[x].at <= JobCount + y => ticker'[x][y].pc = "none"
      BY <1>5, <1>6, <2>1 DEF IInv, StartedOnce
    <2> QED BY <1>1, <1>5, <2>2 DEF StartedOnce
  <1> QED BY <1>1, <1>9, <1>10, <1>11
          DEF IInv, RunningMade, StartsBounded, Starters, PlaceOfRequest, NoOrphan

\* A goroutine that returns was counted.
LEMMA UncountIInv ==
  ASSUME IInv, Done, UNCHANGED <<isRunning, made, cancelled, interval, alone>>,
         boot' \in [Contexts -> Boot], ticker' \in [Contexts -> [Jobs -> Ticker]], StartedOnce',
         NEW x \in Live, Live' = Live \ {x}
  PROVE  IInv'
  <1>1. handler' \in [Handlers -> Handler] /\ Starters' = Starters /\ PlaceOfRequest'
    BY DoneHandlers
  <1>2. wg' = Cardinality(Live') /\ wg' \in Nat
    <2>1. IsFiniteSet(Live \ {x}) /\ Cardinality(Live \ {x}) = Cardinality(Live) - 1
      BY Finite, FS_RemoveElement
    <2>2. Cardinality(Live \ {x}) \in Nat
      BY <2>1, FS_CardinalityType
    <2> QED BY <2>1, <2>2 DEF Done, IInv, WgCounts
  <1>3. TypeOK'
    BY <1>1, <1>2 DEF IInv, TypeOK
  <1> QED BY <1>1, <1>2, <1>3 DEF IInv, RunningMade, StartsBounded, WgCounts, NoOrphan

LEMMA BootReturnsIInv ==
  ASSUME IInv, NEW c \in Contexts, BootReturns(c)
  PROVE  IInv'
  <1> USE Places
  <1>1. UNCHANGED <<isRunning, made, cancelled, ticker, interval, alone>> /\ Done
    BY DEF BootReturns
  <1>2. boot[c] \in Boot /\ BootAlive(c) /\ boot[c].pc # "none" /\ boot[c].at = AtReturn
    BY DEF BootReturns, IInv, TypeOK, BootAlive
  <1> DEFINE b == [pc |-> "gone", at |-> AtReturn]
  <1>3. boot' = [boot EXCEPT ![c] = b] /\ b \in Boot
    <2>1. [boot[c] EXCEPT !.pc = "gone"] = b
      BY <1>2 DEF Boot
    <2>2. b \in Boot
      BY <1>2 DEF Boot, Pc
    <2> QED BY <2>1, <2>2 DEF BootReturns
  <1>4. /\ boot' \in [Contexts -> Boot]
        /\ \A x \in Contexts : boot'[x] = IF x = c THEN b ELSE boot[x]
        /\ \A x \in Contexts : x > made' => boot'[x] = NoBoot
        /\ \A x \in Contexts, y \in Jobs :
             boot'[x].at <= JobCount + y => boot[x].at <= JobCount + y
    <2>1. b.at >= boot[c].at
      BY <1>2
    <2> QED BY <1>1, <1>2, <1>3, <2>1, BootChanges
  <1>5. <<c, 0>> \in Live /\ Live' = Live \ {<<c, 0>>}
    <2>1. \A x \in Contexts : BootAlive(x)' <=> BootAlive(x) /\ x # c
      BY <1>4 DEF BootAlive
    <2>2. \A x \in Contexts, y \in Jobs : TickerAlive(x, y)' <=> TickerAlive(x, y)
      BY <1>1 DEF TickerAlive
    <2>3. <<c, 0>> \in Contexts \X (0 .. JobCount)
      OBVIOUS
    <2>4. \A x \in Contexts \X (0 .. JobCount) :
            x[1] \in Contexts /\ (x[2] = 0 \/ x[2] \in Jobs)
      BY DEF Jobs
    <2>5. \A x \in Contexts \X (0 .. JobCount) : x[1] = c /\ x[2] = 0 <=> x = <<c, 0>>
      OBVIOUS
    <2>6. \A y \in Jobs : y # 0
      OBVIOUS
    <2> QED BY <1>2, <2>1, <2>2, <2>3, <2>4, <2>5, <2>6 DEF Live
  <1>6. StartedOnce'
    BY <1>1, <1>4 DEF IInv, StartedOnce
  <1>7. ticker' \in [Contexts -> [Jobs -> Ticker]]
    BY <1>1 DEF IInv, TypeOK
  <1> QED BY <1>1, <1>4, <1>5, <1>6, <1>7, UncountIInv

LEMMA TickerReturnsIInv ==
  ASSUME IInv, NEW c \in Contexts, NEW j \in Jobs, TickerReturns(c, j)
  PROVE  IInv'
  <1> USE Places
  <1>1. UNCHANGED <<isRunning, made, cancelled, boot, interval, alone>> /\ Done
    BY DEF TickerReturns
  <1>2. ticker \in [Contexts -> [Jobs -> Ticker]] /\ ticker[c][j] \in Ticker /\ TickerAlive(c, j)
    BY DEF TickerReturns, TickerAlive, IInv, TypeOK
  <1> DEFINE t == [pc |-> "gone", every |-> ticker[c][j].every]
  <1>3. ticker' = [ticker EXCEPT ![c][j] = t] /\ t \in Ticker
    <2>1. [ticker[c][j] EXCEPT !.pc = "gone"] = t
      BY <1>2 DEF Ticker
    <2> QED BY <1>2, <2>1 DEF TickerReturns, Ticker, Pc
  <1>4. /\ ticker' \in [Contexts -> [Jobs -> Ticker]]
        /\ \A x \in Contexts, y \in Jobs : ticker'[x][y] = IF x = c /\ y = j THEN t ELSE ticker[x][y]
    BY <1>2, <1>3
  <1>5. <<c, j>> \in Live /\ Live' = Live \ {<<c, j>>}
    <2>1. \A x \in Contexts, y \in Jobs :
            TickerAlive(x, y)' <=> TickerAlive(x, y) /\ ~(x = c /\ y = j)
      BY <1>4 DEF TickerAlive
    <2>2. \A x \in Contexts : BootAlive(x)' <=> BootAlive(x)
      BY <1>1 DEF BootAlive
    <2>3. <<c, j>> \in Contexts \X (0 .. JobCount) /\ j # 0
      BY DEF Jobs
    <2>4. \A x \in Contexts \X (0 .. JobCount) :
            x[1] \in Contexts /\ (x[2] = 0 \/ x[2] \in Jobs)
      BY DEF Jobs
    <2>5. \A x \in Contexts \X (0 .. JobCount) : x[1] = c /\ x[2] = j <=> x = <<c, j>>
      OBVIOUS
    <2>6. \A y \in Jobs : y # 0
      OBVIOUS
    <2> QED BY <1>2, <2>1, <2>2, <2>3, <2>4, <2>5, <2>6 DEF Live
  <1>6. StartedOnce'
    BY <1>1, <1>2, <1>4 DEF IInv, StartedOnce, TickerAlive
  <1>7. boot' \in [Contexts -> Boot]
    BY <1>1 DEF IInv, TypeOK
  <1> QED BY <1>1, <1>4, <1>5, <1>6, <1>7, UncountIInv

-----------------------------------------------------------------------------
(* Steps of handlers *)

\* A request is taken on only while a context is left for it.
LEMMA RequestIInv ==
  ASSUME IInv, NEW h \in Handlers, NEW op \in Requests, Request(h, op)
  PROVE  IInv'
  <1> USE EngineAssumption
  <1>1. UNCHANGED <<isRunning, made, cancelled, wg, boot, ticker, interval>>
    BY DEF Request
  <1>2. op \in RequestKinds /\ handler' = [handler EXCEPT ![h] = [Idle EXCEPT !.op = op, !.pc = FirstPc(op)]]
    BY DEF Request
  <1>3. handler' \in [Handlers -> Handler] /\ PlaceOfRequest'
    <2> DEFINE r == [Idle EXCEPT !.op = op, !.pc = FirstPc(op)]
    <2>1. /\ FirstPc(op) \in {"start", "stop", "read", "lease"}
          /\ FirstPc(op) = "start" => op = "start"
          /\ FirstPc(op) = "stop" => op \in {"stop", "reset"}
          /\ FirstPc(op) = "read" => op = "update"
      BY <1>2 DEF FirstPc, RequestKinds
    <2>2. handler' = [handler EXCEPT ![h] = r]
      BY <1>2
    <2>3. r \in Handler /\ r.op = op /\ r.pc = FirstPc(op)
      <3>1. Idle \in Handler
        BY DEF Handler, Idle
      <3>2. FirstPc(op) \in {"start", "stop", "read", "lease"}
        BY <2>1
      <3> QED BY <1>2, <3>1, <3>2 DEF Handler
    <2> HIDE DEF r
    <2>4. handler' \in [Handlers -> Handler]
      BY <2>2, <2>3 DEF IInv, TypeOK
    <2>5. PlaceOfRequest'
      BY <2>1, <2>2, <2>3 DEF IInv, TypeOK, PlaceOfRequest
    <2> QED BY <2>4, <2>5
  <1>4. StartsBounded'
    <2>1. CASE op \in {"start", "update"}
      <3>1. Starters' = Starters \cup {h}
        BY <1>2, <2>1 DEF IInv, TypeOK, Starters, Handler, Idle
      <3>2. made + Cardinality(Starters) < MaxStarts
        BY <2>1 DEF Request, StartsLeft, Starters
      <3>3. Cardinality(Starters') <= Cardinality(Starters) + 1 /\ Cardinality(Starters') \in Nat
        <4>1. CASE h \in Starters
          <5>1. Starters' = Starters
            BY <3>1, <4>1
          <5> QED BY <5>1, Finite
        <4>2. CASE h \notin Starters
          <5>1. Cardinality(Starters') = Cardinality(Starters) + 1
            BY <3>1, <4>2, Finite, FS_AddElement
          <5> QED BY <5>1, Finite
        <4> QED BY <4>1, <4>2
      <3> QED BY <1>1, <3>2, <3>3, Finite DEF StartsBounded, IInv, TypeOK
    <2>2. CASE op \notin {"start", "update"}
      <3>1. Starters' = Starters \ {h}
        BY <1>2, <2>2 DEF IInv, TypeOK, Starters, Handler, Idle
      <3>2. Cardinality(Starters') <= Cardinality(Starters) /\ Cardinality(Starters') \in Nat
        BY <3>1, Finite, FS_Subset, FS_CardinalityType
      <3> QED BY <1>1, <3>2, Finite DEF StartsBounded, IInv, TypeOK
    <2> QED BY <2>1, <2>2
  <1>6. alone' \in BOOLEAN
    BY Zenon DEF Request
  <1>5. TypeOK' /\ StartedOnce' /\ WgCounts' /\ NoOrphan' /\ RunningMade'
    BY <1>1, <1>3, <1>6
    DEF IInv, RunningMade, TypeOK, StartedOnce, WgCounts, Live, BootAlive, TickerAlive, NoOrphan
  <1> QED BY <1>3, <1>4, <1>5 DEF IInv

\* A handler that starts nothing keeps its place or gives up its claim.
LEMMA CalmHandlers ==
  ASSUME IInv, NEW h \in Handlers,
         \/ StopAtOnce(h) \/ StopCancels(h) \/ Parks(h) \/ StopReturns(h) \/ WaitPanics(h)
         \/ UpdateReads(h) \/ UpdateWrites(h) \/ Truncate(h) \/ Trigger(h) \/ TriggerEnds(h)
  PROVE  /\ handler' \in [Handlers -> Handler]
         /\ PlaceOfRequest'
         /\ Starters' \subseteq Starters
  <1>1. handler \in [Handlers -> Handler] /\ handler[h] \in Handler
    BY DEF IInv, TypeOK
  <1>2. ASSUME NEW r \in Handler, handler' = [handler EXCEPT ![h] = r],
               r.op \in {handler[h].op, "none"},
               r.pc = "start" => r.op \in {"start", "update"},
               r.pc \in {"stop", "wait", "parked", "woken"} => r.op \in {"stop", "reset", "update"},
               r.pc \in {"read", "write", "restart"} => r.op = "update"
        PROVE  /\ handler' \in [Handlers -> Handler]
               /\ PlaceOfRequest'
               /\ Starters' \subseteq Starters
    <2>1. \A x \in Handlers : handler'[x] = IF x = h THEN r ELSE handler[x]
      BY <1>1, <1>2
    <2>2. Starters' \subseteq Starters
      BY <1>2, <2>1 DEF Starters
    <2>3. PlaceOfRequest'
      BY <1>2, <2>1 DEF IInv, PlaceOfRequest
    <2> QED BY <1>1, <1>2, <2>2, <2>3
  <1>3. CASE Return(h)
    <2>1. Idle \in Handler
      BY EngineAssumption DEF Idle, Handler
    <2> QED BY <1>2, <1>3, <2>1 DEF Return, Idle
  <1>4. ASSUME NEW pc, GoTo(h, pc),
               \/ pc = "start" /\ handler[h].op \in {"start", "update"}
               \/ pc \in {"stop", "parked"} /\ handler[h].op \in {"stop", "reset", "update"}
               \/ pc \in {"write", "restart"} /\ handler[h].op = "update"
               \/ pc = "truncate"
        PROVE  /\ handler' \in [Handlers -> Handler]
               /\ PlaceOfRequest'
               /\ Starters' \subseteq Starters
    <2> DEFINE r == [handler[h] EXCEPT !.pc = pc]
    <2>1. r \in Handler /\ r.op = handler[h].op /\ r.pc = pc
      BY <1>1, <1>4 DEF Handler
    <2>2. handler' = [handler EXCEPT ![h] = r]
      BY <1>4 DEF GoTo
    <2> HIDE DEF r
    <2> QED BY <1>2, <1>4, <2>1, <2>2
  <1>5. CASE AfterStop(h) /\ handler[h].pc \in {"stop", "wait", "woken"}
    <2>1. handler[h].op \in {"stop", "reset", "update"}
      BY <1>5 DEF IInv, PlaceOfRequest
    <2>2. \/ Return(h)
          \/ GoTo(h, "truncate")
          \/ GoTo(h, "restart") /\ handler[h].op = "update"
      BY <1>5, <2>1 DEF AfterStop
    <2> QED BY <1>3, <1>4, <2>2
  <1>6. CASE StopAtOnce(h) \/ StopReturns(h)
    BY <1>5, <1>6 DEF StopAtOnce, StopReturns
  <1>7. CASE StopCancels(h)
    <2> DEFINE r == [handler[h] EXCEPT !.pc = "wait", !.ctx = made]
    <2>1. r \in Handler /\ r.op = handler[h].op /\ r.pc = "wait"
      BY <1>1 DEF Handler, IInv, TypeOK
    <2>2. handler[h].op \in {"stop", "reset", "update"}
      BY <1>7 DEF StopCancels, IInv, PlaceOfRequest
    <2>3. handler' = [handler EXCEPT ![h] = r]
      BY <1>7 DEF StopCancels
    <2> HIDE DEF r
    <2> QED BY <1>2, <2>1, <2>2, <2>3
  <1>8. CASE Parks(h)
    BY <1>4, <1>8 DEF Parks, IInv, PlaceOfRequest
  <1>9. CASE UpdateReads(h)
    <2>1. handler[h].op = "update"
      BY <1>9 DEF UpdateReads, IInv, PlaceOfRequest
    <2>2. Return(h) \/ GoTo(h, "stop") \/ GoTo(h, "write")
      BY <1>9 DEF UpdateReads
    <2> QED BY <1>3, <1>4, <2>1, <2>2
  <1>10. CASE UpdateWrites(h)
    BY <1>3, <1>4, <1>10 DEF UpdateWrites, IInv, PlaceOfRequest
  <1>11. CASE Trigger(h)
    <2>1. CASE Return(h)
      BY <1>3, <2>1
    <2>2. ASSUME NEW j \in Jobs,
                 handler' = [handler EXCEPT ![h] = [@ EXCEPT !.pc = "job", !.job = j]]
          PROVE  /\ handler' \in [Handlers -> Handler]
                 /\ PlaceOfRequest'
                 /\ Starters' \subseteq Starters
      <3> DEFINE r == [handler[h] EXCEPT !.pc = "job", !.job = j]
      <3>1. r \in Handler /\ r.op = handler[h].op /\ r.pc = "job"
        <4>1. j \in 0 .. JobCount
          BY Places
        <4> QED BY <1>1, <4>1 DEF Handler
      <3>2. handler' = [handler EXCEPT ![h] = r]
        BY <2>2
      <3> HIDE DEF r
      <3> QED BY <1>2, <3>1, <3>2
    <2> QED BY <1>11, <2>1, <2>2 DEF Trigger
  <1>12. CASE WaitPanics(h) \/ Truncate(h) \/ TriggerEnds(h)
    BY <1>3, <1>12 DEF WaitPanics, Truncate, TriggerEnds
  <1> QED BY <1>6, <1>7, <1>8, <1>9, <1>10, <1>11, <1>12

LEMMA CalmIInv ==
  ASSUME IInv, NEW h \in Handlers,
         \/ StopAtOnce(h) \/ StopCancels(h) \/ Parks(h) \/ StopReturns(h) \/ WaitPanics(h)
         \/ UpdateReads(h) \/ UpdateWrites(h) \/ Truncate(h) \/ Trigger(h) \/ TriggerEnds(h)
  PROVE  IInv'
  <1> USE EngineAssumption
  <1>1. handler' \in [Handlers -> Handler] /\ PlaceOfRequest' /\ Starters' \subseteq Starters
    BY CalmHandlers
  <1>2. UNCHANGED <<made, wg, boot, ticker, alone>>
    BY DEF StopAtOnce, StopCancels, Parks, StopReturns, WaitPanics, UpdateReads, UpdateWrites,
           Truncate, Trigger, TriggerEnds, goroutines
  <1>3. interval' \in Intervals
    BY DEF StopAtOnce, StopCancels, Parks, StopReturns, WaitPanics, UpdateReads, UpdateWrites,
           Truncate, Trigger, TriggerEnds, IInv, TypeOK
  <1>4. \/ StopCancels(h)
        \/ UNCHANGED <<isRunning, cancelled>>
    BY DEF StopAtOnce, Parks, StopReturns, WaitPanics, UpdateReads, UpdateWrites,
           Truncate, Trigger, TriggerEnds
  <1>5. /\ isRunning' \in BOOLEAN /\ cancelled' \subseteq 1 .. made
        /\ NoOrphan' /\ RunningMade'
    <2>1. CASE StopCancels(h)
      <3>1. made \in 1 .. made
        <4>1. made # 0
          <5> QED BY <2>1 DEF StopCancels, IInv, RunningMade
        <4> QED BY <4>1 DEF IInv, TypeOK
      <3> QED BY <2>1, <3>1, <1>2 DEF StopCancels, IInv, TypeOK, NoOrphan, RunningMade
    <2>2. CASE UNCHANGED <<isRunning, cancelled>>
      BY <2>2, <1>2 DEF IInv, TypeOK, NoOrphan, RunningMade
    <2> QED BY <1>4, <2>1, <2>2
  <1>6. StartsBounded'
    <2>1. Cardinality(Starters') <= Cardinality(Starters) /\ Cardinality(Starters') \in Nat
      BY <1>1, Finite, FS_Subset, FS_CardinalityType
    <2> QED BY <1>2, <2>1, Finite DEF IInv, TypeOK, StartsBounded
  <1> QED BY <1>1, <1>2, <1>3, <1>5, <1>6
          DEF IInv, TypeOK, StartedOnce, WgCounts, Live, BootAlive, TickerAlive

\* A Start uses up one of the contexts left.
LEMMA StartIInv ==
  ASSUME IInv, NEW h \in Handlers, Start(h)
  PROVE  IInv'
  <1> USE EngineAssumption
  <1>1. handler' = [handler EXCEPT ![h] = Idle] /\ UNCHANGED <<cancelled, ticker, interval, alone>>
    BY DEF Start, Return
  <1>2. handler' \in [Handlers -> Handler] /\ PlaceOfRequest'
    BY <1>1 DEF IInv, TypeOK, Handler, Idle, PlaceOfRequest
  <1>3. h \in Starters /\ Starters' = Starters \ {h}
    BY <1>1 DEF Start, IInv, TypeOK, PlaceOfRequest, Starters, Handler, Idle
  <1>4. Cardinality(Starters') = Cardinality(Starters) - 1 /\ Cardinality(Starters') \in Nat
    BY <1>3, Finite, FS_RemoveElement, FS_CardinalityType
  <1>5. CASE isRunning
    <2>1. UNCHANGED <<isRunning, made, boot, wg>>
      BY <1>5 DEF Start
    <2>2. StartsBounded'
      BY <1>4, <2>1, Finite DEF IInv, TypeOK, StartsBounded
    <2> QED BY <1>1, <1>2, <2>1, <2>2
            DEF IInv, TypeOK, RunningMade, StartedOnce, WgCounts, Live, BootAlive, TickerAlive,
                NoOrphan
  <1>6. CASE ~isRunning
    <2> DEFINE c == made + 1
    <2>1. /\ isRunning' = TRUE /\ made' = c /\ wg' = wg + 1
          /\ boot' = [boot EXCEPT ![c] = NewBoot]
      BY <1>6 DEF Start
    <2>2. StartsBounded'
      BY <1>4, <2>1, Finite DEF IInv, TypeOK, StartsBounded
    <2>3. c \in Contexts /\ made' \in 0 .. MaxStarts
      BY <2>1, <2>2, <1>4 DEF StartsBounded, IInv, TypeOK, Contexts
    <2>4. boot[c] = NoBoot
      BY <2>3 DEF IInv, TypeOK, StartedOnce, Contexts
    <2>5. boot' \in [Contexts -> Boot] /\ cancelled' \subseteq 1 .. made'
      <3>1. NewBoot \in Boot
        BY Places DEF Boot, NewBoot, Pc
      <3>2. boot' \in [Contexts -> Boot]
        BY <2>1, <3>1 DEF IInv, TypeOK
      <3>3. \A x \in cancelled : x \in 1 .. made
        BY DEF IInv, TypeOK
      <3>4. made \in Nat
        BY DEF IInv, TypeOK
      <3>5. \A x \in 1 .. made : x \in 1 .. made + 1
        BY <3>4
      <3>6. cancelled' = cancelled /\ made' = made + 1
        BY <1>1, <2>1
      <3> QED BY <3>2, <3>3, <3>5, <3>6
    <2>6. StartedOnce'
      <3>1. \A x \in Contexts : boot'[x].at = boot[x].at
        BY <2>1, <2>3, <2>4 DEF IInv, TypeOK, NoBoot, NewBoot
      <3>2. \A x \in Contexts : x > c => boot'[x] = NoBoot
        BY <2>1, <2>3 DEF IInv, TypeOK, StartedOnce, Contexts
      <3> QED BY <1>1, <2>1, <3>1, <3>2 DEF IInv, StartedOnce
    <2>7. Live' = Live \cup {<<c, 0>>} /\ <<c, 0>> \notin Live
      <3>1. ~BootAlive(c) /\ \A x \in Contexts : BootAlive(x)' <=> BootAlive(x) \/ x = c
        BY <2>1, <2>3, <2>4 DEF IInv, TypeOK, BootAlive, NoBoot, NewBoot
      <3>2. \A x \in Contexts, y \in Jobs : TickerAlive(x, y)' <=> TickerAlive(x, y)
        BY <1>1 DEF TickerAlive
      <3>3. \A x \in Contexts \X (0 .. JobCount) : x[1] \in Contexts /\ (x[2] = 0 \/ x[2] \in Jobs)
        BY DEF Jobs
      <3>4. <<c, 0>> \in Contexts \X (0 .. JobCount)
        BY <2>3
      <3> QED BY <3>1, <3>2, <3>3, <3>4 DEF Live, Jobs
    <2>8. WgCounts' /\ wg' \in Nat
      <3>1. Cardinality(Live') = Cardinality(Live) + 1
        BY <2>7, Finite, FS_AddElement
      <3> QED BY <2>1, <3>1, Finite DEF IInv, WgCounts
    <2>9. NoOrphan' /\ RunningMade'
      <3>1. \A x \in 1 .. made : x \in cancelled
        BY <1>6 DEF IInv, NoOrphan
      <3>2. made \in Nat
        BY DEF IInv, TypeOK
      <3>3. \A x \in 1 .. c : x \in 1 .. made \/ x = c
        BY <3>2
      <3> QED BY <1>1, <2>1, <3>1, <3>2, <3>3 DEF NoOrphan, RunningMade
    <2> QED BY <1>1, <1>2, <2>1, <2>2, <2>3, <2>5, <2>6, <2>8, <2>9 DEF IInv, TypeOK
  <1> QED BY <1>5, <1>6

LEMMA NextIInv == IInv /\ [Next]_vars => IInv'
  <1> SUFFICES ASSUME IInv, [Next]_vars PROVE IInv'
    OBVIOUS
  <1>1. ASSUME NEW c \in Contexts, GoroutineStep(c) PROVE IInv'
    BY <1>1, BootWorkIInv, TickerWorkIInv, StartJobIInv, BootReturnsIInv, TickerReturnsIInv DEF GoroutineStep
  <1>2. ASSUME NEW h \in Handlers, HandlerStep(h) PROVE IInv'
    BY <1>2, StartIInv, CalmIInv DEF HandlerStep
  <1>3. ASSUME NEW h \in Handlers, NEW op \in Requests, Request(h, op) PROVE IInv'
    BY <1>3, RequestIInv
  <1>4. CASE UNCHANGED vars
    BY <1>4 DEF vars, IInv, TypeOK, StartsBounded, Starters, PlaceOfRequest, StartedOnce, WgCounts,
                Live, BootAlive, TickerAlive, NoOrphan, RunningMade
  <1> QED BY <1>1, <1>2, <1>3, <1>4 DEF Next

THEOREM InvariantAlways == Spec => []IInv
  BY InitIInv, NextIInv, PTL DEF Spec

\* Type correctness: in particular the WaitGroup's counter is never negative,
\* which would end the process.
THEOREM EngineTypeCorrect == Spec => []TypeOK
  <1>1. IInv => TypeOK
    BY DEF IInv
  <1> QED BY <1>1, InvariantAlways, PTL

\* No context is left running where no Stop can reach it.
THEOREM NoOrphanAlways == Spec => []NoOrphan
  <1>1. IInv => NoOrphan
    BY DEF IInv
  <1> QED BY <1>1, InvariantAlways, PTL

\* When the counter is zero no goroutine is left.
LEMMA NothingAlive ==
  ASSUME IInv, wg = 0, NEW c \in Contexts PROVE ~Alive(c)
  <1>1. Live = {}
    BY Finite, FS_EmptySet DEF IInv, WgCounts
  <1>2. <<c, 0>> \in Contexts \X (0 .. JobCount)
        /\ \A j \in Jobs : <<c, j>> \in Contexts \X (0 .. JobCount) /\ j # 0
    BY EngineAssumption DEF Jobs
  <1>3. ~BootAlive(c)
    BY <1>1, <1>2 DEF Live
  <1>4. \A j \in Jobs : ~TickerAlive(c, j)
    <2> TAKE j \in Jobs
    <2>1. <<c, j>> \in Contexts \X (0 .. JobCount) /\ j # 0 /\ <<c, j>> \notin Live
      BY <1>1, <1>2
    <2> QED BY <2>1 DEF Live
  <1> QED BY <1>3, <1>4 DEF Alive

\* A Stop that has waited leaves no goroutine of the contexts up to its own.
THEOREM StopIsCompleteAlways == Spec => StopIsComplete
  <1> DEFINE Quiet == \A h \in Handlers :
                        StopReturns(h) => \A c \in 1 .. handler[h].ctx : ~Alive(c)
  <1>1. IInv => Quiet
    <2> SUFFICES ASSUME IInv, NEW h \in Handlers, StopReturns(h),
                        NEW c \in 1 .. handler[h].ctx
                 PROVE  ~Alive(c)
      OBVIOUS
    <2>1. c \in Contexts
      BY EngineAssumption DEF IInv, TypeOK, Handler, Contexts
    <2> QED BY <2>1, NothingAlive DEF StopReturns
  <1>2. IInv /\ [Next]_vars => [Quiet]_vars
    BY <1>1
  <1> QED BY <1>2, InvariantAlways, PTL DEF Spec, StopIsComplete

-----------------------------------------------------------------------------
(* Who waits for whom *)

\* Goroutines of a stopped engine are waited for.
Waited == ~isRunning => wg = 0 \/ \E h \in Handlers : handler[h].pc \in {"wait", "parked"}

\* A goroutine's step: it was counted, and if it is the last to return it
\* wakes those who wait.
LEMMA GoroutineSteps ==
  ASSUME IInv, NEW c \in Contexts, GoroutineStep(c)
  PROVE  /\ wg # 0
         /\ UNCHANGED isRunning
         /\ \/ UNCHANGED handler
            \/ /\ wg' = 0
               /\ handler' = [h \in Handlers |-> IF handler[h].pc = "parked"
                                                 THEN [handler[h] EXCEPT !.pc = "woken"]
                                                 ELSE handler[h]]
  <1>1. Alive(c)
    BY DEF GoroutineStep, BootStartsJob, BootNextJob, BootReturns, startJob, TickerStartsJob,
       TickerEndsJob, TickerReturns, Alive, BootAlive, TickerAlive
  <1>2. wg # 0
    BY <1>1, NothingAlive
  <1>3. CASE Done /\ UNCHANGED isRunning
    <2>1. CASE wg = 1
      BY <1>2, <1>3, <2>1 DEF Done
    <2>2. CASE wg # 1
      <3>1. handler' = [h \in Handlers |-> handler[h]]
        BY <1>3, <2>2, Zenon DEF Done
      <3>2. handler' = handler
        BY <3>1 DEF IInv, TypeOK
      <3> QED BY <1>2, <1>3, <3>2
    <2> QED BY <2>1, <2>2
  <1>4. CASE UNCHANGED <<isRunning, handler>>
    BY <1>2, <1>4
  <1>5. (Done /\ UNCHANGED isRunning) \/ UNCHANGED <<isRunning, handler>>
    BY DEF GoroutineStep, BootStartsJob, BootNextJob, BootReturns, startJob, TickerStartsJob,
       TickerEndsJob, TickerReturns
  <1> QED BY <1>3, <1>4, <1>5

\* A handler's step moves no other handler.
LEMMA OneHandlerMoves ==
  ASSUME IInv, NEW h \in Handlers, HandlerStep(h) \/ \E op \in Requests : Request(h, op)
  PROVE  \A x \in Handlers \ {h} : handler'[x] = handler[x]
  <1>1. handler \in [Handlers -> Handler]
    BY DEF IInv, TypeOK
  <1>2. AfterStop(h) /\ handler[h].op \in {"stop", "reset", "update"}
          => Return(h) \/ \E pc : GoTo(h, pc)
    BY DEF AfterStop
  <1>3. StopAtOnce(h) \/ StopReturns(h) => Return(h) \/ \E pc : GoTo(h, pc)
    BY <1>2 DEF StopAtOnce, StopReturns, IInv, PlaceOfRequest
  <1>4. \/ Return(h)
        \/ \E pc : GoTo(h, pc)
        \/ \E r : handler' = [handler EXCEPT ![h] = r]
    BY <1>3 DEF HandlerStep, Start, StopCancels, Parks, WaitPanics, UpdateReads, UpdateWrites,
       Truncate, Trigger, TriggerEnds, Request
  <1> QED BY <1>1, <1>4 DEF Return, GoTo

LEMMA WaitedStep ==
  ASSUME IInv, Waited, [Next]_vars PROVE Waited'
  <1>0. handler \in [Handlers -> Handler]
    BY DEF IInv, TypeOK
  <1>1. ASSUME NEW c \in Contexts, GoroutineStep(c) PROVE Waited'
    BY <1>1, GoroutineSteps DEF Waited
  <1>2. ASSUME NEW h \in Handlers, HandlerStep(h) PROVE Waited'
    <2>1. CASE Start(h)
      BY <2>1 DEF Start, Waited
    <2>2. CASE StopCancels(h)
      <3>1. handler'[h].pc = "wait"
        BY <2>2, <1>0 DEF StopCancels, Handler
      <3> QED BY <3>1 DEF Waited
    <2>3. CASE Parks(h)
      <3>1. handler'[h].pc = "parked"
        BY <2>3, <1>0 DEF Parks, GoTo, Handler
      <3> QED BY <3>1 DEF Waited
    <2>4. CASE StopReturns(h)
      BY <2>4 DEF StopReturns, goroutines, Waited
    <2>5. CASE \/ StopAtOnce(h) \/ WaitPanics(h) \/ UpdateReads(h) \/ UpdateWrites(h)
               \/ Truncate(h) \/ Trigger(h) \/ TriggerEnds(h)
      <3>1. UNCHANGED <<isRunning, wg>> /\ handler[h].pc \notin {"wait", "parked"}
        BY <2>5 DEF StopAtOnce, WaitPanics, UpdateReads, UpdateWrites, Truncate, Trigger,
           TriggerEnds, goroutines
      <3> QED BY <1>2, <3>1, OneHandlerMoves DEF Waited
    <2> QED BY <1>2, <2>1, <2>2, <2>3, <2>4, <2>5 DEF HandlerStep
  <1>3. ASSUME NEW h \in Handlers, NEW op \in Requests, Request(h, op) PROVE Waited'
    <2>1. UNCHANGED <<isRunning, wg>> /\ handler[h].pc \notin {"wait", "parked"}
      BY <1>3 DEF Request
    <2> QED BY <1>3, <2>1, OneHandlerMoves DEF Waited
  <1>4. CASE UNCHANGED vars
    BY <1>4 DEF vars, Waited
  <1> QED BY <1>1, <1>2, <1>3, <1>4 DEF Next

LEMMA WaitedAlways == Spec => []Waited
  <1>1. Init => Waited
    BY DEF Init, Waited
  <1> QED BY <1>1, WaitedStep, InvariantAlways, PTL DEF Spec

-----------------------------------------------------------------------------
(* Requests that come one at a time *)

OneAtATime ==
  \A h, x \in Handlers : handler[h].pc # "idle" /\ handler[x].pc # "idle" => h = x

\* No handler runs a job itself.
NoTrigger == \A h \in Handlers : handler[h].pc \notin {"lease", "job"}

\* The contexts before the last have no goroutine left.
LastContext == \A c \in Contexts : Alive(c) => c = made

\* Between its Stop and its Start a handler has the engine stopped.
StoppedPlaces ==
  \A h \in Handlers :
    handler[h].pc \in {"wait", "parked", "woken", "write", "restart", "truncate"} => ~isRunning

Punctual ==
  \A c \in Contexts, j \in Jobs : TickerAlive(c, j) => ticker[c][j].every = interval

AloneInv == OneAtATime /\ NoTrigger /\ LastContext /\ StoppedPlaces /\ Punctual

\* The one request under way finds every goroutine of a stopped engine gone,
\* unless it is in wg.Wait.
LEMMA AllGone ==
  ASSUME IInv, Waited, OneAtATime, ~isRunning,
         NEW h \in Handlers, handler[h].pc \notin {"idle", "wait", "parked"}
  PROVE  \A c \in Contexts : ~Alive(c)
  <1>1. \A x \in Handlers : handler[x].pc \notin {"wait", "parked"}
    BY DEF OneAtATime
  <1> QED BY <1>1, NothingAlive DEF Waited

\* A goroutine's step brings none back, and a ticker starts with the settings
\* of that moment.
LEMMA GoroutinesShrink ==
  ASSUME IInv, NEW c \in Contexts, GoroutineStep(c)
  PROVE  /\ UNCHANGED <<isRunning, made, interval, alone>>
         /\ \A x \in Contexts : Alive(x)' => Alive(x)
         /\ \A x \in Contexts, y \in Jobs :
              TickerAlive(x, y)' =>
                \/ TickerAlive(x, y) /\ ticker'[x][y].every = ticker[x][y].every
                \/ ticker'[x][y].every = interval
  <1>0. boot \in [Contexts -> Boot] /\ ticker \in [Contexts -> [Jobs -> Ticker]]
    BY DEF IInv, TypeOK
  <1>1. UNCHANGED <<isRunning, made, interval, alone>> /\ Alive(c)
    BY DEF GoroutineStep, BootStartsJob, BootNextJob, BootReturns, startJob, TickerStartsJob,
       TickerEndsJob, TickerReturns, Alive, BootAlive, TickerAlive
  <1>2. \A x \in Contexts \ {c} : boot'[x] = boot[x] /\ ticker'[x] = ticker[x]
    BY <1>0 DEF GoroutineStep, BootStartsJob, BootNextJob, BootReturns, startJob, TickerStartsJob,
       TickerEndsJob, TickerReturns
  <1>3. \A x \in Contexts : Alive(x)' => Alive(x)
    BY <1>1, <1>2 DEF Alive, BootAlive, TickerAlive
  <1>4. ASSUME NEW y \in Jobs, TickerAlive(c, y)'
        PROVE  \/ TickerAlive(c, y) /\ ticker'[c][y].every = ticker[c][y].every
               \/ ticker'[c][y].every = interval
    <2>1. CASE UNCHANGED ticker
      BY <1>4, <2>1 DEF TickerAlive
    <2>2. ASSUME NEW j \in Jobs, startJob(c, j)
          PROVE  \/ TickerAlive(c, y) /\ ticker'[c][y].every = ticker[c][y].every
                 \/ ticker'[c][y].every = interval
      BY <1>0, <1>4, <2>2 DEF startJob, TickerAlive
    <2>3. ASSUME NEW j \in Jobs, TickerStartsJob(c, j) \/ TickerEndsJob(c, j) \/ TickerReturns(c, j)
          PROVE  TickerAlive(c, y) /\ ticker'[c][y].every = ticker[c][y].every
      <3>1. TickerAlive(c, j)
        BY <2>3 DEF TickerStartsJob, TickerEndsJob, TickerReturns, TickerAlive
      <3>2. PICK pc : ticker' = [ticker EXCEPT ![c][j].pc = pc]
        BY <2>3 DEF TickerStartsJob, TickerEndsJob, TickerReturns
      <3>3. ticker[c][j] \in Ticker
        BY <1>0
      <3>4. ticker'[c][y].every = ticker[c][y].every
        BY <1>0, <3>2, <3>3 DEF Ticker
      <3>5. y # j => ticker'[c][y] = ticker[c][y]
        BY <1>0, <3>2
      <3> QED BY <1>4, <3>1, <3>4, <3>5 DEF TickerAlive
    <2>4. UNCHANGED ticker \/ \E j \in Jobs : startJob(c, j) \/ TickerStartsJob(c, j)
                                              \/ TickerEndsJob(c, j) \/ TickerReturns(c, j)
      BY DEF GoroutineStep, BootStartsJob, BootNextJob, BootReturns
    <2> QED BY <2>1, <2>2, <2>3, <2>4
  <1> QED BY <1>1, <1>2, <1>3, <1>4 DEF TickerAlive

LEMMA AloneGoroutine ==
  ASSUME IInv, AloneInv, NEW c \in Contexts, GoroutineStep(c)
  PROVE  AloneInv'
  <1>1. /\ UNCHANGED <<isRunning, made, interval, alone>>
        /\ \A x \in Contexts : Alive(x)' => Alive(x)
        /\ \A x \in Contexts, y \in Jobs :
             TickerAlive(x, y)' =>
               \/ TickerAlive(x, y) /\ ticker'[x][y].every = ticker[x][y].every
               \/ ticker'[x][y].every = interval
    BY GoroutinesShrink
  <1>2. \A h \in Handlers : handler'[h].pc = handler[h].pc
                            \/ (handler[h].pc = "parked" /\ handler'[h].pc = "woken")
    <2>1. CASE UNCHANGED handler
      BY <2>1
    <2>2. CASE ~UNCHANGED handler
      <3>1. \A h \in Handlers : handler'[h] = IF handler[h].pc = "parked"
                                              THEN [handler[h] EXCEPT !.pc = "woken"] ELSE handler[h]
        BY <2>2, GoroutineSteps
      <3> QED BY <3>1 DEF IInv, TypeOK, Handler
    <2> QED BY <2>1, <2>2
  <1>3. OneAtATime' /\ NoTrigger' /\ StoppedPlaces'
    BY <1>1, <1>2 DEF AloneInv, OneAtATime, NoTrigger, StoppedPlaces
  <1>4. LastContext' /\ Punctual'
    BY <1>1 DEF AloneInv, LastContext, Punctual
  <1> QED BY <1>3, <1>4 DEF AloneInv

\* The one request under way goes on: where it gets to, and that it gets
\* between Stop and Start only with the engine stopped.
LEMMA AlonePlaces ==
  ASSUME IInv, AloneInv, NEW h \in Handlers, HandlerStep(h)
  PROVE  OneAtATime' /\ NoTrigger' /\ StoppedPlaces'
  <1>0. handler \in [Handlers -> Handler] /\ handler[h] \in Handler
    BY DEF IInv, TypeOK
  <1>1. \A x \in Handlers \ {h} : handler[x].pc = "idle" /\ handler'[x] = handler[x]
    <2>1. handler[h].pc # "idle"
      BY DEF HandlerStep, Start, StopAtOnce, StopCancels, Parks, StopReturns, WaitPanics,
         UpdateReads, UpdateWrites, Truncate, Trigger, TriggerEnds
    <2> QED BY <2>1, OneHandlerMoves DEF AloneInv, OneAtATime
  <1> DEFINE Stopped == {"wait", "parked", "woken", "write", "restart", "truncate"}
  <1>2. ASSUME handler'[h].pc \notin {"lease", "job"},
               handler'[h].pc \in Stopped => ~isRunning'
        PROVE  OneAtATime' /\ NoTrigger' /\ StoppedPlaces'
    BY <1>1, <1>2 DEF OneAtATime, NoTrigger, StoppedPlaces
  <1>3. CASE Return(h)
    <2>1. handler'[h].pc = "idle"
      BY <1>0, <1>3 DEF Return, Idle
    <2> QED BY <1>2, <2>1
  <1>4. ASSUME NEW pc, GoTo(h, pc), pc \notin {"lease", "job"}, pc \in Stopped => ~isRunning'
        PROVE  OneAtATime' /\ NoTrigger' /\ StoppedPlaces'
    <2>1. handler'[h].pc = pc
      BY <1>0, <1>4 DEF GoTo, Handler
    <2> QED BY <1>2, <1>4, <2>1
  <1>5. ASSUME AfterStop(h), handler[h].pc \in {"stop", "wait", "woken"}, ~isRunning'
        PROVE  OneAtATime' /\ NoTrigger' /\ StoppedPlaces'
    <2>1. Return(h) \/ GoTo(h, "truncate") \/ GoTo(h, "restart")
      BY <1>5 DEF AfterStop, IInv, PlaceOfRequest
    <2> QED BY <1>3, <1>4, <1>5, <2>1
  <1>6. CASE StopAtOnce(h) \/ StopReturns(h)
    <2>1. ~isRunning'
      BY <1>6 DEF StopAtOnce, StopReturns, AloneInv, StoppedPlaces
    <2> QED BY <1>5, <1>6, <2>1 DEF StopAtOnce, StopReturns
  <1>7. CASE StopCancels(h)
    <2>1. handler'[h].pc = "wait" /\ ~isRunning'
      BY <1>0, <1>7 DEF StopCancels, Handler
    <2> QED BY <1>2, <2>1
  <1>8. CASE Parks(h)
    BY <1>4, <1>8 DEF Parks, AloneInv, StoppedPlaces
  <1>9. CASE UpdateReads(h)
    <2>1. UNCHANGED isRunning
      BY <1>9 DEF UpdateReads
    <2>2. Return(h) \/ (isRunning /\ GoTo(h, "stop")) \/ (~isRunning /\ GoTo(h, "write"))
      BY <1>9 DEF UpdateReads
    <2> QED BY <1>3, <1>4, <2>1, <2>2
  <1>10. CASE UpdateWrites(h)
    BY <1>3, <1>4, <1>10 DEF UpdateWrites
  <1>11. CASE Start(h) \/ WaitPanics(h) \/ Truncate(h)
    BY <1>3, <1>11 DEF Start, WaitPanics, Truncate
  <1>12. ~Trigger(h) /\ ~TriggerEnds(h)
    BY DEF Trigger, TriggerEnds, AloneInv, NoTrigger
  <1> QED BY <1>6, <1>7, <1>8, <1>9, <1>10, <1>11, <1>12 DEF HandlerStep

\* It makes a context, or changes the settings, when no goroutine is left.
LEMMA AloneHandler ==
  ASSUME IInv, Waited, AloneInv, NEW h \in Handlers, HandlerStep(h)
  PROVE  AloneInv'
  <1>1. OneAtATime' /\ NoTrigger' /\ StoppedPlaces'
    BY AlonePlaces
  <1>2. CASE UNCHANGED <<made, boot, ticker, interval>>
    BY <1>1, <1>2 DEF AloneInv, LastContext, Punctual, Alive, BootAlive, TickerAlive
  <1>3. CASE Start(h) /\ ~isRunning
    <2>1. \A c \in Contexts : ~Alive(c)
      BY <1>3, AllGone DEF Start, AloneInv
    <2>2. made' = made + 1 /\ boot' = [boot EXCEPT ![made + 1] = NewBoot]
          /\ UNCHANGED <<ticker, interval>>
      BY <1>3 DEF Start
    <2>3. \A c \in Contexts : Alive(c)' => c = made'
      BY <2>1, <2>2 DEF IInv, TypeOK, Alive, BootAlive, TickerAlive
    <2>4. Punctual'
      BY <2>1, <2>2 DEF Punctual, Alive, TickerAlive
    <2> QED BY <1>1, <2>3, <2>4 DEF AloneInv, LastContext
  <1>4. CASE UpdateWrites(h)
    <2>1. \A c \in Contexts : ~Alive(c)
      BY <1>4, AllGone DEF UpdateWrites, AloneInv, StoppedPlaces
    <2>2. UNCHANGED <<made, boot, ticker>>
      BY <1>4 DEF UpdateWrites, goroutines
    <2> QED BY <1>1, <2>1, <2>2
            DEF AloneInv, LastContext, Punctual, Alive, BootAlive, TickerAlive
  <1>5. \/ UNCHANGED <<made, boot, ticker, interval>>
        \/ Start(h) /\ ~isRunning
        \/ UpdateWrites(h)
    BY DEF HandlerStep, Start, StopAtOnce, StopCancels, Parks, StopReturns, WaitPanics,
       UpdateReads, Truncate, Trigger, TriggerEnds, goroutines
  <1> QED BY <1>2, <1>3, <1>4, <1>5

\* A request that keeps alone true comes when nothing is under way.
LEMMA AloneRequest ==
  ASSUME IInv, AloneInv, NEW h \in Handlers, NEW op \in Requests, Request(h, op), alone'
  PROVE  AloneInv'
  <1>1. /\ \A x \in Handlers : handler[x].pc = "idle"
        /\ op # "trigger"
        /\ UNCHANGED <<isRunning, made, boot, ticker, interval>>
    BY DEF Request
  <1> DEFINE r == [Idle EXCEPT !.op = op, !.pc = FirstPc(op)]
  <1>2. handler' = [handler EXCEPT ![h] = r] /\ r.pc = FirstPc(op)
    BY DEF Request, Idle
  <1> HIDE DEF r
  <1>3. FirstPc(op) \in {"start", "stop", "read"}
    BY <1>1, EngineAssumption DEF FirstPc, RequestKinds
  <1>4. OneAtATime' /\ NoTrigger' /\ StoppedPlaces'
    BY <1>1, <1>2, <1>3 DEF IInv, TypeOK, OneAtATime, NoTrigger, StoppedPlaces
  <1> QED BY <1>1, <1>4 DEF AloneInv, LastContext, Punctual, Alive, BootAlive, TickerAlive

LEMMA AloneStep ==
  ASSUME IInv, Waited, alone => AloneInv, [Next]_vars PROVE (alone => AloneInv)'
  <1>1. ASSUME NEW c \in Contexts, GoroutineStep(c) PROVE (alone => AloneInv)'
    BY <1>1, AloneGoroutine, GoroutinesShrink
  <1>2. ASSUME NEW h \in Handlers, HandlerStep(h) PROVE (alone => AloneInv)'
    <2>1. UNCHANGED alone
      BY <1>2 DEF HandlerStep, Start, StopAtOnce, StopCancels, Parks, StopReturns, WaitPanics,
         UpdateReads, UpdateWrites, Truncate, Trigger, TriggerEnds
    <2> QED BY <1>2, <2>1, AloneHandler
  <1>3. ASSUME NEW h \in Handlers, NEW op \in Requests, Request(h, op)
        PROVE  (alone => AloneInv)'
    <2>1. alone' => alone
      BY <1>3 DEF Request
    <2> QED BY <1>3, <2>1, AloneRequest
  <1>4. CASE UNCHANGED vars
    BY <1>4 DEF vars, AloneInv, OneAtATime, NoTrigger, LastContext, StoppedPlaces, Punctual, Alive,
                BootAlive, TickerAlive
  <1> QED BY <1>1, <1>2, <1>3, <1>4 DEF Next

LEMMA AloneAlways == Spec => [](alone => AloneInv)
  <1>1. Init => AloneInv
    BY DEF Init, AloneInv, OneAtATime, NoTrigger, LastContext, StoppedPlaces, Punctual, Idle,
       Alive, BootAlive, TickerAlive, NoBoot
  <1> QED BY <1>1, AloneStep, InvariantAlways, WaitedAlways, PTL DEF Spec

\* No job runs beside itself in a process whose requests come one at a time:
\* an old context has no goroutine, no handler runs a job, and the initial
\* execution has done a job's turn before that job's ticker starts.
THEOREM JobsSerialAlways == Spec => []JobsSerial
  <1>1. IInv /\ (alone => AloneInv) => JobsSerial
    <2> SUFFICES ASSUME IInv, AloneInv, NEW j \in Jobs PROVE Cardinality(AtJob(j)) <= 1
      BY DEF JobsSerial
    <2>1. \A h \in Handlers : handler[h].pc # "job"
      BY DEF AloneInv, NoTrigger
    <2>2. \A c \in Contexts : boot[c].pc = "works" \/ ticker[c][j].pc = "works" => c = made
      BY DEF AloneInv, LastContext, Alive, BootAlive, TickerAlive
    <2>3. \A c \in Contexts : ~(boot[c].pc = "works" /\ boot[c].at = j /\ ticker[c][j].pc = "works")
      <3>1. j <= JobCount + j
        BY Places
      <3> QED BY <3>1 DEF IInv, StartedOnce
    <2>4. AtJob(j) \subseteq {<<"boot", made>>} \/ AtJob(j) \subseteq {<<"ticker", made>>}
      BY <2>1, <2>2, <2>3 DEF AtJob
    <2>5. ASSUME NEW x, AtJob(j) \subseteq {x} PROVE Cardinality(AtJob(j)) <= 1
      <3>1. IsFiniteSet({x}) /\ Cardinality({x}) = 1
        BY FS_Singleton
      <3> QED BY <2>5, <3>1, FS_Subset
    <2> QED BY <2>4, <2>5
  <1> QED BY <1>1, AloneAlways, InvariantAlways, PTL

\* A reset between such requests truncates the tables of a process at rest.
THEOREM ResetAloneAlways == Spec => ResetAlone
  <1> DEFINE Rest == \A h \in Handlers :
                       Truncate(h) /\ alone => ~isRunning /\ \A j \in Jobs : AtJob(j) = {}
  <1>1. IInv /\ Waited /\ (alone => AloneInv) => Rest
    <2> SUFFICES ASSUME IInv, Waited, AloneInv, NEW h \in Handlers, handler[h].pc = "truncate"
                 PROVE  ~isRunning /\ \A j \in Jobs : AtJob(j) = {}
      BY DEF Truncate
    <2>1. ~isRunning
      BY DEF AloneInv, StoppedPlaces
    <2>2. \A c \in Contexts : ~Alive(c)
      BY <2>1, AllGone DEF AloneInv
    <2>3. \A c \in Contexts, j \in Jobs : boot[c].pc # "works" /\ ticker[c][j].pc # "works"
      BY <2>2 DEF Alive, BootAlive, TickerAlive
    <2>4. \A x \in Handlers : handler[x].pc # "job"
      BY DEF AloneInv, NoTrigger
    <2> QED BY <2>1, <2>3, <2>4 DEF AtJob
  <1>2. IInv /\ Waited /\ (alone => AloneInv) /\ [Next]_vars => [Rest]_vars
    BY <1>1
  <1> QED BY <1>2, AloneAlways, InvariantAlways, WaitedAlways, PTL DEF Spec, ResetAlone

\* Settings take effect: no ticker of a running engine keeps an old interval.
THEOREM SettingsApplyAlways == Spec => []SettingsApply
  <1>1. IInv /\ (alone => AloneInv) => SettingsApply
    <2> SUFFICES ASSUME IInv, AloneInv, isRunning, NEW j \in Jobs, TickerAlive(made, j)
                 PROVE  ticker[made][j].every = interval
      BY DEF SettingsApply
    <2>1. made \in Contexts
      BY EngineAssumption DEF IInv, TypeOK, RunningMade, Contexts
    <2> QED BY <2>1 DEF AloneInv, Punctual
  <1> QED BY <1>1, AloneAlways, InvariantAlways, PTL

\* Among such requests wg.Wait never panics: it takes a Start beside the Stop.
THEOREM NoPanicAlone == Spec => [][\A h \in Handlers : alone => ~WaitPanics(h)]_vars
  <1> DEFINE Calm == \A h \in Handlers : alone => ~WaitPanics(h)
  <1>1. IInv /\ Waited /\ (alone => AloneInv) => Calm
    <2> SUFFICES ASSUME IInv, Waited, AloneInv, NEW h \in Handlers, WaitPanics(h)
                 PROVE  FALSE
      OBVIOUS
    <2>1. handler[h].pc = "woken" /\ ~isRunning
      BY DEF WaitPanics, AloneInv, StoppedPlaces
    <2>2. \A x \in Handlers : handler[x].pc \notin {"wait", "parked"}
      BY <2>1 DEF AloneInv, OneAtATime
    <2>3. wg = 0
      BY <2>1, <2>2 DEF Waited
    <2> QED BY <2>2, <2>3 DEF WaitPanics
  <1>2. IInv /\ Waited /\ (alone => AloneInv) /\ [Next]_vars => [Calm]_vars
    BY <1>1
  <1> QED BY <1>2, AloneAlways, InvariantAlways, WaitedAlways, PTL DEF Spec
=============================================================================
