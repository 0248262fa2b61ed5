# Tetra engine: specifications, model checks and proofs

The Tetra engine copies orders and cartons from the warehouse system Flux into
PostgreSQL, chooses a carton for every order, and pushes the choice back to Flux.
These modules describe that engine in TLA+, check it with TLC on small instances and
prove the main results with TLAPS for every value of the constants. Paths are
relative to the repository; `recommendation.go` is
`internal/service/recommendation.go`.

## The system

| Component | State | Operations | Talks to |
|---|---|---|---|
| Tables and repositories (`internal/repository`, `migrations`) | rows of `orders`, `order_items`, `cartons`, `push_outbox` | one SQL statement or transaction each | every job |
| Job 1, order sync (`doSyncOrders`) | the listed orders, the workers under way | list; up to 10 workers fetch, upsert, replace items; SYNCED to PENDING | Flux GET, tables |
| Job 2, carton sync (`doSyncCartons`) | the fetched catalogue | upsert carton by carton | Flux GET, tables |
| Job 3, recommendation (`doProcessRecommendations`) | cartons, page, items, `lastID` | count, read cartons, page, items, decide order by order | tables, carton choice |
| Carton choice (`FindBestCarton`) | loop position | first carton by volume that is large, strong and long enough | job 3 |
| Job 4, push (`doPushRecommendations`) | page, resolved Flux id, `cartonMap`, batch | enqueue intents; deliver due rows; mark delivered or retry | tables, Flux POST |
| Flux client (`internal/client`) | attempt counter | GET and POST with attempts, backoff and an ended context | Flux |
| Leader lease (`scheduler_lock.go`, `runManagedJob`) | the row of `scheduler_leader` | acquire, renew, take over | all instances |
| Scheduler engine (`internal/scheduler`, `internal/server`) | `isRunning`, context, WaitGroup, tickers | start, stop, update intervals, manual trigger, reset | jobs, HTTP |
| Scheduler log (`scheduler_log.go`) | rows of `scheduler_logs` | start, finish | jobs |
| Process (`cmd/tetra`, fx hooks) | which hooks have run | start scheduler, listen; drain, stop scheduler, exit | engine, HTTP |
| Dashboard reads, health, metrics, configuration, connection, migration, web | none of the engine's | reads and I/O | – |

The jobs share nothing but the database. A job's run is one goroutine (job 1: many)
that alternates between statements; between two statements it holds copies of what
it read. What is hard: runs of a job overlap, because a manual trigger runs beside
the ticker and because the lease of another instance can lapse while a job runs; a
run can end anywhere (its context ends, a query fails, the process dies); Flux may
apply a request whose answer is lost; an outbox row and an order change together or
not at all; and every run acts on snapshots that may be stale.

What makes each part correct:

* tables: one assignment per order for ever; outbox and order close together;
* jobs 1 and 2: a known order keeps its decision; no order is decided without items;
* job 3: decides only what waits, passes nothing over for good;
* carton choice: the smallest carton that holds the order, if there is one;
* job 4: nothing is closed before Flux has it, everything is pushed in the end;
* Flux client: at most one request per attempt, and no answer that was not given;
* lease: jobs of two instances exclude each other, and a standby takes over;
* scheduler log: every run writes into a row of its own, and SUCCESS is not said of a run that
  was cut short;
* engine: a stop stops everything and returns, whatever other requests do meanwhile; no job
  runs beside itself; a reset runs alone;
* process: a shutdown ends, and leaves nothing half done.

`PROJECT.json` lists the hazards line by line with the properties aimed at each.

## Modules

| Module | What it is | Code |
|---|---|---|
| `Tables` | the four tables; one operator per SQL statement | `internal/repository`, `migrations` |
| `OrderSyncJob`, `CartonSyncJob`, `RecommendJob`, `PushJob` | one job each: local variables of every run, one action per statement or call | `recommendation.go`, `client/flux.go` |
| `Pipeline` | all runs of the four jobs over the tables, Flux and the clock; properties, fairness | `scheduler.go` |
| `Fulfilment` | abstract specification: choose once, tell Flux, then close | – |
| `PipelineReset` | `Pipeline` and the reset that truncates its tables | `dashboard.go` |
| `FluxClient` | the attempts of the calls under way, and the requests they sent | `client/flux.go` |
| `SyncWorkers` | one run of job 1 with attempts, worker limit and row locks; implements `OrderSyncJob` | `recommendation.go`, `order.go` |
| `LeaderLease` | the lease, counted down in ticks, and the goroutines that run under it | `scheduler_lock.go`, `scheduler.go` |
| `ManagedJobs` | what such a goroutine does: log row, body, result; implements `LeaderLease` | `recommendation.go`, `scheduler_log.go` |
| `Engine` | start, stop, update, trigger and reset beside the goroutines that run the jobs | `scheduler.go`, `dashboard.go`, `server.go` |
| `Process` | the life of a process around its engine; implements `Engine` | `main.go`, `scheduler.go`, `server.go` |
| `Packing` | the search for a carton, against "some rotation fits" | `recommendation.go` |
| `Measures` | the search on parsed, rounded and bounded numbers; implements `Packing` | `recommendation.go`, `carton.go`, `migrations` |
| `MCPipeline`, `MCPipelineReset`, `MCSyncWorkers`, `MCManagedJobs`, `MCLeaderLease`, `MCMeasures` | values for TLC | – |
| `PipelineProofs`, `PipelineResetProofs`, `LeaseProofs`, `JobProofs`, `EngineProofs`, `ProcessProofs`, `WorkersProofs`, `PackingProofs` | theorems and proofs | – |

Definitions after a `Mutant:` comment are deliberately wrong versions of the
definition that follows; substituted for it they must break a property, which shows
that the property depends on the code.

### How state and actions correspond to the code

`orders[o]` is a row: its status and `carton_id` (`"ABSENT"` if there is none).
`items[o]` is its item list, abstracted to a member of `Contents`; `cartons[c]` its
Flux id and size; `outbox[o]` its push intent. `due` stands for
`next_attempt_at <= NOW()`: `MarkRetry` clears it and `BackoffElapses` sets it. A
statement is atomic, and so is the transaction of `MarkDelivered` and of
`InsertOrderItems`. A failed call has its own action (`RecSkip`, `PushFails`,
`PushRetryFails`, ...); a call that took effect although its acknowledgement was lost
is the successful action where the code goes on in the same way, and a disjunct of the
failing action where it does not (`PushDeliveredFails`). `RecAbort`, `PushAbort`,
`SyncAbort` and `CartonEnd` end a run anywhere: a failed query, the job's timeout, or
the death of the process. Nothing else of a run survives, so a restart needs no action
of its own. Statements find their row by the id the run remembers: the order's or the
outbox row's. An `UPDATE` of a row that is not there does nothing, an `INSERT` that refers to one
fails. That matters only when rows go away, which is `PipelineReset!Truncate`: every table is
empty, ids begin again, and what Flux has on the wire stays there. An order that is synced again
gets the id it had, so a run that survived the reset holds an id that is somebody's.

`received[o]` is what Flux has applied, and `wire` holds the POSTs that a client gave up
on and that may still arrive (`FluxApplies`), in any order. The attempts of one
`AssignCarton` carry the same body, so they are one step: accepted, or failed with
possibly a request left on the wire. `Refused` are orders that Flux always refuses.

Which contents fit which carton is the constant `Suits`; the choice is
`BestCartons`, any smallest suiting carton. `Packing` shows that `FindBestCarton`
returns one of those, and `Measures` that the numbers do not get in the way. There a raw measure
is a whole number of grains, some to a millimetre or gram; parsing rounds to the nearest,
`"NaN"` and infinities become the smallest int as Go's conversion makes them on amd64, a column holds
`Int4Max` or `Int2Max`, and sums wrap around beyond `Int8Max`. `MeasuresAssumption` bounds the lines
of an order so that no *weight* overflows 64 bits: with the real widths that is 2^17 lines.
`PackedAssumption` says that the instance of `Packing` is large enough for what comes of `Details` and
`Offers`. The items of an order come in any order, as do cartons of one volume, for so the queries say.

`SyncWorkers` puts together what the pipeline abstracts from job 1: `Go` starts a worker while fewer
than `Limit` are at work, `FluxClient` makes its attempts, `UpsertProduct` waits for the lock of a
product's row and `CommitItems` or `Rollback` releases it. In `FluxClient` a request is its call and
attempt; it travels, is processed or lost, and an answer is that of the attempt's own request.
`ImplementsJob` maps a worker that has not got its detail to `OrderSyncJob`'s `detail` set.

In `LeaderLease`, `left` is `lease_until - NOW()` and each goroutine has the time that is
left of its context. A statement may take effect up to `AskTimeout` after its `NOW()`,
the start of its transaction; after that the client's context cancels it. So two
renewals of one leader may take effect in the wrong order and shorten the lease, and the
safe length is `JobTimeout + 2 * AskTimeout`, not `JobTimeout + AskTimeout`. `Reset` takes the
leader's row away; in this model it is alone.

`ManagedJobs` fills in what is between `StartJob` and `FinishJob`: `StartLog` and `FinishLog` share the
job's context with the body, so an ended context (`"cut"` during the body, `"late"` after it) makes
`FinishLog` fail and leaves the row RUNNING. `BodyEnds` may report success under a context that was cut only
for job 2, which skips what it could not write.

In `Engine` a section under the mutex is one action, for none of them blocks. `made` numbers the
contexts, so that `cancelled` says which have ended; `boot[c]` is the goroutine of the initial
execution and `ticker[c][j]` the one of job `j`, each between jobs (`"waits"`) or in one
(`"works"`). A job's own statements are the other modules' subject. `wg.Wait` is three actions:
to find the counter at zero, to park, and to be woken; a woken handler that finds the counter
in use again panics, as `sync.WaitGroup` does, and `net/http` gives up its request. The four
intervals are set together, and a ticker reads its own in one step. The few instructions between
the counter's reaching zero and the wake-up, in which `sync.WaitGroup` could also panic in
`Add` or `Done`, are one step.

`Process` follows fx: the scheduler's `OnStart`, the server's, and at a signal `OnStop` in reverse. `Main`
is fx's goroutine, which calls Start and Stop as a handler does, so that `Engine`'s actions are
used as they are. `Shutdown` waits for the requests under way (`AllIdle`), among them some that were accepted
just before the signal (`Accepts` while draining); the scheduler's OnStop ignores its context, so fx's
15 s end the process, not the Stop (`TimesOut`, `"killed"`).

## Runs

All runs are complete: no state constraint cuts them. What bounds them is in the modules: `MaxStarts`
(requests that may start the engine), `MaxLogs` (rows of the log) and `MaxRuns` (runs of job 1); all
other counters are bounded by the instance itself (`lastID` and outbox ids by the number of orders).

| Run | Question | Instance |
|---|---|---|
| `one_rec` | With one recommendation run at a time, are orders decided once, pushed as decided, and recorded as Flux was told? Does the pipeline implement `Fulfilment`? | 2 orders, 2 overlapping push runs, page size 1 for job 3 and 2 for job 4 |
| `churn` | The same while orders are synced and re-synced with other items and Flux adds and renumbers cartons | 1 order, one run of each job |
| `resets` | Does a reset that is alone leave anything behind? | 1 order, one run of each job, any number of resets |
| `live` | Is everything pushed in the end, whatever faults did before? | 2 orders, one refused for ever, batches of 1 |
| `lease` | Does a lease of `JobTimeout + 2 * AskTimeout` keep jobs apart, has each run its own log row, and does a standby take over from a dead leader? | 3 instances with 2 goroutines, one for job 2; 2 + 2 * 1 ticks, 2 log rows |
| `process` | From start to exit of a process: which guarantees of Stop, reset and settings survive concurrent requests, and is a shutdown clean? | 2 handlers with all requests, fx, 1 job, 3 starts |
| `packing` | Does the search find a smallest carton that holds the order, on the numbers the program has? | lists of up to 2 of 21 cartons, all boxes with sides 1 to 3, halves, and numbers at every limit; words of 3, 5 and 8 bits |
| `workers` | Do the workers of job 1 do what `OrderSyncJob` says, and does every run end? | 4 orders sharing 3 products in different order, limit 2, 2 attempts |
| `overlap_stranded` | Can overlapping recommendation runs strand a recommendation? Yes | 1 order |
| `reset_races` | Does the Stop of a reset prevent races? No | 1 order, a reset at any time |
| `lease_default` | Do the defaults of `config.go` keep jobs apart? No | seconds: lease 30, job 120, check 2 |
| `stop_hangs` | Does every Stop return under concurrent requests? No | 2 handlers, 1 job |

Why these bounds: the races are between two runs about one order, so two runs of a job
suffice to produce them; a second order is needed for paging, for batches and for the
order of rows, and three sizes of contents (none, small, and larger than any carton)
for the three outcomes of a decision. A lease of three instances has a holder and two
contenders. With page size 1 the loop of job 3 reads several pages, with push batches of
1 a refused row is at the head of the list. Two handlers and three starts are enough
for a Start under a waiting Stop, for tickers of an old and a new context at once, and for a
reuse of the WaitGroup; with two jobs and two starts the safety properties have been checked too, in
a run too long to keep. Four orders and two workers give circles of two
locks while others wait for `g.Go`. In words of 3, 5 and 8 bits an order of two lines overflows everything
that the real widths let overflow: the column, the volume that PostgreSQL multiplies, and Go's sum.

`alone` in `JobsSerial`, `SettingsApply`, `ResetAlone` and `StopsReturnAlone` restricts them to behaviours
whose requests came one at a time, without a trigger, so they say nothing of the races between requests:
`stop_hangs` and `reset_races` show two of those, and the list below describes the rest. In the same way the resets of
`resets` and `lease` are alone. A reset of one instance beside a job of another takes the lease from it, whatever its
length, and is not modelled.

`one_rec` has two push runs and one catalogue, `churn` a catalogue that changes and one push run. With both together
`OneAssignment` and `KeepsPromise` have been checked once (881,124 states without a sync), and the theorems prove them.

`RecordMatchesFlux` is about a catalogue that does not change (`one_rec`), where a `cartonMap` is never stale.
`SearchIsExact` and the other properties of `packing` are about answers of `GetActiveCartons`; a catalogue for which the query
fails gives the search nothing to do. `CallsBounded` counts attempts and pairs answers with requests; what
Flux does with a GET after its caller has the outcome (`HangUp`) has no effect and is not followed.

`Lifecycle`, `NoneStranded` and `KeepsPromise` hold only while runs of job 3 do not overlap. The code
does not prevent it: `TriggerJob` starts a run in the HTTP handler beside the ticker's,
under the same lease; a Start overtakes a Stop that still waits; and `lease_default` shows that two
instances may run jobs at once. `one_rec` and `churn` therefore say what the design achieves when that does not
happen; what it achieves regardless, `OneAssignment` and `PushedIsReceived`, is proved for any number of
overlapping runs.

### Findings

1. *Overlapping recommendation runs undo a push and strand it* (`overlap_stranded`).
   `UpdateOrderStatus` does not look at the current status, so a run with a stale page puts
   a PUSHED order back to RECOMMENDED. Its outbox row is DELIVERED, a new intent is dropped by
   `ON CONFLICT DO NOTHING`, and nothing will ever push the recommendation.
2. *A reset races with a job triggered by hand* (`reset_races`). `Stop` waits for the tickers only. A
   recommendation run that holds a page goes on over the TRUNCATE, and writes its decision to the
   order that has the same id afterwards, which skips PENDING.
3. *The default lease does not outlast a job* (`lease_default`).
4. *A Stop overtaken by a Start hangs* (`stop_hangs`): the two share a WaitGroup, and the Stop
   waits for the new goroutines too. The Stop of a shutdown is safe, for the server has been drained
   (`StopEnds`).

Other differences between the text and the code, which have no run of their own:

* Delivery is at least once, not "exactly-once" as `docs/data-optimization.md:76` says: when
  `MarkDelivered` fails after the POST, the row is retried. What does hold is that every repetition
  carries the same assignment.
* A Stop that finds `isRunning` FALSE because another Stop is still waiting returns at once,
  with jobs at work; if it is the Stop of a reset, the tables are truncated under them.
* An update of the intervals that reads `isRunning` before a Start and writes after it leaves the
  tickers with the old ones, while `GetIntervals` reports the new; a Stop between its Stop and its Start is undone.
* A log row can stay RUNNING for ever: `FinishLog` uses the job's context, so it fails just when the
  job has timed out; a panic and a lost answer to `StartLog` do the same.
* `doSyncCartons` returns nil when its context ended during the upserts. That the log says SUCCESS of no
  such run (`SuccessIsWhole`) is only because `FinishLog` then fails as well.
* One carton whose volume does not fit INT4 makes `GetActiveCartons` fail, and jobs 3 and 4 with it.
* Cartons of equal volume come from `GetActiveCartons` in no particular order, so the choice is
  not the deterministic one of `README.md:180`.
* `architecture-design.md:514` says that Flux gives item weights in grams, while `doSyncOrders`
  multiplies them by 1000 as kilograms.
* `record_timeout` (10 s) is shorter than `flux.timeout` (30 s), so a slow POST that succeeds is often
  one whose bookkeeping fails.

## Fairness

`Pipeline!FairSpec` assumes that the tickers start jobs 3 and 4 again and again and that a
goroutine goes on (weak fairness of `RecProgress` and `PushProgress`), that backoffs end
(weak fairness of `BackoffElapses`), and that from some time on calls do not fail
(`FaultsEnd`): before that, anything may happen. Nothing is assumed of when faults end.
One strong-fairness assumption stands for real time: `PromptList` says that the list after a
refused batch is sometimes read while the backoff of 5 s or more still lasts. Without it
the untimed model could let every backoff end before every list, and a refused row at the
head of a batch of one would keep all others waiting for ever. The code orders due rows by id
and so shares that weakness when refused rows fill a batch and take longer than their backoff.

`Engine!FairSpec` assumes that goroutines and handlers go on: a job ends, because its context has
a timeout, and a ticker whose context has ended returns, because `select` chooses at random
among what is ready. No request has to be made. `Process!FairProcess` is the same while the process
lives, and adds that fx ends the process when the last Stop has returned; neither a signal nor
fx's timeout has to come.

`LeaderLease!FairSpec` assumes that time passes, that goroutines ask again and again, and
that from some time on no instance dies, nobody resets and no check is lost. `FairJobSpec` adds that the calls
of a running job return.

`SyncWorkers!FairSpec` assumes that goroutines and transactions go on, that an attempt ends (the HTTP
client has a timeout), and that PostgreSQL finds deadlocks. Flux need not answer and no context has to end.

## Proofs

All theorems hold for every value of the constants under the named assumptions of the
modules: finite sets of positive order ids, positive batch sizes, catalogues of the right
type. Where a theorem needs more, it says so with an `ASSUME` of its own.

`PipelineProofs` proves type correctness, `OneAssignment` and `PushedIsReceived` for any
number of overlapping runs of all jobs. They are not inductive; `IInv` adds

* `RowsFilled`: a row that exists has an assignment;
* `IdsOrdered`: row ids are distinct, so the row a run is at is unique;
* `IntentsResolved`: a run about to insert has resolved its assignment;
* `BatchesFrozen`: the rows a run holds agree with the outbox in order, assignment and id, for
  no statement changes these once inserted;
* `AcceptedIsReceived`: a run about to mark a row delivered has had it accepted.

The argument: outbox rows are only ever added (`RowsKept`); every request comes from a row
or from the wire (`RequestSteps`), so it carries the row's assignment; and only `MarkDelivered`
closes anything (`OpenStays`, `ClosingSteps`), at a point where the row has been accepted.

`DecidedHasItems` needs one more conjunct for every copy of an order that a run holds (`ItemsInv`): an order
with a row, with goods in a page of job 3, or among the candidates of job 4 has its items, which are
replaced and never taken away (`ItemsKept`).

`Lifecycle`, `NoneStranded` and `KeepsPromise` are proved from `OneRecRun`, that runs of job 3 do not overlap.
They need it: `overlap_stranded` is a counterexample with two, in which a run decides with a stale page. With
one, `StagesInv` is inductive: the orders of a page are PENDING until their run has come to them, for
nobody else decides (`PageWaits`); rows and candidates belong to orders that are decided (`RowsSettled`,
`CandidatesSettled`), and DELIVERED rows to orders that are PUSHED. Sync, carton and push runs may overlap at will.

`KeepsPromise` is the refinement of `Fulfilment`, step by step: the insert of an outbox row
is the abstract choice (`EnqueueChooses`), what Flux applies is told (`RequestTells`), `MarkDelivered` closes
(`DeliveryCloses`), and every other statement of the four jobs is a stutter.

`RecordMatchesFlux` also needs `StableCatalog`: Flux lists the same cartons all the time, each with a Flux id of
its own. Otherwise the `cartonMap` of a delivery need not be the catalogue the order was decided on, and the pushed id
may be another carton's by then. `RecordInv` carries the agreement of an order's `carton_id` with the Flux id that its
candidate or row was resolved to.

`PipelineResetProofs` carries all this over resets that are alone. `IInv` is split into `JInv`, which
a reset re-establishes because the tables are empty and nobody is at work, and `OneAssignment`, which it does not:
what was on the wire before may still arrive. `RInv` therefore says that every request on the wire or received
agrees with its row or is in `stale`, the requests on their way at the last reset. `ItemsInv` and `StagesInv` survive
a reset as they are (`NoneStrandedSinceReset`, `LifecycleUntilResetKept`, `DecidedHasItemsSinceReset`), for they only
relate the tables to what runs hold.

`LeaseProofs` proves `Exclusive` from `LongLease`. The invariant `LeaseCovers` says that whoever is
at work is the holder and needs no more time than is left of the lease; `RunsBounded` is what
keeps it true when a delayed renewal shortens the lease. `JobProofs` shows that `ManagedJobs` implements
`LeaderLease`, so that `Exclusive` carries over, and proves `OwnLog` and `SuccessIsWhole`: ids only
grow until a reset, and a reset finds nobody who holds one.

`EngineProofs` proves type correctness, `NoOrphan` and `StopIsComplete` for any number of
concurrent requests, jobs and starts. `WgCounts` says that the counter is the number of live
goroutines, so a Stop that finds it at zero leaves none; `StartedOnce` is what makes every
`wg.Add` count a new goroutine and `wg.Done` one that was counted; `StartsBounded` and
`PlaceOfRequest` keep the contexts within the model's bound.

What holds while requests come one at a time, without a trigger (`JobsSerial`, `ResetAlone`, `SettingsApply`, and that
no Wait panics), needs two invariants more. `Waited`: as long as goroutines of a stopped engine live, some handler
is in `wg.Wait`. `AloneInv`: only the last context has goroutines, a handler between its Stop and its Start has the
engine stopped, and every living ticker has the interval in force. A Start then finds no goroutine alive
(`AllGone`), which is why a job never runs beside itself.

`ProcessProofs` shows that a process is an engine (`ProcessIsEngine`), so these results hold of it, and proves
`CleanExit`: once the server is drained no handler but fx's is at work, so the engine that fx's Stop stops
stays stopped, and a Stop that returns has found the counter at zero.

`WorkersProofs` proves `CallsBounded`, `LockersAct` and `ImplementsJob` for any number of orders, products,
workers and attempts. `RequestsCounted` says that every request of a call was sent by an attempt the call has begun,
so mapping requests to attempts bounds their number. `ParsedToInsert` says that a worker has parsed items exactly
while its transaction is under way, so a run whose workers have all returned is one that `OrderSyncJob` lets finish;
`NoWorkerYet` keeps an order that waits for `g.Go` apart from one whose worker is at its call.

`PackingProofs` proves that comparing sorted dimensions finds a rotation exactly if there is
one, and, by the invariant that every carton passed over does not suit, that the search returns
a smallest carton that holds the order or that there is none. On the numbers of `Measures` it proves two things more.
*Rounding*: it is monotone and off by half a millimetre at most, so it commutes with sorting (`RoundingSorts`), and an
item judged to fit sticks out by less than a millimetre (`RoundingSlack`). *Overflow*: `SearchIsExact`, that the
search in words takes the steps of the search in numbers, so that it finds a smallest carton too
(`FoundInWordsIsSmallest`). If every item fits a carton, no volume exceeds the carton's, which is within INT4, and the sum
of weights or volumes over the lines is within 64 bits by `MeasuresAssumption`; if some item does not, the third test
fails in words as in numbers. The sums are folds over sequences. That a fold has a value and a bound at all is induction
over its length, done in first order: a set of counterexamples would have a least member (`LeastNumber`, from the
well-foundedness of `<`), and the step refutes it (`SumExists`, `SumBounded`).

Only model-checked is liveness, which is out of the prover's reach: `AllPushed`, `OutboxSettles`, `JobsGoOn`,
`StopsReturnAlone`, `StopEnds` and `RunEnds`. Every other property of a passing run is a theorem.

## Not modelled

* The connection and the schema migration, which run once before the hooks; configuration loading (its
  bounds are assumptions on constants); dashboard reads, health and metrics; the web client.
* Negative decimals, which `parseDecimalToScaledInt` lets pass; Flux is taken to send none.
* A `retry_max` below zero, with which no call would make an attempt.
* The names of `products`, which no job reads; timestamps; log and metric output.
* Flux orders listed twice in one answer.
* An order whose `flux_id` changes in Flux: `UpsertOrder` takes the new one, while an outbox row keeps the one it was
  inserted with. Here an order's Flux id is its local id.
* Two sync runs that replace the items of one order at the same moment, and whose lists share no product: neither DELETE
  sees the other's new rows, and the order is left with both lists. Here the items are replaced in one step.
* Two cartons of one `flux_id`, between which `deliverOutboxRecord` chooses by the order of a Go map.

## Plan

Done: the pipeline with its abstraction and resets, the workers of job 1 and the client under
them, the lease with the jobs and their log rows, the engine and the process around it, the carton choice with its
numbers, and the proofs above.

Next, in this order:

1. The constants `Suits` and `VolumeOf` of `Tables` as what `Packing` computes, so that `BestCartons` and the search
   are shown to be the same set.
2. What `Fulfilment` promises from one lone reset to the next.
3. `SyncWorkers` in the place of job 1 in `Pipeline`: `ImplementsJob` is proved, and what is proved of the pipeline
   should follow for the workers.
