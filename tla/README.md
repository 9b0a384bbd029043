# Verification of green-stack-monitor

TLA+ models of green-stack-monitor, TLC configurations that check them on small
instances, and TLAPS proofs of what matters most. Paths are relative to the
repository.

## 1. The system

green-stack-monitor is an HTTP server with a middleware that estimates the CO₂ of
each request. A request goroutine passes through the `EcoMetrics` middleware,
which may leave it out (sampler), lets the handler run with an `*EcoTrace` in its
context and a wrapper around its response writer, copies what it learnt into a
`TracePayload` and offers that to a bounded channel without ever waiting. Worker
goroutines take payloads from the channel, update the OpenTelemetry instruments
and save a trace in a repository. A service answers `GET /eco/cache` from the
repository's aggregates through a cache, in memory or in Redis. `main` reads a
configuration, builds all this in order and, on a signal, takes it down in an order
that matters.

| Component | State | Operations | Talks to | Hard part |
|---|---|---|---|---|
| Worker (`pkg/middleware/worker.go`) | channel, drops, WaitGroup, context | select in the middleware, `Start`, `loop`, `observe`, `Stop` | middleware (channel), repository (`Save`), OTEL | several consumers, close and cancel at any moment |
| Middleware (`eco_metrics.go`, `pool.go`) | two `sync.Pool`s, per-request trace and writer | `EcoMetrics`, `MarkCacheHit`, `WriteHeader`, `Write`, acquire and release | handlers (context), worker (channel) | reuse of objects, panics, late calls, order of copy and release |
| Sampler (`sampler.go`) | rate, dropped counter | `sample` | middleware | clamping, counting |
| Server lifecycle (`cmd/server/main.go`) | quit channel, listener, worker context, deferred calls | `run` | every package | construction that fails halfway, shutdown order, 15 s deadline, hanging handlers |
| Repository (`internal/repository/inmemory.go`) | atomic counters, slice of traces | `Save`, `Aggregates`, `Snapshot` | worker, service, badge | torn reads, truncation |
| Estimator (`pkg/estimator/co2.go`) | atomic floats and counters | `Record`, `GetMetrics`, `Snapshot`, pure formulas | worker | CAS loop, torn reads that wrap around |
| Badge (`pkg/badge`) | cached SVG, ETag, expiry | `SVGAndETag`, `Handler`, `classify` | repository | double-checked refresh, ETag |
| Service (`internal/service/eco.go`) | none | `CacheMetrics` | repository, cache, handlers | overlapping fills, how old an answer can be |
| Memory and Redis caches (`internal/cache`) | a `sync.Map` with expiries; a Redis client | `Get`, `Set`, `Delete`, `NewRedis`, `Close` | service, main | check and delete are two steps; outages |
| Config (`internal/config`) | none | `Load`, `validate` | main, estimator, worker, sampler | four layers that check the same numbers, NaN, silent fallbacks |
| JWT (`pkg/middleware/auth.go`) | none | `IssueToken`, `JWTAuth` | handlers | dates in whole seconds |
| Handlers, domain types, `green.go` | none | one pass per request | service | none |

What makes each component correct:

* worker: every payload that was accepted is counted exactly once and saved at most
  once, whatever the schedule; `Stop` leaves nothing behind; senders never wait;
* middleware: a payload speaks of its own request only; pooled objects are clean
  and belong to one request; the client gets what its handler asked for;
* lifecycle: nobody sends on the closed channel; the process ends; after a clean
  end every request is accounted for in one of the counters; what was opened is
  released, and only when nothing uses it any more;
* config: what one layer accepts, the later ones neither refuse nor change;
* repository and estimator: nothing is lost under concurrency; a snapshot is a
  state that existed;
* badge, service and cache: what is served is no older than the TTL says; a refresh
  does not undo a newer one.

## 2. Modules

| Module | Models | Composes / refines |
|---|---|---|
| `TraceLedger` | what the worker promises: each trace is new, rejected, accepted, recorded or stored | abstract |
| `EcoWorker` | `worker.go` and the select that feeds it | implements `TraceLedger` |
| `EcoWorkerProofs` | theorems about `EcoWorker` | |
| `EcoServer` | `main.go` from `worker.Start` on, the sampler, the request goroutines | composes with `EcoWorker` (instance `W`) |
| `EcoServerProofs` | theorems about `EcoServer` | uses `EcoWorkerProofs` |
| `EcoProcess` | all of `main.go`: configuration, construction, deferred calls | extends `EcoServer` and implements it |
| `EcoProcessProofs` | theorems about `EcoProcess` | uses `EcoServerProofs` |
| `EcoMiddleware` | one request through `EcoMetrics` with both pools and the status wrapper | |
| `EcoMiddlewareProofs` | theorems about `EcoMiddleware` | |
| `TraceStore` | what the repository promises its callers: a `Save` is one step | abstract |
| `EcoRepository` | `inmemory.go`: `Save`, `Aggregates`, `Snapshot` | |
| `EcoAggregates` | the repository, with what the slice held when each `Aggregates` began | extends `EcoRepository`, implements `TraceStore` |
| `EcoService` | `CacheMetrics` over both caches, behind `JWTAuth` | extends `EcoRepository`, runs with its Saves, implements it |
| `EcoServiceProofs` | theorems about `EcoRepository`, `EcoAggregates` and `EcoService` | uses `SumFacts` |
| `Estimator` | `co2.go`: `Record`, `GetMetrics`, `Snapshot` | |
| `EstimatorRetries` | the estimator, with how often each compare-and-swap has failed | extends `Estimator` |
| `EstimatorProofs` | theorems about `Estimator` and `EstimatorRetries` | uses `SumFacts` |
| `AtomicBadge` | what the badge promises its clients: one SVG, replaced and read in one step | abstract |
| `BadgeCache` | `pkg/badge`: the cached SVG, its RWMutex, the ETag exchange | implements `AtomicBadge` |
| `BadgeCacheProofs` | theorems about `BadgeCache` | |
| `SumFacts` | lemmas about sums over finite sets | |
| `MCEcoMiddleware`, `MCEcoRepository`, `MCEcoService`, `MCEstimator` | symmetry sets for TLC | extend their modules |

### EcoWorker

A payload is a model value; its fields belong to `EcoMiddleware`. `sender[p]` is the
place of the request goroutine in its select (`Send`, or `Refuse` and later
`CountDrop`, since the drop counter is a separate atomic operation). `ch` is the
channel's buffer and `Capacity` is `withDefaults`. A worker goes
`recv -> check -> observe -> save -> recv`, or `check -> drain -> recv` once the
context is cancelled: `Receive` is `range w.ch`, `CheckContext` the only read of
`ctx.Err()`, `Observe`/`ObserveOnly` the instruments, `SaveOK`/`SaveError` the return
of `repo.Save`, `Exit` the end of the range. Steps are cut where another goroutine can
interfere. A hand-off to a waiting receiver is a `Send` followed by a `Receive`: with
a buffer of at least one (there is always one, by `withDefaults`) both have the
same effect. Sending on a closed channel is not an action: `EcoServer` shows that
nobody can. `lateSaves` is a history variable.

### EcoServer

`main` is `run` from `worker.Start` to the end of the process: `shutdown` and `polling`
are inside `srv.Shutdown`, `cancel`/`close`/`wait` are lines 234-235, `unwind`/`unwound`
the deferred calls after an error. `quit` holds at most one signal; `listener` is the
goroutine of lines 216-222. `req[r]` is the request goroutine: unsampled (`bypass`), in
a sampled handler (`handling`), at the select (`offering`), between the select's default
and the counter (`counting`). The worker is the instance `W` of `EcoWorker`, its
variables are shared and each step that touches it is one of its actions. After
`exited` or `aborted` nothing runs.

External assumptions (net/http): `Shutdown` returns nil only when no handler runs,
starts no handler afterwards, and returns an error only when its context ends, which
cannot be before its first poll. Connections may bring new requests until then.
`os/signal` never blocks. `BootFails` is any start-up error; `EcoProcess` says which.

### EcoProcess

The part of `run` before `worker.Start` and the deferred calls after it. `env` is the
environment: a setting is unset, malformed, or a number (`NaN` and an `Infinity` above
every bound among them; floats in hundredths). `cfg` applies the defaults as `envInt`
and `envFloat` do. `Load` is `validate`; `MakeProvider`, `MakeCache` and `MakeEstimator`
follow in the code's order, each may fail, and each pushes on `deferred` what the code
defers. From `ready` on, `Serve` takes `EcoServer`'s steps, whose `DeferredCancel` is
the first call of the stack; `Deferred` runs the others, and the process ends
(`Abort`, `Fail`) only when none is left. `open` is what was opened and not released: a
Redis client whose first ping fails stays in it. `BufferUsed`, `CountUsed` and `RateUsed`
are the later layers' own corrections of the same values. `env` is reset once the
server runs, which keeps nothing of it but `EcoServer`'s constants.

### EcoMiddleware

Objects have identities. A pool starts full of them: an object that `New` has yet to
make is as good as a pooled one, as long as the pool is clean, so `Get` takes any object
of the pool. A panic leaves the request's objects to the garbage collector, and
`Collect` gives such a name back as a new object unless a goroutine still holds it. The
fields of an object are modelled as the request they were written for, so that mixing
two requests up shows. After the handler the order of the code is kept: `Capture`,
`ReleaseTrace`, `ReleaseWriter`, then the select. `client[r]` is what net/http sends:
the first status it is given, 200 if none, or chi's 504 (`SlowRequests`). `Background`
are requests whose handlers leave a goroutine behind that still has the context and may
call `MarkCacheHit` on an object that is back in its pool, or lent to another request:
the one way to dirty an object. `late` records which objects and payloads it reached,
`asked` and `marked` what the handler did; all three are history, and `Forget(r)` drops
them with the request's locals when it ends. Informational (1xx) statuses are left out:
no handler here sends one.

### EcoRepository

One step per atomic operation: `Save` is `CountHit`, `AddSaving` or `CountMiss`, then
`AppendTrace` (the critical section of `r.mu`); `Aggregates` is three loads. A saving is
counted in tenths of a microgram (`Unit`), so that the conversion to `uint64` in `Save`
has something to truncate. `CountersLeadTraces` and `ReportBounded` say how far the
counters, the slice and a report may be apart.

### TraceStore and EcoAggregates

`TraceStore` has no counters: a `Save` puts its trace into a log at one moment between its
call and its return, a `Snapshot` is the log, and what `Aggregates` tells lies, field by
field, between the totals of the log when it was asked and the totals of all that the Saves
have brought when it answers. That much is promised and no more: the three figures need
not belong to one moment (section 4). `EcoAggregates` adds the history variable `least`, the
totals of the slice at the first of the three loads, and changes nothing else; the mapping
takes the critical section of `r.mu` for the moment of the Save, and the fields of a report
that is still being put together for nothing. `ImplementsStore` is the refinement.

### EcoService

`CacheMetrics(q)` is one call of `GET /eco/cache`: `Arrive` is `JWTAuth` (some token that
`IssueToken` may have made is accepted now), then `Memory.Get` in three steps (`MemoryLoad`,
`MemoryCheck`, `MemoryDelete`: load, look at the expiry, delete whatever is there by then)
or `RedisGet` in one, then `EcoRepository`'s `Aggregates` and `Set`. The `backend` is chosen
at the start. Redis may refuse any command: a `Get` then counts as a miss and a `Set` is
dropped, as in the code. It serves `now < expiresAt`, memory also `now = expiresAt`.
`Accepted` takes the dates as the jwt library keeps them, cut to whole seconds. `seen`,
`stored` and `disturbed` are history variables.

### Estimator

`mem` holds the four atomic fields. `Record` is `LoadOld`, `Swap` or `Retry` for each
of the two sums and one step for each of the two counters, in the order of the code;
`Load` takes the next field in the order of `GetMetrics` or of `Snapshot`. Billed
microseconds stand for grams, which are a constant multiple of them; rounding of
float additions is left out. `before` is a history variable.

The loop of `atomicAddFloat64` is lock-free and not wait-free: while Records keep coming, one
of them may lose to the others for ever, and no property says that it returns. What the
loop does promise is that some Record always gets on. `EstimatorRetries` counts, per Record,
the compare-and-swaps that have `failed` in the present loop, and the additions made to the
sum by the time it began (`since`); `RetriesPaid` says that each failure is another Record's
addition. A loop that tried again without reading the sum again would fail for nothing.

### BadgeCache

`svg`, `etag` and `renderedAt` are written one after the other by `refresh`, as in the
code, under the RWMutex, which is external: `readers` and `writer` say who holds it, a
pending writer keeps new readers out. `Classify` rounds as the four `Sprintf`s do
(in hundred-thousandths of a gram), so that two readings can share a label and differ
in colour. A client sends requests one after the other, shows its `copy` and sends that
copy's ETag. Time passes between any two steps. SHA-256, cut to 64 bits, is taken to be
injective. HTTP caching by `max-age` in clients is not modelled.

`AtomicBadge` has no lock, no ETag and no clock: one SVG, which a request replaces in one
step, reads in one step, and then shows. `SetSVG` is the replacement and the release of
the lock (`CopyETag`, `Return`) the read; an answer, 304 or 200, is the showing. How fresh
the SVG is stays with `ServedFresh`.

## 3. Runs

| Run | Instance | Shows |
|---|---|---|
| `worker` | 4 payloads, 2 workers, buffer 1 | `ExactlyOnce`, `StoredWasCounted`, `LateSavesBounded`, `StopDrains`, `UncancelledStopSavesAll`; `ImplementsLedger` with its fairness; `StopReturns` |
| `process` | 3 requests, 2 workers, buffer 1, rate 50 %; 1404 environments: the secret and two settings at a time, around each of their bounds | `NoSendOnClosed`, `CleanExitAccounts`, `HotPathNeverBlocks`, `LayersAgree`, `ReleaseDiscipline`, `ShutdownTerminates` |
| `middleware` | 3 requests, one with a goroutine left behind, 3 traces, 3 writers, codes 200 and 404 | `ExclusiveOwnership`, `PoolsClean`, `PayloadFaithful`, `ResponseFaithful` |
| `repository` | 3 Saves, 1 reader, savings of 0.4, 1.0 and 1.9 µg | `CountersLeadTraces`, `TruncationBounded`, `SnapshotsGrow`, `ImplementsStore` |
| `estimator` | 3 Records of 0 or 1.9 ms, 1 reader of either kind | `NothingLost`, `HitsNeverLead`, `BillingBounded`, `ReportsBracketed`, `RetriesPaid` |
| `badge` | 2 clients, TTL 1, clock up to 2, readings 0.0996 g and 0.1 g | `ServedFresh`, `RefreshOncePerTTL`, `ImplementsOneBadge`, `EveryRequestEnds` |
| `service` | 2 Saves, 3 calls, TTL 1, 2 ticks a second, tokens of 3 and 5 ticks, clock up to 3, either cache | `StalenessBounded`, `AnswersGoForward`, `TokenLifetime` |

Every passing run also checks its module's type invariant. The five runs that must fail
are in section 4.

Bounds. A buffer of one with three or four payloads reaches both a full and an empty
channel with both workers busy; two workers are enough for two consumers to compete
and for one to leave while the other works. Any two settings of the configuration may be
wrong at a time: no check of the code relates more than one. Three requests and three
objects of each kind let one request reuse an object while two others are under way, and
every request can get an object even if all others were lost to a panic. With three
Records a compare-and-swap can fail twice in one loop; 0 and 1.9 ms take either branch of the
billing and reach both sides of its error. A clock of two TTLs lets the badge expire twice, and two
clients compete for each refresh (a TTL of two and a clock of four were checked once, with
the same result). With a TTL of one and a clock of three, an entry of
the service's cache expires and is replaced while a third call still holds the old one;
`Savings` is empty there, since what an answer counts is requests.
Apart from `MaxTime`, the clocks of the badge and of the service, no action is
bounded: a payload is offered once and a `Save`, a `Record` or a call made once, so all
counters are finite.

The steps `Terminated`, `Gone`, `Fail`, `AllEnded`, `AllDone` and `Finished` let a finished
system stutter, so that TLC's deadlock check finds any other state in which nothing can
happen.

### Fairness

* `EcoWorker!FairSpec`: `main` calls `Start`; each worker goroutine is scheduled;
  `Save`, which only takes a mutex, returns; a request goroutine that is past its
  select counts its drop. Nobody is obliged to send, cancel or close.
* `EcoProcess!FairProcessSpec`: main, the listener goroutine and the workers are
  scheduled and the timer of the 15 s context fires. No handler is obliged to return.
* `BadgeCache!FairSpec`: request goroutines are scheduled; taking the RWMutex is
  strongly fair, since Go's locks starve nobody. Nobody has to ask, and time may stop.

`HotPathNeverBlocks` needs no fairness: it says that a request's step through the select
is enabled in every state, so that it depends on no other goroutine.

## 4. Disagreements with the documentation

Each is a run that TLC must find violated.

* `server_abort` (`ExitDrained`): docs/architecture.md names draining the channel as
  the last step of the shutdown. When `srv.Shutdown` runs into its deadline, `run`
  returns at main.go:231 and never calls `Stop`; queued payloads are lost.
* `server_panic` (`FullRateInstrumentsAll`): with `SampleRate` 1.0 "all" requests are
  instrumented, but one whose handler panics is in no counter.
* `middleware_timeout` (`CountedStatusIsClients`): chi's `Timeout` is outside
  `EcoMetrics`, so its 504 is counted as 200. The client sees the 504 only if
  `WRITE_TIMEOUT` is 0 or above 30 s; with the default of 10 s its connection is closed
  before, and the payload says 200 all the same.
* `repository_torn` (`AggregatesConsistent`): `Aggregates` is documented as a
  "read-consistent snapshot"; its three loads can show a saving without a hit, which the
  repository never holds, since `Save` counts the hit first.
* `estimator_torn` (`MissesNeverWrap`): `GetMetrics` is said to read "at one point in
  time"; it loads the requests before the hits, so a `Record` in between makes their
  difference negative and `uint64` turns it into a number near 2^64.

Seen while modelling, with no run of their own.

* Two comments in pool.go describe code that has changed (55-57 says that `status` is
  reset to 200, it is reset to 0 and set at acquisition; 38-39 says that a trace is
  released only after its payload was offered, it is released before, safely, because
  the payload is a copy).
* A goroutine that outlives its request can set `CacheHit` on an object that is back in
  the pool, so "guaranteed-clean" (docs/architecture.md:195-196) holds only for handlers
  that leave none; `PoolsClean` and `PayloadFaithful` bound the damage to the hit flag.
* Nothing in the repository calls `MarkCacheHit` or `Estimator.Record`, so that in this
  server hits and savings stay 0 and the badge stays green.
* config.go:7-8 promises to fail fast; a malformed number is silently the default
  instead. `NaN` passes every check, here and in `estimator.New`; a carbon intensity of 0
  passes `validate` and is refused by `estimator.New`; `CO2_MEMORY_WATTS_PER_GB` is
  checked by nobody; a buffer of 0 becomes 512. `LayersAgree` states all that the four
  layers do agree on.
* A Redis client whose ping fails at start-up is closed by nobody (redis.go:36-41); the
  process ends then anyway.
* On the error path the provider and the Redis client are shut down while workers and
  handlers may still run (`ReleaseDiscipline` says exactly when).
* green.go:70 says that `classifyForBadge` duplicates `badge.classify`; from 0.1 g on it
  truncates where the badge rounds.

## 5. Proofs

`EcoWorkerProofs`, for any set of payloads, any non-empty set of workers and any
integer `BufferSize` (`WorkersAssumption`, `BufferAssumption`, `PayloadAssumption`):

* the inductive invariant `IInv` is the conjunction of `TypeOK`, `ExactlyOnce`,
  `StoredWasCounted` and four strengthenings. `ExactlyOnce` alone is not inductive:
  that a worker holds a payload exactly while it is busy, and has counted it before
  it saves, is `HeldWhileBusy`; that a worker that left has seen the channel closed
  and empty is `ExitedMeansEmpty`; that a worker on its way to `Save` has not used up
  its late save is `LateSaveBudget`; that without a cancel everything counted is
  saved, failed or in a save is `CountedIsSaved`. One lemma per group of actions;
* from it `TypeCorrectness`, `ExactlyOnceDelivery`, `StoredIsCounted`, `LateSaves` and
  `DrainedAtStop` (`StopDrains` and `UncancelledStopSavesAll`);
* `RefinesLedger`: `Spec => Ledger!Spec` under the mapping `Fate`, one step per action.

`EcoServerProofs`, for any requests, workers, buffer and rate:

* `ServerUsesWorker`: `Spec => W!Spec`, so the worker's theorems hold in the server;
  `ServerDeliversOnce` draws two of them over, and `ServerKeepsLedger` (`Spec => Ledger!Spec`)
  the refinement, with requests for traces;
* `NeverSendOnClosed`, from the inductive `ShutdownOrder`: the channel is closed only
  while main waits or has exited, and no handler is in flight from `cancel` on;
* `CleanExit` (`CleanExitAccounts`, for finitely many requests): `Books` says that each
  counter is the number of requests in the places it stands for, `Crew` that the workers
  run from `Boot` on; at a clean exit the worker's `ExactlyOnce` and `StopDrains` turn
  the four disjoint sets of requests into the four terms of the sum;
* `ServerTypes`, from the worker's theorem and the types of main's own variables;
* `HotPathStaysOpen`: the guards of the steps that `HotPathNeverBlocks` says are enabled.
  A request at its select is `idle` in the worker and the channel is open, from
  `SendersMatch` and `ShutdownOrder`;
* two counterparts of section 4. `DrainsOnCleanExit`: on the way out that does call
  `Stop` the channel is empty and no worker holds a payload. `FullRateLosesOnlyPanics`:
  at rate 1.0, after a clean exit, whoever arrived is counted or a counted drop, unless its
  handler panicked; `NoneLeftOut`, that nobody takes the fast path at that rate, is what it
  adds to the invariant.

`EcoProcessProofs`, for the same constants:

* `ProcessRunsServer`: `ProcessSpec => Spec`. Every step of the process is a step of
  `EcoServer` or leaves its variables alone, so what is proved of the server and the
  worker holds with start-up and the deferred calls around them;
  `ProcessNeverSendsOnClosed`, `ProcessAccounts`, `ProcessExitsClean` and `ProcessKeepsLedger`
  draw its theorems over: the whole process implements `TraceLedger`;
* `ReleasedInOrder`, from the inductive `DeferredInOrder` (what `deferred` and `open` are
  at each place of `run`) and the server's own order;
* `LayersNeverDisagree` (`LayersAgree`), from `Checked`: whoever is past `Load` has settings
  that `Valid` accepts. It needs `TextsAssumption`, that a text which is no number and `NaN`
  are no integers;
* `ProcessTypes`: in particular no call is deferred twice (`DeferredOnce`).

`EcoMiddlewareProofs`, for any requests, objects and codes: `IInv` is `TypeOK` and

* `Lending`: a request has objects exactly while it should, and they are in no pool;
* `Objects`: what is in a pool is clean (but for late marks), and what is lent holds the
  values of its borrower, as far as the borrower has come;
* `Reports`: payloads and answers follow from the objects they were copied from.

`ExclusiveOwnership` and `PayloadFaithful` are not inductive without `Objects`. From it
`TypeCorrectness`, `LentOnce`, `GetsCleanObjects` and `ReportsAreOwn`. `PromptIsCountedRight` is
what remains of `CountedStatusIsClients`: a request whose handler is within chi's Timeout is
counted under the status its client got. It adds `NoneYet` (only `Capture` makes a payload)
and that no wrapper writes to a response that is over (`ClientsStay`).

`BadgeCacheProofs`, for any clients, readings, TTL and bound on the clock: `IInv` is a
typing and

* `Clock` and `Past`: no time recorded lies in the future;
* `Holders` and `Locks`: who holds the RWMutex, and that the writer is alone;
* `Content`: outside the three assignments of `refresh`, `svg` and `etag` belong together;
* `Times`: what a client has copied was fresh when it began.

From it `TypeCorrectness`, `ETagsTell`, `AlwaysFresh` and `OneRefreshPerTTL`, an action
property, and `BadgeIsAtomic` (`Spec => ImplementsOneBadge`): under the read lock the SVG copied
is still the badge when its ETag is copied, and a 304 confirms a copy that is the SVG it
stands for (`ETagsTell`), so that every answer leaves the client with what its request read.

`SumFacts` is about `SumFunctionOnSet` of the community modules, a fold over a set that picks
its elements by `CHOOSE`. That the recursive function behind it exists and is unique, that
an element can be taken out in any order (`SumRemove`, `SumAdd`), that only the values on
the set matter and that the sum of naturals is monotonic all need induction on a finite
set. The library states that induction with an operator parameter; the lemma `Smallest`
replaces it: a non-empty family of subsets of a finite set has a minimal member, so a
smallest counterexample would have a smaller one.

`EcoServiceProofs`, for any finite sets of Saves and reads, any savings, times to live and
bound on the clock (`SavesAssumption`, `ReadsAssumption`, `ClockAssumption`). About
`EcoRepository`: the invariant says beside `CountersLeadTraces` and `TruncationBounded` that a Save's place and
its hit flag agree (`Branches`), that `hits` and `misses` number the Saves past them
(`Counters`), that the slice has as many traces and hits as Saves have returned (`Slice`),
that no figure of a report exceeds its counter (`Reports`), and that the last snapshot is
a prefix of the slice (`Prefix`). From it `TypeCorrectness`, `CountersLead`, `TruncationIsBounded`,
`ReportsAreBounded` and the action property `SnapshotsOnlyGrow`.

About `EcoAggregates`: `StoreIsImplemented` (`HistorySpec => ImplementsStore`). The mapping needs
`HInv`, which adds two things to that invariant. `SavedExactly`: `saved` is the sum of the whole
micrograms of exactly those hits that are past their addition, so that it lies between the
sum over the slice and the sum over all that has begun. `LeastReported`: what the slice held
when an `Aggregates` began is in every counter, which never fall, and so in what it has loaded
of them. `QuietAggregatesAreExact` is what remains of `AggregatesConsistent`: if no Save is
under way when a report is ready and none has returned since it was begun, the report is
what the slice holds; the bounds of `ImplementsStore` then meet. `HInv` was checked by TLC on
the instance of `repository` before it was proved.

About `EcoService`: `ServiceRunsRepository` (`ServiceSpec => Spec`) brings all of that over.
Neither `StalenessBounded` nor `AnswersGoForward` is inductive, since both speak of one step;
the invariant `SInv` says what that step finds:

* `Sources`: the cache's entry, and what a call has loaded of it, is the report of a call
  that has answered, with the expiry of that call's `Set`. `Places` orders a call's two
  program counters. With the check of the expiry this gives `StalenessIsBounded`;
* `Known` and `Bases`: nobody has counted a request that the repository has not, and a
  report counts at each of its three loads what had been counted when it began. This is
  where the repository's monotonic counters enter;
* `Ordered`, as long as no two fills overlap and Redis refuses nothing: there is one fill at
  most (`Alone`), it began when the repository had counted all that is held or answered
  (`Above`), the entry is the newest of what is held or answered (`Newest`), and what a call
  has loaded is as new as the answers it began after (`Fresh`). `Memory.Get`'s delete, which
  may hit a newer entry, keeps all four: it leaves nothing that could be older. Hence
  `AnswersOnlyForward`. `Bests` says that the best answer a call began after was given.

`ServiceTypes` and `TokensLive` (whole seconds: `n - n % Second` is at most a second below `n`)
complete it. The parts of `SInv` were checked by TLC before they were proved, with three
calls over either cache, hits and misses.

`EstimatorProofs`, for any finite set of Records, any durations and any reads: `RecordInv` is
`NothingLost` with `Branches` (only a hit goes on after its request is counted) and
`Misbilled` (each request adds at most 999 µs to what is not billed, and at most 1 µs to what
is billed too much). A compare-and-swap that succeeds replaces the value it expected, so
the sum grows by its call, whoever else tried. `ReadInv` adds that a read has loaded a
prefix of its order, with no field twice, and that all fields only grow. From them
`TypeCorrectness`, `NothingIsLost`, `HitsNeverAhead`, `BillingIsBounded` and
`ReportsAreBracketed`. `QuietReportsAreExact` is what remains of `MissesNeverWrap`: a report
that no `Record` overlaps (`before[q] = mem`) is exact, and its misses are the difference of
the two counters as long as the requests fit in `Word`.

About `EstimatorRetries`: `RetriesArePaid` (`HistorySpec => []RetriesPaid`). `RetriesPaid` is not
inductive: a failure is counted when the compare-and-swap is tried, and paid for earlier,
when another Record changed the sum. `Paid` therefore says of each Record that is about to try
and no longer expects what the sum is, that one more addition has been made than it has failed.
`OthersAdd` is the step that pays: a sum changes only by taking one Record past it. `RetriesInv`
rests on `IInv`, which the history does not disturb (`HistoryRefines`).

Only model-checked: liveness (`StopReturns`, the fair half of `ImplementsLedger`,
`ShutdownTerminates`, `EveryRequestEnds`) and `HotPathNeverBlocks`, which
is about `ENABLED` (`HotPathStaysOpen` proves the guards): both are out of the prover's
reach. Every other property of a passing run is a theorem.

## 6. Not modelled

* The arithmetic inside `observe` and `allocDelta`, the pure formulas of the estimator
  and the creation of the instruments in `NewWorker`: floating point with no decision in
  it. `allocDelta` is the growth of the whole process since the request began, so its
  value is any number.
* `PORT`, the timeouts and `PPROF_ENABLED`, which are read like the other settings and
  checked by nobody; the routes, `Health`, `Me`, JSON and SVG text: stateless, one pass
  per request.
* A Redis `SET` that is carried out after the client has given it up: a `Set`
  is carried out at once or refused (`RedisRefuses`). A late one would overwrite what was stored since, and live for a
  TTL from then on, so that an answer could be older than `StalenessBounded` says by as long
  as the command was under way.
* Parsing and signatures of tokens, which are the jwt library's. A request whose token
  is refused for any reason changes nothing.
* `green.go` and the domain types: names and constants over the packages above, with no
  state.
* `Cache.Delete` called from outside and `Worker.SimulateDrop`: only tests do.

## 7. Plan

1. (done) `TraceLedger`, `EcoWorker`, `EcoServer`, `EcoMiddleware`; proofs for the first three.
2. (done) `EcoRepository`, `Estimator`, `BadgeCache`.
3. (done) `EcoProcess`: configuration, start-up and the deferred calls. `EcoService` with
   both caches and the life of a token. A goroutine left behind in `EcoMiddleware`.
4. (done) Proofs for `EcoProcess`, `EcoMiddleware` and `BadgeCache`.
5. (done) Sums over finite sets; proofs for `EcoRepository`, `Estimator`, the accounts of a clean
   exit and the configuration.
6. (done) Proofs for `EcoService`; the ledger kept by the server and the process; what remains
   true of four of the five disagreements.
7. (done) `EcoRepository` implements `TraceStore` and `BadgeCache` implements `AtomicBadge`; what
   remains true of the fifth disagreement.
8. (done) `EstimatorRetries`: what the compare-and-swap loop promises, checked and proved.
