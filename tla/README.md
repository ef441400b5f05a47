# A TLA+ model of the OpenFaaS gateway

This directory specifies the gateway of this repository (`src/gateway`, Go) in
TLA+. The gateway is the process between the clients of functions and a
*function provider* (faas-netes, faasd): it forwards synchronous calls, queues
asynchronous ones, scales functions that have no replicas up before it
forwards, scales functions on alerts, and exports metrics. It keeps almost
nothing; what makes it hard is that every request is a goroutine of its own,
that the goroutines share caches, single-flight groups, gauges and connections,
that whatever they know of the provider is old when they use it, and that every
call to the provider may fail before or after it has had its effect.

- [Inventory](#inventory): the parts, their state, operations and hard behaviours
- [Modules](#modules): which module models which part, and how
- [Runs](#runs): what is model-checked, with which bounds
- [Proofs](#proofs): what holds for every value of the constants, and why
- [Divergences](#divergences): where code and documentation disagree
- [Not modelled](#not-modelled) and [plan](#plan)

## Inventory

Paths are relative to `src/gateway`. `main.go` builds everything once and wires
it together; nothing is reconfigured at run time. Interactions are calls within
one process, HTTP calls to the provider, and messages to NATS Streaming.

| Part | Source | State it keeps | Operations | Hard behaviour |
|---|---|---|---|---|
| Scale from zero | `handlers/scaling.go`, `scaling/function_scaler.go`, `function_cache.go`, `function_meta.go`, `types/retry.go` | a cache of available replicas with an expiry; a single-flight group (`golang.org/x/sync`) with keys `GetReplicas-f`, `SetReplicas-f` | `Scale`: cache, first query, retry loop (query, then set), poll loop | many requests share one call, also one that started before they arrived; a slow reader overwrites a newer cache entry; a panic in the shared call reaches all who wait; both loops must end |
| Provider client | `plugin/external.go`, `scaling/service_query.go` | an HTTP client | `GetReplicas`, `SetReplicas` | labels are text; failures before and after the effect; `res` is nil after a failed `SetReplicas` |
| Alert handler | `handlers/alerthandler.go`, `requests/prometheus.go` | none | a batch of alerts: query, compute, set, for each | query and set are two calls, so readings are stale; partial failure of a batch; clamps and rounding |
| Manual scaling | `scaling/ranges.go` | none | `/system/scale-function` clamps and forwards | races with the two other writers of the same number |
| Forwarding proxy, notifiers, call ids | `handlers/forwarding_proxy.go`, `notifiers.go`, `callid_middleware.go`, `notifier_handler.go` | Prometheus counters | forward, answer, count | counters must balance whatever ends a call; event streams take another path, on a goroutine of their own |
| Asynchronous calls | `handlers/queue_proxy.go`, `vendor/.../nats-queue-worker/handler` | one NATS connection, replaced when lost | queue, acknowledge, reconnect | late acknowledgements; publication on a connection that is being replaced; reconnection that gives up |
| Metrics exporter | `metrics/exporter.go`, `metrics.go` | the last list of functions (no lock), a shared gauge | a poll every 5 s; `Collect` on every scrape | unsynchronised slice; overlapping scrapes; namespaces that cannot be listed |
| Function list with counts | `metrics/add_metrics.go`, `prometheus_query.go` | none | merge Prometheus counts into the list | counts that lag behind the counters; names that must agree with the counters' labels; a query that fails, or never ends |
| Log proxy | `handlers/logs.go` | none | stream logs until either side ends | a goroutine copies, and may outlive the handler; client, deadline and provider cut the stream off |
| Cached function query | `scaling/function_query.go` | a cache, a single-flight group | `Get`, `GetAnnotations` | an entry may expire between filling and reading; all who share a query fill the cache; no handler calls it |
| SingleFlight | `scaling/single.go` | a map of calls, a lock | `Do` | waiters read the result without the lock; the map, the wait group and the result are three pieces of state that change one after the other; used by nothing in the gateway |
| Names, URLs | `pkg/middleware`, `requests/forward_request.go` | none | string functions | three rules that derive a function's full name must agree |
| Startup | `main.go`, `types/readconfig.go` | the configuration, read once | read, check, build, connect, register, listen | settings that are missing or make no sense; pointers checked in one file and used in another; wrappers whose order matters; a second server on a goroutine |
| Authentication | `pkg/middleware/basic_auth_injector.go`, `vendor/.../faas-provider/auth` | none | one header checked, one set | - |
| Info, health, CORS, UI | `handlers/infohandler.go`, ... | none | one body | - |

What makes each part correct:

- *Scale from zero.* Every request is answered, whatever fails and whoever it
  shares calls with. Nobody waits for a call that nobody makes. A request is
  forwarded because its function had a replica, or because the gateway ran out
  of patience, and for no other reason.
- *The writers of a scale* (scale from zero, alerts, manual). No order of their
  reads and writes takes a function beyond the gateway's ceiling; alone, each
  does what its arithmetic says; alerts climb to the ceiling in the number of
  steps that the scaling factor promises.
- *Call paths.* Every call is answered; the counters agree with what clients
  saw, under the name the function has everywhere else; what was accepted is in
  the queue, under an id its client knows; a list counts no call that was not
  made; logs that nothing cuts off arrive whole, and no goroutine is left over.
- *Sharing layers* (`SingleFlight`, the group under `CachedFunctionQuery`, the
  group under `FunctionScaler`). One call at a time for a key; whoever joins it
  gets its result and nobody else does; nobody waits for a call that has ended.
- *Startup.* The gateway serves what the environment asks for, or exits.
- *Exporter.* What is exported was true a short while ago; what has gone
  disappears; one failing namespace does not falsify the others.

## Modules

```
ReplicaRules <-- AutoScale (abstract)            HttpExchange     Names
     ^                ^                           ^  ^  ^           ^
  Provider            | refines                   |  |  ForwardingProxy
   ^    ^             |                           |  |      ^
   |    +------- AlertHandler             LogProxy  QueuedProxy  FunctionList
   |                  ^                           ^      ^      ^
FunctionScaler        |                           +-- CallPaths +
   |   ^              |
   |   +--- ScalingSystem                    SingleFlight   CachedQuery
   | refines                                      ^             ^
   +--> ScaleGate, CallSharing (abstract)         +SharedQueries+
                                                  | refines
        MetricsExporter      Startup              +--> CallSharing
```

`X_proofs` holds theorems about `X` (`AutoScale_proofs` also lemmas about
`ReplicaRules`); `MCX` gives `X` constants for TLC.
Definitions that no other definition uses and that carry a longer name than the
action or operator next to them (`AboutToQueryOnceMore`, `FloorStep`,
`LeadBeforeAdd`, ...) are faulty variants of it: they are there to see that a
property notices them.

**ReplicaRules** - pure operators. `ExtractLabelValue` is `Atoi` followed by a
conversion to `uint64`: a value that is no number gives the fallback, a negative
one wraps around (`% UintModulus`). `CalculateReplicas` is the alert
arithmetic, addition wrapping too. Its `math.Ceil(float64(max) / 100 * factor)`
is the exact quotient rounded up, except where float64 lands above an integer:
`CeilRoundsUp` is the set of those pairs, and `Float64Ceil` in the MC modules
lists the seven there are for maxima up to 50 (computed with IEEE 754 doubles).

**Provider** - the provider, external, modelled from what `external.go` asks of
it: which functions are deployed, their desired and available replicas, their
labels. `GetReplicas` is what a query returns, errors included. `PodReady` and
`PodGone` are the provider's own steps; `Operator` is everybody else who
deploys, deletes, relabels or idles functions. `seenReady` is a history variable.

**FunctionScaler** - `MakeScalingHandler` around `FunctionScaler.Scale`. A
request is a goroutine; `stage` says which part of `Scale` it is in, `step`
where in that part's single-flight call, `tries` is the loop counter, `floor`
the captured `minReplicas`, `got` the response in its hands. `getCall[f]` and
`setCall[f]` are the two single-flight slots: `LeadGet` makes the call,
`FollowGet` joins it (also after it has been answered, until the key is
deleted), `AnswerGet`/`DropGet` are its outcomes, `ReturnGet` hands the result
to all waiters and frees the key. `SetReplicas` has three outcomes: accepted,
refused, and broken, when the code panics on a nil response; that panic runs
through the single-flight group into every waiter, which `net/http` recovers. Neither
a refusal nor a broken connection tells whether the provider has scaled
(`PerhapsScaled`); the alert handler's calls are the same.
Time is abstract: an entry may expire (`Expire`) at any moment, which is more
than 250 ms would allow, and sleeps take no step.

**ScaleGate** - what scale from zero promises: a request that asks is answered
once, and is admitted only if its function has been ready; or it is refused, or
the gateway gives up waiting. `FunctionScaler` implements it under the
refinement mapping at `Gate`.

**CallSharing** - what a single-flight layer promises: a caller joins the one
call of its key, when it ends all who joined by then are given its result, the
same one, and the next caller starts a new call. Three layers implement it, each
under a mapping of its own (`QuerySharing` in `FunctionScaler` and in
`CachedQuery`, `Sharing` in `SingleFlight`). `SingleFlight` implements it as
`FallibleSpec`, where a call that someone waits for may end the process
(`Collapse`); the other two never drop a waiter.

**SingleFlight** - `scaling/single.go`. What is done under `s.lock` is one step,
except for the goroutine's last section, which is three (`StoreResult`, `Wake`,
`Forget`): the waiters that `wg.Done` wakes read `call.res` without the lock.
`Call` objects have addresses, which are used again when nothing points to them,
so that a stale pointer would find another call's result. A panic of `f` ends
the process (`FPanics`), unlike in `golang.org/x/sync`.

**CachedQuery** - `CachedFunctionQuery.Get`: look, query in a group, fill, look
again. What the provider says of a function is a value that may change at any
time; an entry may expire at any moment. **SharedQueries** runs one of the two
layers, chosen at the start: they share no state, and one run checks both. What
`golang.org/x/sync` does when a call ends - every waiter has the result, the key is
free - is one step here and in `FunctionScaler` (`EndCall`, `ReturnGet`,
`ReturnSet`): the contract of that library, whose locking is not modelled.

**AutoScale** - the three writers as atomic actions: what they mean when nothing
races. **AlertHandler** is the real alert handler, with a query and a set per
alert, every failure, and the panic of `SetReplicas` that abandons a batch; with
a single handler and no other writer it implements `AutoScale`.

**ScalingSystem** - the three real writers on one provider.

**Names** - a name is the sequence of what its dots separate. `GetNamespace`
(scale from zero, alerts), `LabelOf` (the notifier's counters) and `FullName`
(cache keys, `mixIn`) are the three rules of the code.

**HttpExchange** - what the handlers share: `at[r]` says how far a request's
handler has come, `status[r]` is the status line its client has, and
`GiveCallId` is `MakeCallIDMiddleware`. **ForwardingProxy** adds the synchronous
path: `Forward` and `Complete` are the two notifications, between which the call
is `Unanswered`, or `Answered` and then `Copied`; event streams differ
(`StreamUnanswered`). **QueuedProxy** adds the asynchronous one: `live` is the
set of requests that hold the connection that is really up, so a publication on
a replaced connection fails; `Deliver` and `Acknowledged` are apart, so that a
stored call can be reported as failed; `Lose`, `Reconnect`, `ReconnectFailed`
and `GiveUp` are the lost handler's loop. **FunctionList** adds
`AddMetricsHandler`: `scraped` is Prometheus' copy of the counters, taken by
`Scrape` at any time; `CountingBroke` is the panic of `mixIn` on a failed query,
which `net/http` recovers and which leaves the client without an answer.
**LogProxy** adds the logs: `copier[r]` is the goroutine of `copyNotify`, which
reads and writes chunk by chunk while the handler waits for it or for the
client; `CutOff` is the client, the deadline or the provider. **CallPaths** runs
all of them side by side.

**Startup** - `readconfig.go` and `main`, in their order. `env` is any
environment, every setting that can fail or be left out being set, unset or
unsound; `handlers` maps each member of `HandlerSet` to its wrappers, the
outermost first, so that what `main` wraps around what, and when, is visible in
`routes`. Durations are int64s, so the product of a number of seconds wraps
around (`Int64`). The goroutine of the metrics server takes its steps at any time after
it was started, and its `log.Fatal` ends the process.

**MetricsExporter** - the watcher (`Poll`, `Fetch` per namespace, `Publish`) and
any number of scrapes. `e.services` is stored word by word, array and length
(`Store`), because nothing synchronises it; `Read` takes whatever pair it finds.
Where the length exceeds the list, the array has room to spare, whose zero elements
add a child without a name that the model leaves out (`ReadSpare`), or it has none,
and the process dies (`ReadPastEnd`). A list of namespaces that ends in an error is used as
far as it was decoded (`PollPartly`). The shared
gauge is emptied by `Reset` and filled child by child, `TakeChild` and
`SetChild` being apart because another scrape's `Reset` may come between them.

## Runs

All runs are exhaustive within their bounds. Bounds are constants of the
modules: loop limits (`MaxPollCount`, 1000 in `main.go`; `SetScaleRetries`, 20;
`MaxReconnect`, 60) are 1 or 2, which is enough for "none left", "one left" and,
where it is 2, "in the middle"; no guard is invented to bound a counter.

| Run | Question | Instance |
|---|---|---|
| `FunctionScaler_liveness` | Do requests that race through cache, single flight and loops stay within their types and each loop within its limit, keep each call attended, forward only on evidence and never ask for zero replicas, whatever fails and whoever else writes? Is each answered? Does `Scale` implement `ScaleGate`, and its queries `CallSharing`? (`TypeOK`, `NoOrphanedCall`, `ForwardedWasReady`, `AsksForReplicas`, `EveryRequestAnswered`, `KeepsPromise`, `SharesQueries`) | 2 requests, each of which may lead, follow or come late; 1 function (slots and cache entries of different functions do not interact); 2 retries, all faults and operators |
| `FunctionScaler_calm` | Without faults and other writers, is each answered request forwarded, and a function at zero scaled? (`CalmForwardsToReady`, `ScaledFromZero`) | 2 requests, 2 polls, minima absent and 2 |
| `FunctionScaler_timeout` | Is it true, as `scaling.go` says, that a function that is not ready in time is an error? No. (`ForwardedOnlyIfReady`) | 1 request |
| `AutoScale_rules` | Do the alerts climb as the factor promises, and do all writers respect the ceiling? (`FullRampWithinFactor`, `WithinCeiling`) | the gateway's own defaults, all maxima 0..55, all factors 1..100, odd and negative labels |
| `AlertHandler_lone` | Does a handler that races with nobody implement `AutoScale`, compute only what a uint64 holds, and does its 200 mean that each function is where its last alert wants it? (`AlertTypeOK`, `ImplementsAutoScale`, `AnsweredMeansScaled`) | 1 handler, 2 functions, odd labels, batches with a function twice, two functions, no name |
| `AlertHandler_abandoned` | Is every alert of a batch attempted? No. (`WholeBatchAttempted`) | as above |
| `ScalingSystem_safety` | Do the three writers together respect the ceiling? (`SystemWithinCeiling`) | 1 request, 2 handlers that race, manual requests, a ceiling of 2 that each of them reaches |
| `ScalingSystem_shrink` | Does scale from zero only ever scale up? No. (`ScaleFromZeroNeverShrinks`) | 1 request, 1 handler, manual requests |
| `MetricsExporter_scrapes` | Does a lone scrape report exactly what it read, torn or not, is a published list recent, and does the exporter settle? (`TypeOK`, `LoneScrapeIsExact`, `PublishedIsRecent`, `SettlesWhenQuiet`) | 2 functions in 2 namespaces, with and without namespaces, 1 count (the theorems take any), 2 overlapping scrapes |
| `CallPaths_all` | Do counters tell what clients saw, are accepted calls traceable, are listed counts real, do logs arrive whole, is every request answered and every goroutine over? (`PathTypeOK`, `CountersTellStatus`, `AcceptedIsTraceable`, `ListedCountsAreReal`, `LogsAreWhole`, `EveryCallAnswered`, `CopierEnds`) | 2 requests, each on any of four paths, so that a call runs beside a list that counts it; one function name in two namespaces, called in three ways; 2 chunks of logs; a call with or without an id of its own, well formed or not; 1 reconnection attempt |
| `SharedQueries_layers` | Do both layers implement `CallSharing`, answer every caller, run `f` once at a time, and hand out only results that are there and were said? (`LayerTypeOK`, `NoNilResult`, `OneRunPerKey`, `AnswersWereSaid`, `SharesCalls`, `SharesQueries`, `EveryCallerReturns`) | 2 callers, 2 keys, 3 objects (one more than callers can hold, so an address is always free and is used again); 2 clients, 1 function, 2 states |
| `Startup_boot` | Does the gateway exit or serve what it was asked for? (`StartTypeOK`, `NothingMissingIsUsed`, `ServesWhatIsConfigured`, `AuthIsOutermost`, `ComesUpOrExits`) | every environment; timeouts with either sign, with or without a unit, some of which a Duration cannot hold; a second is 10 units and a Duration holds 1024, instead of 10^9 and 2^63 |

The properties of `FunctionScaler` and of `AlertHandler` have one run each where
the state is richest. Three racing requests, and two racing handlers without the
rest of the system, add no case: the first is covered by theorems for any number
of requests, the second by `ScalingSystem_safety` and by a theorem for any number
of handlers.

Two runs go without the deadlock check, because their system really stops:
`CallPaths_all`, whose requests are served once, and `Startup_boot`, whose
gateway has exited or is up.

### Fairness

- *Goroutines are scheduled*: weak fairness of each request's own steps
  (`Serve(r)`, `Synchronous(r)`, `Asynchronous(r)`, `Lists(r)`, `Logs(r)`), of
  the copier of logs, of the watcher, of `main`. Go's scheduler is preemptive and
  fair enough for weak fairness.
- *Locks are handed over*: strong fairness of what needs `s.lock` in
  `SingleFlight`, which a mutex of Go gives: one that has kept a goroutine
  waiting for a millisecond is handed to it.
- *Calls end*: weak fairness of the disjunction of a call's outcomes, good and
  bad. Forwarded calls have a context with a deadline, `stan.Publish` has one,
  and so has a request for logs, which is why `LogsCut(r, "deadline")` is fair
  and the provider's part in the logs is not. Queries and sets of
  `plugin/external.go` have **none**: `ProxyClient` bounds the dialling only. Nor
  has the query of Prometheus, which goes through `http.DefaultClient`. For
  `FunctionScaler`, `CachedQuery` and `FunctionList` this is an assumption about
  the other side, and `EveryRequestAnswered`, `EveryCallerReturns` and
  `EveryCallAnswered` depend on it: a provider that accepts a call and stays
  silent blocks every request that shares its key.
- No fairness is assumed of replicas becoming ready, of operators, of scrapes,
  of clients, or of a connection that could be made again. `SettlesWhenQuiet`
  has its premise in the formula: from some time on no call fails and no
  function changes.

## Proofs

Checked with TLAPS (SMT, Zenon, LS4) for every value of the constants that
satisfies the named assumptions of the modules (`RulesAssumption`,
`ProviderAssumption`, `ScalerAssumption`, `AlertAssumption`, `SystemAssumption`,
`ExchangeAssumption`, `ExporterAssumption`, `StartupAssumption`, ...): any number
of requests, handlers, scrapes and functions, any labels, any loop limits from
one up, any ceiling below the integer width. There are 32 theorems. Six of them
have a hypothesis beyond those assumptions:

- `Handlers = {h}` (`LoneHandlerIsAtomic`, `AnswersMeanScaled`): the properties
  are about a handler that is by itself, and with two of them the query and the
  set of one come apart.
- `Headroom` (`AnswersMeanScaled`, `RampIsNeverShort`): no label asks for a
  minimum so large that one more step wraps around. `CalculateReplicas` adds
  without a check, so a minimum of `-1`, which is 2^64-1, makes the next firing
  alert scale to almost nothing; without the hypothesis both are false.
- `LabelsAreAccepted` (`CalmRequestsForward`): factors are within 1..100;
  others make every query an error, and the property is about calm.
- `DefaultNamespace # NoNamespace` (`CountersAddUp`, `ListsCountRealCalls`):
  `function_namespace` is set. Without it the counter of a call of `f` is named
  `f`, where `mixIn` compares with `f.`.

The runs are instances of these hypotheses. An inductive invariant, in each
module, is a conjunction of named parts; each is there for a reason.

**`AutoScale_proofs`** - `WritersRespectCeiling`, `RampIsNeverShort`: the writers
of a scale one at a time. The lemmas say what the rules of `ReplicaRules` return,
above all that an alert's target is the label's minimum or at most the ceiling,
and that a step is never short of the exact fraction; `AlertHandler_proofs` uses
them too. `RampInv` says that after k firings a function is at its ceiling or has
at least k times the exact, unrounded step, in hundredths; rounding up, by one
more where float64 does so, only adds to it.

**`FunctionScaler_proofs`** - `TypeCorrect`, `ForwardingIsJustified`,
`SlotsHaveWaiters`, `ScalingAsksForReplicas`, `ScalerImplementsSharing`,
`ScalerKeepsPromise`, `CalmRequestsForward`. The inductive invariant `IInv` has
five parts:

- `ScalerTypes`, the first half of `TypeOK`.
- `LoopsWithinLimits`, the other half: the retry loop's counter stays within
  `SetScaleRetries` and the poll loop's within `MaxPollCount`, each against its own
  limit. A request that has left the head of a loop is strictly below it, so the
  increment at the end of the body stays within; one in `set` still counts retries.
- `SafeInv`: what forwards a request is evidence, and evidence is kept in four
  places - `available` at the provider, the response in a slot, the response in
  a request's hands, the cache entry. `EvidenceInv` says that a positive number
  in any of them implies that the function has been seen ready. Evidence is
  copied from one place to the next and `seenReady` only grows, so each action
  preserves it.
- `FloorInv`: `AsksForReplicas` is about a call that was led with what its
  leader had captured iterations before, so it needs that a request anywhere
  between the capture and the call holds a positive minimum.
- `NoOrphanedCall`, inductive by itself: leading a call takes a slot and makes a
  waiter in one step, following adds a waiter to a slot in use, returning frees
  the slot and releases all its waiters, and nothing else moves a waiting
  request. That holds for `golang.org/x/sync` also when the function panics.

`ScalerImplementsSharing` maps the initial states and every step of the scaler to
`CallSharing`: with `NoOrphanedCall` and the types, leading and following are
`Join`, `ReturnGet` is `Finish`, the steps that look at a result are `Leave`, and
all others leave the mapped variables alone. `ScalerKeepsPromise` does the same
for `ScaleGate`: it is the safety part of `KeepsPromise`, whose fairness stays
with TLC. A request that arrives is `Ask`, one whose stage becomes `done` is
answered, with an answer (`AnsweredInv`) and, if that is "forwarded" before the
polls ran out, with the evidence of `IInv`. `CalmRequestsForward` needs `CalmInv`: without
faults and other writers, every reading is good, and a replica that has been read
is still there wherever the reading is kept; so no loop is left on an error.

**`AlertHandler_proofs`** - `AlertTypeCorrect`, `AlertsRespectCeiling`,
`LoneHandlerIsAtomic`, `AnswersMeanScaled`. The ceiling is not inductive alone: a
handler sets what it has computed from an old reading. `CeilingInv` adds that a
reading's minimum is within the ceiling, which suffices because a target is a
minimum or is clamped, whatever count was read. `PositionInv` ties a handler that
holds a reading to an alert of its batch. For a single handler `ReadingInv` adds
that what it has read is still so; hence its query stutters and its set is a step
of `AutoScale`. `ProgressInv` says for each position of a batch that the last
alert so far of each function has been carried out, as long as no query and no
set has failed; `HeadroomInv` keeps the counts away from the integer width.

**`ScalingSystem_proofs`** - `SystemRespectsCeiling`: the
three writers together. `SystemInv` joins the types and loops of the scaler with
the handlers' invariant, and adds `KeptInv`: the minimum that scale from zero
will ask for is within the ceiling in each of the places it is kept in between,
in a slot, in a request's hands, in its captured floor, in the call that is under
way. The handlers' steps are taken over from `AlertHandler_proofs`.

**`CallPaths_proofs`** - `PathTypeCorrect`, `AcceptedCallsAreTraceable`,
`LogsArePassedOn`, `CountersAddUp`, `ListsCountRealCalls`. `PathInv` is
`PathTypeOK` with three parts. `IdInv` says of each request which id its next
handler and its client have, as soon as it has been received; with `StoredInv`,
that only a stored call is acknowledged, traceability follows for any number of
concurrent requests. `CopierInv` relates the handler of logs with its goroutine:
while nothing has cut the stream off, the goroutine stops only at the end of its
source, and the handler returns only when it has; afterwards a goroutine that
holds a chunk has written none late, so that there is one at most. `SumInv` has
four more: `CallInv` (the status that will be counted is the one the client gets,
between the answer and the count too), `CountInv` (each counter is the
cardinality of a set of requests, so that one request's step changes one of them
by one), `ScrapedInv` (Prometheus lags behind) and `ListInv` (a list's counts
lie between the scrape before it and the last one). The sum over codes that a
query returns is a fold over a set; the `Total` lemmas say how it changes.

**`SharedQueries_proofs`** - `LayersTypeCorrect`, `RunsOncePerKey`,
`ResultIsThere`, `FlightImplementsSharing` for `SingleFlight`; `AnswersAreSaid`,
`QueriesImplementSharing` for `CachedFunctionQuery`. `FlightInv` has, besides the
types, `MapInv` (the map points to exactly those calls whose goroutine is not
done with it), `ProgressInv` (who holds the lock, and when wait group and result
are set) and `HolderInv` (who holds a call waits for its key, and finds a result
in it when it is over). `OneRunPerKey` is `MapInv`; `NoNilResult` needs all
three, because an object that somebody still holds must not be made into another
call. `QueryInv` has `SaidInv` (what is cached, or on its way, was said of that
very function) and `WaitedInv` (a call in the group has someone to answer).

**`MetricsExporter_proofs`** - `ExporterTypeCorrect`, `PublishesRecent`,
`LoneScrapesAreExact`, for any number of scrapes that overlap at will.
`ExporterInv` has `RecentInv` (what the watcher has been given during a poll is
among what the provider has had during it), `IdleInv` (a scrape that has not read
holds nothing) and `AloneInv`: a scrape that is alone finds the gauge as it left
it, empty before it has read, and after that equal to what it has read except for
the children it has still to set. What it has read need not be one list that the
watcher stored: the theorem is about the gauge, not about the torn slice.

**`Startup_proofs`** - `StartTypeCorrect`, `NoNilIsUsed`, `ServesConfigured`,
`AuthInFront`, for every environment, any numbers of seconds, any length of a
second and any width of a Duration that 60 seconds fit into. `StartInv` follows `main`: from each of its
steps on, `SettingsInv` says what is settled of the configuration, and
`HandlersInv` which handlers there are and what is outermost around them. A nil
URL for the logs is excluded by the check of the provider's URL, which is made two
steps before, together with the default in `readconfig.go`.

### Model-checked only

- Everything temporal (`EveryRequestAnswered`, `ScaledFromZero`,
  `EveryCallAnswered`, `CopierEnds`, `EveryCallerReturns`, `ComesUpOrExits`,
  `SettlesWhenQuiet`), and the fairness in `KeepsPromise`: liveness needs
  `ENABLED`, which the provers cannot reason about.
- The numbers in `CeilRoundsUp`: where float64 rounds above an exact quotient is a
  parameter of the proofs, which hold for any such set; that the seven pairs in
  `MCAutoScale` are all there are was computed.

Every invariant and every action property of a passing run is stated by a
theorem.

## Divergences

Three runs end in a counterexample, on a statement the repository makes:

1. `FunctionScaler_timeout`: `handlers/scaling.go:19` says that a function that
   is not ready in time is an error to the client. When the poll loop runs out
   `Scale` returns `Available: true` (`function_scaler.go:191`) and the request
   is forwarded. The branch that was meant for it is dead code: no step of
   `FunctionScaler` reaches its answer (`KeepsPromise` leaves no place for it).
2. `AlertHandler_abandoned`: `handlers/alerthandler.go:72` says that all alerts
   are handled one by one and errors collected. When a connection breaks during
   `SetReplicas`, `plugin/external.go:201` uses a nil response, and the panic
   abandons the rest of the batch.
3. `ScalingSystem_shrink`: `function_scaler.go:40` says that `Scale` takes a
   function from zero to its minimum. Between its check and its set an alert or
   an operator may have scaled the function up; it is then scaled down to one.

Others were seen while modelling, are part of the models, and have no run:

- Any failure of the first query, a lost connection too, is answered 404
  (`function_scaler.go:64`, `handlers/scaling.go:30` says "does not exist").
- Two requests that read zero before either has scaled set the replicas one
  after the other: the single-flight group merges only calls that overlap
  (`function_scaler.go:125`).
- `scaleService` drops the error of its query, so a batch is answered 200
  although a function was never looked at (`alerthandler.go:96`);
  `AnsweredMeansScaled` excepts exactly these batches.
- A firing alert scales a function down that is above its maximum
  (`alerthandler.go:134`), and two handlers that read the same count count one
  step between them (`alerthandler.go:111`).
- A label of `-1` wraps to 2^64-1 (`external.go:227`), where a message says that
  it should be an unsigned number; as a minimum it is then the target of a
  resolved alert. `WithinCeiling` therefore presupposes `SaneLabels`.
- `alerthandler_test.go:61` wants a first step of 2; the constants of
  `ranges.go` give 5.
- A scrape that reads `e.services` while it is stored may report a function without
  a name, or end the process (`exporter.go:63`).
- Overlapping scrapes see a gauge that another one has just emptied
  (`exporter.go:62`); `LoneScrapeIsExact` is what remains.
- An event stream whose provider cannot be reached is answered, and counted, as
  200 (`forwarding_proxy.go:239`).
- When Prometheus cannot be queried, `Fetch` returns nil and `mixIn` dereferences
  it (`add_metrics.go:72`): the list is not sent without counts, as the logged
  error before it suggests; the client's connection is dropped.
- `NewHTTPClientReverseProxy` changes `http.DefaultClient` (`proxy_client.go:29`),
  through which Prometheus is queried too: it follows no redirects either, and
  has no timeout of its own.
- After a client has left, the copier of logs may still write the chunk it had
  read (`logs.go:109`); `LogsAreWhole` bounds that to one.
- `CachedFunctionQuery.Get` may return an older reading than its own query's: all
  who share a query store it, and a slow one may overwrite what a later query
  found, before or after the others look again (`function_query.go:76`).
- A panic of `f` in `SingleFlight` ends the process (`single.go:69`);
  `golang.org/x/sync`, which `FunctionScaler` uses, panics in the waiters.
- `gateway/README.md:81` says that `basic_auth` covers the /system and /ui endpoints;
  `/system/telemetry` (`main.go:217`) has a handler that is not among those wrapped
  from `main.go:191` on. `AuthIsOutermost` names it as the one exception.
- `types/readconfig.go:42` says that a plain number is taken for seconds; the product
  with `time.Second` (line 51) wraps around beyond an int64, and `10000000000`
  becomes a timeout that has passed. `ServesWhatIsConfigured` excepts such numbers.
- `parseIntOrDurationValue` takes `-5` for its default and `-5s` for a duration
  that is over before it begins (`readconfig.go:50`); `0` is one too.
- Where `function_namespace` is not set, which it has no default for
  (`readconfig.go:176`), a call of `f` is counted as `f` (`notifiers.go:46`) and
  looked for as `f.` by `mixIn` (`add_metrics.go:102`), should the provider's list
  give no namespace. The theorems on counters presuppose that it is set.
- A bad `faas_prometheus_port` is reported with the value of `faas_nats_port`
  (`readconfig.go:130`).
- `gateway/README.md:69` gives 8 seconds as the default of the timeouts;
  `readconfig.go:71` has 60.
- Requests that `MakeScalingHandler` refuses carry no call id: it is outside
  `MakeCallIDMiddleware` (`main.go:161`).
- A gateway whose metrics port is taken exits, with the calls it is serving
  (`main.go:293`).

## Not modelled

- *Rewriting of URLs* (`pkg/middleware/resolver.go`, `requests/forward_request.go`):
  stateless text without an interaction. `getNameParts` and
  `FunctionAsHostBaseURLResolver` are used by nothing in `main`.
- *Authentication* beyond which routes it guards, *information, health, CORS,
  UI*: one header or one body each.
- *Settings that cannot fail or be missed* (cluster name, channel, hosts, secret
  path, the unused auth proxy).
- *`GetAnnotations`*: selects a field of what `Get` returns.
- *Headers and bodies*: no property is about them, except the call id and
  whether a body is acceptable. That a truncated body looks complete
  (`forwarding_proxy.go:161`) is therefore outside the model.
- *Real time*: deadlines and expiries may happen at any moment. Properties that
  need an upper bound on a delay cannot be stated.
- *Prometheus registration, the HTTP servers, routing*: libraries.
- *The queue worker* that takes calls out of NATS: another program.
- *sample-functions, api-docs, contrib*: not part of the gateway.

## Plan

The models cover the components that keep state or interact, and their safety
properties are proved. What is left:

1. `CallSharing` and `ScaleGate` as specifications in their own right: what
   follows from them alone (a caller is given the result of the call it joined; a
   request is answered at most once), so that it holds of all their
   implementations.
2. `AlertsWithinCeiling` and `SystemWithinCeiling` where labels are not sane: a
   bound by the largest minimum.
3. Scale from zero in front of the forwarding proxy in one composition.
4. The steps of the liveness arguments that need no fairness: what enables what,
   and which measure each goroutine's step decreases.
