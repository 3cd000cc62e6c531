# TLA+ models of the SolarWinds APM library for Go

This directory specifies the core of `apm-go` (under `src/`): how it obtains
sampling settings, decides which requests to trace, limits them, counts them and
names them; how it is configured, describes itself, starts and stops, as an
ordinary process and in AWS Lambda. TLC checks the specifications on small
instances; TLAPS proves most of the safety results for every instance.
`PROJECT.json` lists runs, theorems, hazards and, under `map`, the source lines
each definition stands for.

## 1. The system

An application links the library, calls `swo.Start`, and from then on every
request goroutine passes through the OpenTelemetry SDK into the library's
sampler and span processor. In the background one goroutine polls settings and
the SDK's metric reader collects counters.

| Part | State it keeps | Operations | Talks to |
|---|---|---|---|
| Token bucket (`internal/oboe/token_bucket.go`) | rate, capacity, available, last, under a mutex | `setRateCap`, `count`, `consume`, `update` | called by `SampleRequest`; bumps the counters |
| Settings (`settings.go`, `tracing_mode.go`, `trigger_trace.go`, `sample_decision.go`) | one immutable object per update, with three mutable buckets | merge with local configuration, per-URL merge, flags | built by `UpdateSetting` |
| Settings store (`oboe.go`) | an atomic pointer to the current settings | `UpdateSetting`, `CheckSettingsTimeout`, `SampleRequest`, `FlushRateCounts` | written by the updater, loaded by every request |
| Sampler (`internal/sampler`) and X-Trace-Options (`internal/xtrace`) | none of their own | `ShouldSample`, signature check | load the settings twice per request |
| HTTP settings updater (`settings_http_updater.go`, `settings_http_service.go`) | two timers, two semaphore channels, a context | select loop, fetch goroutine, TTL goroutine, stop | collector over HTTP, settings store |
| File watcher, Lambda settings (`file_watcher.go`, `settings_lambda.go`) | a ticker, an exit channel | start, poll, stop | settings store |
| Request counters (`internal/metrics/rate_counts.go`) | six atomic integers | increments, flush | `count`, metric reader callback |
| Entry spans (`internal/entryspans`), span processor, transaction names (`internal/txn`) | map from trace id to the list of open entry spans | `Push`, `Current`, `Delete`, `SetTransactionName` | SDK's `OnStart`/`OnEnd`, application |
| Response-time metric (`internal/metrics/otel.go`) | a histogram | `RecordSpan` | reads the transaction name |
| X-Trace-Options (`internal/xtrace`) | none | parse the header, check its signature | settings store, for the token |
| URL filters (`url.go`) | filter list, cache of decisions as text | `ReloadURLsConfig`, `GetTracingMode` | `mergeURLSetting` |
| Agent (`swo/`) | global oboe, span exporter, meter and tracer provider, stop functions | `Start`, shutdown, `WaitForReady` | starts all of the above |
| Propagation (`internal/propagator`, `internal/swotel`, `internal/w3cfmt`) | none | inject and extract of `tracestate` | other services |
| Configuration (`internal/config`) | one global object behind a lock: scalar fields, two nested structs behind pointers, flags that say what is local | `Load` (defaults, file, environment, options, validation), getters | everyone |
| Resource (`swo/resource.go`, `internal/host/k8s`, `internal/uams`) | `OTEL_SERVICE_NAME` in the environment, Pod metadata behind a `sync.Once` | `createResource` and its detectors | `Start`, `StartLambda` |
| Proxy dialer (`internal/proxy/helpers.go`) | one connection per dial, with what its reader has buffered | connect, CONNECT handshake, `Read` | gRPC, proxy, collector |
| Lambda agent and wrapper (`swo/agent_lambda.go`, `swolambda`) | a `sync.Once`, the flusher with the SDK's periodic reader, the tracer, the warm start flag | `StartLambda`, `WrapHandler`, `Invoke`, `Flush` | file watcher, Lambda runtime |
| Exporters (`internal/otelsetup`), logging, utilities | clients of third-party libraries | construction | I/O |

What is hard here: the settings pointer changes under requests that have loaded
it once or twice; the TTL check and an update race on it; the counters are read
and written one by one without a lock; two semaphores must survive every error
path; entry spans of one trace overlap and are named from outside; and the
bucket does arithmetic at its edges (zero time, saturation, fractions). A second
`Load` or `Start` finds what the first has left behind; cached decisions outlive
the filters they came from; two watchers share one exit channel; Lambda freezes
the process as soon as a handler returns, and overlapping invocations share one
metric reader, whose failed export loses what it has collected. The complete list, line by line, is
`hazards` in `PROJECT.json`.

What makes each part correct:

* bucket: never more than capacity plus rate times elapsed time, in any window;
  no starvation under polling;
* settings and decision: local configuration and OVERRIDE are honoured; a new
  trace pays exactly one token from the right bucket; the client is told the truth;
* store and sampler: no decision with settings older than the request; no relaxed
  budget without a current key; budgets hold per generation of settings;
* updater: semaphores conserved, stop drains, outages heal, expired settings go,
  healthy settings stay;
* counters: no increment lost or reported twice; totals consistent; all reported;
* entry spans: the map holds exactly the open spans; names stay in their trace;
  span attribute and metric agree;
* propagation: a trace is sampled as the library's last service upstream decided,
  whatever lies between; the response header reaches only the client that asked;
* configuration: what is enabled is valid, comes from the strongest source of the
  last `Load` only, and its flags tell the truth;
* resource and dialer: the process keeps its identity over several Starts, a
  schema conflict is never fatal; no byte of the tunnel is lost;
* header, names, filters: options do not disturb each other, a signature counts
  only for its header, token and time; names are bounded; the cache is invisible;
* Lambda: started once and whole or not at all; nothing of an invocation is left
  when it returns, except what an export has lost that somebody else asked for; the
  settings follow the file; stopping ends every goroutine;
* agent: whatever Start returns cleans up all that runs, but for what a failed
  `ConfigureAndStart` leaves; a running agent is found;
  `WaitForReady` returns and tells the truth.

## 2. Modules

| Module | Models | State and steps |
|---|---|---|
| `Bucket` | token bucket arithmetic | pure operators; tokens counted in units of `1/Token` so fractions are integers; `Sub` saturates like `time.Time.Sub` |
| `TokenBucket` | one bucket in time | `Grant`/`Refuse` are one `consume` under its mutex; `OpenWindow` (re)starts the measuring window of the properties; not code |
| `Settings` | settings and decision | pure operators; a bit mask is the set of its flag names |
| `Oboe` | settings store | `heap` holds every object ever stored, `settings` is the pointer (an index or `Nil`). `UpdateSetting` is two steps (build with the clock, store), `checkSettingsTimeout` two (load, judge and clear) |
| `Sampler` (composes `Oboe`, `Settings`, `Bucket`) | `ShouldSample` | a request arrives, authenticates (first load), loads settings (second), counts and decides, answers |
| `UpdaterLife` | what the rest of the agent knows of an updater | the abstract specification: it is started, settings come and go while it is alive, it is cancelled, it ends |
| `SettingsUpdater` (implements `UpdaterLife`) | HTTP updater | one action per ready case of the select, one per step of the fetch and TTL goroutines between which another goroutine may run |
| `RateCounts` | counters | one action per atomic increment and per atomic swap |
| `EntrySpans` | entry spans, processor, names | `OnStart` and `OnEnd` in the steps between which the mutex is free; `setTransactionName` holds it over two |
| `Propagation` (uses `Settings`) | `Extract`, `Inject`, trace state, response header | one trace on its way: on the wire, or in a service of this library (`Receive`, `Respond`, `StartChild`, then one of the `Send` actions), a W3C service or a lossy proxy. A trace state is the list of its members; text is a list of words, so that escaping is real |
| `Agent` | `Start`, its returned functions, global oboe, metrics publisher, `WaitForReady` | one action per step of `Start` with its failure as an alternative; `exporter`, `meters` and `tracer` say what it has opened; the updater as seen from outside (`UpdaterLife`); `WaitForReady` as its two selects and the check |
| `Config` | `Config.Load`, validation, getters of the addresses | one action per phase of `Load`, which holds the write lock throughout; `fields`, and `sampling` and `reporter`, which may be nil; a source is a function from the fields it gives to their values |
| `Resource` | `createResource`, k8s, UAMS | one action per detector, in order; `world` is what the files, variables and endpoints hold at this Start; an error is the set of kinds that `errors.Is` finds in it |
| `ProxyDialer` | the dialer for gRPC | the socket, the handshake's buffer and the connection handed over; proxy and collector are actions of their own |
| `XTraceOptions` | the header and its signature | one action per kind of option; `Sampler` takes the result as its input |
| `TransactionNames` | `deriveTransactionName` | pure operators on texts of tokens |
| `UrlLookup` | what the filters promise | the abstract specification: an answer is what the list of filters says |
| `UrlFilters` (implements `UrlLookup`) | `GetTracingMode` with its cache | hit, miss, lookup and store are steps of concurrent requests; entries vanish at any time |
| `Lambda` | `StartLambda`, `WrapHandler`, `Invoke`, `Flush` | one action per step that can fail or that another goroutine can see; `reader` is the goroutine of the SDK's `PeriodicReader`, which takes what is `pending` for whoever asked (an invocation or its own ticker) and then exports or loses it |
| `FileWatcher` | the settings file of Lambda | the caller of `Start`, the ticker goroutine and `Stop` of each watcher, the shared exit channel; reading the file and updating oboe are two steps |
| `TokenBucketProofs`, `RateCountsProofs`, `AgentProofs`, `SettingsUpdaterProofs` | | the proofs about the module each is named after |
| `SamplerProofs` (extends `Sampler`), `SpanProofs` (`EntrySpans`, `Lambda`, `FileWatcher`), `StartupProofs` (`Config`, `Resource`, `ProxyDialer`), `RequestProofs` (`UrlFilters`, `XTraceOptions`, `TransactionNames`, `Propagation`) | | the proofs about these modules |
| `MC*` | | constants for TLC |

`MCStartup` (`Config`, `Resource`, `ProxyDialer`), `MCRequests` (`XTraceOptions`,
`TransactionNames`, `UrlFilters`) and `MCLambda` (`Lambda`, `FileWatcher`) check
components side by side that share no state in the code either: the next-state
relation lets one of them move while the others are in their initial state. Since
no step of one reads or writes another's variables, this covers every behaviour
of each.

Definitions introduced by a comment "A plausible slip" are mutated forms of a
definition of the model; no specification uses them.

Time in `TokenBucket` and `Oboe` is a clock bounded by `MaxTime`. In
`SettingsUpdater` it is relative (timers count down, ages grow up to `MaxAge`),
so its behaviours are unbounded and liveness can be checked.

Choices worth knowing:

* A data race is modelled by its outcomes: `GetTransactionName` reads a string
  outside the lock, and a read during a write may return the old name, the new
  one or `Torn`.
* The random draw of `shouldSample` is any value of `Dice`; it keeps the code's
  `<=`.
* Lambda's metrics have delta temporality (`otel_metric_exporter.go:79`): collecting
  takes the data out of the instruments. An export that fails has therefore lost its
  batch (`lost` records whose, and who had asked), and a `ForceFlush` that times out
  does not stop the export. The reader is the SDK's, hence modelled from how
  `agent_lambda.go` uses it.
* The HTTP answer is one of ok, error and invalid key. A cancelled context adds
  error. No request outlives `HttpTimeout`.
* A request that ends in `SampleRequest` without settings counts nothing, as in
  the code.

## 3. Runs

| Run | Instance (states) | Shows |
|---|---|---|
| `token_bucket` | token = 2 units, rates 0-3, capacities 0-6, 6 ticks (12 thousand) | `WindowBound`, `NoStarvation`; the start time exceeds the largest duration so the first refill saturates as it does in Go |
| `sampler_inputs` | one request at a time, all parents, all header forms, five remote settings, four local configurations, 2 ticks (950 thousand) | `NewTracesPay`, `ResponseTruthful`, `LocalConfigHonoured`. These are about inputs; a single goroutine that serves one request after another also empties and refills the buckets |
| `sampler_interleaved` | two goroutines, two generations of settings with different keys, one token a bucket (890 thousand) | `TokenBudget`, `DecisionNotStale`, `RelaxedNeedsKey`: two goroutines suffice to have one hold each generation; goroutines are symmetric |
| `updater` | intervals 2 and 1 (60 s and 30 s), timeout 1, TTL 3 or 4, two fetch goroutines, any delay, any answer, stop at any time (146 thousand) | `SemaphoresConserved`, `SeenFromOutside` (it implements `UpdaterLife`, and ends once it is cancelled), `SettingsReturn`; and, until a goroutine that could run has been kept waiting over a tick (`late`), `FreshWhileRunning` and `NeverLostWhenHealthy`. A second fetch can be alive only while the first has released the slot and not yet cancelled, so two are enough |
| `updater_ttl_race` | the same, expected to fail | `OnlyExpiredDeleted` is violated: see section 5 |
| `rate_counts` | two goroutines, two calls, any number of flushes (630 thousand) | `Ledger`, `NothingLost`, `AllReported`: one call can straddle a flush while the other starts and ends inside it |
| `entry_spans` | three spans in two traces, two callers, two names, two sets (3.2 million) | `ListsMatchOpenSpans`, `NamesStayInTrace`, `NamesAgree`; deadlock checking is on and the only final state allowed is that of all spans closed with the mutex free |
| `propagation` | up to four services, three vendors, three members for 32, four kinds of settings and none, all headers (1.2 million) | `DecisionFollowsUpstream`, `ResponseIsOwn`, `VendorsSurvive`: two services of the library with two others between them, and a list that fills up before it reaches one |
| `agent` | two calls of `Start`, one goroutine in `WaitForReady`, deadline of two polls (200 thousand) | `ShutdownIsComplete`, `UpIsGlobal`, `WaitIsTruthful`, `WaitReturns`: a failed Start, its retry, and the clean-up of the first at any later time. A third Start repeats the second (the proofs have no bound) |
| `startup` | every file, environment and set of options with one or two fields each, valid, repairable and unreadable, nested structs included, any number of Loads; three Starts in eight surroundings; three dials, three items from the collector (150 thousand) | `LoadedIsValid`, `FlagsTruthful`, `LoadIsPure` (scalar fields, nested structs and their flags) on the same object, each Load finding what the one before left. `IdentityIsStable`, `ConflictIsNotFatal`: the second Start meets what the first wrote, the third what both did. `TunnelIsLossless`: the collector may have spoken before the proxy's answer is read |
| `requests` | headers of up to three of twelve options, two tokens; paths of up to six tokens, blanks among them, and up to three attributes; two requests, two URLs, lists of up to two filters (190 thousand) | `ParseMeetsHeader`, `ValidIsFresh`: three options are one more than can affect each other. `NameIsBounded`: six tokens are two segments more than are kept; which beginning of the path a name is, is asked of paths without empty segments. `Transparent`: two requests fill and read one entry around a reload |
| `lambda` | two goroutines that wrap, two invocations that may overlap; two watchers, two versions of the file (170 thousand) | `StartedOnceAndWhole`, `NothingLeftBehind` (two invocations suffice for one to collect the other's metrics and lose them), `EventuallyCurrent`, `StopTakesEffect`: one watcher can take the exit meant for the other, and an old read can be overtaken by a newer one |

`CHECK_DEADLOCK FALSE` stands where the system may really stop: a process that has
loaded its configuration, served its requests or returned from its handlers.

### Fairness

* `SettingsUpdater.Fairness`: weak fairness of each case of the select, of each
  goroutine and of time. Go's scheduler runs every runnable goroutine, `select`
  picks among ready cases at random, timers fire. Nothing is assumed of the
  collector, except in `SettingsReturn`, which starts from the premise that one that
  is asked again and again answers in the end (strong fairness of a good answer).
* `late` (in `SettingsUpdater`) is no assumption but a record: it becomes true when
  time passes while a goroutine could run. `FreshWhileRunning` and
  `NeverLostWhenHealthy` are timing claims and are stated for behaviours in which
  it is false, that is, goroutines run before the next tick of 30 seconds.
* `RateCounts.FairSpec`: requests finish, the metric reader collects
  periodically (strong fairness of starting a flush, since settings come and go),
  and settings that went away come back, which is `SettingsReturn` of the updater.
* `Agent.FairSpec`: weak fairness of the caller's check and of time, strong
  fairness of the deadline's case, which `select` chooses at random among ready
  ones. Nothing is assumed of the application or the collector.
* `FileWatcher.WatcherFairness`: goroutines are scheduled and the tickers tick
  (weak fairness); strong fairness of taking the exit, since `select` chooses at
  random between it and a tick, and of the blocked send, which waits in the
  channel's queue. Nothing is assumed of the extension that writes the file.

### Refinement

`UrlFilters` keeps decisions in a cache, converted to text and back, which other
requests read, which expires and which is cleared by a reload. `UrlLookup` has no
cache: an answer is what the filters say of the URL. `Transparent` says that the
first implements the second, with the filters and the answers mapped to
themselves; it is checked in `requests` and proved for all constants. A lookup
that panics at a nil filter is an answer too (`"panic"`), in both.

`SettingsUpdater` has a loop, fetches, checks, two timers and two semaphores;
`UpdaterLife` has a phase and whether there are settings. The mapping (`Outside`):
the phase is "stopped" when the loop has exited and no goroutine is left
(`Drained`), else "cancelled" or "running" by the context; settings are present when
the pointer is not nil. `SeenFromOutside` says that the first implements the second
with its liveness (a cancelled updater ends); it is checked in `updater`, and its
safety half is proved (`UpdaterLives`). `Agent` replaces each agent's updater by two
variables that move on their own. That they do no more than `UpdaterLife` allows
(`Life`) is proved as well (`UpdatersAssumed`), so the same specification stands
between the two models.

## 4. Proofs

`TokenBucketProofs` (for every token size, rate, capacity, start time and clock
bound): `TypeCorrect`, `RateLimited` (`WindowBound`), `NeverFull`
(`FullNeverGrants`), `PollingIsServed` (`NoStarvation`). `WindowBound` is not
inductive since it does not mention what the bucket holds. The inductive
invariant adds `Times` (the bucket's clock lags behind the real one and has
passed the window's start once the window granted or refused), `Filling`
(available within capacity), `Accounting` (granted plus held is at most capacity
plus the refill up to `last`), and `Hoarding` (while nothing is granted the whole
refill is still there). `FullNeverGrants` is part of it: `update` does not advance
`last` of a full bucket, so `Accounting` would fail if a bucket that can grant
were ever full. Lemmas about `update` and `consume` are proved once; assumptions
are those on the constants (`Token`, `MaxDuration`, `StartTime` positive, the clock
bound; rates and capacities natural).

`RateCountsProofs` (any set of goroutines, any bound on calls): `CountsConserved`
(`NothingLost`) and `LedgerHolds` (`Ledger`). A swap overwrites a field of the
report, so conservation needs `Unswapped`: fields not yet swapped in this flush are
zero in the report. The ledger balances only between calls; `Books` says by how much
it is off in the meantime, which is the number of goroutines that have counted in
the field and not ended their call. It needs `Pending`: what a call has left to
count is some of what it counts, and no field comes twice.

`AgentProofs` (any number of calls of `Start` and of waiting goroutines):
`AgentIsFound` (`UpIsGlobal`), `NothingLeftRunning` (`ShutdownIsComplete`) and
`WaitersHearTheTruth` (`WaitIsTruthful`, an action property).
The invariant adds `OneAgent` (one agent at most is between publishing its oboe
and the end of its shutdown, which is the assumption on the application),
`Published` (until its shutdown that agent's oboe is the global one) and `Parts`
(what runs or is open at each point, and which function is returned there). For `WaitForReady`,
`WaitInv` adds that a call that polls has found an oboe; that this oboe is the
running agent's own is `UpIsGlobal` again. `UpdatersAssumed` goes through the steps
of Start, shutdown and the updaters, each for the agent itself (`OwnLife`) and for
every other one (`OthersLife`).

`RequestProofs`. `UrlFilters` (any URLs, lists of filters and number of
requests): `CacheIsCurrentTheorem`, and `TransparentTheorem` (`Transparent`). A
step that answers from the cache is a step of `UrlLookup` only if the entry,
read back from its text, is what a lookup would find now; that is
`CacheIsCurrent`, which with `TypeOK` is inductive: an entry is stored by a
request that looked up the filters in force, and a reload, which no request
overlaps, clears the cache. The one fact about data is that a list with a filter
that decides has a first one.

`XTraceOptions` (any headers, custom keys and tokens): `OptionsAreIndependent`
(`ParseMeetsHeader`) and `AcceptedIsFresh` (`ValidIsFresh`). The header is read
step by step, so the induction is one over steps: `ParseInv` says that the
fields are what the first `Done` options say (`Meets`) and that `rest` is what
follows them. The list of ignored keys needs a witness, the positions its
elements come from, which every ignored option extends by one.
`HeadersAssumption`: a timestamp is a number or cannot be parsed;
`KeysAssumption`: a custom key is none of the keys the code tests for first.

`TransactionNames` (any span attributes, paths of any length, any limit):
`NameIsBoundedTheorem` (`NameIsBounded`). What is proved on the way (`BoundedBy`)
is more: a name reaches to the third slash of any path, empty segments counted, which
is what the code does but not what it says (section 5). The model cuts a path at the next
slash after a place (`NextSlash`), so nothing is recursive; the lemmas say what
the smallest of a set of positions is, where the third slash lies, what trimming
leaves and that a cut keeps a prefix. `InputsAssumption`: what arrives are texts
and a list of attributes; `MaxNameAssumption`: the limit is positive.

`Propagation` (any chain of services, vendors, settings and limit on the members
of a trace state): `UpstreamIsFollowed` (`DecisionFollowsUpstream`),
`ResponsesAreOwn` (`ResponseIsOwn`) and `VendorsPass` (`VendorsSurvive`).
`PathInv` says that the sw member on the wire is what the library upstream has
decided and that no response travels there (`WireInv`), that a span's trace
state is a list without repeated keys (`SpanInv`), and that the response in it,
read back through the escaping, is the truth (`Truthful`). `CargoInv` adds that
lists keep to their limit and that a span's list is the one that arrived, with
the response in front of it or not. Most of the work is in lemmas about lists:
what `Insert`, `Without`, `Inject` and the escaping do to the keys, the order
and the length of a list. `VendorsAssumption`: other vendors use neither `sw`
nor the key of the response.

`SettingsUpdaterProofs` (any intervals, timeout, set of TTLs and number of fetch
goroutines): `SlotsConserved` (`SemaphoresConserved`), `StaleSettingsGo`
(`FreshWhileRunning`) and `HealthyNeverLoses` (`NeverLostWhenHealthy`, an action
property). The first needs to know who holds a slot (`Semaphores`: it is free,
or exactly one fetch is between taking and releasing it). The second adds
`Fresh`, which ties the age of the settings to the TTL timer: what is older than
its TTL is older by no more than the timer has run, or a check of it is under
way. The third adds `InTime` and `Young`: a fetch ends before the next one is
due, so the settings are never older than one interval and one request. It
assumes `RoomForOneFetch`, stated with the theorem: the timeout is shorter than
the update interval and the two together fit into the TTL, which holds of the
code's 60 s and 10 s and the collector's 120 s, and of the instance that TLC
checks.

`UpdaterLives` is the refinement: most steps leave phase and settings alone or
change one of them while a goroutine lives; the one that needs an invariant is
the loop's exit, which is a step from "cancelled" only because the loop does not
exit before it is told to (`ExitedWhenDone`).

`SamplerProofs` (any number of requests, updates and expiries, any
configuration, rates and capacities): `DecisionsAreCurrent`
(`DecisionNotStale`), `RelaxedIsAuthenticated` (`RelaxedNeedsKey`),
`NewTracesArePaid` (`NewTracesPay`), `ResponsesAreTrue` (`ResponseTruthful`),
`ConfigIsHonoured` (`LocalConfigHonoured`), `BudgetsHold` (`TokenBudget`). The
properties speak of finished requests; `SampleInv` says what is known of a
request at each point before: `Signed` once its signature is checked, `Current`
once it has loaded its settings, `Outcome` when it has decided. That the second
load finds settings at least as new as the first rests on `StoreInv`: the
pointer is nil or points to the newest object, and every object obeys the local
configuration (`Obeys`). `BudgetInv` keeps the books of every bucket of every
generation, one that is still pending included: what was taken and what is left
is covered by capacity and refill up to `last`, and a bucket never refilled is
empty (`Paid`).

`TokenBudget` counts from the first settings. `EveryInterval` and
`EveryWaitEnds` say of every bucket in the composition, in force, replaced or
expired, what `TokenBucket` says of one alone: between any moment and any later
one it grants at most its capacity and what its rate produces in between, and a
bucket that has granted nothing since a moment grants the next token as soon as
it is due. The moment is fixed by its time `t` and by what had been granted by
then, `n`; the invariants from there on are `Covered` and `Hoarded`, and
`BucketStep` shows that nothing but `consume` changes a stored bucket, whatever
requests, updates and expiries interleave. As in `TokenBucket` a full bucket
does not advance its clock, so the interval before its first grant would count
twice were there one that can grant: `FullInv`. `EveryWaitEnds` speaks of
intervals up to the largest `Duration`, where Go's subtraction saturates.

`ArgsAssumption` gives the arguments of an update and of the configuration their
numeric types.

`SpanProofs`. `Lambda` (any number of wrapping goroutines and overlapping
invocations): `StartedOnce` (`StartedOnceAndWhole`) and `InvocationsComplete`
(`NothingLeftBehind`). `Starting` says that who entered the Once is alone in
`StartLambda` and that nobody has returned before it is done; `Invocation` says
what became of the span at each point of an invocation, `Flushed` what became of its
metrics: pending, in the reader's batch, exported, or lost, and by whom.
The theorem does not say that a flush that succeeds has exported the invocation's
metrics, which is false (section 5), but who else can have lost them.

`EntrySpans` (any spans, traces, callers, names): `NoEntryLeaks`
(`ListsMatchOpenSpans`), `NamesDoNotCross` (`NamesStayInTrace`),
`TransactionsAgree` (`NamesAgree`). `Lists` and `Listed` say that a list is not
empty, has no entry twice and holds spans of its trace only, and that a pushed
span is in it; without "not twice" `Delete`, which removes the first match,
could leave one behind. `NameInv` follows a name from the call, over the entry,
to the span; `AgreeInv` is the state of a span alone in its trace at each of its
steps, with a writer on its way or not. `NamesAssumption` (an application's name
is not the empty text, which the code reads as no name) and `NoneAssumption` (no
entry is not an entry) are the assumptions.

`FileWatcher` (any finite number of watchers, any contents of the file):
`ExitsAreShared`. All watchers share one channel and any goroutine takes any
exit, so which one ends is left to chance; what holds is a count
(`ExitsCounted`: exits sent are goroutines ended and what is in the channel).
From it follows that stopping all leaves at most one goroutine, whose exit is
waiting, and that nothing is left in the channel for a later watcher.
`StopTakesEffect`, that this last one ends too, is liveness.

`StartupProofs`. `Config` (any files, environments and options, any number of
Loads): `EnabledIsUsable` (`LoadedIsValid`), `FlagsNeverLie` (`FlagsTruthful`),
`LastLoadDecides` (`LoadIsPure`). `LoadInv` says that at each phase of `Load`
the fields are what the sources read so far say (`Given`), that a sampling value
without its flag is the default and a flag comes from a source read (`Flagged`), and
what the nested structs are unless they are nil; lemmas say what the setters, `UnmarshalYAML`, `validate` and a reset do.
`SourcesAssumption`: an address has a host and a port, `Enabled` is a Boolean, a
file that is not read gives nothing, there are options for two fields only;
`NilAssumption`: nil is not a struct.

`Resource` (any surroundings and number of Starts): `ConflictsAreDropped`
(`ConflictIsNotFatal`) and `IdentityHolds` (`IdentityIsStable`), from what a
Start has written and memoized so far.

`ProxyDialer` (any number of dials and bytes): `TunnelKeepsEverything`
(`TunnelIsLossless`). Until the answer is accepted, the proxy's answer comes
first in what arrives, so `DialInv` numbers the items from it before the
hand-over and from the collector's first byte afterwards (`Follows`).

Each inductive invariant was model-checked on the runs of its component before it
was proved (of `DialInv` all but the type of its sequences and of `ParseInv` all but
the type of its fields, which mix texts and numbers).

Only model-checked are the liveness properties (the liveness half of
`SeenFromOutside`, `SettingsReturn`, `AllReported`, `WaitReturns`,
`EventuallyCurrent`, `StopTakesEffect`), which are out of the prover's reach. Only
proved are `EveryInterval` and `EveryWaitEnds` (a run would need a variable for the
moment they start from; they were checked on the instance of
`sampler_interleaved` with such a variable before they were proved),
`UpdatersAssumed` and `ExitsAreShared` (its invariant likewise, with three watchers).

## 5. Where the code differs from what is said of it

One disagreement has a run of its own, `updater_ttl_race`: `checkSettingsTimeout`
loads the settings, judges that object and then stores nil whatever the pointer
holds (`oboe.go:294`), so it may delete settings that an update has stored in
between, although the comment (`oboe.go:279`) says it "checks and deletes expired
settings". `NeverLostWhenHealthy` shows the limit of the damage, `SettingsReturn`
that it heals.

The models contain the following as well; the properties are stated so that they
hold with them.

* `agent.go:69`: when `ConfigureAndStart` fails, nobody shuts the span exporter down,
  and a meter provider that was created before the failure goes on running; the
  function that `Start` returns stops the updater only (`ShutdownIsComplete` says
  that these two are all that is left).
* `agent_lambda.go:75`: "The reader is flushed manually", but a `PeriodicReader` has a
  ticker too (`ReaderTicks`). Its export may fail between the end of a span and the
  flush; the data is gone, the error dropped, and the flush succeeds.
* `agent_lambda.go:49`: with overlapping invocations, an invocation's metrics may be
  collected by another one's flush and lost with it, and its own flush then succeeds
  (`NothingLeftBehind`).
* `agent_api.go:64`: `WaitForReady` may answer yes from the oboe of an agent that was
  shut down meanwhile (`WaitIsTruthful` asks for that oboe's settings).
* `oboe.go:190`: for a trigger trace, rate and capacity of the bucket are passed in
  swapped positions, so `BucketCapacity` reports the rate.
* `entryspans.go:169`: `SetTransactionName` returns nil although the span has ended
  between the lookup and the set and is exported without the name
  (`EntrySpans.SetAttribute`).
* With only `TRIGGER_TRACE` set, a trigger trace spends a token and is answered ok
  while `ShouldSample` drops the span; `ResponseTruthful` and `NewTracesPay` hold,
  since they are about the decision that was paid for and answered.
* Of two overlapping entry spans of one trace, the one that ends is recorded under
  the current one's name (`NamesAgree` is about spans alone in their trace, and
  `NamesStayInTrace` is content with any span of it).
* `config.go:714`: a file that sets a nested struct to null and then fails leaves a nil
  pointer in the disabled configuration, since `loadYaml` returns before it puts the
  pointers back and the reset skips nil ones; the comment at 330 promises default
  values, and a later `Load` that succeeds dereferences it (`Config.Validate`,
  `loading = "panic"`). `LoadIsPure` speaks of structs that are not nil.
* `config.go:974`: a service name with a colon passes validation, which allows it
  (341), and is refused by `ParsedServiceKey` afterwards.
* `config.go:789`: the settings URL of an IPv6 collector without a port is cut inside
  the address (`SettingsHost`; `LoadedIsValid` leaves it out).
* `url.go:146`: a filter whose expression does not compile, reported as ignored, is
  appended as nil, and the first lookup that reaches it panics (`LookupPanics`).
  The sampler passes an empty URL today.
* `settings_lambda.go:48`: a settings file whose object has no arguments is not
  reported as an error and crashes the process (`FileWatcher.Update`, `crashed`).
* `file_watcher.go:84`: the read in `Start` races the goroutine it has started, so
  older settings may replace newer ones until the next tick (`EventuallyCurrent`).
* `txn.go:101`: a path with empty segments is named after the empty ones, `//a/b` is
  `//a`, not after its "first 2 non-empty segments" (100). Of such paths `NameIsBounded`
  says only that the name is a beginning with at most two slashes.
* `resource.go:89`: a detector's failure that `resource.New` joined with a schema
  conflict is dropped with it (`ConflictIsNotFatal` is stated one way only).
* `proxy/helpers.go:93`: after a failed handshake the deferred close finds a nil
  connection, because the named result was overwritten; the connection stays open
  until it is finalized (`ProxyDialer.Finalize`).
* `settings_http_updater.go:97`: an invalid key also stops the TTL check, so the last
  settings never expire (`FreshWhileRunning` is about a running loop).

## 6. Not modelled

* Floating-point rounding in the bucket; wall-clock jumps (Go's monotonic clock
  is used for `Sub`, so `delta <= 0` means equal readings).
* Text: splitting of headers, URLs, JSON, log messages, the `X-Trace` response
  header, the masking of secrets in the log. Their outcomes are inputs.
* Bytes: names are cut by tokens, so a cut inside a character does not show.
* `RemoveSetting` and the setters of `ReporterOptions`, which nothing but tests calls.
* The exporters of `internal/otelsetup` and the HTTP transports: built once from
  variables and configuration, without state of their own; the rest is third-party.
  Of the SDK's `PeriodicReader` only collecting, exporting and answering are modelled.
* Logging, constants, version, random source (`Dice` stands for it), examples,
  generated code and test helpers.
* Waits the code does not bound: a UAMS endpoint or a proxy that accepts and never
  answers. The models take their answers as inputs.

## 7. Plan

Done: every component with state of its own; the composition of store, settings,
bucket and sampler; two refinements, one of them between two models; proofs of every
safety invariant and action property that a run checks, and of the bucket's bounds
over every interval of the composition.

Left:

1. `EventuallyCurrent` and the other liveness properties stay with TLC until the
   prover can handle fairness.
2. The exporters of `internal/otelsetup`, should they gain state of their own.
3. Two agents alive at once (`swo/agent.go:103`): `Agent` assumes that the
   application shuts the first down before it starts the second, since the code
   promises nothing otherwise.
