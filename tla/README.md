# TLA+ verification of usage-metrics-collector

This directory holds TLA+ models of usage-metrics-collector: its concurrent core, the
sampling of a node, and what becomes of the samples in a scrape; TLC configurations
that check them on small instances; and TLAPS proofs that carry the main safety
results over to every instance. `PROJECT.json` maps every definition to the lines it
models and lists runs, properties, hazards, findings and theorems.

Run a model with `tlc -config Registration.cfg MCRegistration`, check a proof with
`tlapm RegistrationProofs.tla`.

## The system

usage-metrics-collector publishes resource usage of a Kubernetes cluster to
Prometheus. A **metrics-node-sampler** on each node reads cgroup and containerd
counters into a ring of samples and pushes summaries over gRPC streams to every
**metrics-prometheus-collector** replica it knows. A collector caches the last
response of each node, joins it with Kubernetes objects, aggregates, and serves the
result from a cached `/metrics` response; it may also write sample files, which
**umc-archiver** copies to cloud storage and BigQuery and deletes.

| component | state | operations | interacts with |
|---|---|---|---|
| sampler push server (`pkg/sampler/server.go`) | `collectorConnections` under a mutex, one context and watcher goroutine per connection, `lastSent` | push loop, DNS loop, `RegisterCollectors`, watchers, shutdown | sample cache (reads), collectors (streams) |
| sample cache (`pkg/sampler/cache.go`, `cgroup.go`) | ring of samples, known containers | `fetchSample`, `AddSample`, `getAllSamples` | cgroup files, containerd, cadvisor |
| utilization server (`pkg/collector/utilization`) | `Responses` by node under a mutex; flags `ServeResults`, `IsReadyResult`, `IsCached` | `PushMetrics` handlers, `expireEntries`, readers | samplers, registration loop, collection |
| registration (`registerWithSamplers` in `pkg/collector/collector.go`) | `cyclesCount`, `waitReadyCyclesCount`, a shared `err` | one cycle a minute, a goroutine per unregistered sampler, pod deletion | API server, samplers, the flags |
| serving (`cmd/metrics-prometheus-collector/cmd/cmd.go`) | `IsLeaderElected`, `cachedResponseBody`, `metricsReady` | `Start`, election callbacks, `continouslyCacheResponse`, `IsReady` | lease, collection, the flags |
| collection (`collector.go`, `values.go`, labels) | none between scrapes, but it writes into the responses it reads | the lists of a scrape, one function per kind of object | Kubernetes caches, utilization server |
| aggregation (`collector.go`, `operations.go`, `metric.go`) | the metric of the last level | mask, override, filter, group, reduce, export, save | collection, sample files |
| sample files and archiver (`local.go`, `cmd/umc-archiver`) | a directory; objects and rows in the archives | write, chmod; glob, read, upload, load, remove | each other, through the directory only |
| configuration, log level, API types, quota resources, container-monitor, generated code | settings | parsing, watching | all of the above |

What is hard here, and what makes each part correct:

* *Push server.* Four kinds of goroutine change the connection table; the push works
  on a copy of it; a watcher removes by address, not by connection; the process ends
  without waiting. Correct: no stream leaks, a dead collector harms nobody else, a
  healthy one stays connected and receives every pod, the last push precedes shutdown.
* *Sample cache.* A ring at its capacity, counters that fall and wrap, two lists of
  files renewed one after the other, polls that fail and are tried again. Correct: the
  ring is the window of the last samples, a rate spans one poll, CPU is never
  overstated, a mean of several values lies within the values reported with it.
* *Utilization server.* Handlers replace what the expiry pass has copied. Correct: a
  node that reports in time is always served, a silent one disappears.
* *Registration.* Lists are stale or fail, results outlive connections, goroutines
  share `err`, counters stop. Correct: ready and serving are reached after the
  configured waits and never withdrawn, samplers are registered again after any loss,
  pods are deleted if they cannot be registered with, and only then. (The last does not
  hold, see `findings`.)
* *Serving.* Flags rise during a scrape, callbacks run late, the process restarts.
  Correct: never ready with a response collected too early, or with one that holds no
  metrics; a ready collector says so; the leader publishes. (The second and the last do
  not hold.)
* *Collection.* Lists taken at different times, one of which may have failed; responses
  that samplers replace during the scrape and that one scrape changes for the next.
  Correct: each object is counted once, a node agrees with its containers, usage is
  that of the container itself, restricted once, and from one response.
* *Aggregation.* Masks and overriders make different samples alike, levels build on each
  other, indexes of quantiles and buckets. Correct: no series twice, none that its
  filters exclude, no value lost or counted twice on the way, statistics in order.
* *Archiver.* Reads what is being written, fails half way, crashes between steps.
  Correct: only complete files are archived, nothing is lost, and every complete file
  that has contents leaves. (One without contents is passed over in every pass and stays.)

`PROJECT.json` lists these hazards at their lines, with the property that would catch
each, or the reason why none does yet.

## Modules

| module | models | state and actions |
|---|---|---|
| `SamplerServer` | the push server | `table`, `stream`, `watchers` are the map, the streams and their goroutines; `push`, `targets`, `sentTo`, `gaveUp`, `cur`, `tries`, `resp`, `lastSent` are the locals of the push goroutine. One action per critical section or network access: `Register`, `Watcher`, `getConnections`, `ListMetrics`, `Send`, `SendDone`, `removeBadConnections`, the three cases of the select, `shutdownAllConnections`, `Stop`, `Exit` |
| `SampleWindow` | abstract: the last samples, in order | `Add` |
| `SampleCache` | ring, cgroup reader, containerd and cadvisor as its sources, summaries | `ring`, `pos`; `cpuKnown`, `memKnown`, `syncing` are the reader's lists; `pc`, `tries`, `got`, `cpu`, `mem` the fetch. `ReadCPU`, `ReadMemory`, `ReadContainerd`, `FetchFails`, `FetchSucceeds`, `SyncCPUFiles`, `SyncMemoryFiles`; the kernel is `Run`, `OutOfMemory`, `RemoveCGroup`, `CreateCGroup`. `Accepted`, `Values` and `Summary` are `getAllSamples` and `populateSummary`; `CpuCoresNanoSec`, `AvgCPUCoresNanoSec` and `OomCount` what `ListMetrics` reports of them, as int64 |
| `UtilizationServer` | `Responses`, the handlers, the expiry pass, time | ages instead of timestamps, so that the state space is finite; `Connect`, `Recv`, `CacheMetrics`, `StreamEnds`, `ExpireTick`, `ExpireEntry`, `ExpireDone`, `Tick` |
| `ReadinessGate` | abstract: what the two flags promise to their readers | `OpenServe`, `OpenReady` |
| `Registration` | `registerWithSamplers` and the cluster around it | a cycle is `List`, `CheckReadiness` (or `CheckPanics`), `Spawn`, the goroutines (`Dial`, `DialSucceeded`, `DialFailed`, `CallFailed`, `Registered`), `Finish`, `Tick`; the environment is `PodChanges`, `SamplerForgets`, `SamplerReports`, `ResultExpires` |
| `CollectorServing` | `MetricsServer` with the election and the cache loop | composes with `ReadinessGate`, whose step is the step of the flags: `GateStep`; `Start`, `Acquire`, `StopLeading`, `BecomeLeader`, `NewLeader`, `Load`, `Scrape`, `Store`, `ScrapeFails`, `Tick`, `Stops`, `Restart` |
| `Labels` | built in and extension labels, masks, overrides | operators: one per labeler (`BuiltInForPod`, `ExtensionForPVC`, ...), `maskLabels`, `getLabelValues`, `overrideLabels` |
| `Values` | the values of each kind of object (`values.go`) | operators `GetValuesForContainer`, `GetValuesForQuota`, `GetValuesForNode`, ... |
| `Collection` | a scrape, over the responses of samplers | `cluster` is the API server; `heap`, `responses` the responses and the map to them; `o` the objects of the scrape. `listCapacityObjects`, the eight `collect...`, `FinishScrape`, `Restart`; around it `Push`, `ClearMetrics`, `ClusterChanges`, `WarmUp` |
| `CollectorConfig` | validation and defaults of a configuration | operators `Accepted`, `Initialised` |
| `Aggregation` | the levels of one metric | `Load`, `Collect`, `AggregateLevel`, `PanicLevel`, `SkipLevel`, `Finish`; `sent` and `saved` are what is exported and retained |
| `Archiver` | writer and archiver | `WriteBegins`, `WriteEnds`, `Chmod`; `Glob`, `ReadFile`, `CopyGCS`, `CloseGCSFails`, `LoadBigQuery`, `LoadJobFails`, `Remove`, ..., `Dies`, `Restart` |
| `MC...` | TLC instances; configurations, clusters and responses for `Aggregation` and `Collection` | |
| `...Proofs` | theorems and their inductive invariants | |

How they fit together. `Collection` extends `Values`, which extends `Labels`;
`Aggregation` extends `CollectorConfig`, which extends `Labels`: collection and
aggregation use the same labels. `Collection` takes the responses that
`UtilizationServer` caches (`Push` is its `CacheMetrics`, `ClearMetrics` its expiry),
happens when `CollectorServing` scrapes, and yields the metrics `Aggregation` starts
from. Two abstract specifications stand between components: `Registration` is shown to
implement `ReadinessGate` (`ImplementsGate`), and `CollectorServing` uses nothing of the
registration loop but that specification, so its results hold for the loop as it is;
`SampleCache` is shown to implement `SampleWindow` (`IsWindow`), with the ring read
backwards from its position as the window.

Abstractions.

* A response of a sampler is the set of pods it reports (`SamplerServer`), its age
  (`UtilizationServer`), or its containers and cgroups with their samples
  (`Collection`). A connection is an address and an incarnation; an incarnation may be
  used again when nothing refers to it. Dialling and opening a stream inside the lock
  may fail for any subset of the addresses. A sampler pod is absent, pending or running;
  at most one per node. A pod that runs without an address, and those that are on no node
  yet and share the empty node name, are pending: the loop counts and passes them over
  alike. A scrape returns one of four kinds of body in
  `CollectorServing`. A file is a number in name order, with or without contents; both
  archives are configured, and there is one glob.
* `SampleCache` keeps one counter that becomes a rate (CPU) and one of which the
  difference is reported (OOM events), of a container or a node level. Of the rate of
  throttling, the second that is filtered by the range, it keeps only whether it is out
  of range. `cpuTime` and `events` in an instant are history: what the key had really
  used and suffered when it was read. Differences are taken modulo `Word`, as those of
  uint64 are, and reported as int64, in which the upper half of the words is negative.
  `Infinity` is whatever uint64 makes of a division by zero seconds. Network metrics of
  cadvisor carry a time of any age. With fewer than two accepted values there is no
  summary, and the mean is reported as zero.
* In `Labels` the hundred numbered fields of `extension_labels.go` are one function of
  the id, and parallel lists of names and values are one function. Metric names are
  tuples, quantities whole numbers of the smallest unit of their resource, times
  numbers of minutes. Values of histograms are whole numbers, but the powers and the
  logarithms that make their buckets are the constants `Pow` and `LogFloor`: nothing is
  assumed of how they are rounded, and an index outside of the buckets ends the process
  (`PanicLevel`). The rounding of an average is to a multiple of `Grain`.
* In `Collection` each function is one step: they share nothing but what they read and
  the responses, which only `collectContainers` writes. The order of Go maps is a
  choice: which of two nodes that report the same container is seen last, and which
  storage class a quota's labels still hold. Of containers that share samples each
  restricts them just before it reads them (`ReadBy`). The statuses of a pod are sorted
  stably, as `sort.Slice` does with fewer than 12. What a function collects is a
  function of the positions of its loops: `Points` is what one object adds, and in
  `Collected` a value at a later position replaces an earlier one with the same labels.
  Parsed data (an annotation, a key of a quota) is a function, empty where parsing
  fails. Lists the code only adds up or counts are sets: the pods of a node (their names
  are unique, and `NodeTotal` is a sum over them), and the pods of a claim, which are
  pairs of a pod and the volume that names the claim, since the index has a pod once for
  each.
* `Aggregation` follows one metric through its levels; the goroutines of different
  metrics share nothing.

Operators introduced by a comment that begins with `Fault:` are variants of the
definition below them with one mistake a programmer might make; they are used only to
see that the properties notice.

## Runs

| run | instance | shows |
|---|---|---|
| `sampler_safety` | 2 addresses, 2 incarnations, 1 pod, 1 retry | `TableMatchesStreams`, `StopsNeedAFailure`, `PushReachesOpenTargets`, `FinalPushBeforeShutdown` |
| `sampler_liveness` | 1 address, 2 incarnations, 1 pod, 1 retry | `BrokenIsRemoved`, `SampledPodIsReported` |
| `sample_cache` | 1 key, a container or a level; ring of 3; every source | `IsWindow`, `RatesSpanOnePoll`, `NeverOverstated`, `MeanWithinValues` |
| `utilization` | 2 nodes, 2 handlers, ttl 2, passes of up to 1 tick | `PunctualNodeServed`, `SilentNodeExpires` |
| `registration` | 2 nodes, 40 percent, waits 1 and 0, delete after 1 cycle | `ReadyAfterWait`, `DeletesOnlySilent`, `ImplementsGate`, `SamplersGetRegistered` |
| `serving` | with and without election, 2 attempts | `ReadyAfterServe`, `ReadyIsReported` |
| `collection` | 2 nodes, 2 states of the cluster, 2 pushes | `ItemsConserved`, `NodeRequestsMatch`, `ReportedIsClamped`, `UsageIsOwn`, `OneResponsePerScrape` |
| `aggregation` | 13 configurations, 2 extension labels, metrics over 4 label sets | `SeriesDistinct`, `ExportedPassFilters`, `StagedIsDirect`, `StatisticsOrdered`, `HistogramComplete` |
| `archiver` | 2 files, with and without root | `ArchivesAreComplete`, `NothingElseIsLost`, `CompleteFilesLeave` |
| `sampler_stale_watcher` | 1 address, 2 incarnations | violates `HealthyConnectionKept`: a late watcher cancels a new connection |
| `sample_oom` | as `sample_cache`, one CPU use or OOM event | violates `OomEventsHappened`: an OOM counter that falls is reported as −1 event |
| `collection_wait` | as `collection` | violates `WaitReportsErrors`: a failed list counts as an empty one |

Every passing run also checks the `TypeOK` of its module (except `sampler_liveness`,
a second instance of the same module). The runs that end in a violation each show one
disagreement between the code and its documentation. `findings` in `PROJECT.json`
quotes the sentences, and lists further disagreements met while modelling that have no
run of their own. Some of these bound what can be claimed, and the passing runs say what
remains true beside them:

* A failed dial, seen through the shared `err`, may delete the pod of a sampler that
  could be reached, but never one of a node that had results when the cycle began
  (`DeletesOnlySilent`). With the shipped configuration nothing is ever deleted, which
  is the theorem `DeletionUnreachable`.
* A ready process may serve a response without metrics, since the status of a scrape is
  not looked at, but not one collected before results could be served
  (`ReadyAfterServe`).
* A key that cannot be read right after a poll that read it gets the rate 0 for that
  poll, but no rate bridges a gap (`RatesSpanOnePoll`). With cadvisor a sample that has
  only network metrics makes the next rate too high; without it no rate is
  (`NeverOverstated`).
* The float logarithm of a value on a bound may put it one bucket too low, and the lowest
  into none, which panics; a histogram that is saved has every value in some bucket
  (`HistogramComplete`).
* The average of memory is not restricted to the limit; samples and the average of CPU
  are (`ReportedIsClamped`).

Others are that a leader never starts to publish, that errors the archiver only logs
lose files, that the sampler may end before its final push, and that a fresh response
may expire for an old copy.

Why the bounds are enough. In `SamplerServer` every hazard needs one address with two
incarnations (an old watcher and a new connection) or two addresses (a dead collector
and a healthy one); a retry count of 1 has a first, a repeated and a last attempt.
Incarnations are reused when free, so the number of reconnections is not bounded. In
`UtilizationServer` a ttl of 2 has ages that are fresh, near expiry, at the ttl and
beyond, and two handlers can carry the same node. In `Registration` two nodes give
the percentages 0, 50, 100 and, with a departed node, 200; `cycles` reaches every
value it can have; two goroutines suffice for one to write the `err` another reads.
Two files in `Archiver` are a file and one behind it in name order.

In `SampleCache` keys do not influence each other, except that one file that cannot be
parsed hides those after it, which is any subset of what is known; so one key that may
be left out suffices. Four fetches overwrite a ring of three; CPU use of 2 in a second
exceeds the accepted rate of 1, as a wrapped difference of words does (`Word` is 64, far
above every rate reached). CPU use and OOM events do not influence each other, so one
bound, `MaxUse`, is on both together. In `Aggregation` the configurations have up to
three levels, every operation, filters of every form, a skipped level and six choices of
buckets (one with a negative offset, and two of base 10, where `LogFloor` is off by one
on 1000), and the metrics every assignment of three value lists, negative and empty ones
too, to any of four label sets, two of which the overrider makes alike. In `Collection`
the interesting cases are in the data: a container that was restarted, a pod that is
recreated under its name on the other node with a higher limit while the old node's
response is still cached, a completed and a pending pod, claims of one name in several
namespaces, a quota with a storage class, a node without a response and a sampler
without a state, which ends the process. One list may fail and one may be later than the
others; two responses suffice to replace one during a scrape. `Rank` fixes the order of
the functions that share nothing with the others.

The proofs remove the bounds for every safety property of the passing runs, see below.

Fairness. The push goroutine is assumed never to be blocked for good (sends fail or
return, although the code gives them no deadline; the lock is held briefly), hence weak
fairness of its steps; the select picks at random among ready cases, so the ticker,
ready again and again, is taken: strong fairness of `PeriodicSync`. Time passes and the
expiry pass and the handlers run: weak fairness. The registration loop and its
goroutines run: weak fairness, which again assumes that a call returns, here
`RegisterCollectors`, for which the loop waits without a deadline; a sampler that is
registered again and again gets a push through some time: strong fairness of
`SamplerReports`, without which a connection that breaks before each push would be a
counterexample the code can do nothing about. `SamplersGetRegistered` moreover assumes
that from some time on lists and calls for that node succeed, and excepts a crash of the
process. The serving loops and callbacks run, and Kubernetes restarts the process: weak
fairness; nothing is assumed of the lease. The archiver is restarted and the services
are not down for good: strong fairness of its steps that succeed, and of passing over an
empty file, since it is not killed each time it comes to one. The collector is never
assumed to finish a file. `SampleCache`, `Collection` and `Aggregation` are checked for
safety only and state no fairness.

Deadlock checking is off where the process really ends: for `SamplerServer`, for
`SampleCache`, whose `Start` returns after repeated failures (and whose clock is
bounded), and for `Aggregation`, which ends on a configuration it rejects. The other
systems run for ever.

## Proofs

All theorems hold for every value of the constants that satisfies the assumptions
named in the modules (`RetryAssumption`, `TTLAssumption`, `ConfigAssumption`, ...).
Each proof module states an inductive invariant (`IInv`, or those named below), proves
it initially and for each action, and derives the properties.

* `SamplerServerProofs`: `TypeCorrect`, `NoLeakedStream`, `StopsFollowFailures`,
  `PushServesSnapshot`, `FinalPushFirst`. `TableMatchesStreams` is needed to know
  that a fresh incarnation is really free. That a push has served its snapshot is
  not inductive by itself: `PushLocals` says which locals are in use at each point and
  that `sentTo` and `gaveUp` lie in the snapshot, `PushOutcomes` that a connection in
  `sentTo` has the response unless it is no longer open, and that one in `gaveUp`
  does not open again; the latter holds because an incarnation that a snapshot refers
  to is not used anew. `FailureRecorded` links `badConnections` to a failed
  send, and `StoppedAfterFailure` a watcher that may run to one before it; from the two
  follows the action property that only failures stop connections.
* `UtilizationServerProofs`: `TypeCorrect`, `PunctualServed`. Deleting by name what
  was judged by a copy is harmless for a punctual node because its copy cannot get
  older than the ttl during the pass: `PunctualIsYoung` bounds the age of the
  response, `PunctualCopyIsYoung` bounds the age of the copy by the ticks of the pass.
  This is where the assumption `PassTicks <= TTL` and the margin in `late` come from:
  a node is safe if its response is replaced a pass before it expires.
* `RegistrationProofs`: `TypeCorrect`, `ReadyWaits`, `DeletesSilent`, `RefinesGate`,
  `DeletionUnreachable`. The key is `Countdown`: until the collector is ready
  `cycles + wait = WaitReady`, so the counter cannot pass `WaitReady + 1`; that bound
  yields the refinement and the last theorem, which says that a collector that gates
  readiness never deletes a sampler pod unless `WaitReady` reaches `DeleteCycles`, which
  it does not in the shipped configuration. `DeletesSilent` rests on the workers: only
  the nodes that ran and had no results when the cycle began have one.
* `CollectorServingProofs`: `TypeCorrect`, `ReadyIsHonest`. `FlagWasUp` (the gate is
  never lowered while the process runs) and `EarlyRound` (a response collected too
  early belongs to a round that read the flag too early) are what makes reading
  `ServeResults` before the scrape sufficient.

* `SampleCacheProofs`: `TypeCorrect`, `RatesSpan`, `RingIsWindow`, `CPUNeverOverstated`,
  `MeanWithin`, for every ring size and set of keys. `RatesSpanOnePoll` needs
  `Timely`: no sample is from the future, and all of them are older than what the running
  attempt has read, so the new sample is later than the one it is compared with; a time
  that cadvisor adds can only make it later. Without cadvisor `TimesGrow` says so also of
  rates that are zero. `RingIsWindow` is the refinement of
  `SampleWindow`; its step is a fact about `Back` and `After` modulo the size.
  `NeverOverstated` rests on `WordIsLarge`: a counter that was set back gives a
  difference near `Word`, which must be out of range over any time between two samples
  (2^64 is, for every rate and uptime there is). Its invariant is `UseInv`: what a
  counter has lost by being set back only grows, so a difference that is accepted is
  at most what was really used. `MeanWithin` bounds sums over sets by their least and
  greatest element; the mean of the first and the last sample lies within the rates
  between, the oldest left out, by `Measured`, which bounds each difference by its rate;
  `RangeIsSigned` keeps what is reported in the range of int64.
* `ArchiverProofs`: `TypeCorrect`, `OnlyCompleteFiles`, `NoOtherLoss`, for any number of
  files. `Handling` says that what is being archived was read, `ReadIsComplete` that
  without root it was complete, and `StoredSoFar` which archives have been dealt with at
  each point, which is what `Remove` relies on.
* `AggregationProofs`: `NoSeriesTwice`, `SeriesPass`, `TypeCorrect`, `StatisticsAgree`,
  `HistogramsComplete`, `LevelByLevel`, for all configurations and metrics. Assumed of
  the constants is that an accepted configuration is `WellFormed`, that is, one the
  Prometheus client takes, with buckets whose lower bound is a number, and that
  collection yields metrics (`IsMetric`) without a level. Overriders are arbitrary
  functions; what a theorem needs of them is its hypothesis: that none changes the level
  (`LevelKept`), that they return strings (`OverridesAreStrings`), that they look at
  each label alone and leave alone what they have changed (`LabelByLabel`). The heart of
  the first two theorems is the lemma `RenderedIsMapped`: the labels `collectMetric`
  computes for a key are those `aggregateMetric` filtered its samples by, although the
  two compute them separately. The invariant keeps for every exported key that it is the
  image of a sample that passed the filters; that keys rendered alike are the same
  (`KeysDistinct`) follows because a key has no label outside its mask.
  `StatisticsAgree` adds that results with the same index were computed from the same
  lists (`TInv` says that what was exported is of an earlier level), and rests on lemmas
  on sorted lists and on quantile indexes; `HistogramsComplete` on counting by buckets,
  for every base and offset and whatever `Pow` and `LogFloor` are: that each index lies
  in the slice is known because the process would have panicked. `LevelByLevel` is the
  longest: `StageInv` says that along levels that all sum, or all take the maximum, the
  metric of the last level is what the operation makes of the collected samples
  directly, and its step regroups a sum of sums.
* `CollectionProofs`: `SamplesAreOwn`, `ItemsCounted`, `OneResponse`,
  `UsageWithinLimits`, `NodeRequestsAgree`, `TypeCorrect`, for every cluster, every
  response, and any number of pushes and scrapes. Assumed of the constants is what
  Kubernetes and the samplers guarantee: one object of a name (`ObjectsAssumption`), and
  lists, limits and samples of the expected form (`FieldsAssumption`); and what Go's
  types give: names, label values and annotations are strings, quantities are whole
  numbers, samples are lists of numbers (`ObjectTypes`, `ResponseTypes`, `ConfigTypes`;
  `LiteralsAreStrings` tells the provers which words of the code are strings). All are
  evaluated by the runs. Hypotheses of single theorems are that Go's nil is no key
  (`NilIsNoTuple`) or no record (`NilIsNoFunction`), that the configuration reports the
  resource the property counts (`ItemsReported`), that two cgroups of a node with the
  same base have different sources (`SourcesTellApart`), without which the second would
  replace the first, and that UIDs and container ids identify a container
  (`IdsIdentify`). `CInv` says that what is in memory keeps the keys that were pushed,
  whatever restricted it since, and that a container found its own samples;
  `SortedIsPermutation` and `IdOfContainer` show that the id it looks for is that of a
  running status if there is one. `FitInv` keeps that what was listed is what the API
  server may hold, so that labels, which name the object, are different
  (`ContainersDistinct` and the like), and a metric counts its objects. `CGroupInv` ties
  the cgroups reported to the response the scrape took. `ClampInv` is why restricting a
  shared response in place is harmless: a sample of CPU or memory that is held,
  restricted to a limit that all the containers that may claim it share, is what was
  pushed restricted to that limit; the next scrape restricts it once more to the same
  effect. Where limits have changed only the bound remains, as `ReportedIsClamped` says.

  `NodeRequestsAgree` is about two functions that add up the same containers on
  different paths: `getNodeRequestsLimits` over the pods of a node, `collectContainers`
  by labels. Its invariant is `FitInv` with `RequestsInv`, which says of each function
  that has returned what it reported as requested in terms of one sum over the
  positions of the containers (`Held`); so the functions may return in any order.
  `TotalIsHeld` and `ContainersHold` regroup that sum by pods and by labels, both with
  `SumRenamed`: a sum is kept by a renaming that confuses no two summands and drops
  only zeros. The labels confuse none because they name the container, and both
  paths leave out the completed pods, which is where the two functions could disagree.

  `TypeCorrect` has as its invariant `TInv`. Beyond `CInv` and `FitInv` it keeps that
  the samples in memory have the type they were pushed with (`SamplesTyped`), although
  scrapes overwrite them; that what a container has found is in a response the scrape
  took (`FoundInv`), although others arrive; and that the metrics of each function that
  has returned are typed (`MetricsTyped`). For the last there is a lemma for each
  labeler and each kind of values, in which every object that is looked up may be
  missing: what a missing one leaves are empty labels, never something undefined.
  `Collected` picks the value of the latest position with the same labels; that there
  is one needs that all objects that add to one metric are reached through equally many
  loops (`Arranged`), where positions are ordered, and that they are finitely many
  (`LatestExists`). For a quota it includes that a storage class left over from an
  earlier resource is a class of a key of that quota.

The provers have no induction over sequences. Where a proof needs one, it is over
numbers, through the least element of a non-empty set of numbers (lemma `LeastNumber`,
from `WFMin`), or over the subsets of a finite set (`SubsetInduction`): so for counting,
sums, sorting, searching a list, and finding the latest position.

Only model-checked: all liveness properties (fairness is out of the prover's reach), and
the properties of the violation runs, which do not hold. Every invariant and every
action property of a passing run is a theorem.

## Not modelled

* *Sampler.* Parsing of cgroup files and of what containerd and cadvisor return; the
  averages of network metrics. Memory and throttling are treated like the counters that
  are kept, without a property of their own.
* *Collector.* Parsing of configurations and settings without a check or a default;
  side car metrics, which are copied from files as they are; the metrics the collector
  keeps of its own timing; sharding of sample files by name; HTTP headers.
* *Servers.* The start and stop sequences of the gRPC and HTTP servers, in which one
  hazard lies (a dial that fails blocks `Start`). The division by zero in the
  registration loop is the state `panic`, after which the loop does nothing.
* *Others.* The file watcher of the configuration, whose effect on the sampler is
  `Stop`; the log level; type declarations, generated protocol code, container-monitor,
  the sampler client, version metric and test utilities, which keep no state the
  properties depend on.
* *Replicas.* Two collector replicas competing for the lease are not composed;
  `CollectorServing` has one replica and an arbitrary lease.

## Plan

Done: all components with state, their abstract specifications and refinements, and
proofs of every safety property the passing runs check. Left, in this order:

1. Composition of sampler and collector: the stream between `SamplerServer` and
   `UtilizationServer` with its end-to-end property (a sampled pod on a reachable
   node is in what the collector serves).
2. Two replicas with a lease, of which one publishes at a time.
