# TLA+ models of csm-metrics-powerscale

`csm-metrics-powerscale` is one Go process in a pod. On a timer it asks every
PowerScale cluster of a credentials file for statistics and quotas, asks
Kubernetes for persistent volumes, and hands what it learns to the
OpenTelemetry SDK, which exports it to a collector. This directory holds TLA+
models of it, the TLC configurations that check them on small instances, and
proofs, checked by TLAPS, that hold for every instance.

## Inventory

| Component | Code | State it keeps | Operations | Modelled in |
|---|---|---|---|---|
| Run loop | `internal/entrypoint/run.go` | four tickers and their intervals, the error channel | `Run`, `ValidateConfig`, `startPrometheusMetricsServer`, `recordPowerScaleExportFailure` | `RunLoop`; the last in `StatsExport` |
| OTLP exporter | `opentelemetry/exporters` | `exporter`, `meterProvider` | `InitExporter`, `StopExporter`, `recordingExporter.Export` | `RunLoop`, `Recording`; what it counts on failure in `StatsExport` |
| Capacity and performance export | `internal/service/service.go` 578-865 | per cycle: snapshot, tallies, semaphore, wait groups, channels | `ExportClusterCapacityMetrics`, `ExportClusterPerformanceMetrics` | `StatsExport` |
| Quota export | `service.go` 169-569 | per cycle: quotas, volumes, two push pipelines | `ExportQuotaMetrics`, `getHighestQuotas` | `QuotaExport`, `HighestQuotas` |
| Topology export | `service.go` 867-968 | per cycle: channels, wait groups | `ExportTopologyMetrics` | `TopologyExport` |
| Metrics wrapper | `internal/service/metrics.go` | instruments and labels by metaID, registered callbacks | five `Record...` methods | `Recording` |
| Self-metrics | `observability_metrics.go`, `main.go` 311-329 | Prometheus registry: connectivity, rate, latency, status | `PSCObsInstrumenter` | `StatsExport` (gauge, rate, status) |
| Configuration watchers | `cmd/metrics-powerscale/main.go` | `Config`, the service's fields | `applyInitialConfigUpdates`, `updatePowerScaleConnection`, `updateProvisionerNames`, `updateService` | `Config`; as environment actions in the modules that read what they write |
| Cluster configuration | `internal/pscaleresource` | none | `GetPowerScaleClusters` | `Config` |
| Leader elector | `internal/k8s/leader_elector.go` | the elector, the lease | `InitLeaderElection`, `IsLeader` | `LeaderElection`; its goroutine in `RunLoop` |
| Kubernetes API client | `internal/k8s/k8sapi.go` | the client, made lazily | `GetPersistentVolumes`, `GetStorageClasses` | `K8sApi` |
| Volume and storage class finders | `internal/k8s` | driver names, cluster names | `GetPersistentVolumes`, `isMatch` | `Config` (the filters), `VolumeExports` (the calls), `QuotaExport` (the path a volume gets) |
| Unit converter | `internal/utilsconverter` | none | `UnitsConvert` | no: a division |

### How they interact

`main` reads two files, starts two file watchers and calls `Run`. From then on:

* the **watchers** (a goroutine each) overwrite fields of `Config` and of the
  service that `Run` and the exports read; only the client map has a lock;
* `Run` starts **three goroutines** that report on one channel of capacity one:
  the self-metrics' server, the elector and the initialisation of the exporter;
* `Run` itself selects over four tickers, that channel and the context, and
  **calls the exports synchronously**: while one works, nothing else is received;
* an **export** starts a gatherer, the gatherer one worker per cluster or volume,
  and a pusher one push worker per metric; they meet on unbuffered channels. The
  quota export runs two gatherers one after the other, then two pushers at once,
  whose consumers share maps under a mutex; the topology export's gatherer,
  pusher and consumer all run at once;
* the quota and the topology export begin with the **finders**, which ask
  Kubernetes through a client made on the first call and filter what they get by
  driver and cluster names;
* a **push worker** registers a callback with the SDK and waits until the
  periodic reader, a goroutine of the SDK, has called it;
* the same **reader** then exports the batch, and if that fails it counts a failure
  for every cluster that is configured at that moment (`run.go:55`).

### What is hard

Concurrency: the cycle's goroutines, whose channels and semaphore are closed by
one and used by others; the reader that collects at any moment; the watchers
that rewrite what a cycle has read, field by field, and each other's fields.
Failure: a cluster that does not answer, a recording that fails, an exporter that
is half initialised when `Run` ends; a Kubernetes client that could not be made;
an elector that lost its lease. Ordering: errors behind one another in a full
channel; `wg.Done` before the receive from the semaphore. Time: intervals that
are changed while tickers run. `PROJECT.json` lists every hazard at its line
with the properties that guard it, or the reason why none does.

### What makes each component correct

* Export: queries stay bounded; nothing is sent on a closed channel; no answer
  is lost or counted twice; "success" and "error" are counted for a cluster only
  where its own query and recording deserve them, and "failure" besides only for a
  batch that was not delivered; while the self-metrics stay on, every cluster the
  cycle began with gets its verdict; its goroutines never wait for each other in a
  circle, none goes back, and every cycle ends.
* Recording: a value is collected under labels that this export gave for its own
  metaID (its call's own, unless two calls share the metaID), before the call
  returns and never after it; calls and collections do not wait for each other.
* Run: it ends on an error and on cancellation only, says which, starves no
  ticker, adopts new intervals, and shuts down its exporter, and then the meter
  provider unless the exporter's `Shutdown` failed.
* Quotas: the top-level directories are counted once each, whatever order the
  array lists them in; a listed quota is found if the volume's path leads to it
  while the volumes are looked up, wherever that path comes from and whatever is
  reloaded before or after; no tally of two consumers is lost.
* Topology: every volume with a proper handle is recorded before the export
  returns, and nothing is sent on a channel that was closed.
* Configuration: once updates have settled, all fields are those of the files as they
  are, and the two finders agree about the classes that name a cluster; no update
  crashes the process; no change is forgotten.
* Leader: at most one process exports at a time; no lease is taken over while its
  holder's elector runs.
* Kubernetes client: a connection that fails is an error, now and the next time.

## Modules

`StatsExport` models a cycle goroutine by goroutine. The variable `main` is the
exporter's program counter; `gather`, `worker`, `pworker` are those of the
goroutines it starts; `sem`, `wg`, `pwg`, `closed`, `pclosed` are the
synchronisation objects; `snapshot` and `todo` are the two copies of the client
map; `success`, `counts`, `failed` are the exporter's maps; `gauge`, `status`,
`rate` are what the self-metrics hold of the cycle's own report, `undelivered` the
clusters for which the reader has counted a failure since the cycle began
(`RecordPowerScaleExportFailure`, enabled whenever the self-metrics are on);
`steady` says that they have stayed on since the report began. Each blocking
operation is an action:
taking a slot (`StartWorker`), the query, the send that meets the exporter's
range (`SendMetric`, `SendResult`), `wg.Done`, the release. The two exports are
the same code with another list of statistics, so one parameter (`kind`, of the
constant `Kinds`) tells them apart; the run has one of them, the theorems hold for
any. The watchers are two actions enabled at any time.

`ExportCycle` is the abstract specification: a cycle has targets; each answers
or not, an answer is handed over and reported good or bad, and at the end each
target gets one verdict. That is the cycle's own; what the reader counts beside it is
in `StatsExport` only. `StatsExport` implements it under the refinement
mapping at the end of that module. What each goroutine waits for is in
`GathererRuns`, `WorkerRuns` and so on, of which `NeverStuck` is made; `StepsOf`
and `CycleSteps` count how far a cycle has come, for `CycleAdvances`.

`Recording` is what a push worker's `Record...` does, step by step, and the SDK's
reader: `id` is the metaID of each call, chosen anew in each export and shared by two
calls where two persistent volumes have one volume handle; `heap`, `labels` and
`loaded` are the label slices, who shares them is the point of it; `callbacks`,
`sender`, `reader` are the protocol of registering, being called, being woken and
unregistering. Only the SDK's lock and its collection are assumed of the library. A
call that returns without an error has been observed by a collection; whether the
batch is delivered it does not learn: what the exporter does about a batch that fails
is the action of `StatsExport` named above. A slice of labels is written and read at
once.

`RunLoop` is `Run`: `at` is its program counter, `pc` those of the three
goroutines, `sending` and `errCh` the error channel with its blocked senders,
`tick` the tickers' buffers, `shut` what `StopExporter` got from the `Shutdown` of
the exporter and of the provider, of which the first may fail and end it there
(`AfterExporter`). An export either has nothing to record or waits for
a collection (`record`), which needs a registered provider: what `StatsExport`
and `Recording` do inside is one step here. Leadership, flags, intervals and
cancellation change at any time.

`HighestQuotas` is `getHighestQuotas`, one action per turn of its two loops, and
the total made of its result: `i` and `hIndex` are the loop variables, `highest`
the candidates, as positions in the array's list. Paths are sequences of
components and `Inside` is `strings.Contains(p, q+"/")`: a containment, not a
prefix, so a copy of a tree below another directory counts as lying below the
original. `HighestOf` is the definition the loops are held against, and
`LoopsAdvance` why they end.

`QuotaExport` is a cycle of `ExportQuotaMetrics`. An item is a volume or a cluster
(for its total), so that gatherers and pushers, which the code has twice, are one set
of actions; `main` says which stage is on. `worker` and `push` are program counters
as in `StatsExport`; `consumer`, `mu` and `seen` are the two goroutines that drain
the pushers, the mutex, and what each has read under it, so that a tally is a read
(`Lock`) and a write (`Tally`). `clients` and `paths` are replaced at any time;
`quotas` are what was listed for the first copy of the clients. A path is the
directory it names: `ownPath` is what the volume finder made of the attribute,
`classPath` what the storage class names, `paths` the isiPath that the configuration
has for each cluster now, `IsiPath` the one of them that the code takes. It is the
right one when it is the volume's `Location`, and each of the three may be another:
the finder trims the volume's name off where the quota has its ID, classes change, an
isiPath is edited. `inForce` keeps the values of `paths` while the volumes are looked
up, for `NoQuotaMissed`. It implements `ExportCycle` too: a cluster's metrics, which
are handed over together there (`HandOver` of a set), are all of its volumes' and its
total. `NeverStuck` and `CycleAdvances` are as in `StatsExport`, with a mutex and two
consumers more: `StepsOf` says how far its stage has come with an item, up to the
consumer that has read the tallies for it and then written them.

`TopologyExport` is the pipeline of the topology: no stage waits for the one
before, and its one counter is who has closed which channel. `K8sApi` is the
lazy connection: `api` is what `API.Client` holds, where "broken" is an interface
with a nil pointer. `VolumeExports` composes the three: `Run` calls the exports
one at a time, each begins with the volume finder, and the quota export's gatherer
calls the storage class finder; a panic of one of them ends the process.

`Config` has the two files, what each updater (`main`, two watchers) has read of
them (`file`, `names`), its program counter (`at`) and its loop (`i`, `n`), and the
fields the exports read. `Entries`, `DefaultCluster` and `IsDefault` are
`GetPowerScaleClusters`; `ClusterNamesOf` is the slice with its blank entries in
front; `IsMatch` and `IsListed` are the finders' filters. The file in a field is
the reading that was stored in it. `overlap` and `missed` record the two things
the code does not guard against: an update that begins while another is under
way, and a change of a file between `main`'s reading of it and its watcher's set-up.

`LeaderElection` has a lease and the electors of several pods with the durations
the code gives them, in discrete time. `holder` is the lease, `at` where each
elector is, `observed` the record it answers from, `since` and `changed` its clock
and whether it has seen the last write. Attempts reach the server or not; a process
ends and is started again at any time (`Restart`), with the lease as it was and an
elector that has seen nothing. The elector and the lease are client-go's and
modelled as the code uses them; what is the code's is that an elector that has lost
its lease is not run again and is still asked. `StaleOnlyWhenEnded` says that this
is the only way two pods come to lead.

`MC...` modules hold the small instances; `..._proofs` modules the proofs.

Operators named `Fault...` stand beside the definitions they would replace; no
action uses them. Each is a plausible mistake in the code, and replacing the
definition by it makes TLC find the property it is listed with violated.

## Runs

| Run | Instance | Shows |
|---|---|---|
| `StatsExport` | 3 clusters (one comes and goes), semaphore of 1, batches that fail, fair | safety of the cycle and of the report; nobody stuck, no goroutine goes back, every cycle ends; refinement of `ExportCycle` |
| `RunLoop` | 2 metrics with a flag each; intervals 0 and 20 s; cancellable, with self-metrics | how Run ends and what it has shut down |
| `RunLoopLive` | 2 metrics that share a flag; intervals 5 and 20 s; fair | errors end Run, no starvation, intervals adopted |
| `RunLoopStop` | as `RunLoop`, allowed intervals | **violation**: StopExporter crashes on a nil field |
| `Recording` | 2 calls, each for one of 2 metaIDs, 2 label values, fair | labels, observation, no deadlock |
| `HighestQuotas` | every list of at most 4 of 7 quotas | the loops end; result and total are the definition's |
| `VolumeExports` | 2 clusters (one comes and goes, the isiPath of the other is edited), 3 volumes in one of 2 directories, semaphore of 2, fair | no tally lost (and the inductive invariant), no quota missed while its path is right, nobody stuck, no goroutine goes back, the topology recorded, every export returns; refinement of `ExportCycle` |
| `K8sNilClient` | the same | **violation**: the second call with a client that could not be made panics |
| `Config` | 5 credentials files, 5 settings, 3 edits, fair | settled fields follow the files (and the inductive invariant), the finders agree about named clusters, changes are adopted, no panic without overlap |
| `ConfigPanic` | the same, 2 edits | **violation**: two watchers at once, index out of range |
| `Leader` | 3 pods, lease of 3, deadline of 2 | no lease is taken over from an elector that runs (and the inductive invariant) |
| `LeaderStale` | 2 pods, lease of 3, deadline of 2 | **violation**: two pods answer that they lead |

Where a run checks `IInv`, the module's types are its first conjunct.

**Bounds.** `StatsExport` has three clusters in all and two in each configuration,
one of which is replaced by the third: the exporter's and the gatherer's copies of
the client map may then differ in two clusters, one to be reported without a query
and one queried without a report. With a semaphore of one, each worker waits for a
release of the one before, and while it waits the configuration may change; the
theorems hold for every limit and every set of configurations. The client map changes
to a different set at any time, and batches fail, without a limit. One kind of export
is enough, since the two differ in a number. No run uses symmetry, since most check
liveness. In `RunLoop` two of the four exports suffice, because each ticker is
treated alike and the flags are either shared or not: there is a run for each.
Intervals only matter as equal or not, within the limits or not, positive or not. Two
recording calls are enough for one to be waiting for the lock while the reader is
busy with the other, and for one to overwrite the slice that the other's callback
holds when they share a metaID; a later export finds the labels that an earlier one
kept. Lists of four quotas over a tree of depth three have candidates removed from
the front, the middle and the end of the list, several in a row, by a quota that
comes after them; one quota is a copy elsewhere and one is a user's. In
`VolumeExports` the first cluster stays, but has its isiPath edited, and the second
comes and goes. All volumes lie in one of two directories. The attribute of the first
volume leads there, or elsewhere because of its name, or is absent; its class names
the other directory, and its cluster's isiPath is right in one configuration only.
The second volume, of the cluster that comes and goes, has to be told by its class or
the configuration, and the third has a malformed handle. A volume and a total meet in
the tallies of each cluster. In `Config` the files have two clusters, one before an
empty entry, one name twice, none, and an entry without a name; the settings differ
in drivers, or are refused. Three edits (`MaxEdits`) are enough for one to come while
`main` starts, and for both watchers to be woken while one is busy; it is the only
bound on a behaviour in the project. In `LeaderElection` time that has passed is
counted up to `LeaseDuration`, beyond which nothing depends on it; with three pods
one may take the lease over, or miss its last write, while two others hold it in
turn. Wait groups and semaphores are bounded by the goroutines.

**Deadlock** is checked for `StatsExport`, `Recording`, `VolumeExports` and
`LeaderElection`, where something can always happen next (a process that panicked
stutters by an action of its own, `Gone`). Since a watcher can act in any state of
the exports, TLC's check says little about their goroutines: that is what the
invariant `NeverStuck` is for, which asks for a goroutine of the cycle that waits
for nobody. `RunLoop` really stops when Run has
returned or crashed, `HighestQuotas` when the function has returned, and `Config`
when the process has ended or the edits are used up.

**Fairness.** Goroutines that can run do run (Go's scheduler is preemptive), so
each has weak fairness; a query and an export return (the client has timeouts).
`select` chooses at random among the ready cases, so what is ready again and
again is eventually chosen: strong fairness for a received tick, error or
cancellation. A `sync.Mutex` does not starve a waiter: strong fairness for
registering and unregistering. In `VolumeExports` one weak fairness condition,
that some goroutine of an export under way runs, is enough and less than Go
guarantees, because a cycle has finitely many steps. In `Config` `main` and each
watcher take their next step. Nothing obliges the configuration, the lease or
the caller to do anything. Liveness is stated with the one exception the code
has: Run can hang in an export that waits for a collection when no provider was
registered (`Hangs`), because it is not selecting then.

## Proofs

The theorems hold for every set of clusters, volumes and pods, limit, list of
quotas, set of exports, interval and label: the constants are restricted by the
assumptions in the modules only. These are finiteness where something is counted,
a positive limit of connections, a deadline shorter than the lease, and that the
kinds of names do not overlap.

* **StatsExport.** Bounded queries, channels and metrics are not inductive by
  themselves. `IInv` adds what each group of goroutines knows: `CountersInv`
  (semaphore and wait groups are the cardinalities of the goroutines that hold them,
  which needs the set of clusters to be finite), `GatherInv` (a worker is started
  once, the metrics are the answers sent), `PushInv` (each metric is served to one
  push worker, tallied once), `ReportInv` (what was reported was final, and while the
  self-metrics stay on nobody was left out). One lemma per part, one case per action.
  From `IInv` follow the safety theorems, and `Implements`: initial states map to
  initial states, and each action to a step of `ExportCycle` or to a stutter.
  `NobodyStuck` follows the waiting: who holds a slot can move, and when nobody does
  one is free; a worker that sends meets the exporter, because that leaves its range
  only after the channel was closed; with all workers at their ends the closer can
  move. `Advances` adds that each step takes a counter on and none takes one back.
  Together they are termination without the scheduler: what is left of
  `CycleTerminates` is that a goroutine that can run does.
* **RunLoop.** `IInv` orders the steps of `InitExporter` (registered, then
  exporter, then provider) and of `StopExporter`, with its two ways out: a Run that
  returns has either met an exporter whose `Shutdown` failed, or gone on to a
  provider that was set. `Kinds` must not be empty.
* **Recording.** `IInv` says for which metaID the slice in `mw.Labels`, or one that a
  call has loaded, was built (`LabelsInv`): an earlier export left it there, or a
  call of this export with that metaID built it. Who overwrites a slice therefore
  writes labels for the same metaID, and `LabelsOwned` follows for any metaIDs,
  shared or not. The protocol with the reader is `CallbackInv` (which callbacks are
  registered and what each call has seen); `Silent` and `Observed` rest on
  `CallbacksKept` alone.
* **HighestQuotas.** The result is right at the end because of what holds in
  between: candidates are unrelated (`Antichain`) and every quota passed is a
  candidate or below one (`Covered`), or, inside the inner loop, below the quota
  being compared. That a removed candidate and what it covered stay covered is
  transitivity of containment, a lemma; nothing is assumed of the list.
  `TotalCounted` compares two folds, the code's over the candidates and the
  definition's over a set. Both are sums that take one element away at a time; that
  the order does not matter (`SumOfAny`), nor the names of the elements
  (`SumOfNamed`), is an induction over finite sets, done as the absence of a
  smallest counterexample (`SubsetInduction`, from the library's well-founded order
  of strict subsets). `Advances` is why the loops end: a removal leaves the inner
  loop fewer candidates, although its index stays.
* **QuotaExport.** `NoTallyLost` speaks of the moment of the report only. `IInv` says
  what holds on the way: what each stage leaves as it is (`PhaseInv`); no sure item
  is passed over (`GatherInv`: a sure volume has the right path under every value in
  `inForce`, and the value it is looked up with is one of them); what a consumer has
  read under the mutex is still true when it writes (`ConsumerInv`, from the mutex in
  `TypeOK`); and the tallies are those of the results that no consumer is working on
  (`TallyInv`). One more result adds the metrics of its stage to the count of its
  cluster: that is `CountOfOneMore`, where volumes and clusters must be finite and
  disjoint. `Implements` is the refinement of `ExportCycle`: a first failure hands
  its cluster over, the end of the last consumer all others. `NobodyStuck`: as above
  for the slots; the consumer with the mutex can write, and if none has it one that
  waits can take it; when both are in their ranges, a push worker can send or the
  channels can be closed. `Advances`: a result moves on from its push worker to its
  consumer, which reads and writes; that no other consumer works on the same item,
  and that no item waits twice for a worker, comes from `IInv`.
* **VolumeExports.** `QuotasInComposition`: each step of the composition is a step of
  `QuotaExport` or leaves its variables alone, so that its theorems hold there
  (`TalliesKeptInComposition`, `NobodyStuckInComposition` and so on).
  `Topology!IInv`, what each volume has been through, gives `TopologyRecorded`.
* **Config.** `IInv` follows one update: as long as no other runs into it
  (`~overlap`) it is the only one (`AloneInv`), so its loop counts the slice that is
  there, and each assignment it has behind it still stands (`UpdateInv`); after it
  everything stands together (`RestInv`). What it has read is the file, or the
  watcher has an event to handle (`Fresh`). That gives `PanicOnlyOnOverlap` and
  `FieldsFollowFiles`; `FindersAgree` needs in addition what `ClusterNamesOf` makes
  of a file (`ClusterNamesLemma`, from the finiteness of the file): no blank entry
  can match a class that names a cluster.
* **LeaderElection.** `StaleOnlyWhenEnded` needs a reason why nobody takes over the
  lease of an elector that runs (`LeaseInv`): it has written the lease within
  `RenewDeadline`, and no pod that has seen that write has waited for longer than
  the writer since. Who takes over has waited for `LeaseDuration`, and the deadline
  is shorter (`DurationsAssumption`, which client-go enforces).

Every safety invariant and action property of a passing run is stated by a theorem.
`LoopsAdvance` and `TypesOK` (the types of `VolumeExports`) are proved and in no run.
Liveness (`CycleTerminates`, `RecordReturns`, `ErrorsEndRun`, `NoStarvation`,
`IntervalsAdopted`, `LoopsEnd`, `ExportsReturn`, `ChangesAdopted`) is model-checked
only: fairness and ENABLED are beyond the prover. That `GathererRuns`,
`ItemRuns` and the other predicates of `NeverStuck` say when an action can be taken
is read off the guards beside them, not proved, for the same reason.

## What the checks found

* `opentelemetry_collector_exporter.go:61`: StopExporter does not expect an
  exporter that was not initialised; the error that ended Run is lost in a crash.
* `main.go:211`: the two watchers update without a lock; one that ranges over the
  cluster names by index panics when the other stores fewer.
* `leader_elector.go:85`: an elector that lost its lease ends for good, without an
  error; `IsLeader` goes on answering from its last record, so two pods export.
* `k8sapi.go:69`: a nil `*Clientset` of a failed attempt is kept in an interface;
  the next call panics on it.

Met while modelling, without a run of its own:

* `metrics.go:355`: a recording succeeds when its value has been observed; the batch
  may not be delivered, and the success that the cycle counts stays counted.
* `run.go:55`: when a batch is not delivered, a failure is counted for every cluster
  that is configured then, whatever came of its own query and whether or not the
  batch had values of it; one cluster can have "success" and "failure" of one cycle.
  `run_internal_test.go:89` asks for it; `StatusSound` allows this failure and no
  other.
* `service.go:612` and `:662` copy the client map separately. A cluster that was
  removed in between is reported as down without having been queried; one that was
  added is queried and recorded without a verdict. `StatusSound` says that these are
  the only ways.
* `metrics.go:106`: two persistent volumes with one volume handle share a metaID, and
  the labels of one can be overwritten by those of the other before they are
  collected. `OwnLabels` says how far that goes.
* `volume_finder.go:94`: the name of the persistent volume is trimmed off the path,
  and `service.go:474` appends the ID of the volume handle. Where the two differ, as
  they may for a volume that was not provisioned dynamically, the quota is not found;
  nor is it found by a cluster's isiPath that was edited after the volume was made.
* `opentelemetry_collector_exporter.go:61`: when the exporter's `Shutdown` fails,
  `StopExporter` returns before that of the provider, whose reader goes on.
* `run.go:208`: limits on intervals are enforced at the start only, and a ticker
  whose interval is not positive crashes `Run`.
* `main.go:335`: the limit on queries is validated into a variable of the inner
  block and dropped.
* `main.go:171`: the blank entries of `ClusterNames` make every storage class
  without a ClusterName match, default cluster or not. The condition
  `!ok && cluster.IsDefault` (`storageclass_finder.go:73`) and the test "success
  matching storage classes without ClusterName based on a default cluster being
  used" (`storageclass_finder_test.go:171`) mean such a class to need a default
  cluster: code and intent disagree. `IsMatch` has the blank entries; `FindersAgree`
  is about the classes that name a cluster.
* `pscaleresource.go:81`: an empty entry of the credentials file ends its reading; no
  cluster after it is configured, and nothing says so.
* `main.go:185`: two overlapping updates can leave the fields with an older reading
  of the file, or with a mixture, until the next change. `Settled` excludes it.
* `main.go:322`: a new registry is made when the self-metrics are switched on
  again; the server goes on serving the old one.

## Not modelled, and why

Values, units, percentages, labels and log lines: no control depends on them. The
Prometheus server and the gRPC exporter: libraries; their outcomes are
nondeterministic. The registry that the server holds: no other part reads it.
`MetricsWrapper == nil` and `MaxPowerScaleConnections == 0`: `main.go` never
leaves them so. A quota of another directory that bears the ID of a volume, or that
a path which is wrong leads to by chance. The failures of batches in `QuotaExport`,
which does nothing with them that `StatsExport` does not. A slice of labels that is
read while it is being overwritten. Defaults of a cluster's endpoint, port and
path: strings that no control depends on. A slice header that is read while it is
being replaced (a data race on `ClusterNames` and `DriverNames`): the model replaces
slices in one step. The unit converter is a division.

## Plan

1. Composition of `RunLoop` with the export that hangs, through `Recording`.
2. The registry of the self-metrics that is replaced under a server.
3. `NeverStuck` and `CycleAdvances` for the topology's export, whose stages wait for
   nothing but each other's ends.
