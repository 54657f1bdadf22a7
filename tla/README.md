# A TLA+ model of kubeadapt-agent

kubeadapt-agent runs once per Kubernetes cluster. It watches the cluster through
informers, polls the metrics API and GPU exporters, and every `SnapshotInterval`
builds a snapshot of everything it knows and posts it to an ingest backend.

This directory holds TLA+ modules translated from the Go source, TLC configurations
that check them on small instances, and TLAPS proofs of what holds for every instance.
`PROJECT.json` maps each definition to the source lines it stands for.

    tlc -config MCTransport.cfg MCTransport      # model-check a run
    tlapm TransportProofs.tla                    # check the proofs

## 1. Inventory

| Component | State | Operations | Talks to | What makes it correct |
|---|---|---|---|---|
| agent loop (`internal/agent/agent.go`) | counters, `ready`, `latestSnapshot`, ticker | `Run`, `doSnapshot`, `populateHealth` | everything below | keeps sending through failures; ends promptly on SIGTERM; its health report is true |
| state machine (`agent/state.go`) | state, reason, `backoffUntil` under a mutex | `TransitionTo`, `HandleHTTPStatus`, `IsBackoffExpired` | agent loop; any other holder of the pointer | terminal states end `Run`; backoffs end |
| transport (`internal/transport`) | retry loop, `lastSendStats` | `Send`, `doSend`, `ParseResponse` | network, backend, error collector | exactly-once storage; refusals are not retried; bounded in time |
| error collector (`internal/errors`) | map of last reports | `Report`, `GetActiveErrors`, `GetActiveErrorCodes` | transport, agent loop | an error is active exactly for its TTL |
| registry (`internal/collector/registry.go`) | collectors, `started` | `StartAll`, `WaitForSync`, `StopAll`, `HealthReport` | collectors | stops each collector once and waits for it; no deadlock |
| informer collectors (`collector/resource`) | `stopCh`, `done`, informer | `Start`, `WaitForSync`, `Stop`, event handlers, recovery loop | client-go, stores | the store follows the cluster; crashes are retried |
| metrics and GPU pollers (`collector/metrics`, `collector/gpu`) | `stopCh`, `done`, `synced`, last data | `run`, `poll`, `Stop` | metrics API, dcgm-exporter, metrics store | stale data does not pass for new |
| stores (`internal/store`) | 22 maps, one lock each | `Set`, `Delete`, `Values` | collectors, builder | per-store atomicity only |
| snapshot builder (`internal/snapshot`) | none between calls, but writes into shared containers | `Build`, `ComputeSummary` | stores, pollers, enrichment | nodes once; references resolved; data of this build |
| enrichment (`internal/enrichment`) | none | ownership, aggregation, targets, mounts | builder | top-level owner found; sums right |
| conversion (`internal/convert`) | none | `PodToModel`, `JobToModel`, ... | informer handlers | owners, phases, requests and selectors survive |
| GPU parser (`collector/gpu/parser.go`) | devices of one page | `ParseDCGMMetrics` | exporters, builder | order of samples is irrelevant; blank values stay out |
| configuration (`internal/config`) | the environment, read once | `Load`, `Validate` | main | what runs cannot crash on its settings |
| discovery, cloud metadata (`internal/discovery`, `internal/cloud`) | none | `Detect`, `detectDCGMExporter`, `DetectCloudMetadata` | API server, metadata services, main, GPU poller | failures are survived; no mixture of answers |
| main, health server, memory monitor | signal channel, context; listener; ticker | start-up, `Run`, shutdown | everything | the process ends when told to, wherever it is |

What is hard here: the retry loop against requests that outlive their attempt; a
shutdown that meets an uninterruptible sleep; a state machine that is checked and then
acted upon; `StopAll` against starting, crashing and recovering collectors; stores that
are read one by one while informers write them; snapshots that share memory with the
store and with each other; objects joined by name although names are used again; a
start-up of many requests, some without a timeout, that a signal may meet anywhere.
`PROJECT.json` lists these under `hazards`, at their lines.

## 2. Modules

| Module | Models | Used by |
|---|---|---|
| `ErrorCollector` | `internal/errors` | `Transport`, `Agent` |
| `StateMachine` | `internal/agent/state.go` | `Agent` |
| `Transport` | `Client.Send`, with network and backend | `Agent`, `MCTransport`, `TransportProofs` |
| `SnapshotDelivery` | the abstract promise of `Send` | `Transport`, `Agent` (refinement) |
| `Agent` | `Run` and `doSnapshot`, composing the three above | `MCAgent`, `AgentProofs` |
| `Registry` | registry and life cycle of collectors | `MCRegistry`, `RegistryProofs` |
| `SnapshotBuilder` | handlers, stores, pollers and `Build` | `MCSnapshotBuilder`, `SnapshotBuilderProofs` |
| `Enrichment` | conversions, ownership, aggregation, targets, as operators | `Workloads` |
| `Workloads` | nine kinds of objects, their informers and stores, and `Build` over them | `MCWorkloads`, `WorkloadsProofs` |
| `GPUMetrics` | a GPU poll: scrape, parse, merge, summarise | `MCGPUMetrics`, `GPUMetricsProofs` |
| `Startup` | `main` with configuration, discovery and cloud metadata | `MCStartup`, `StartupProofs` |
| `TransportProofs`, `AgentProofs`, `RegistryProofs`, `SnapshotBuilderProofs`, `WorkloadsProofs`, `GPUMetricsProofs`, `StartupProofs` | theorems about the module of that name | `AgentProofs` uses `TransportProofs` |
| `SumProofs` | induction over numbers and finite sets, facts about sums | `TransportProofs`, `WorkloadsProofs`, `GPUMetricsProofs` |

`SnapshotBuilder`, `Workloads` and `GPUMetrics` look at the same `Build` from three sides:
what is shared in memory, what is joined by name, and what the exporters say. `Startup`
sees of `Run` what `main` sees; `Agent` and `Registry` have the inside.

Definitions named `Mut...` are deliberately wrong variants of the definition after
them. They are part of no specification; substituting one for the original has to make
a property fail, which shows that the property looks at that code.

### Transport

`sendPc` is the position in `Send`: `loop` (the `for`), `sleep`, `check` (`ctx.Err()`),
`post` and `wait` (`doSend`), `record` (after the loop), `idle` (outside of `Send`).
`lastErr`, `attempt`, `lastSendStats` are the variables of that name; `outcome` is what
each `Send` returned. An error is its category, which is what the text that
`ParseResponse` writes and `isNonRetryableError` matches amounts to. `net` holds
requests that were sent and not yet served; a request is not withdrawn when the client
gives up on it, so it may be served during a later attempt or a later `Send`. The
backend is external: it stores a snapshot when it answers 200, may have stored it when
it answers 5xx, and stores nothing twice under one `Idempotency-Key`, which is what the
comment at `client.go:246` expects of it.

Time is relative. `timer` is what is left of a sleep or request; `TransportTick` lets a
unit pass and is enabled only where the goroutine really waits. A canceled context ends
an outstanding request at once and a `time.Sleep` not at all. `Validate` does not look at
the request timeout, and `net/http` takes a timeout of 0 for none: then a request may stay
open as long as it likes. Nor does `Validate` bound the retries from above; from the 35th
retry on the sleep overflows `time.Duration`, so that it may be any below the overflow.

### Agent

`runPc` follows `Run` and `doSnapshot` statement by statement wherever another goroutine
can interfere; the state machine's methods are atomic because they hold its mutex.
`resumeAt` is the return address of `doSnapshot`. The ticker has a channel of capacity
one and drops ticks. `reports` keeps the health each snapshot was built with. The
collectors are here only what `StartAll` and `WaitForSync` may return, and how long `StopAll`
takes; `Registry` has the rest. `allStarted` tells a full start from a partial one, which
`Run` tolerates: after it the deferred `StopAll` waits for ever on a collector that never
started, and `Run` does not return. After a full start and a cancellation `StopAll` takes at
most `MaxStopTime`, which stands for `StopAllTimeBound` of `Registry`.

`ExternalStatuses` are statuses that another holder of the state machine feeds
to it: none in the deployed agent, where only `Run` has it, and several in the run that
follows the agent's tests. `OverwritesState` names the places where `Run` has looked at the
state and goes on to set it to running whatever it is by then: between the check after a send
and `HandleHTTPStatus(200)` (`agent.go:226-231`), and between the look at a backoff and
`TransitionTo` (`agent.go:157-163`). A stop that comes there is lost. `snapAtStop` is the
number of snapshots at a stop that came elsewhere, until another call undoes it.

### Registry

Each collector has a goroutine (`gPc`), `stopCh` and `done`. An informer's `Run` may
return at any time; the recovery loop then sleeps `attempt` units (5 seconds each) and
runs it again, `InformerMaxRetries` times. A poller's goroutine ends on `stopCh` or on
the context. `StopAll` closes and awaits in the order of registration. A second caller
of `StopAll` may come at any time, as the type's comment allows.

### SnapshotBuilder

The cluster changes, its events queue per informer, and handlers apply them. `Build` is
split at every read of shared state: two goroutines for the stores (nodes and pods, of
the 22), node metrics, pod metrics, GPU metrics, and the second look at the node store.
The items that `Values()` returns are copies, but a pod's `Containers` slice is a
reference; a `cell` stands for it, so that what `Build` writes is seen in the store and
in the snapshot stored before. A measurement is the number of the poll that took it.

### Enrichment and Workloads

A snapshot maps a kind to its items and these to what the conversion kept of an object:
a pod's first owner, phase and requests, a Job's CronJob by name and its template, the
`matchLabels` of selectors. `Hop` is one pass of the loop of `resolveOwner`, which runs
`maxOwnerDepth` times; `Enrich` is ownership followed by the pipeline. `Workloads` has a
queue and a store per kind, and a `Build` whose goroutines read the stores one by one, in
any order, between any two events. The cluster is the environment: creation below
existing owners, pods that finish, deletion, and garbage collection by UID. The
properties compare what the code derives from names with what the cluster says by UIDs.

### GPUMetrics

The page of an exporter is a set of lines consumed in any order. A line is a metric, its
labels and a value, which may be blank (DCGM's sentinel, which plus infinity passes for) or
not finite (NaN or minus infinity, which `isSentinel` lets through); scanning the text is
reduced to whether the line parses. `Record` is the switch of `ParseDCGMMetrics`,
`hasProf` its map of devices with a profiling metric. An endpoint may fail to answer.
`Merge` is what the next `Build` makes of the devices. `Snapshots` are what it may have
read from the stores: nodes, which the devices of their name are merged into, and containers,
which keep the values of earlier polls where no device has one for them.

### Startup

`pc` is the step of `main`, or how the process ended. Environment variables are unset, unparsable,
durations or integers, and `Load` parses them as the code does; `Validate` checks what the
code checks. `cancelled` is `ctx`. A `List` returns when the API server answers or `ctx` is
done, and in no other case; `ServerGroups` and `ServerVersion` take no `ctx` and return only
when they are answered; the metadata requests have a timeout. `NewForConfigOrDie` may panic. The pollers are
here because `main` gives the GPU poller its `endpointsFn` and its interval:
`NewTicker` panics when an interval is not positive. `partial` says that some informers failed
to start; `StopAll`, which stops the informers before the two pollers, then never comes to
these. When nothing at all has started, `Run` returns at once.

## 3. Runs

| Run | Configuration | Shows |
|---|---|---|
| `transport` | 2 snapshots, 3 attempts, statuses 200, 401, 500 | exactly-once, the time bounds, no request after a refusal, refinement of `SnapshotDelivery` |
| `agent` | 3 snapshots, 2 attempts, a `StopAll` of up to 2 units | progress, counters, deltas and error codes in the health report; the loop ends promptly on SIGTERM, and `Run` with it after a full start |
| `agent_external` | 2 snapshots, two external statuses at any moment | terminal states that `Run` does not overwrite, and backoffs, are honoured |
| `registry` | 2 informers with 2 restarts, one of which may fail to start, 1 poller, 2 callers of `StopAll` | bounded shutdown if all were started, truth of the sync result and of the stale list, no double close, nothing left running, `StopAll` returns if all were started |
| `builder` | 1 node; either 2 pods and 3 changes, or a node that stays, 1 pod, 2 changes and 2 polls | a store is right about what it has no event left for, unique nodes, explained orphans, snapshots catch up; usage catches up, GPU data follow the last poll that had endpoints |
| `workloads` | four clusters with namesakes, two namespaces, batch jobs, selectors; 2 changes; one informer late | owners and their UIDs are real, no pod counts twice, targets and totals (but for the Jobs of a CronJob) catch up |
| `gpu` | 2 exporters, up to 4 lines in any order, several snapshots to merge into | order is irrelevant, no GPU lost, memory charged once, snapshot encodable |
| `startup` | 14 environments, 2 clusters, 4 sets of exporter pods, 1 move, 1 failed list | process ends on a signal and after `Run` unless it is held up in one of three named places, panics for two reasons, metadata of one provider, polls follow the exporters |
| `auth_failure`, `failed_start`, `latest_snapshot`, `cronjob_totals` | small instances that fail | see section 5 |

Bounds. Two snapshots suffice for a late request of one to meet the `Send` of the next,
three for a delta between two snapshots that both have predecessors, and for an error
to be reported, refreshed and expired. Three attempts include two different sleeps. Two
external calls are needed, and not one, because a backoff has to be there before a stop can
meet `Run` on its way out of it; the second call may also undo what the first did, or meet
any position of `runPc`. Two informers and a poller give every pair of kinds in `StopAll`'s order. One
node and two pods give the node that is missing for several pods; two changes and two
polls give a pod that is replaced between measurements; `focus` in `MCSnapshotBuilder` says which
of the two a behaviour is about. `MaxPolls` bounds the polls of both pollers together. In `workloads` two changes give an object that is deleted and
created again, and a pod that moves between stores read at different moments; the code
allows ten hops of ownership and the clusters need two. Four lines hold every metric
that takes precedence over, or completes, another one of the same device, next to a line of another device.
In `startup` one move of the exporter pods is enough for an address to become stale. The time constants keep the order of the real ones where
the order matters (a sleep can outlast a tick; a TTL can outlast a snapshot or not).

Deadlock is checked in the transport and builder runs. The agent, registry, GPU and start-up runs
end: `Run` returns, `StopAll` returns, the bound on snapshots is reached, a poll is
over, the process has ended.

Fairness. The agent's own goroutine and the clock are weakly fair: Go schedules runnable
goroutines and time passes. `SendDue` and `RunDue` except what need not end: a request without
timeout that gets no answer, until the context is canceled, and a `StopAll` that no
cancellation hurries, since a poll may hold it up. Collectors: a goroutine that is runnable runs, and
`informer.Run` returns once `stopCh` is closed (client-go's contract); an informer need
not sync and need not crash. Informers deliver queued events, snapshots are built on
ticks, and the cluster's garbage collector works. Pollers tick; where a `select` finds
both a tick and a closed channel, Go chooses at random, so leaving the loop is strongly
fair in `Startup`. Nothing is assumed of the API server's answers to `main` (two of whose
requests have no context) and the GPU poller, of a health client's willingness to hang up, or of the backend, the network, signals, the metrics API or the GPU exporters.

## 4. Proofs

`tlapm XProofs.tla` checks the theorems about `X`. They hold for every value of the
constants that satisfies the assumptions below, where a run has a small instance. Each
inductive invariant was an invariant of a TLC run before its proof was begun. A proof
that an invariant is preserved has a step per action, with one lemma for each fact that
keeps coming back.

| Property | Theorem | Inductive invariant |
|---|---|---|
| type, `StoredExactlyOnce` | `TransportTypeCorrect`, `StoredExactlyOnceHolds` | type and `DeliveryInv` |
| `NoRequestAfterRefusal` | `NoRequestAfterRefusalHolds` | the same, an action property |
| `SendTimeBound` | `SendTimeBoundHolds` | and `TimedInv`: `ElapsedInv`, if there is a timeout |
| `ShutdownDelayBound` | `ShutdownDelayBoundHolds` | and `GraceInv` |
| `Delivery!DeliverySafety` | `ImplementsDeliverySafety` | and `OrderInv` |
| type, `AtMostOneSnapshotAfterStop`, `PromptShutdown`, `HealthCountsCompletedSends`, `CountersAgree` | `AgentTypeCorrect`, ...`Holds` | `AgentInv` |
| `HealthTellsRecentFailures` | `HealthTellsRecentFailuresHolds` | the same, an action property |
| `Delivery!DeliverySafety`, of the composition | `AgentImplementsDelivery` | `WireInv` |
| type, `NoDoubleClose`, `StopAllLeavesNothingRunning`, `SyncOkMeansAllSynced`, `StaleExplained` | `RegistryTypeCorrect`, ...`Holds` | `RegistryInv` |
| `StopAllTimeBound` | `StopAllTimeBoundHolds` | and `TimeInv` |
| type, `UniqueNodes` | `BuilderTypeCorrect`, `UniqueNodesHolds` | the type; `UniqueNodes` with it |
| `StoresAgree` | `StoresAgreeHolds` | and `LastEvents` |
| `OrphansExplained` | `OrphansExplainedHolds` | the same, an action property |
| `PanicExplained` | `PanicExplainedHolds` | `CrashInv` |
| `MetadataOfOneProvider` | `MetadataOfOneProviderHolds` | `MetaInv` |
| `DevicesOrderFree`, `EveryGPUReported` | ...`Holds` | `PollInv`, `ParseInv`, `SeenInv`, `DeviceInv` |
| `MemoryChargedOnce`, `Encodable` | ...`Holds` | `DataInv` |
| `OwnersReal`, `OwnerUIDsReal`, `CountedOnce` | ...`Holds` | `PastInv`, `ClusterInv`, `StoreInv` |
| `StoresFollow` | `StoresFollowHolds` | and `FollowInv` |
| `TargetsExact`, `TotalsExact` | ...`Holds` | the first three, action properties |

`StoresFollow`, `TargetsExact` and `TotalsExact` are stated in `WorkloadsProofs`. They are what is safety
in `TargetsCatchUp` and `TotalsCatchUp`, which the `workloads` run checks.

### Transport

`StoredExactlyOnce` alone is not inductive: nothing in it prevents a loop that runs out of
attempts with no error recorded, or a reply of 200 to a snapshot that was not stored.
`LoopInv` says that from the second attempt on an error is remembered, that it is one
worth a retry, that a reply exists only while a request is awaited, and that requests are
made within the attempts. `StoreInv` says that a request's key is its snapshot, that a
snapshot is counted once exactly when its key was served, and that a reply of 200, or a
loop left without error, is evidence of it. From these, `Send` returns without error only
for a stored snapshot. Inside the loop `lastErr` is never a refusal and only `Post` adds
to `net`, which is `NoRequestAfterRefusal`.

The time bounds need to know where in the loop the time was spent. `ElapsedInv` adds the
rest of the current wait to what has elapsed and compares with the requests and sleeps of
the attempts so far, `n` timeouts and `2^n - 1`; a sleep that overflows is shorter than the
one it should be (`SleepBound`). Without a timeout there is no bound, and none is claimed. `GraceInv` says that a `Send` which goes
on after the cancellation is in, or about to begin, its one sleep.

For the refinement, a snapshot's abstract stage is read off `outcome`, `snap` and `sendPc`;
`StageFacts` lists how, and `DeliveryStep` takes the actions one by one. It needs
`OrderInv`: the snapshots come in order, so that no outcome is written twice, and no request
of a snapshot that was rejected locally is on the wire. `ImplementsDelivery`, which
`transport` checks, also has the liveness part of `SnapshotDelivery`; that is TLC's.

### Agent

`TransportPart` says that a step of the agent is a step of the transport or changes only
the error collector, so that `WireInv`, the transport's invariant, carries over without
a second proof, and with it the refinement. What is added:
`FlowInv` ties `runPc` to `sendPc` and to the number of snapshots built; `StopInv` and
`ReadyInv` say that while a stop stands there is room for one `Send` if it was
decided already, and for none once it was called, and that `Run` is nowhere where it would
overwrite the stop; `PromptInv` is `GraceInv` seen from
`Run`'s loop, in which time passes nowhere else after a cancellation, and `StopTimeInv` adds
what `StopAll` has taken; `AgeInv` says that the
error collector's entry has the age of the last failure, or both have expired; `CountInv`
relates the agent's counters to the sends that have returned and the transport's to those
that were posted, which differ by the one whose outcome `Run` has not looked at yet and by
the local rejections; `HealthInv` keeps the previous counters equal to those of the newest
report. `CountersAgree` is not inductive because it speaks of the places between sends only.

### Registry

`StopInv` is the centre: at most one caller of `StopAll` found `started` set, `stopCh`
is closed exactly for the collectors it has passed, and `done` for those it has waited for.
A second close would need a second working caller. `LifeInv` ties goroutines to what
`Start` returned, `ReportInv` says that a goroutine left for a reason that stays true.
`TimeInv` is a budget: the time taken, the sleep that is awaited, and one full
backoff for each informer not stopped yet never exceed one full backoff per informer.

The attempt to prove `StopAllTimeBound` corrected it. It was stated without the condition
that every collector was started; with a failed start `StopAll` hangs on its `done`, time
goes on, and the bound is exceeded, which TLC confirmed.

### SnapshotBuilder

`OrphansExplained` is about one step, but rests on the stores being right, which became
a property of its own, `StoresAgree`: without an event left for an object, the store
shows it as the cluster does. It is inductive only together with `LastEvents`, that the
last queued event of each object tells how the cluster has it. `UniqueNodes` needs that
the list read first has a name once, and that `Backfilled` adds only names that are missing
from it. Lemmas about `SetToSeq`, queues and partial functions are stated once at the front.

### Startup

For `PanicExplained`, `ConfigInv` says that past `Validate` the configuration is one that
`Load` produced and `Validate` accepted, and `PollerInv` that a poller which runs is
registered. The interval of a ticker that panics is then not one that `Validate` looks at.
`ClientsInv` says that nothing is registered before the clients are built, whose panic is
the other reason.
For `MetadataOfOneProvider`, `MetaInv` says that what was read so far is the probed
provider's.

### GPUMetrics

`ParseInv` describes the devices of the page being parsed by the set of lines parsed so
far, and `SeenInv` their values by the samples among them, where no order occurs any more;
that is why the order cannot matter. `DeviceInv` is the same for pages that are finished.
What `parseLabels` makes of a line's labels is left open in the proof. `DataInv` adds what
`Merge` needs to know: the devices are finitely many, their values are integers, not finite
only where a sample was, and memory in use is not negative. A mean is then a quotient by a
number above 0. The memory charged to containers is a sum over devices whose pod the snapshot
has and the nodes' one over devices whose host it has, so that `MemoryChargedOnce` compares two
ways of cutting one sum (`SumParts`, `SumCover`). It says so of one merge: what containers keep
of an earlier poll is not charged, and a snapshot that lacks the node of a device its pods use
is excepted, because containers may then show memory that no node does.

### Sums

The library's induction theorems take an operator as a parameter, which the installed
provers cannot instantiate. `NumberInduction` and `SubsetInduction` have sets instead: a set
that holds 0 and every successor of its members holds every number, because a set of
numbers has a least member; and a set of subsets of a finite set, likewise. From these,
`SumFunction` of the community modules is shown to be what it should be although it is
defined by a choice at every step: it does not depend on the order (`SumAny`), splits
(`SumSplit`), and survives a renaming of the summands (`SumImage`). The backoffs'
powers of two (`PowerFacts`, in `TransportProofs`) and the passes of `resolveOwner`
use the same induction.

### Workloads

A snapshot is put together from stores read at different moments, so that it need not
describe any state of the cluster. What does hold at all times is that every item of a store, of a
queue, and of a snapshot while `Build` reads, is the conversion of an object there has
been, of that kind and key, in some phase (`StoreInv`, `ClusterInv`); that with an object
its owners have been there; and that two objects of one kind and key name the same owners
(`PastInv`). `OwnersReal` speaks of the object that the item of a pod came from; a hop from
there leads to the owner that an item of a ReplicaSet or a Job names, perhaps of another
object of that name, and `Consistent` is what makes its owner an owner of the first. This is
the step of an induction over the passes of the loop (`ResolvePath`, `ResolvedReal`). For
`CountedOnce` the sets `podsByWorkload` of two workloads do not meet, since a pod has one
owner.

`FollowInv` is the counterpart of `LastEvents`: the newest event about a key tells what the
cluster holds at that key, and the store does where no event is left. With empty queues it is
`StoresFollow`.

`TotalsExact` compares names with UIDs: in a cluster at rest (`Regular`: owners exist, UIDs are
unique, references name what they mean, and ownership has the shape that the controllers of
Kubernetes give it) the owner that `resolveOwner` comes to is the workload above the
pod, through a ReplicaSet, through a Job that has a CronJob, or directly (`ResolvedToAbove`).
`PodsCounted` and `SummedByKeys` turn this into equal sums. `Regular` is a condition on the
state, not an assumption: in other states the property says nothing. Nor does it about the
totals of a CronJob's Jobs, which `cronjob_totals` shows to be others.

### Assumptions

`TransportAssumption`, `TTLAssumption`, `AgentAssumption`, `RegistryAssumption`,
`BuilderAssumption`: what `Config`, the constants of the code and the finiteness of a
cluster guarantee. Exceptions to be aware of:

* `MaxRetries` and `RequestTimeout` are any numbers that are not negative, a timeout of 0 being
  none. `MaxRetries + 1` is taken not to wrap an `int`.
* `MaxStopTime`, in `Agent`: `StopAll` after a full start and a cancellation ends within it. This is
  `StopAllTimeBoundHolds` of `RegistryProofs`, for the number of informers there are.
* `MaxSends > 0`, in `Agent`: the bound on the snapshots of a behaviour, and the agent takes one at once.
* `PowerAssumption`: `2^0 = 1` and doubling. The provers do not know `^`; what else is needed of
  powers of two is proved from these. TLC evaluates them.
* `EnvironmentAssumption`: durations are integers.
* `ValueAssumption`: the values of samples are integers, not finite or blank, and the model's
  markers are none of these.
* `KeyAssumption`: no UUID equals the index of a GPU on the same page. The code relies on
  it where it falls back from the UUID to the index (`parser.go`), and the exporter's UUIDs
  begin with `GPU-`.
* `MemoryAssumption`: samples of memory are numbers of MiB that are not negative, or blank. What
  `int64` makes of a float that is not finite depends on the machine.
* `SnapshotAssumption`: a snapshot has finitely many nodes and pods, and they have names.
* `ScenarioAssumption`: a cluster starts with the owners of its objects, and a name that is used
  again is used below owners of the same kinds and names, as controllers name what they
  create. It is needed: a ReplicaSet that came back below another Deployment would take the
  pods of the first one along, because `ownership.go` joins by name.

### Only model-checked

* Liveness (`ImplementsDelivery`'s fairness, `ShutdownReturns`, `KeepsSending`,
  `StopHonoured`, `BackoffEnds`, `StopAllReturns`, `SnapshotsCatchUp`, `UsageCatchesUp`,
  `NodeGPUCatchesUp`, `TotalsCatchUp`, `TargetsCatchUp`, `SignalEndsProcess`,
  `ReturnEndsProcess`, `PollsFollowExporters`): out of the prover's reach.

Every safety invariant and every action property that a passing run checks is proved.

## 5. Where the code and its documentation disagree

Shown by a run:

* `auth_failure`: `docs/troubleshooting.md` says an agent refused with 401 stops and
  does not retry. `doSnapshot` returns on the error before the state machine hears of it,
  so the agent goes on at the next tick. The same holds for 402, 403, 410 and 429: in the
  deployed agent the states `backoff`, `stopped` and `exiting` are never reached.
* `failed_start`: after a partial start failure `StopAll` waits on a `done` that nobody
  closes, and the agent has to be killed.
* `latest_snapshot`: the snapshot served by the debug endpoint changes while the next one
  is built, because containers are shared. It is also a data race.
* `cronjob_totals`: the Job of a CronJob always reports its template's requests and no usage,
  because ownership resolution has moved its pods to the CronJob (`aggregation.go:92`); the
  comment at `aggregation.go:87` speaks of a fallback "when no live pods remain", and the test
  (`aggregation_test.go:302`) says "live aggregate must win over spec fallback". `TotalsCatchUp`
  leaves these totals out.

Seen while modelling, and stated as exceptions of properties that hold:

* A GPU interval of zero or less passes `Validate` and makes the ticker of the
  GPU poller panic (`gpu/collector.go:89`); `docs/architecture.md:62` says that the agent exits
  immediately on any invalid value. `PanicExplained` names it as one of two reasons.
* A poll that finds no exporters returns before it replaces the metrics
  (`gpu/collector.go:106`), and every later snapshot shows those of the last exporters; a test
  (`gpu/collector_test.go:193`) says "No endpoints means no metrics". `NodeGPUCatchesUp` speaks
  of polls that had endpoints.
* A stop by another holder of the state machine is lost when it meets `Run` between its look at
  the state and its next write (`agent.go:226-231`, `157-163`). `StopHonoured`,
  `AtMostOneSnapshotAfterStop`.
* After a partial start SIGTERM ends `Run`'s loop but neither `Run` nor the process, which is
  `failed_start` seen from outside. `ShutdownReturns`, `SignalEndsProcess`, `ReturnEndsProcess`.
* `ServerGroups` and `ServerVersion` take no context (`capabilities.go:41`, `main.go:97`): while the
  API server does not answer them, a signal does not end the start-up. `SignalEndsProcess`.
* A request timeout of 0, which `Validate` accepts, leaves `Send` without a bound.
  `SendTimeBound`.
* The pods of a Job whose CronJob is not in the snapshot are reported with the CronJob's
  name and the Job's UID (`ownership.go:119`). `OwnerUIDsReal`.
* When `Run` returns by itself `ctx` is not done, and a poll that waits for an API server
  that does not answer holds up the exit (`main.go:207`). `ReturnEndsProcess`.

Seen while modelling, without a property: GPU usage of containers is never cleared while that
of nodes is, so that a snapshot may carry old GPU usage with `GPUMetricsAvailable` false
(`builder.go:454`, against `docs/collected-resources.md:261`); an exporter's NaN or minus infinity passes
`isSentinel` (`parser.go:357`) and would make the snapshot impossible to encode, the case `Encodable` leaves out;
instances of a partitioned GPU share its UUID and become one device, with the labels of the
first sample and the values of the last (`parser.go:333`); the list of stale resources
of Step 8 is overwritten before anyone reads it (`builder.go:119`, against
`docs/architecture.md:109`); the RBAC self-check of `docs/security.md:49` is called by
tests only; an unparsable `KUBEADAPT_GPU_METRICS_ENABLED` such as `no` means true; `ready` is set after a sync that timed
out (`agent.go:140`, against `docs/health-endpoints.md:40`);
deltas are relative to the last snapshot built, not delivered (`agent.go:252`, against
`pkg/model/snapshot.go:112`); a collector that never started is reported healthy
(`resource/health.go:18`); a poller that ended with the agent's context is reported stale
(`metrics/server.go:124`), which `StaleExplained` states; GPU targets that failed count as
up (`gpu/collector.go:123`); Step 1 of `Build` is not a point-in-time view
(`builder.go:143`, against `docs/architecture.md:177`); a snapshot rejected for its size
reports no error code, which `CountersAgree` and `HealthTellsRecentFailures` make precise.

## 6. Not modelled, and why

* Most fields of the conversions, and the model types: copied one by one. The
  conversions of HPAs, VPAs, ingresses, volumes, quotas and node pools feed no join.
* The handlers and stores of those kinds: the form is that of the ten modelled ones.
* The retry `RoundTripper` in `transport/middleware.go`: `NewClient` does not use it.
* Step 8 of `Build`: its result is overwritten.
* The provider that `discovery` derives from a node: it is only logged. The RBAC check:
  nothing calls it.
* HTTP handlers, logging, metrics nothing reads: I/O.
* What follows in `Agent` when `StopAll` hangs: `Run` stays there.
* Fields that `populateHealth` copies from the summary, the configuration and the clock.

## 7. Plan

Done: the path from the cluster to the backend, GPU metrics, and the process around it;
theorems about seven of the modules, with every safety
property of the runs among them.

Next: an invariant for the shared containers of `SnapshotBuilder` (which cell a pod's entry
may refer to); `Startup`'s life cycle of the pollers against `Registry`'s.
