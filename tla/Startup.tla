------------------------------- MODULE Startup -------------------------------
(***************************************************************************)
(* cmd/agent/main.go: the life of the process, from the environment it is  *)
(* started in to its exit, with what only main uses: internal/config,      *)
(* internal/discovery, internal/cloud, the memory monitor, and the life of *)
(* the health server.  Agent.Run is here what main sees of it: it starts   *)
(* the pollers, may return by itself (a terminal state) and returns when   *)
(* its context is done, once StopAll has stopped every collector (Agent    *)
(* and Registry have the details).                                         *)
(*                                                                         *)
(* An environment variable is [form, n]: "unset", "garbage" (it does not   *)
(* parse), "duration" (n milliseconds) or "integer"; texts are themselves. *)
(* A hung API server accepts requests and never answers.                   *)
(***************************************************************************)
EXTENDS Integers, Sequences, FiniteSets

CONSTANTS
    Environments,   \* environments the process may be started in
    Clusters,       \* clusters: optional API groups, and whether nodes have GPUs
    PodSets,        \* dcgm-exporter pods they may run: selector matched, IP or ""
    MaxChanges,     \* bound: changes of the exporter pods
    MaxFaults       \* bound: List requests of a running agent that fail

\* The number in a duration variable is an integer.
ASSUME EnvironmentAssumption ==
    \A e \in Environments :
       {e.snapshotInterval.n, e.metricsInterval.n, e.gpuInterval.n} \subseteq Int

VARIABLES
    env,            \* the environment
    cfg,            \* main's cfg
    pc,             \* where main is, or how the process ended
    signalled,      \* a signal is in sigCh, or was
    cancelled,      \* ctx is done
    cluster,        \* the cluster: its API groups, and whether nodes have GPUs
    exporters,      \* its dcgm-exporter pods
    changes,        \* how often those changed
    faults,         \* how many List requests failed
    hung,           \* the API server has stopped answering
    caps,           \* discovery's result
    probe,          \* DetectCloudMetadata: request under way, fields read so far
    cloudMeta,      \* and its result
    collectors,     \* registered collectors, the 19 permanent ones being one
    pollPc,         \* goroutine of each poller
    partial,        \* the Start of some, not all, of the core collectors failed
    stopping,       \* StopAll has stopped the informers, and has come to the pollers
    polled,         \* endpoints of the last GPU poll
    health,         \* health server: "none", "serving", "stopped"
    conn,           \* a client's request is in progress when it stops
    monitor         \* memory monitor: "none", "running", "stopping" (stopCh closed), "done"

clusterVars == <<cluster, exporters, changes, hung>>
detectVars == <<caps, faults>>
cloudVars == <<probe, cloudMeta>>
runVars == <<collectors, pollPc, partial, stopping, polled>>
serverVars == <<health, conn, monitor>>
signalVars == <<signalled, cancelled>>
vars == <<env, cfg, pc, signalVars, clusterVars, detectVars, cloudVars, runVars, serverVars>>

Pollers == {"metrics", "gpu"}
Ended == {"exit 0", "exit 1", "killed", "panic"}
Fields == {"provider", "account", "zone", "type"}
NoMeta == [f \in Fields |-> ""]
FirstProvider == [provider |-> 1, request |-> 1, read |-> NoMeta]

Init ==
    /\ env \in Environments /\ cfg = [loaded |-> FALSE] /\ pc = "load"
    /\ signalled = FALSE /\ cancelled = FALSE
    /\ cluster \in Clusters /\ exporters \in PodSets
    /\ changes = 0 /\ faults = 0 /\ hung = FALSE
    /\ caps = [groups |-> {}, endpoints |-> {}]
    /\ probe = FirstProvider
    /\ cloudMeta = NoMeta
    /\ collectors = {} /\ partial = FALSE /\ stopping = FALSE /\ polled = {}
    /\ pollPc = [p \in Pollers |-> "none"]
    /\ health = "none" /\ conn = FALSE /\ monitor = "none"

------------------------------------------------------------------------------
(* internal/config.                                                         *)

envOrFallback(primary, fallback) == IF primary # "" THEN primary ELSE fallback

\* Plain integers are seconds.  (ParseDuration accepts "0" as well.)
parseDuration(raw, default) ==
    CASE raw.form = "duration" -> raw.n
      [] raw.form = "integer" -> raw.n * 1000
      [] OTHER -> default

parseInt(raw, default) == IF raw.form = "integer" THEN raw.n ELSE default

\* ParseBool takes 0, 1 and words for them, not every integer.
parseBool(raw, default) ==
    IF raw.form = "integer" /\ raw.n \in {0, 1} THEN raw.n = 1 ELSE default

parseStringSlice(items) == {items[i] : i \in DOMAIN items} \ {""}

\* The GPU interval's default is the parsed MetricsInterval.
Load(e) ==
    LET metricsInterval == parseDuration(e.metricsInterval, 60000) IN
    [loaded |-> TRUE,
     apiKey |-> envOrFallback(e.apiKey, e.agentToken),
     backendURL |-> envOrFallback(envOrFallback(e.backendURL, e.backendEndpoint), "https"),
     allowInsecure |-> parseBool(e.allowInsecure, FALSE),
     snapshotInterval |-> parseDuration(e.snapshotInterval, 60000),
     metricsInterval |-> metricsInterval,
     gpuInterval |-> parseDuration(e.gpuInterval, metricsInterval),
     gpuEnabled |-> parseBool(e.gpuEnabled, TRUE),
     endpoints |-> parseStringSlice(e.endpoints),
     compressionLevel |-> parseInt(e.compressionLevel, 3),
     maxRetries |-> parseInt(e.maxRetries, 5),
     healthPort |-> parseInt(e.healthPort, 8080)]

MinInterval == 10000
MaxPort == 65535

\* Mutant: only the snapshot interval is checked.
MutValidateSnapshotOnly(c) ==
    /\ c.apiKey # ""
    /\ c.backendURL = "https" \/ c.allowInsecure
    /\ c.snapshotInterval >= MinInterval
    /\ c.compressionLevel \in 1 .. 4
    /\ c.maxRetries >= 0
    /\ c.healthPort \in 1 .. MaxPort

\* backendURL stands for its scheme.  The GPU interval is not checked.
Validate(c) ==
    /\ c.apiKey # ""
    /\ c.backendURL = "https" \/ c.allowInsecure
    /\ c.snapshotInterval >= MinInterval
    /\ c.metricsInterval >= MinInterval
    /\ c.compressionLevel \in 1 .. 4
    /\ c.maxRetries >= 0
    /\ c.healthPort \in 1 .. MaxPort

LoadConfig ==
    /\ pc = "load"
    /\ cfg' = Load(env)
    /\ pc' = IF Validate(cfg') THEN "clients" ELSE "exit 1"
    /\ UNCHANGED <<env, signalVars, clusterVars, detectVars, cloudVars, runVars, serverVars>>

------------------------------------------------------------------------------
(* Signals and the cluster.                                                 *)

\* Until signal.Notify the default action applies; after it one signal fits sigCh.
Signal ==
    /\ pc \notin Ended /\ ~signalled
    /\ signalled' = TRUE
    /\ pc' = IF pc = "load" THEN "killed" ELSE pc
    /\ UNCHANGED <<env, cfg, cancelled, clusterVars, detectVars, cloudVars, runVars, serverVars>>

\* The goroutine that receives from sigCh, once.
SignalGoroutine ==
    /\ pc \notin Ended /\ signalled /\ ~cancelled
    /\ cancelled' = TRUE
    /\ UNCHANGED <<env, cfg, pc, signalled, clusterVars, detectVars, cloudVars, runVars,
                   serverVars>>

ExportersChange ==
    /\ pc \notin Ended /\ changes < MaxChanges
    /\ exporters' \in PodSets \ {exporters}
    /\ changes' = changes + 1
    /\ UNCHANGED <<env, cfg, pc, signalVars, cluster, hung, detectVars, cloudVars,
                   runVars, serverVars>>

APIServerHangs ==
    /\ pc \notin Ended /\ ~hung
    /\ hung' = TRUE
    /\ UNCHANGED <<env, cfg, pc, signalVars, cluster, exporters, changes, detectVars,
                   cloudVars, runVars, serverVars>>

------------------------------------------------------------------------------
(* internal/discovery.                                                      *)

\* Mutant: discovery is not given ctx.
MutReturnsAnswered == ~hung

\* A List has no timeout of its own: it ends when it is answered or ctx is done.
ListReturns == ~hung \/ cancelled

Matching(selector) == {e.ip : e \in {x \in exporters : x.selector = selector}} \ {""}

\* The first selector that finds a pod with an IP; failed are the lists that fail:
\* of the nodes (0), or of the pods of a selector.
detectDCGMExporter(failed) ==
    IF 0 \in failed \/ ~cluster.gpu THEN {}
    ELSE IF 1 \notin failed /\ Matching(1) # {} THEN Matching(1)
    ELSE IF 2 \notin failed THEN Matching(2)
    ELSE {}

\* Which lists fail: all of them once ctx is done, else any while faults are left.
Failing(failed) ==
    IF cancelled THEN failed = {0, 1, 2} /\ UNCHANGED faults
    ELSE /\ faults + Cardinality(failed) <= MaxFaults
         /\ faults' = faults + Cardinality(failed)

\* buildKubeConfig exits when it finds no configuration; NewForConfigOrDie panics over one
\* that it cannot use.
BuildClients ==
    /\ pc = "clients"
    /\ pc' \in {"groups", "exit 1", "panic"}
    /\ UNCHANGED <<env, cfg, signalVars, clusterVars, detectVars, cloudVars, runVars, serverVars>>

\* ServerGroups takes no context and, over the client that kubernetes.NewForConfig shares,
\* has no timeout: only an answer, or its refusal, ends it.
ServerGroups ==
    /\ pc = "groups"
    /\ ~hung
    /\ \/ pc' = "detect" /\ caps' = [caps EXCEPT !.groups = cluster.groups]
       \/ pc' = "exit 1" /\ UNCHANGED caps
    /\ UNCHANGED <<env, cfg, signalVars, clusterVars, faults, cloudVars, runVars, serverVars>>

\* The rest of Detect.  (The provider it derives from a node is only logged.)
Detect ==
    /\ pc = "detect"
    /\ ListReturns
    /\ \E failed \in SUBSET {0, 1, 2} :
          Failing(failed) /\ caps' = [caps EXCEPT !.endpoints = detectDCGMExporter(failed)]
    /\ pc' = "version"
    /\ UNCHANGED <<env, cfg, signalVars, clusterVars, cloudVars, runVars, serverVars>>

\* ServerVersion takes no context either.  Its failure is only logged.
ServerVersion ==
    /\ pc = "version"
    /\ ~hung
    /\ pc' = "cloud"
    /\ UNCHANGED <<env, cfg, signalVars, clusterVars, detectVars, cloudVars, runVars, serverVars>>

------------------------------------------------------------------------------
(* internal/cloud: the providers in turn, the requests of each in turn.     *)

Providers == <<"aws", "gcp", "azure">>

\* What each request fills in.  aws: token, document; gcp: project, zone, machine type.
Requests ==
    [aws |-> <<{}, {"account", "zone", "type"}>>,
     gcp |-> <<{"account"}, {"zone"}, {"type"}>>,
     azure |-> <<{"account", "type"}>>]

ProbedProvider == Providers[probe.provider]

\* A value is named for the provider it is read from.
Filled ==
    [f \in Fields |-> IF f \in Requests[ProbedProvider][probe.request]
                      THEN ProbedProvider ELSE probe.read[f]]

\* Status 200 and a readable body: on to the next request, or done.
MetadataAnswered ==
    /\ pc = "cloud" /\ ~cancelled
    /\ IF probe.request < Len(Requests[ProbedProvider])
       THEN /\ probe' = [probe EXCEPT !.request = @ + 1, !.read = Filled]
            /\ UNCHANGED <<pc, cloudMeta>>
       ELSE /\ cloudMeta' = [Filled EXCEPT !.provider = ProbedProvider]
            /\ pc' = "register"
            /\ UNCHANGED probe
    /\ UNCHANGED <<env, cfg, signalVars, clusterVars, detectVars, runVars, serverVars>>

\* Mutant: the fields a provider has answered stay when it fails.
MutNextProviderKeeps ==
    [provider |-> probe.provider + 1, request |-> 1, read |-> probe.read]

\* The next provider starts from an empty CloudMetadata.
NextProvider == [provider |-> probe.provider + 1, request |-> 1, read |-> NoMeta]

\* Refused, another status, or no answer before the timeout or the end of ctx.
MetadataFails ==
    /\ pc = "cloud"
    /\ IF probe.provider < Len(Providers)
       THEN probe' = NextProvider /\ UNCHANGED pc
       ELSE pc' = "register" /\ UNCHANGED probe
    /\ UNCHANGED <<env, cfg, signalVars, clusterVars, detectVars, cloudMeta, runVars, serverVars>>

------------------------------------------------------------------------------
(* Wiring, and the run.                                                     *)

GPUWanted == (caps.endpoints # {} \/ cfg.endpoints # {}) /\ cfg.gpuEnabled

\* The always-on collectors are "core".  The set does not change any more.  (What cloud
\* detection read goes to the builder, and is forgotten here.)
Register ==
    /\ pc = "register"
    /\ collectors' = {"core"} \cup (caps.groups \cap {"vpa", "nodepools", "metrics"})
                     \cup (IF GPUWanted THEN {"gpu"} ELSE {})
    /\ pc' = "health"
    /\ probe' = FirstProvider /\ cloudMeta' = NoMeta
    /\ UNCHANGED <<env, cfg, signalVars, clusterVars, detectVars, pollPc, partial, stopping,
                   polled, serverVars>>

\* Server.Start fails when the port cannot be listened on.
StartHealth ==
    /\ pc = "health"
    /\ \/ pc' = "monitor" /\ health' = "serving"
       \/ pc' = "exit 1" /\ UNCHANGED health
    /\ UNCHANGED <<env, cfg, signalVars, clusterVars, detectVars, cloudVars, runVars, conn,
                   monitor>>

StartMonitor ==
    /\ pc = "monitor"
    /\ monitor' = "running"
    /\ pc' = "run"
    /\ UNCHANGED <<env, cfg, signalVars, clusterVars, detectVars, cloudVars, runVars, health,
                   conn>>

\* StartAll: each poller's goroutine polls first.  Informers may fail to start, which Run
\* tolerates; the Start of a poller cannot fail.
RunStarts ==
    /\ pc = "run"
    /\ pollPc' = [p \in Pollers |-> IF p \in collectors THEN "first" ELSE "none"]
    /\ partial' \in BOOLEAN
    /\ pc' = "sync"
    /\ UNCHANGED <<env, cfg, signalVars, clusterVars, detectVars, cloudVars, collectors,
                   stopping, polled, serverVars>>

\* No collector started: Run returns the error, and does not call StopAll.
RunStartFails ==
    /\ pc = "run"
    /\ collectors \cap Pollers = {}
    /\ pc' = "stopMonitor"
    /\ UNCHANGED <<env, cfg, signalVars, clusterVars, detectVars, cloudVars, runVars, serverVars>>

\* time.NewTicker panics for an interval that is not positive.
NewTicker(interval, next) == pc' = IF interval > 0 THEN next ELSE "panic"

\* All collectors have synced, or the sync timeout has passed.
RunSynced ==
    /\ pc = "sync"
    /\ NewTicker(cfg.snapshotInterval, "loop")
    /\ UNCHANGED <<env, cfg, signalVars, clusterVars, detectVars, cloudVars, runVars, serverVars>>

\* Run leaves its loop.  StopAll stops the informers, which were registered first, and
\* stays at one whose Start failed: nobody closes the channel it waits on.
RunLeaves ==
    /\ pc = "loop"
    /\ stopping' = ~partial
    /\ pc' = "stopAll"
    /\ UNCHANGED <<env, cfg, signalVars, clusterVars, detectVars, cloudVars, collectors, pollPc,
                   partial, polled, serverVars>>

RunCancelled == cancelled /\ RunLeaves

\* The state machine is Stopped or Exiting; ctx is not done.
RunTerminal == ~cancelled /\ RunLeaves

\* StopAll has stopped the informers and waited for the pollers.
RunReturns ==
    /\ pc = "stopAll" /\ stopping
    /\ \A p \in Pollers : pollPc[p] \in {"none", "done"}
    /\ pc' = "stopMonitor"
    /\ UNCHANGED <<env, cfg, signalVars, clusterVars, detectVars, cloudVars, runVars, serverVars>>

------------------------------------------------------------------------------
(* The pollers.                                                             *)

\* Mutant: the endpoints found at the start are kept.
MutEndpointsOnce(failed) == IF cfg.endpoints # {} THEN cfg.endpoints ELSE caps.endpoints

\* Static endpoints, or what discovery finds now.
endpointsFn(failed) ==
    IF cfg.endpoints # {} THEN cfg.endpoints ELSE detectDCGMExporter(failed)

\* A poll lists through the API server; the scrapes have a timeout.
Poll(p) ==
    /\ pc \notin Ended
    /\ pollPc[p] \in {"first", "poll"}
    /\ IF p = "gpu"
       THEN \E failed \in SUBSET {0, 1, 2} :
               /\ IF cfg.endpoints = {} THEN ListReturns /\ Failing(failed)
                                        ELSE failed = {} /\ UNCHANGED faults
               /\ polled' = endpointsFn(failed)
       ELSE ListReturns /\ UNCHANGED <<faults, polled>>
    /\ pollPc' = [pollPc EXCEPT ![p] = IF @ = "first" THEN "ticker" ELSE "select"]
    /\ UNCHANGED <<env, cfg, pc, signalVars, clusterVars, caps, cloudVars, collectors, partial,
                   stopping, serverVars>>

CreateTicker(p) ==
    /\ pc \notin Ended
    /\ pollPc[p] = "ticker"
    /\ pollPc' = [pollPc EXCEPT ![p] = "select"]
    /\ NewTicker(IF p = "gpu" THEN cfg.gpuInterval ELSE cfg.metricsInterval, pc)
    /\ UNCHANGED <<env, cfg, signalVars, clusterVars, detectVars, cloudVars, collectors,
                   partial, stopping, polled, serverVars>>

Tick(p) ==
    /\ pc \notin Ended
    /\ pollPc[p] = "select"
    /\ pollPc' = [pollPc EXCEPT ![p] = "poll"]
    /\ UNCHANGED <<env, cfg, pc, signalVars, clusterVars, detectVars, cloudVars, collectors,
                   partial, stopping, polled, serverVars>>

\* StopAll has closed the poller's stop channel: it stops one poller after the other.
StopClosed(p) == stopping /\ (p = "gpu" => pollPc["metrics"] \in {"none", "done"})

PollerEnds(p) ==
    /\ pc \notin Ended
    /\ pollPc[p] = "select"
    /\ StopClosed(p) \/ cancelled
    /\ pollPc' = [pollPc EXCEPT ![p] = "done"]
    /\ UNCHANGED <<env, cfg, pc, signalVars, clusterVars, detectVars, cloudVars, collectors,
                   partial, stopping, polled, serverVars>>

------------------------------------------------------------------------------
(* The memory monitor and the health server.                                *)

\* run's loop.  A tick (check, and perhaps the callback) changes nothing here.
MonitorEnds ==
    /\ pc \notin Ended
    /\ monitor = "stopping"
    /\ monitor' = "done"
    /\ UNCHANGED <<env, cfg, pc, signalVars, clusterVars, detectVars, cloudVars, runVars, health,
                   conn>>

\* Stop does not wait for the goroutine, which may be in the callback.
StopMonitor ==
    /\ pc = "stopMonitor"
    /\ monitor' = "stopping"
    /\ pc' = "stopHealth"
    /\ UNCHANGED <<env, cfg, signalVars, clusterVars, detectVars, cloudVars, runVars, health,
                   conn>>

ClientHangsUp ==
    /\ pc \notin Ended /\ conn
    /\ conn' = FALSE
    /\ UNCHANGED <<env, cfg, pc, signalVars, clusterVars, detectVars, cloudVars, runVars, health,
                   monitor>>

\* Mutant: Shutdown is given no timeout.
MutShutdownWaits == ~conn

\* Shutdown returns when no request is in progress, or after the 5 seconds.
ShutdownReturns == TRUE

BesidesHealth ==
    UNCHANGED <<env, cfg, signalVars, clusterVars, detectVars, cloudVars, runVars, monitor>>

\* Server.Stop: Shutdown closes the listener, then waits for requests in progress.
StopHealth ==
    \/ /\ pc = "stopHealth"
       /\ health' = "stopped" /\ conn' \in BOOLEAN
       /\ pc' = "draining"
       /\ BesidesHealth
    \/ /\ pc = "draining"
       /\ ShutdownReturns
       /\ pc' = "exit 0"
       /\ UNCHANGED <<health, conn>>
       /\ BesidesHealth

------------------------------------------------------------------------------
Main ==
    \/ LoadConfig \/ BuildClients \/ ServerGroups \/ Detect \/ ServerVersion
    \/ MetadataAnswered \/ MetadataFails \/ Register \/ StartHealth \/ StartMonitor
    \/ RunStarts \/ RunStartFails \/ RunSynced \/ RunCancelled \/ RunReturns \/ StopMonitor \/ StopHealth

Next ==
    \/ Main \/ RunTerminal \/ Signal \/ SignalGoroutine \/ ExportersChange \/ APIServerHangs
    \/ \E p \in Pollers : Poll(p) \/ CreateTicker(p) \/ Tick(p) \/ PollerEnds(p)
    \/ MonitorEnds \/ ClientHangsUp

\* Goroutines that can run do, tickers tick, and a closed channel is chosen at last.
\* Nothing makes a signal arrive, the API server answer or a client hang up.
Fairness ==
    /\ WF_vars(Main) /\ WF_vars(SignalGoroutine)
    /\ \A p \in Pollers :
          WF_vars(Poll(p) \/ CreateTicker(p) \/ Tick(p)) /\ SF_vars(PollerEnds(p))

Spec == Init /\ [][Next]_vars /\ Fairness

------------------------------------------------------------------------------
(* Properties.                                                              *)

\* main waits for an API server that no longer answers, in a request without ctx.
Unanswered == hung /\ pc \in {"groups", "version"}

\* StopAll waits for a collector that never started.
StopAllStuck == partial /\ pc = "stopAll"

\* A signal ends the process (main.go's signal goroutine, and the contexts it reaches):
\* wherever main is, in the middle of the start-up too, with lists and polls that an API
\* server does not answer and a client that does not hang up.  Only two things outlast it:
\* the two requests of the start-up that take no context, while they get no answer, and
\* StopAll after a partial start.
SignalEndsProcess == signalled ~> (pc \in Ended \/ Unanswered \/ StopAllStuck)

\* When Run leaves its loop, by itself too, the process ends (main.go step 12), unless
\* StopAll is held up: after a partial start, or by a poll that waits for an API server
\* that no longer answers, as ctx may not be done then.
ReturnEndsProcess == pc = "stopAll" ~> (pc \in Ended \/ hung \/ StopAllStuck)

\* After Validate a panic has two reasons: a kube configuration the clients cannot be built
\* from, before anything is registered (NewForConfigOrDie), or a GPU interval that is not
\* positive, in the ticker of a registered GPU collector: Validate lets it pass, although
\* docs/architecture.md has the agent exit "immediately on any invalid value".
PanicExplained ==
    pc = "panic" => \/ collectors = {}
                    \/ cfg.gpuInterval <= 0 /\ "gpu" \in collectors

\* The cloud metadata describes one instance: what a provider answered before it failed
\* is not mixed with, or reported as, what another one answers (DetectCloudMetadata).
MetadataOfOneProvider ==
    \A f \in {"account", "zone", "type"} : cloudMeta[f] \in {"", cloudMeta.provider}

\* GPU polls keep up with the exporters: with no endpoints configured, whenever the GPU
\* collector stays up, pods that were replaced are polled at their new addresses
\* (main.go's endpointsFn).
PollsFollowExporters ==
    []<>(\/ pc \in Ended \/ hung \/ cancelled \/ stopping
         \/ pollPc["gpu"] = "none"
         \/ polled = (IF cfg.endpoints # {} THEN cfg.endpoints ELSE detectDCGMExporter({})))
=============================================================================
