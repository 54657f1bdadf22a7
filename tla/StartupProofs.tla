---------------------------- MODULE StartupProofs ----------------------------
(***************************************************************************)
(* Proofs about Startup: what can still crash the process once main has    *)
(* validated its configuration, and whose answers the cloud metadata holds. *)
(***************************************************************************)
EXTENDS Startup, TLAPS

\* The places of main before Run starts the collectors, and those past Validate.
BeforeRun ==
    {"load", "clients", "groups", "detect", "version", "cloud", "register", "health", "monitor",
     "run"}

NotValidated == {"load", "exit 1", "killed"}

\* Past Validate, cfg is what Load made of the environment and Validate accepted.
ConfigInv ==
    /\ env \in Environments
    /\ pc \notin NotValidated => cfg = Load(env) /\ Validate(cfg)

\* Only a registered poller has a goroutine, and only once Run has started it.
PollerInv ==
    /\ pollPc \in [Pollers -> {"none", "first", "ticker", "select", "poll", "done"}]
    /\ \A p \in Pollers : pollPc[p] # "none" => p \in collectors /\ pc \notin BeforeRun

\* Nothing is registered while the clients are built.
ClientsInv == pc \in {"load", "clients"} => collectors = {}

CrashInv == ConfigInv /\ PollerInv /\ ClientsInv /\ PanicExplained

\* The intervals that matter are integers, and two of them are long.
IntervalFacts(c) ==
    /\ c.gpuInterval \in Int
    /\ c.snapshotInterval \in Int /\ c.snapshotInterval > 0
    /\ c.metricsInterval \in Int /\ c.metricsInterval > 0

\* Whichever of its three answers parseDuration gives for a variable of the environment,
\* it is an integer (internal/config's parseDuration).
LEMMA ParsedDuration ==
    ASSUME NEW raw, raw.n \in Int, NEW default \in Int
    PROVE  parseDuration(raw, default) \in Int
BY DEF parseDuration

\* A configuration that Validate accepts has snapshot and metrics intervals a ticker
\* takes; of the GPU interval it says only that it is a number (Config.Validate).
LEMMA AcceptedIntervals ==
    ASSUME NEW e \in Environments, Validate(Load(e))
    PROVE  IntervalFacts(Load(e))
<1>1. e.snapshotInterval.n \in Int /\ e.metricsInterval.n \in Int /\ e.gpuInterval.n \in Int
  BY EnvironmentAssumption
<1>2. parseDuration(e.metricsInterval, 60000) \in Int
  BY <1>1, ParsedDuration
<1>3. parseDuration(e.snapshotInterval, 60000) \in Int
  BY <1>1, ParsedDuration
<1>4. parseDuration(e.gpuInterval, parseDuration(e.metricsInterval, 60000)) \in Int
  BY <1>1, <1>2, ParsedDuration
<1>5. /\ Load(e).snapshotInterval = parseDuration(e.snapshotInterval, 60000)
      /\ Load(e).metricsInterval = parseDuration(e.metricsInterval, 60000)
      /\ Load(e).gpuInterval = parseDuration(e.gpuInterval,
                                             parseDuration(e.metricsInterval, 60000))
  BY DEF Load
<1>6. Load(e).snapshotInterval >= MinInterval /\ Load(e).metricsInterval >= MinInterval
  BY Zenon DEF Validate
<1>7. /\ Load(e).gpuInterval \in Int
      /\ Load(e).snapshotInterval \in Int
      /\ Load(e).metricsInterval \in Int
  BY <1>2, <1>3, <1>4, <1>5
<1> QED
  BY <1>6, <1>7 DEF IntervalFacts, MinInterval

\* The same of cfg in a state past Validate.
LEMMA ConfigFacts ==
    ASSUME ConfigInv, pc \notin NotValidated
    PROVE  IntervalFacts(cfg)
<1>1. env \in Environments /\ cfg = Load(env) /\ Validate(Load(env))
  BY DEF ConfigInv
<1> QED
  BY <1>1, AcceptedIntervals

\* Where main starts, nothing has been registered or started (main.go).
LEMMA CrashInit == Init => CrashInv
BY DEF Init, CrashInv, ConfigInv, PollerInv, ClientsInv, PanicExplained, NotValidated, Pollers

\* A step that leaves the configuration, the collectors and the pollers alone, and moves
\* main forward at most, keeps the invariant.
LEMMA CrashFrame ==
    ASSUME CrashInv, UNCHANGED <<env, cfg, collectors, pollPc>>,
           pc' = pc \/ (pc \notin NotValidated /\ pc' # "panic" /\ pc' \notin BeforeRun)
                    \/ (/\ pc \notin NotValidated /\ pc \in BeforeRun
                        /\ pc' \notin {"load", "clients", "panic"})
                    \/ pc' \in {"exit 1", "killed"}
    PROVE  CrashInv'
BY DEF CrashInv, ConfigInv, PollerInv, ClientsInv, PanicExplained, NotValidated, BeforeRun

\* A poller's goroutine that moves on without touching main keeps the invariant.
LEMMA CrashPoller ==
    ASSUME CrashInv, NEW p \in Pollers, pollPc[p] # "none",
           NEW next \in {"ticker", "select", "poll", "done"},
           pollPc' = [pollPc EXCEPT ![p] = next], UNCHANGED <<env, cfg, collectors, pc>>
    PROVE  CrashInv'
BY DEF CrashInv, ConfigInv, PollerInv, ClientsInv, PanicExplained, NotValidated, BeforeRun

\* Every step of main, the pollers and their surroundings keeps the invariant.
LEMMA CrashNext == CrashInv /\ [Next]_vars => CrashInv'
<1> SUFFICES ASSUME CrashInv, [Next]_vars PROVE CrashInv'
  OBVIOUS
<1> USE DEF clusterVars, detectVars, cloudVars, runVars, serverVars, signalVars
<1>1. CASE LoadConfig
  <2>1. env' \in Environments /\ cfg' = Load(env')
    BY <1>1 DEF LoadConfig, CrashInv, ConfigInv
  <2>2. pc = "load" /\ pc' \in {"clients", "exit 1"} /\ (pc' = "clients" => Validate(cfg'))
    BY <1>1 DEF LoadConfig
  <2>3. UNCHANGED <<pollPc, collectors>>
    BY <1>1 DEF LoadConfig
  <2>4. \A p \in Pollers : pollPc[p] = "none"
    BY <2>2 DEF CrashInv, PollerInv, BeforeRun
  <2>5. PollerInv'
    BY <2>3, <2>4 DEF CrashInv, PollerInv
  <2> QED
    BY <2>1, <2>2, <2>3, <2>5 DEF CrashInv, ConfigInv, ClientsInv, PanicExplained, NotValidated
<1>2. CASE ServerGroups \/ Detect \/ ServerVersion \/ MetadataAnswered \/ MetadataFails
  BY <1>2, CrashFrame DEF ServerGroups, Detect, ServerVersion, MetadataAnswered, MetadataFails,
     NotValidated, BeforeRun
<1>2a. CASE BuildClients
  <2>1. /\ pc = "clients" /\ pc' \in {"groups", "exit 1", "panic"}
        /\ UNCHANGED <<env, cfg, collectors, pollPc>>
    BY <1>2a DEF BuildClients
  <2>2. collectors = {} /\ \A p \in Pollers : pollPc[p] = "none"
    BY <2>1 DEF CrashInv, ClientsInv, PollerInv, BeforeRun
  <2> QED
    BY <2>1, <2>2 DEF CrashInv, ConfigInv, PollerInv, ClientsInv, PanicExplained, NotValidated
<1>3. CASE Register
  <2>1. pc = "register" /\ pc' = "health" /\ UNCHANGED <<env, cfg, pollPc>>
    BY <1>3 DEF Register
  <2> QED
    BY <2>1 DEF CrashInv, ConfigInv, PollerInv, ClientsInv, PanicExplained, NotValidated,
       BeforeRun
<1>4. CASE StartHealth \/ StartMonitor
  BY <1>4, CrashFrame DEF StartHealth, StartMonitor, NotValidated, BeforeRun
<1>5. CASE RunStarts
  <2>1. /\ pc = "run" /\ pc' = "sync" /\ UNCHANGED <<env, cfg, collectors>>
        /\ pollPc' = [p \in Pollers |-> IF p \in collectors THEN "first" ELSE "none"]
    BY <1>5 DEF RunStarts
  <2> QED
    BY <2>1 DEF CrashInv, ConfigInv, PollerInv, ClientsInv, PanicExplained, NotValidated,
       BeforeRun
<1>5a. CASE RunStartFails
  BY <1>5a, CrashFrame DEF RunStartFails, NotValidated, BeforeRun
<1>6. CASE RunSynced
  <2>1. pc = "sync" /\ UNCHANGED <<env, cfg, collectors, pollPc>>
    BY <1>6 DEF RunSynced
  <2>2. IntervalFacts(cfg)
    BY <2>1, ConfigFacts DEF CrashInv, NotValidated
  <2>3. cfg.snapshotInterval > 0
    BY <2>2 DEF IntervalFacts
  <2>4. pc' = "loop"
    BY <1>6, <2>3 DEF RunSynced, NewTicker
  <2> QED
    BY <2>1, <2>4, CrashFrame DEF NotValidated, BeforeRun
<1>7. CASE RunCancelled \/ RunTerminal \/ RunReturns \/ StopMonitor \/ StopHealth
  BY <1>7, CrashFrame DEF RunCancelled, RunTerminal, RunLeaves, RunReturns, StopMonitor,
     StopHealth, BesidesHealth, NotValidated, BeforeRun
<1>8. CASE Signal \/ SignalGoroutine \/ ExportersChange \/ APIServerHangs \/ MonitorEnds
           \/ ClientHangsUp
  BY <1>8, CrashFrame DEF Signal, SignalGoroutine, ExportersChange, APIServerHangs,
     MonitorEnds, ClientHangsUp
<1>9. ASSUME NEW p \in Pollers, Poll(p) \/ Tick(p) \/ PollerEnds(p)
      PROVE  CrashInv'
  <2>1. UNCHANGED <<env, cfg, collectors, pc>> /\ pollPc[p] # "none"
    BY <1>9 DEF Poll, Tick, PollerEnds
  <2>2. \E next \in {"ticker", "select", "poll", "done"} :
           pollPc' = [pollPc EXCEPT ![p] = next]
    BY <1>9 DEF Poll, Tick, PollerEnds
  <2> QED
    BY <2>1, <2>2, CrashPoller
<1>10. ASSUME NEW p \in Pollers, CreateTicker(p)
       PROVE  CrashInv'
  <2>1. /\ UNCHANGED <<env, cfg, collectors>> /\ pollPc[p] = "ticker"
        /\ pollPc' = [pollPc EXCEPT ![p] = "select"]
    BY <1>10 DEF CreateTicker
  <2>2. p \in collectors /\ pc \notin BeforeRun /\ pc \notin Ended
    BY <1>10, <2>1 DEF CreateTicker, CrashInv, PollerInv
  <2>3. IntervalFacts(cfg)
    BY <2>2, ConfigFacts DEF CrashInv, BeforeRun, Ended, NotValidated
  <2>4. CASE (IF p = "gpu" THEN cfg.gpuInterval ELSE cfg.metricsInterval) > 0
    <3>1. pc' = pc
      BY <1>10, <2>4 DEF CreateTicker, NewTicker
    <3> QED
      BY <2>1, <3>1, CrashPoller
  <2>5. CASE ~((IF p = "gpu" THEN cfg.gpuInterval ELSE cfg.metricsInterval) > 0)
    <3>1. pc' = "panic"
      BY <1>10, <2>5 DEF CreateTicker, NewTicker
    <3>2. p = "gpu" /\ cfg.gpuInterval <= 0
      BY <2>3, <2>5 DEF IntervalFacts
    <3>3. PollerInv'
      BY <2>1, <2>2, <3>1 DEF CrashInv, PollerInv, BeforeRun
    <3>4. ConfigInv'
      BY <2>1, <2>2 DEF CrashInv, ConfigInv, BeforeRun, NotValidated, Ended
    <3>5. PanicExplained'
      BY <2>1, <2>2, <3>2 DEF PanicExplained
    <3> QED
      BY <3>1, <3>3, <3>4, <3>5 DEF CrashInv, ClientsInv
  <2> QED
    BY <2>4, <2>5
<1>11. CASE UNCHANGED vars
  BY <1>11, CrashFrame DEF vars
<1> QED
  BY <1>1, <1>2, <1>3, <1>4, <1>5, <1>6, <1>7, <1>8, <1>9, <1>10, <1>11, <1>2a,
     <1>5a DEF Next, Main

\* A process that Validate let through panics only while its clients are built, or in the
\* ticker of a registered GPU collector whose interval is not positive, whatever the environment, the cluster and the
\* order of signals, polls and faults (main.go, config.go, gpu/collector.go).
THEOREM PanicExplainedHolds == Spec => []PanicExplained
<1>1. CrashInv => PanicExplained
  BY DEF CrashInv
<1> QED
  BY <1>1, CrashInit, CrashNext, PTL DEF Spec

------------------------------------------------------------------------------
(* The cloud metadata.                                                      *)

Metadata == [Fields -> {"", "aws", "gcp", "azure"}]

\* Every field of meta is empty, or was read from the provider.
OneProvider(meta, provider) ==
    \A f \in Fields : meta[f] \in {"", provider}

\* What has been read so far is the probed provider's, and what is reported is one's.
MetaInv ==
    /\ probe \in [provider : 1 .. 3, request : Int, read : Metadata]
    /\ OneProvider(probe.read, ProbedProvider)
    /\ cloudMeta \in Metadata
    /\ OneProvider(cloudMeta, cloudMeta.provider)

\* An empty CloudMetadata has the fields, and nothing in them.
LEMMA EmptyMeta ==
    /\ NoMeta \in Metadata
    /\ \A p : OneProvider(NoMeta, p)
BY DEF NoMeta, Metadata, OneProvider

\* The next request's answer adds fields of the same provider (detectAWS, detectGCP,
\* detectAzure).
LEMMA FilledFields ==
    ASSUME MetaInv
    PROVE  /\ ProbedProvider \in {"aws", "gcp", "azure"}
           /\ Filled \in Metadata
           /\ \A f \in Fields : Filled[f] \in {"", ProbedProvider}
<1>1. ProbedProvider \in {"aws", "gcp", "azure"}
  <2>1. probe.provider \in {1, 2, 3}
    <3>1. probe.provider \in 1 .. 3
      BY DEF MetaInv
    <3>2. \A n \in 1 .. 3 : n \in {1, 2, 3}
      OBVIOUS
    <3> QED
      BY <3>1, <3>2
  <2> QED
    BY <2>1 DEF ProbedProvider, Providers
<1>2. \A f \in Fields : probe.read[f] \in {"", ProbedProvider}
  BY DEF MetaInv, OneProvider
<1> QED
  BY <1>1, <1>2 DEF Filled, Metadata

\* Detection starts with nothing read (DetectCloudMetadata).
LEMMA MetaInit == Init => MetaInv
<1> SUFFICES ASSUME Init PROVE MetaInv
  OBVIOUS
<1>1. probe = [provider |-> 1, request |-> 1, read |-> NoMeta] /\ cloudMeta = NoMeta
  BY DEF Init, FirstProvider
<1> QED
  BY <1>1, EmptyMeta DEF MetaInv

\* Every step of the detection keeps the invariant; no other step touches it.
LEMMA MetaNext == MetaInv /\ [Next]_vars => MetaInv'
<1> SUFFICES ASSUME MetaInv, [Next]_vars PROVE MetaInv'
  OBVIOUS
<1> USE DEF clusterVars, detectVars, cloudVars, runVars, serverVars, signalVars
<1>1. CASE MetadataAnswered
  <2>1. CASE probe.request < Len(Requests[ProbedProvider])
    <3>1. probe' = [probe EXCEPT !.request = @ + 1, !.read = Filled] /\ cloudMeta' = cloudMeta
      BY <1>1, <2>1 DEF MetadataAnswered
    <3>2. /\ probe' \in [provider : 1 .. 3, request : Int,
                         read : Metadata]
          /\ probe'.provider = probe.provider /\ probe'.read = Filled
      <4>1. probe \in [provider : 1 .. 3, request : Int, read : Metadata]
        BY DEF MetaInv
      <4>2. Filled \in Metadata
        BY FilledFields
      <4>3. probe' = [provider |-> probe.provider, request |-> probe.request + 1,
                      read |-> Filled]
        BY <3>1, <4>1
      <4> QED
        BY <4>1, <4>2, <4>3
    <3>3. ProbedProvider' = ProbedProvider
      BY <3>2 DEF ProbedProvider
    <3>4. OneProvider(probe.read, ProbedProvider)'
      BY <3>2, <3>3, FilledFields DEF OneProvider
    <3> QED
      BY <3>1, <3>2, <3>4 DEF MetaInv, OneProvider
  <2>2. CASE ~(probe.request < Len(Requests[ProbedProvider]))
    <3>1. cloudMeta' = [Filled EXCEPT !.provider = ProbedProvider] /\ probe' = probe
      BY <1>1, <2>2 DEF MetadataAnswered
    <3>2. /\ cloudMeta' \in Metadata
          /\ cloudMeta'.provider = ProbedProvider
          /\ \A f \in Fields : cloudMeta'[f] \in {"", ProbedProvider}
      BY <3>1, FilledFields DEF Fields, Metadata
    <3> QED
      BY <3>1, <3>2 DEF MetaInv, OneProvider, ProbedProvider
  <2> QED
    BY <2>1, <2>2
<1>2. CASE MetadataFails
  <2>1. CASE probe.provider < Len(Providers)
    <3>1. /\ probe' = [provider |-> probe.provider + 1, request |-> 1, read |-> NoMeta]
          /\ cloudMeta' = cloudMeta
      BY <1>2, <2>1 DEF MetadataFails, NextProvider
    <3>2. probe.provider + 1 \in 1 .. 3
      BY <2>1 DEF MetaInv, Providers
    <3>3. probe' \in [provider : 1 .. 3, request : Int, read : Metadata]
      BY <3>1, <3>2, EmptyMeta
    <3>4. OneProvider(probe.read, ProbedProvider)'
      BY <3>1, EmptyMeta DEF OneProvider
    <3> QED
      BY <3>1, <3>3, <3>4 DEF MetaInv, OneProvider
  <2>2. CASE ~(probe.provider < Len(Providers))
    BY <1>2, <2>2 DEF MetadataFails, MetaInv, OneProvider, ProbedProvider
  <2> QED
    BY <2>1, <2>2
<1>3. CASE Register
  <2>1. probe' = [provider |-> 1, request |-> 1, read |-> NoMeta] /\ cloudMeta' = NoMeta
    BY <1>3 DEF Register, FirstProvider
  <2>2. probe' \in [provider : 1 .. 3, request : Int, read : Metadata]
    BY <2>1, EmptyMeta
  <2>3. OneProvider(probe.read, ProbedProvider)'
    BY <2>1, EmptyMeta DEF OneProvider
  <2>4. OneProvider(cloudMeta, cloudMeta.provider)'
    BY <2>1, EmptyMeta DEF OneProvider
  <2> QED
    BY <2>1, <2>2, <2>3, <2>4, EmptyMeta DEF MetaInv
<1>4. CASE UNCHANGED cloudVars
  BY <1>4 DEF MetaInv, OneProvider, ProbedProvider
<1>5. Next => MetadataAnswered \/ MetadataFails \/ Register \/ UNCHANGED cloudVars
  BY DEF Next, Main, LoadConfig, BuildClients, ServerGroups, Detect, ServerVersion, StartHealth,
     StartMonitor, RunStarts, RunStartFails, RunSynced, RunCancelled, RunTerminal, RunLeaves, RunReturns,
     StopMonitor, StopHealth, BesidesHealth, Signal, SignalGoroutine, ExportersChange,
     APIServerHangs, Poll, CreateTicker, Tick, PollerEnds, MonitorEnds, ClientHangsUp
<1> QED
  BY <1>1, <1>2, <1>3, <1>4, <1>5 DEF vars

\* Whatever the providers answer, and wherever each of them fails, the metadata main uses
\* holds one provider's answers only (DetectCloudMetadata).
THEOREM MetadataOfOneProviderHolds == Spec => []MetadataOfOneProvider
<1>1. MetaInv => MetadataOfOneProvider
  BY DEF MetaInv, OneProvider, Fields, MetadataOfOneProvider
<1> QED
  BY <1>1, MetaInit, MetaNext, PTL DEF Spec
=============================================================================
