--------------------------- MODULE SnapshotBuilder ---------------------------
(***************************************************************************)
(* internal/snapshot and the state it reads: the informers' handlers fill  *)
(* internal/store, the metrics and GPU pollers fill their own stores, and  *)
(* Build reads all of them while they change.                              *)
(*                                                                         *)
(* Two of the 22 typed stores are modelled, nodes and pods, which are the  *)
(* ones Build relates to each other; a pod has one container and a node    *)
(* one GPU.  A measurement is the number of the poll that took it, 0 when  *)
(* there is none (a nil pointer).                                          *)
(*                                                                         *)
(* Values() copies the items of a store, but the Containers slice of a pod *)
(* is a reference: the copy in a snapshot and the item in the store share  *)
(* it.  It is a cell here, and a pod holds the number of its cell.         *)
(***************************************************************************)
EXTENDS Integers, Sequences, FiniteSets, SequencesExt

CONSTANTS
    Nodes, Pods,    \* names
    None,           \* no snapshot stored yet (a nil pointer)
    MaxEvents,      \* bound: changes of the cluster
    MaxPolls        \* bound: polls of the metrics API and of the GPU exporters

ASSUME BuilderAssumption ==
    /\ IsFiniteSet(Nodes) /\ IsFiniteSet(Pods)
    /\ MaxEvents \in Nat /\ MaxPolls \in Nat

VARIABLES
    apiNodes,     \* the cluster: existing nodes
    apiPods,      \* the cluster: existing pod -> its node
    nodeQ, podQ,  \* events each informer has yet to hand to its handler
    events,       \* bound: changes so far
    nodeStore,    \* Store.Nodes: names
    podStore,     \* Store.Pods: name -> node and cell
    cells,        \* the containers' memory: cell -> measurements
    nodeMetrics,  \* MetricsStore.NodeMetrics: name -> measurement
    podMetrics,   \* MetricsStore.PodMetrics
    polls,        \* number of polls of the metrics API
    pollPc,       \* what the metrics poller stores; it is idle after the pods
    pollLeft,     \* the items of the list it has not stored yet
    gpuMetrics,   \* GPUMetricsCollector.metrics: host -> pod and measurement
    scrapes,      \* number of GPU polls
    scraping,     \* the endpoints of a poll in progress
    lastScrape,   \* history: number of the last GPU poll that had endpoints to scrape
    targets,      \* lastTargets and lastUpTargets
    buildPc,      \* where Build is
    snapNodes,    \* snap.Nodes
    snapPods,     \* snap.Pods: name -> node and cell
    orphans,      \* Build's stillOrphan
    logged,       \* the Build of logStoreCounts is done
    latest        \* Agent.latestSnapshot

apiVars == <<apiNodes, apiPods, events>>
storeVars == <<nodeStore, podStore>>
metricVars == <<nodeMetrics, podMetrics, polls, pollPc, pollLeft>>
gpuVars == <<gpuMetrics, scrapes, scraping, lastScrape, targets>>
buildVars == <<buildPc, snapNodes, snapPods, orphans, logged, latest>>
vars == <<apiVars, nodeQ, podQ, storeVars, cells, metricVars, gpuVars, buildVars>>

Empty == [x \in {} |-> 0]
NoPod == "none"
NoNode == ""        \* NodeName of a pod that is not scheduled
Cells == 1 .. MaxEvents

Names(nodes) == {nodes[i].name : i \in DOMAIN nodes}
NodesOf(pods) == [p \in DOMAIN pods |-> pods[p].node]
Put(f, key, value) == [x \in DOMAIN f \cup {key} |-> IF x = key THEN value ELSE f[x]]
Without(f, key) == [x \in DOMAIN f \ {key} |-> f[x]]

\* The initial list of the node informer is on its way.
Init ==
    /\ apiNodes \in SUBSET Nodes /\ apiPods = Empty /\ events = 0
    /\ nodeQ = SetToSeq({[op |-> "set", name |-> n] : n \in apiNodes})
    /\ podQ = <<>>
    /\ nodeStore = {} /\ podStore = Empty
    /\ cells = [c \in Cells |-> [cpu |-> 0, gpu |-> 0]]
    /\ nodeMetrics = Empty /\ podMetrics = Empty
    /\ polls = 0 /\ pollPc = "pods" /\ pollLeft = {}
    /\ gpuMetrics = Empty /\ scrapes = 0 /\ scraping = {} /\ lastScrape = 0
    /\ targets = [known |-> 0, up |-> 0]
    /\ buildPc = "idle"
    /\ snapNodes = <<>> /\ snapPods = Empty
    /\ orphans = {}
    /\ logged = FALSE
    /\ latest = None

------------------------------------------------------------------------------
(* The cluster, as the watches of the informers report it.  A deletion that *)
(* a watch has missed arrives as a tombstone.                               *)

ClusterChanges == events < MaxEvents /\ events' = events + 1
BesidesCluster == UNCHANGED <<storeVars, cells, metricVars, gpuVars, buildVars>>

CreateNode(n) ==
    /\ ClusterChanges
    /\ n \notin apiNodes
    /\ apiNodes' = apiNodes \cup {n}
    /\ nodeQ' = Append(nodeQ, [op |-> "set", name |-> n])
    /\ UNCHANGED <<apiPods, podQ>>
    /\ BesidesCluster

\* The pods of a deleted node may outlive it.
DeleteNode(n) ==
    /\ ClusterChanges
    /\ n \in apiNodes
    /\ apiNodes' = apiNodes \ {n}
    /\ \E op \in {"delete", "tombstone"} : nodeQ' = Append(nodeQ, [op |-> op, name |-> n])
    /\ UNCHANGED <<apiPods, podQ>>
    /\ BesidesCluster

\* A pod is created, scheduled to a node, or changes where it is.
SetPod(p, n) ==
    /\ ClusterChanges
    /\ IF p \in DOMAIN apiPods
          THEN n = apiPods[p] \/ (apiPods[p] = NoNode /\ n \in apiNodes)
          ELSE n \in apiNodes \cup {NoNode}
    /\ apiPods' = Put(apiPods, p, n)
    /\ podQ' = Append(podQ, [op |-> "set", name |-> p, node |-> n, cell |-> events + 1])
    /\ UNCHANGED <<apiNodes, nodeQ>>
    /\ BesidesCluster

DeletePod(p) ==
    /\ ClusterChanges
    /\ p \in DOMAIN apiPods
    /\ apiPods' = Without(apiPods, p)
    /\ \E op \in {"delete", "tombstone"} : podQ' = Append(podQ, [op |-> op, name |-> p])
    /\ UNCHANGED <<apiNodes, nodeQ>>
    /\ BesidesCluster

------------------------------------------------------------------------------
(* The handlers of the informers: AddFunc and UpdateFunc convert the object *)
(* and Set it, DeleteFunc deletes it, unwrapping a tombstone first.         *)

BesidesStore == UNCHANGED <<apiVars, cells, metricVars, gpuVars, buildVars>>

\* Mutant: DeleteFunc knows only the object itself.
MutTombstoneIgnored(op) == op = "delete"

IsDelete(op) == op \in {"delete", "tombstone"}

HandleNodeEvent ==
    /\ nodeQ # <<>>
    /\ LET e == Head(nodeQ) IN
          nodeStore' = CASE e.op = "set" -> nodeStore \cup {e.name}
                         [] IsDelete(e.op) -> nodeStore \ {e.name}
                         [] OTHER -> nodeStore
    /\ nodeQ' = Tail(nodeQ)
    /\ UNCHANGED <<podStore, podQ>>
    /\ BesidesStore

\* PodToModel makes a new Containers slice, without measurements.
HandlePodEvent ==
    /\ podQ # <<>>
    /\ LET e == Head(podQ) IN
          podStore' = CASE e.op = "set" ->
                             Put(podStore, e.name, [node |-> e.node, cell |-> e.cell])
                        [] IsDelete(e.op) -> Without(podStore, e.name)
                        [] OTHER -> podStore
    /\ podQ' = Tail(podQ)
    /\ UNCHANGED <<nodeStore, nodeQ>>
    /\ BesidesStore

------------------------------------------------------------------------------
(* The metrics poller.  A failed list keeps the old data; a listed item is  *)
(* Set on its own, and nothing is ever deleted.                             *)

BesidesMetrics ==
    UNCHANGED <<apiVars, nodeQ, podQ, storeVars, cells, gpuVars, buildVars>>

ListNodeMetrics ==
    /\ pollPc = "pods"
    /\ pollLeft = {}
    /\ polls + scrapes < MaxPolls
    /\ polls' = polls + 1
    /\ pollPc' = "nodes"
    /\ \E listed \in SUBSET apiNodes : pollLeft' = listed    \* {} when the call fails
    /\ UNCHANGED <<nodeMetrics, podMetrics>>
    /\ BesidesMetrics

SetNodeMetrics(n) ==
    /\ pollPc = "nodes"
    /\ n \in pollLeft
    /\ nodeMetrics' = Put(nodeMetrics, n, polls)
    /\ pollLeft' = pollLeft \ {n}
    /\ UNCHANGED <<podMetrics, polls, pollPc>>
    /\ BesidesMetrics

ListPodMetrics ==
    /\ pollPc = "nodes"
    /\ pollLeft = {}
    /\ pollPc' = "pods"
    /\ \E listed \in SUBSET {p \in DOMAIN apiPods : apiPods[p] # NoNode} : pollLeft' = listed
    /\ UNCHANGED <<nodeMetrics, podMetrics, polls>>
    /\ BesidesMetrics

\* The listed pod may lack its container: then the new entry has no measurement.
SetPodMetrics(p) ==
    /\ pollPc = "pods"
    /\ p \in pollLeft
    /\ \E measured \in {0, polls} : podMetrics' = Put(podMetrics, p, measured)
    /\ pollLeft' = pollLeft \ {p}
    /\ UNCHANGED <<nodeMetrics, polls, pollPc>>
    /\ BesidesMetrics

------------------------------------------------------------------------------
(* The GPU poller.                                                          *)

BesidesGPU ==
    UNCHANGED <<apiVars, nodeQ, podQ, storeVars, cells, metricVars, buildVars>>

\* Mutant: an exporter that does not answer leaves its devices as they were.
MutDevicesKept(answering) ==
    {[n \in answering \cup DOMAIN gpuMetrics |-> IF n \in answering THEN r[n] ELSE gpuMetrics[n]] :
        r \in [answering -> [pod : {NoPod}, util : {0, scrapes}]]}

\* The devices of the exporters that answered; each is idle or used by a pod there, and
\* reports its utilization or not (0).
DeviceReports(answering) ==
    {r \in [answering -> [pod : Pods \cup {NoPod}, util : {0, scrapes}]] :
        \A n \in answering :
            r[n].pod # NoPod => r[n].pod \in DOMAIN apiPods /\ apiPods[r[n].pod] = n}

\* The endpoints are known and counted before they are scraped.  Without endpoints the
\* poll ends here and the old metrics stay.
PollGPUBegin ==
    /\ scraping = {}
    /\ polls + scrapes < MaxPolls
    /\ scrapes' = scrapes + 1
    /\ scraping' \in SUBSET apiNodes
    /\ targets' = IF scraping' = {} THEN [known |-> 0, up |-> 0]
                                    ELSE [targets EXCEPT !.known = Cardinality(scraping')]
    /\ UNCHANGED <<gpuMetrics, lastScrape>>
    /\ BesidesGPU

\* ScrapeGPUMetrics skips an exporter that does not answer and returns no error, so
\* all the endpoints count as up.
PollGPUEnd ==
    /\ scraping # {}
    /\ scraping' = {}
    /\ \E answering \in SUBSET scraping :
          gpuMetrics' \in DeviceReports(answering)
    /\ lastScrape' = scrapes
    /\ targets' = [targets EXCEPT !.up = Cardinality(scraping)]
    /\ UNCHANGED scrapes
    /\ BesidesGPU

------------------------------------------------------------------------------
(* Build.                                                                   *)

BesidesBuild == UNCHANGED <<apiVars, nodeQ, podQ, storeVars, metricVars, gpuVars>>

NewNode(n) == [name |-> n, cpu |-> 0, gpu |-> 0]

\* Step 1: one goroutine reads the nodes, another the pods, in either order.
ReadNodes ==
    /\ buildPc \in {"idle", "nodesLeft"}
    /\ buildPc' = IF buildPc = "idle" THEN "podsLeft" ELSE "metrics"
    /\ snapNodes' = SetToSeq({NewNode(n) : n \in nodeStore})
    /\ UNCHANGED <<cells, snapPods, orphans, logged, latest>>
    /\ BesidesBuild

ReadPods ==
    /\ buildPc \in {"idle", "podsLeft"}
    /\ buildPc' = IF buildPc = "idle" THEN "nodesLeft" ELSE "metrics"
    /\ snapPods' = podStore
    /\ UNCHANGED <<cells, snapNodes, orphans, logged, latest>>
    /\ BesidesBuild

\* Steps 2 and 3.  The nodes of the snapshot are values, so the node metrics are merged
\* where they are read; the containers of its pods are the cells that the store and
\* earlier snapshots hold too.
mergeNodeMetrics(nodes, metrics) ==
    [i \in DOMAIN nodes |->
        IF nodes[i].name \in DOMAIN metrics
           THEN [nodes[i] EXCEPT !.cpu = metrics[nodes[i].name]] ELSE nodes[i]]

MergeNodeMetrics ==
    /\ buildPc = "metrics"
    /\ buildPc' = "podMetrics"
    /\ snapNodes' = mergeNodeMetrics(snapNodes, nodeMetrics)
    /\ UNCHANGED <<cells, snapPods, orphans, logged, latest>>
    /\ BesidesBuild

MetricOwners(pods, metrics, c) ==
    {p \in DOMAIN pods \cap DOMAIN metrics : pods[p].cell = c /\ metrics[p] # 0}

\* Mutant: only a container without usage is given one.
MutMergeFillsIn(pods, metrics) ==
    [c \in Cells |->
        LET owners == MetricOwners(pods, metrics, c) IN
        IF owners = {} \/ cells[c].cpu # 0 THEN cells[c]
           ELSE [cells[c] EXCEPT !.cpu = metrics[CHOOSE p \in owners : TRUE]]]

mergePodMetrics(pods, metrics) ==
    [c \in Cells |->
        LET owners == MetricOwners(pods, metrics, c) IN
        IF owners = {} THEN cells[c]
                       ELSE [cells[c] EXCEPT !.cpu = metrics[CHOOSE p \in owners : TRUE]]]

MergePodMetrics ==
    /\ buildPc = "podMetrics"
    /\ buildPc' = "gpu"
    /\ cells' = mergePodMetrics(snapPods, podMetrics)
    /\ UNCHANGED <<snapNodes, snapPods, orphans, logged, latest>>
    /\ BesidesBuild

\* Step 3b: GetGPUMetrics and its merge into nodes, by host, and containers, by pod.
mergeGPUNodeMetrics(nodes) ==
    [i \in DOMAIN nodes |->
        IF nodes[i].name \in DOMAIN gpuMetrics
           THEN [nodes[i] EXCEPT !.gpu = gpuMetrics[nodes[i].name].util] ELSE nodes[i]]

mergeGPUContainerMetrics(pods) ==
    [c \in Cells |->
        LET devices == {n \in DOMAIN gpuMetrics :
                          /\ gpuMetrics[n].pod \in DOMAIN pods
                          /\ pods[gpuMetrics[n].pod].cell = c
                          /\ gpuMetrics[n].util # 0} IN
        IF devices = {} THEN cells[c]
                        ELSE [cells[c] EXCEPT !.gpu = gpuMetrics[CHOOSE n \in devices : TRUE].util]]

MergeGPU ==
    /\ buildPc = "gpu"
    /\ buildPc' = "backfill"
    /\ snapNodes' = mergeGPUNodeMetrics(snapNodes)
    /\ cells' = mergeGPUContainerMetrics(snapPods)
    /\ UNCHANGED <<snapPods, orphans, logged, latest>>
    /\ BesidesBuild

\* Mutant: the names are collected in a list, one entry for each pod.
MutBackfillPerPod(missing) ==
    LET pods == SetToSeq({p \in DOMAIN snapPods : snapPods[p].node \in missing}) IN
    [i \in DOMAIN pods |-> NewNode(snapPods[pods[i]].node)]

\* What backfillReferencedNodes appends for the names in missing that the store has.
Backfilled(missing) == SetToSeq({NewNode(n) : n \in missing})

\* Mutant: no second look at the store.
MutNoBackfill(name) == FALSE

\* The second read of the node store has the name.
FoundAgain(name) == name \in nodeStore

\* Step 3c: the node store is read again for the nodes that pods refer to.
backfillReferencedNodes ==
    LET referenced == {snapPods[p].node : p \in DOMAIN snapPods}
                          \ (Names(snapNodes) \cup {NoNode})
        found == {n \in referenced : FoundAgain(n)} IN
    /\ buildPc = "backfill"
    /\ buildPc' = "finish"
    /\ snapNodes' = snapNodes \o Backfilled(found)
    /\ orphans' = referenced \ found
    /\ UNCHANGED <<cells, snapPods, logged, latest>>
    /\ BesidesBuild

ComputeSummary ==
    [nodeCount |-> Len(snapNodes),
     metricsAvailable |-> \E i \in DOMAIN snapNodes : snapNodes[i].cpu # 0,
     gpuMetricsAvailable |-> \E i \in DOMAIN snapNodes : snapNodes[i].gpu # 0]

\* The rest of Build reads nothing shared.  The first Build is the one of
\* logStoreCounts, which drops its snapshot; doSnapshot stores the others.  Build's
\* variables are local to it.
FinishBuild ==
    /\ buildPc = "finish"
    /\ buildPc' = "idle"
    /\ logged' = TRUE
    /\ latest' = IF logged THEN [nodes |-> snapNodes, pods |-> snapPods,
                                 summary |-> ComputeSummary] ELSE latest
    /\ snapNodes' = <<>>
    /\ snapPods' = Empty
    /\ orphans' = {}
    /\ UNCHANGED cells
    /\ BesidesBuild

------------------------------------------------------------------------------
Cluster ==
    \/ \E n \in Nodes : CreateNode(n) \/ DeleteNode(n)
    \/ \E p \in Pods, n \in Nodes \cup {NoNode} : SetPod(p, n)
    \/ \E p \in Pods : DeletePod(p)

PollMetrics ==
    \/ ListNodeMetrics
    \/ \E n \in Nodes : SetNodeMetrics(n)
    \/ ListPodMetrics
    \/ \E p \in Pods : SetPodMetrics(p)

PollGPU == PollGPUBegin \/ PollGPUEnd

Build ==
    \/ ReadNodes \/ ReadPods \/ MergeNodeMetrics \/ MergePodMetrics \/ MergeGPU
    \/ backfillReferencedNodes \/ FinishBuild

Next == Cluster \/ HandleNodeEvent \/ HandlePodEvent \/ PollMetrics \/ PollGPU \/ Build

\* Informers deliver what they were sent and Build is called again and again; nothing
\* is assumed of the pollers.
Fairness == WF_vars(HandleNodeEvent) /\ WF_vars(HandlePodEvent) /\ WF_vars(Build)

Spec == Init /\ [][Next]_vars /\ Fairness

------------------------------------------------------------------------------
(* Properties.                                                              *)

Partial(S, T) == UNION {[D -> T] : D \in SUBSET S}
Measured == 0 .. MaxPolls
NodeEvents == [op : {"set", "delete", "tombstone"}, name : Nodes]
PodEvents ==
    [op : {"set"}, name : Pods, node : Nodes \cup {NoNode}, cell : Cells]
        \cup [op : {"delete", "tombstone"}, name : Pods]
NodeInfos == [name : Nodes, cpu : Measured, gpu : Measured]
PodInfos == [node : Nodes \cup {NoNode}, cell : Cells]
Devices == [pod : Pods \cup {NoPod}, util : Measured]
BuildPcs == {"idle", "nodesLeft", "podsLeft", "metrics", "podMetrics", "gpu", "backfill",
             "finish"}

NodeType ==
    /\ apiNodes \subseteq Nodes
    /\ nodeQ \in Seq(NodeEvents)
    /\ nodeStore \subseteq Nodes

PodType ==
    /\ events \in 0 .. MaxEvents
    /\ apiPods \in Partial(Pods, Nodes \cup {NoNode})
    /\ podQ \in Seq(PodEvents)
    /\ podStore \in Partial(Pods, PodInfos)

MetricsType ==
    /\ nodeMetrics \in Partial(Nodes, Measured)
    /\ podMetrics \in Partial(Pods, Measured)
    /\ polls \in Measured
    /\ pollPc \in {"nodes", "pods"}
    /\ pollLeft \subseteq Nodes \cup Pods

GPUType ==
    /\ gpuMetrics \in Partial(Nodes, Devices)
    /\ scrapes \in Measured
    /\ scraping \subseteq Nodes
    /\ lastScrape \in Measured
    /\ targets \in [known : Nat, up : Nat]

BuildType ==
    /\ buildPc \in BuildPcs
    /\ snapNodes \in Seq(NodeInfos)
    /\ snapPods \in Partial(Pods, PodInfos)
    /\ cells \in [Cells -> [cpu : Measured, gpu : Measured]]
    /\ orphans \subseteq Nodes
    /\ logged \in BOOLEAN

\* Type invariant of the stores, the pollers and Build.
TypeOK == NodeType /\ PodType /\ MetricsType /\ GPUType /\ BuildType

\* A node is in a snapshot once, although nodes are read twice and several pods may
\* refer to one that was missing: the totals of the summary count it once.
UniqueNodes ==
    \A i, j \in DOMAIN snapNodes : snapNodes[i].name = snapNodes[j].name => i = j

\* Events still to be handled for a node, or a pod.
Pending(queue, name) == \E i \in DOMAIN queue : queue[i].name = name

\* A store shows an object as the cluster has it as soon as its informer has no event
\* left for it, whatever happened to the object and to others of the store before: a
\* deletion that only a tombstone reported, a name that was used again, a pod that was
\* scheduled after it was first stored (the handlers of collector/resource).
StoresAgree ==
    /\ \A n \in Nodes : ~Pending(nodeQ, n) => (n \in nodeStore <=> n \in apiNodes)
    /\ \A p \in Pods : ~Pending(podQ, p) =>
          /\ p \in DOMAIN podStore <=> p \in DOMAIN apiPods
          /\ p \in DOMAIN apiPods => podStore[p].node = apiPods[p]

\* The backfill gives up on a node only if the cluster has no such node or the informer
\* is behind: a node that is known and settled is in the snapshot of its pods.
OrphansExplained ==
    [][backfillReferencedNodes => \A n \in orphans' : n \notin apiNodes \/ Pending(nodeQ, n)]_vars

\* The last measurement of a container reaches the snapshots, although Build writes it
\* into memory that the store shares, that updates of the pod replace, and that keeps
\* what earlier Builds have written there.
UsageCatchesUp ==
    <>[](/\ latest # None
         /\ \A p \in DOMAIN latest.pods \cap DOMAIN podMetrics :
               podMetrics[p] # 0 => cells[latest.pods[p].cell].cpu = podMetrics[p])

\* The GPU data of a node follow the last poll that had endpoints to scrape, down to
\* showing none when the node's own exporter failed in it: nothing of an earlier poll, and
\* nothing of an earlier snapshot, is left in the nodes (ScrapeGPUMetrics, which skips an
\* exporter that fails, and mergeGPUNodeMetrics).  A later poll that finds no endpoints
\* changes nothing: the code then keeps the metrics of the last exporters, for good.
NodeGPUCatchesUp ==
    <>[](/\ latest # None
         /\ \A i \in DOMAIN latest.nodes :
               LET n == latest.nodes[i].name IN
               /\ latest.nodes[i].gpu \in {0, lastScrape}
               /\ latest.nodes[i].gpu = IF n \in DOMAIN gpuMetrics THEN gpuMetrics[n].util ELSE 0)

\* Once the cluster is quiet the snapshots show it as it is, whatever was deleted,
\* recreated or missed by a watch before.
SnapshotsCatchUp ==
    <>[](/\ latest # None
         /\ Names(latest.nodes) = apiNodes
         /\ NodesOf(latest.pods) = apiPods)

------------------------------------------------------------------------------
(* What the documentation says and the code does not do.                    *)

\* docs/troubleshooting.md: /debug/snapshot "returns the full cluster snapshot the agent
\* last built": what it returns does not change until another snapshot is stored.
LatestIsAsBuilt ==
    [][latest # None /\ latest' = latest =>
          \A p \in DOMAIN latest.pods :
              cells'[latest.pods[p].cell] = cells[latest.pods[p].cell]]_vars
=============================================================================
