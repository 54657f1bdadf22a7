------------------------ MODULE SnapshotBuilderProofs ------------------------
(***************************************************************************)
(* Proofs about SnapshotBuilder: its types, that a store agrees with the   *)
(* cluster once its informer has caught up, that a snapshot has a node     *)
(* once, and that the backfill gives up on a node only for a good reason.  *)
(***************************************************************************)
EXTENDS SnapshotBuilder, FiniteSetTheorems, SequenceTheorems, TLAPS

------------------------------------------------------------------------------
(* Sequences, partial functions and queues.                                 *)

\* What SetToSeq makes of a finite set: each element once, and nothing else.
LEMMA SetToSeqFacts ==
    ASSUME NEW S, IsFiniteSet(S)
    PROVE  /\ SetToSeq(S) \in Seq(S)
           /\ \A i, j \in DOMAIN SetToSeq(S) : SetToSeq(S)[i] = SetToSeq(S)[j] => i = j
           /\ \A x \in S : \E i \in DOMAIN SetToSeq(S) : SetToSeq(S)[i] = x
<1> DEFINE n == Cardinality(S)
           s == SetToSeq(S)
<1>1. n \in Nat /\ ExistsBijection(1 .. n, S)
  BY FS_CardinalityType
<1>2. \E f \in [1 .. n -> S] : IsInjective(f)
  BY <1>1 DEF ExistsBijection, Bijection, Injection
<1>3. s \in [1 .. n -> S] /\ IsInjective(s)
  BY <1>2 DEF SetToSeq
<1>4. s \in Injection(1 .. n, S)
  BY <1>3 DEF Injection
<1>5. Cardinality(1 .. n) = Cardinality(S)
  BY <1>1, FS_Interval
<1>6. s \in Surjection(1 .. n, S)
  BY <1>4, <1>5, FS_Injection
<1>7. s \in Seq(S)
  BY <1>1, <1>3, IsASeq
<1>8. \A i, j \in DOMAIN s : s[i] = s[j] => i = j
  BY <1>3 DEF IsInjective
<1>9. \A x \in S : \E i \in DOMAIN s : s[i] = x
  BY <1>3, <1>6 DEF Surjection
<1> QED
  BY <1>7, <1>8, <1>9

\* A partial function is one over part of the names.
LEMMA PartialFacts ==
    ASSUME NEW S, NEW T, NEW f
    PROVE  f \in Partial(S, T) <=> DOMAIN f \subseteq S /\ f \in [DOMAIN f -> T]
BY DEF Partial

\* An empty map, one with a key put in, and one without a key, are maps of the same type.
LEMMA PartialUpdates ==
    ASSUME NEW S, NEW T
    PROVE  /\ Empty \in Partial(S, T)
           /\ \A f \in Partial(S, T), k \in S, v \in T : Put(f, k, v) \in Partial(S, T)
           /\ \A f \in Partial(S, T), k \in S : Without(f, k) \in Partial(S, T)
<1>1. Empty \in Partial(S, T)
  BY PartialFacts DEF Empty
<1>2. ASSUME NEW f \in Partial(S, T), NEW k \in S, NEW v \in T
      PROVE  Put(f, k, v) \in Partial(S, T)
  BY PartialFacts DEF Put
<1>3. ASSUME NEW f \in Partial(S, T), NEW k \in S
      PROVE  Without(f, k) \in Partial(S, T)
  BY PartialFacts DEF Without
<1> QED
  BY <1>1, <1>2, <1>3

\* The event at i is the last one of its object in the queue.
LastOf(q, i) == \A j \in DOMAIN q : j > i => q[j].name # q[i].name

\* Behind an event that is added, the last events of the other objects stay what they
\* were; the added one is the last of its object.
LEMMA AppendLast ==
    ASSUME NEW E, NEW q \in Seq(E), NEW e \in E
    PROVE  /\ \A i \in DOMAIN Append(q, e) : LastOf(Append(q, e), i) =>
                 \/ Append(q, e)[i] = e
                 \/ /\ i \in DOMAIN q /\ LastOf(q, i)
                    /\ Append(q, e)[i] = q[i] /\ q[i].name # e.name
           /\ \A x : ~Pending(Append(q, e), x) => ~Pending(q, x) /\ e.name # x
<1> DEFINE r == Append(q, e)
<1>1. /\ r \in Seq(E) /\ DOMAIN r = 1 .. Len(q) + 1 /\ DOMAIN q = 1 .. Len(q) /\ Len(q) \in Nat
      /\ \A i \in 1 .. Len(q) : r[i] = q[i]
      /\ r[Len(q) + 1] = e
  BY AppendProperties
<1> HIDE DEF r
<1>2. ASSUME NEW i \in DOMAIN r, LastOf(r, i)
      PROVE  r[i] = e \/ (i \in DOMAIN q /\ LastOf(q, i) /\ r[i] = q[i] /\ q[i].name # e.name)
  <2>1. CASE i = Len(q) + 1
    BY <1>1, <2>1
  <2>2. CASE i # Len(q) + 1
    <3>1. i \in DOMAIN q /\ r[i] = q[i]
      BY <1>1, <2>2
    <3>2. q[i].name # e.name
      BY <1>1, <1>2, <3>1 DEF LastOf
    <3>3. LastOf(q, i)
      BY <1>1, <1>2, <3>1 DEF LastOf
    <3> QED
      BY <3>1, <3>2, <3>3
  <2> QED
    BY <2>1, <2>2
<1>3. ASSUME NEW x, ~Pending(r, x)
      PROVE  ~Pending(q, x) /\ e.name # x
  BY <1>1, <1>3 DEF Pending
<1> QED
  BY <1>2, <1>3 DEF r

\* Handling the first event leaves the last events of the other objects where they were;
\* an object with no event left either had none or it was this one.
LEMMA TailLast ==
    ASSUME NEW E, NEW q \in Seq(E), q # <<>>
    PROVE  /\ \A i \in DOMAIN Tail(q) : LastOf(Tail(q), i) =>
                 i + 1 \in DOMAIN q /\ LastOf(q, i + 1) /\ Tail(q)[i] = q[i + 1]
           /\ \A x : ~Pending(Tail(q), x) =>
                 IF Head(q).name = x THEN LastOf(q, 1) ELSE ~Pending(q, x)
           /\ Head(q) = q[1] /\ 1 \in DOMAIN q
<1> DEFINE r == Tail(q)
<1>1. /\ r \in Seq(E) /\ DOMAIN r = 1 .. Len(q) - 1 /\ DOMAIN q = 1 .. Len(q)
      /\ Len(q) \in Nat /\ Len(q) > 0
      /\ \A i \in 1 .. Len(q) - 1 : r[i] = q[i + 1]
      /\ Head(q) = q[1]
  BY HeadTailProperties
<1> HIDE DEF r
<1>2. ASSUME NEW i \in DOMAIN r, LastOf(r, i)
      PROVE  i + 1 \in DOMAIN q /\ LastOf(q, i + 1) /\ r[i] = q[i + 1]
  <2>1. i + 1 \in DOMAIN q /\ r[i] = q[i + 1]
    BY <1>1
  <2>2. ASSUME NEW j \in DOMAIN q, j > i + 1
        PROVE  q[j].name # q[i + 1].name
    <3>1. j - 1 \in DOMAIN r /\ j - 1 > i /\ r[j - 1] = q[j]
      BY <1>1, <2>2
    <3> QED
      BY <1>2, <2>1, <3>1 DEF LastOf
  <2> QED
    BY <2>1, <2>2 DEF LastOf
<1>3. ASSUME NEW x, ~Pending(r, x), NEW j \in DOMAIN q, j > 1
      PROVE  q[j].name # x
  <2>1. j - 1 \in DOMAIN r /\ r[j - 1] = q[j]
    BY <1>1, <1>3
  <2> QED
    BY <1>3, <2>1 DEF Pending
<1>4. ASSUME NEW x, ~Pending(r, x)
      PROVE  IF Head(q).name = x THEN LastOf(q, 1) ELSE ~Pending(q, x)
  <2>1. \A j \in DOMAIN q : j > 1 => q[j].name # x
    BY <1>3, <1>4
  <2>2. CASE Head(q).name = x
    BY <1>1, <2>1, <2>2 DEF LastOf
  <2>3. CASE Head(q).name # x
    <3>1. \A j \in DOMAIN q : j = 1 \/ j > 1
      BY <1>1
    <3> QED
      BY <1>1, <2>1, <2>3, <3>1 DEF Pending
  <2> QED
    BY <2>2, <2>3
<1> QED
  BY <1>1, <1>2, <1>4 DEF r

------------------------------------------------------------------------------
(* Types.                                                                   *)

\* The nodes Build makes of names are finitely many, and have the type of nodes.
LEMMA NewNodes ==
    ASSUME NEW S \in SUBSET Nodes
    PROVE  /\ {NewNode(n) : n \in S} \subseteq NodeInfos
           /\ IsFiniteSet({NewNode(n) : n \in S})
<1> DEFINE T == {NewNode(n) : n \in S}
           f == [n \in S |-> NewNode(n)]
<1>1. IsFiniteSet(S)
  BY BuilderAssumption, FS_Subset
<1>2. f \in Surjection(S, T)
  BY DEF Surjection
<1>3. IsFiniteSet(T)
  BY <1>1, <1>2, FS_Surjection
<1>4. 0 \in Measured
  BY BuilderAssumption DEF Measured
<1>5. T \subseteq NodeInfos
  BY <1>4 DEF NewNode, NodeInfos
<1> QED
  BY <1>3, <1>5

\* Their sequence is one of nodes, each of them once.
LEMMA NewNodesSeq ==
    ASSUME NEW S \in SUBSET Nodes
    PROVE  /\ SetToSeq({NewNode(n) : n \in S}) \in Seq(NodeInfos)
           /\ \A i \in DOMAIN SetToSeq({NewNode(n) : n \in S}) :
                 SetToSeq({NewNode(n) : n \in S})[i].name \in S
           /\ \A i, j \in DOMAIN SetToSeq({NewNode(n) : n \in S}) :
                 SetToSeq({NewNode(n) : n \in S})[i].name
                     = SetToSeq({NewNode(n) : n \in S})[j].name => i = j
<1> DEFINE T == {NewNode(n) : n \in S}
           s == SetToSeq(T)
<1>1. T \subseteq NodeInfos /\ IsFiniteSet(T)
  BY NewNodes
<1>2. \A t, u \in T : t.name \in S /\ (t.name = u.name => t = u)
  BY DEF NewNode
<1> HIDE DEF T
<1>3. s \in Seq(T) /\ \A i, j \in DOMAIN s : s[i] = s[j] => i = j
  BY <1>1, SetToSeqFacts
<1> HIDE DEF s
<1>4. s \in Seq(NodeInfos) /\ \A i \in DOMAIN s : s[i] \in T
  BY <1>1, <1>3, SeqMonotonic
<1>5. \A i \in DOMAIN s : s[i].name \in S
  BY <1>2, <1>4
<1>6. ASSUME NEW i \in DOMAIN s, NEW j \in DOMAIN s, s[i].name = s[j].name
      PROVE  i = j
  BY <1>2, <1>3, <1>4, <1>6
<1> QED
  BY <1>4, <1>5, <1>6 DEF s, T

\* The first list of the node informer.
LEMMA FirstList ==
    ASSUME NEW S \in SUBSET Nodes
    PROVE  LET q == SetToSeq({[op |-> "set", name |-> n] : n \in S}) IN
           /\ q \in Seq(NodeEvents)
           /\ \A i \in DOMAIN q : q[i].op = "set" /\ q[i].name \in S
           /\ \A n \in S : Pending(q, n)
<1> DEFINE E(n) == [op |-> "set", name |-> n]
           T == {E(n) : n \in S}
           f == [n \in S |-> E(n)]
           q == SetToSeq(T)
<1>1. IsFiniteSet(S)
  BY BuilderAssumption, FS_Subset
<1>2. f \in Surjection(S, T)
  BY DEF Surjection
<1>3. IsFiniteSet(T)
  BY <1>1, <1>2, FS_Surjection
<1>4. T \subseteq NodeEvents /\ \A t \in T : t.op = "set" /\ t.name \in S
  BY DEF NodeEvents
<1>5. \A n \in S : E(n) \in T /\ E(n).name = n
  OBVIOUS
<1> HIDE DEF T
<1>6. /\ q \in Seq(T)
      /\ \A x \in T : \E i \in DOMAIN q : q[i] = x
  BY <1>3, SetToSeqFacts
<1> HIDE DEF q
<1>7. q \in Seq(NodeEvents) /\ \A i \in DOMAIN q : q[i] \in T
  BY <1>4, <1>6, SeqMonotonic
<1>8. ASSUME NEW n \in S PROVE Pending(q, n)
  <2>1. PICK i \in DOMAIN q : q[i] = E(n)
    BY <1>5, <1>6
  <2> QED
    BY <1>5, <2>1 DEF Pending
<1> QED
  BY <1>4, <1>7, <1>8 DEF q, T

\* The initial state has the types.
LEMMA TypeInit == Init => TypeOK
<1> SUFFICES ASSUME Init PROVE TypeOK
  OBVIOUS
<1>1. 0 \in Measured /\ 0 \in 0 .. MaxEvents
  BY BuilderAssumption DEF Measured
<1>2. NodeType
  BY FirstList DEF Init, NodeType
<1>3. PodType
  BY <1>1, PartialUpdates DEF Init, PodType
<1>4. MetricsType
  BY <1>1, PartialUpdates DEF Init, MetricsType
<1>5. GPUType
  BY <1>1, PartialUpdates DEF Init, GPUType
<1>6. BuildType
  <2>1. cells \in [Cells -> [cpu : Measured, gpu : Measured]]
    BY <1>1 DEF Init
  <2>2. snapPods \in Partial(Pods, PodInfos)
    BY PartialUpdates DEF Init
  <2>3. snapNodes \in Seq(NodeInfos) /\ buildPc \in BuildPcs /\ orphans \subseteq Nodes
    BY DEF Init, BuildPcs
  <2>4. logged \in BOOLEAN
    BY DEF Init
  <2> QED
    BY <2>1, <2>2, <2>3, <2>4 DEF BuildType
<1> QED
  BY <1>2, <1>3, <1>4, <1>5, <1>6 DEF TypeOK

\* A change of the cluster and its event have their types.
LEMMA ClusterTypes ==
    ASSUME TypeOK, Cluster
    PROVE  TypeOK'
<1> USE DEF BesidesCluster, storeVars, metricVars, gpuVars, buildVars
<1>1. BuildType' /\ MetricsType' /\ GPUType' /\ UNCHANGED <<nodeStore, podStore>>
  BY DEF Cluster, CreateNode, DeleteNode, SetPod, DeletePod, TypeOK, BuildType, MetricsType,
     GPUType
<1>2. events' \in 0 .. MaxEvents
  <2>1. ClusterChanges
    BY DEF Cluster, CreateNode, DeleteNode, SetPod, DeletePod
  <2> QED
    BY <2>1, BuilderAssumption DEF ClusterChanges, TypeOK, PodType
<1>3. ASSUME NEW n \in Nodes, CreateNode(n) \/ DeleteNode(n)
      PROVE  TypeOK'
  <2>1. apiNodes' \subseteq Nodes
    BY <1>3 DEF CreateNode, DeleteNode, TypeOK, NodeType
  <2>2. \E op \in {"set", "delete", "tombstone"} : nodeQ' = Append(nodeQ, [op |-> op, name |-> n])
    BY <1>3 DEF CreateNode, DeleteNode
  <2>3. PICK op \in {"set", "delete", "tombstone"} :
           nodeQ' = Append(nodeQ, [op |-> op, name |-> n])
    BY <2>2
  <2>4. [op |-> op, name |-> n] \in NodeEvents
    BY DEF NodeEvents
  <2>5. nodeQ' \in Seq(NodeEvents)
    BY <2>3, <2>4 DEF TypeOK, NodeType
  <2>6. UNCHANGED <<apiPods, podQ>>
    BY <1>3 DEF CreateNode, DeleteNode
  <2> QED
    BY <1>1, <1>2, <2>1, <2>5, <2>6 DEF TypeOK, NodeType, PodType
<1>4. ASSUME NEW p \in Pods, NEW n \in Nodes \cup {NoNode}, SetPod(p, n)
      PROVE  TypeOK'
  <2>1. apiPods' \in Partial(Pods, Nodes \cup {NoNode})
    BY <1>4, PartialUpdates DEF SetPod, TypeOK, PodType
  <2>2. events + 1 \in Cells
    BY <1>4, BuilderAssumption DEF SetPod, ClusterChanges, Cells, TypeOK, PodType
  <2>3. [op |-> "set", name |-> p, node |-> n, cell |-> events + 1] \in PodEvents
    BY <2>2 DEF PodEvents
  <2>4. podQ' \in Seq(PodEvents)
    BY <1>4, <2>3 DEF SetPod, TypeOK, PodType
  <2> QED
    BY <1>1, <1>2, <1>4, <2>1, <2>4 DEF SetPod, TypeOK, NodeType, PodType
<1>5. ASSUME NEW p \in Pods, DeletePod(p)
      PROVE  TypeOK'
  <2>1. apiPods' \in Partial(Pods, Nodes \cup {NoNode})
    BY <1>5, PartialUpdates DEF DeletePod, TypeOK, PodType
  <2>2. PICK op \in {"delete", "tombstone"} : podQ' = Append(podQ, [op |-> op, name |-> p])
    BY <1>5 DEF DeletePod
  <2>3. [op |-> op, name |-> p] \in PodEvents
    BY DEF PodEvents
  <2>4. podQ' \in Seq(PodEvents)
    BY <2>2, <2>3 DEF TypeOK, PodType
  <2> QED
    BY <1>1, <1>2, <1>5, <2>1, <2>4 DEF DeletePod, TypeOK, NodeType, PodType
<1> QED
  BY <1>3, <1>4, <1>5 DEF Cluster

\* What the handlers of the informers store has its type.
LEMMA HandlerTypes ==
    ASSUME TypeOK, HandleNodeEvent \/ HandlePodEvent
    PROVE  TypeOK'
<1> USE DEF BesidesStore, apiVars, metricVars, gpuVars, buildVars
<1>1. BuildType' /\ MetricsType' /\ GPUType' /\ UNCHANGED apiVars
  BY DEF HandleNodeEvent, HandlePodEvent, TypeOK, BuildType, MetricsType, GPUType
<1>2. CASE HandleNodeEvent
  <2>1. Head(nodeQ).name \in Nodes /\ Tail(nodeQ) \in Seq(NodeEvents)
    <3>1. Head(nodeQ) \in NodeEvents /\ Tail(nodeQ) \in Seq(NodeEvents)
      BY <1>2, HeadTailProperties DEF HandleNodeEvent, TypeOK, NodeType
    <3> QED
      BY <3>1 DEF NodeEvents
  <2>2. nodeStore' \subseteq Nodes
    BY <1>2, <2>1 DEF HandleNodeEvent, TypeOK, NodeType
  <2> QED
    BY <1>1, <1>2, <2>1, <2>2 DEF HandleNodeEvent, TypeOK, NodeType, PodType
<1>3. CASE HandlePodEvent
  <2> DEFINE e == Head(podQ)
  <2>1. e \in PodEvents /\ Tail(podQ) \in Seq(PodEvents)
    BY <1>3, HeadTailProperties DEF HandlePodEvent, TypeOK, PodType
  <2>2. e.name \in Pods /\ (e.op = "set" => [node |-> e.node, cell |-> e.cell] \in PodInfos)
    BY <2>1 DEF PodEvents, PodInfos
  <2> HIDE DEF e
  <2>3. \/ e.op = "set" /\ podStore' = Put(podStore, e.name, [node |-> e.node, cell |-> e.cell])
        \/ podStore' = Without(podStore, e.name)
        \/ podStore' = podStore
    BY <1>3 DEF HandlePodEvent, e
  <2>4. podStore' \in Partial(Pods, PodInfos)
    BY <2>2, <2>3, PartialUpdates DEF TypeOK, PodType
  <2> QED
    BY <1>1, <1>3, <2>1, <2>4 DEF HandlePodEvent, TypeOK, NodeType, PodType
<1> QED
  BY <1>2, <1>3

\* What the pollers store has its type.
LEMMA PollTypes ==
    ASSUME TypeOK, PollMetrics \/ PollGPU
    PROVE  TypeOK'
<1> USE DEF BesidesMetrics, BesidesGPU, apiVars, storeVars, metricVars, gpuVars, buildVars
<1>1. NodeType' /\ PodType' /\ BuildType'
  BY DEF PollMetrics, PollGPU, ListNodeMetrics, SetNodeMetrics, ListPodMetrics, SetPodMetrics,
     PollGPUBegin, PollGPUEnd, TypeOK, NodeType, PodType, BuildType
<1>2. CASE PollMetrics
  <2>1. GPUType'
    BY <1>2 DEF PollMetrics, ListNodeMetrics, SetNodeMetrics, ListPodMetrics, SetPodMetrics,
       TypeOK, GPUType
  <2>2. CASE ListNodeMetrics
    <3>1. polls' \in Measured
      BY <2>2, BuilderAssumption DEF ListNodeMetrics, Measured, TypeOK, MetricsType, GPUType
    <3>2. pollLeft' \subseteq Nodes \cup Pods
      <4>1. apiNodes \subseteq Nodes
        BY DEF TypeOK, NodeType
      <4>2. PICK listed \in SUBSET apiNodes : pollLeft' = listed
        BY <2>2 DEF ListNodeMetrics
      <4> QED
        BY <4>1, <4>2
    <3>3. pollPc' = "nodes" /\ UNCHANGED <<nodeMetrics, podMetrics>>
      BY <2>2 DEF ListNodeMetrics
    <3> QED
      BY <1>1, <2>1, <3>1, <3>2, <3>3 DEF TypeOK, MetricsType
  <2>3. ASSUME NEW n \in Nodes, SetNodeMetrics(n) PROVE MetricsType'
    <3>1. nodeMetrics' \in Partial(Nodes, Measured)
      BY <2>3, PartialUpdates DEF SetNodeMetrics, TypeOK, MetricsType
    <3> QED
      BY <2>3, <3>1 DEF SetNodeMetrics, TypeOK, MetricsType
  <2>4. CASE ListPodMetrics
    <3>1. DOMAIN apiPods \subseteq Pods
      BY PartialFacts DEF TypeOK, PodType
    <3>2. pollLeft' \subseteq Nodes \cup Pods
      <4>1. PICK listed \in SUBSET {p \in DOMAIN apiPods : apiPods[p] # NoNode} :
               pollLeft' = listed
        BY <2>4 DEF ListPodMetrics
      <4> QED
        BY <3>1, <4>1
    <3>3. pollPc' = "pods" /\ UNCHANGED <<nodeMetrics, podMetrics, polls>>
      BY <2>4 DEF ListPodMetrics
    <3> QED
      BY <1>1, <2>1, <3>2, <3>3 DEF TypeOK, MetricsType
  <2>5. ASSUME NEW p \in Pods, SetPodMetrics(p) PROVE MetricsType'
    <3>1. 0 \in Measured
      BY BuilderAssumption DEF Measured
    <3>2. podMetrics' \in Partial(Pods, Measured)
      BY <2>5, <3>1, PartialUpdates DEF SetPodMetrics, TypeOK, MetricsType
    <3> QED
      BY <2>5, <3>2 DEF SetPodMetrics, TypeOK, MetricsType
  <2> QED
    BY <1>1, <1>2, <2>1, <2>2, <2>3, <2>4, <2>5 DEF PollMetrics, TypeOK
<1>3. CASE PollGPU
  <2>1. MetricsType'
    BY <1>3 DEF PollGPU, PollGPUBegin, PollGPUEnd, TypeOK, MetricsType
  <2>2. \A S \in SUBSET Nodes : Cardinality(S) \in Nat
    BY BuilderAssumption, FS_Subset, FS_CardinalityType
  <2>3. CASE PollGPUBegin
    <3>1. scrapes' \in Measured
      BY <2>3, BuilderAssumption DEF PollGPUBegin, Measured, TypeOK, MetricsType, GPUType
    <3>2. scraping' \subseteq Nodes /\ Cardinality(scraping') \in Nat
      BY <2>2, <2>3 DEF PollGPUBegin, TypeOK, NodeType
    <3>3. targets' \in [known : Nat, up : Nat]
      BY <2>3, <3>2 DEF PollGPUBegin, TypeOK, GPUType
    <3> QED
      BY <1>1, <2>1, <2>3, <3>1, <3>2, <3>3 DEF PollGPUBegin, TypeOK, GPUType
  <2>4. CASE PollGPUEnd
    <3>1. targets' \in [known : Nat, up : Nat]
      BY <2>2, <2>4 DEF PollGPUEnd, TypeOK, GPUType
    <3>2. PICK answering \in SUBSET scraping : gpuMetrics' \in DeviceReports(answering)
      BY <2>4 DEF PollGPUEnd
    <3>3. [pod : Pods \cup {NoPod}, util : {0, scrapes}] \subseteq Devices
      BY BuilderAssumption DEF Devices, Measured, TypeOK, GPUType
    <3>4. gpuMetrics' \in [answering -> Devices]
      BY <3>2, <3>3 DEF DeviceReports
    <3>5. gpuMetrics' \in Partial(Nodes, Devices)
      BY <3>4, PartialFacts DEF TypeOK, GPUType
    <3> QED
      BY <1>1, <2>1, <2>4, <3>1, <3>5 DEF PollGPUEnd, TypeOK, GPUType
  <2> QED
    BY <1>3, <2>3, <2>4 DEF PollGPU
<1> QED
  BY <1>2, <1>3

\* A merge writes measurements into nodes and leaves their number, order and names.
LEMMA MergedNodes ==
    ASSUME NEW nodes \in Seq(NodeInfos), NEW merged, DOMAIN merged = DOMAIN nodes,
           \A i \in DOMAIN nodes : merged[i] \in NodeInfos /\ merged[i].name = nodes[i].name,
           merged = [i \in DOMAIN nodes |-> merged[i]]
    PROVE  merged \in Seq(NodeInfos)
<1>1. DOMAIN nodes = 1 .. Len(nodes) /\ Len(nodes) \in Nat
  BY LenProperties
<1>2. merged \in [1 .. Len(nodes) -> NodeInfos]
  BY <1>1
<1> QED
  BY <1>1, <1>2, IsASeq

\* mergeNodeMetrics and mergeGPUNodeMetrics are such merges.
LEMMA NodeMerges ==
    ASSUME TypeOK
    PROVE  /\ mergeNodeMetrics(snapNodes, nodeMetrics) \in Seq(NodeInfos)
           /\ mergeGPUNodeMetrics(snapNodes) \in Seq(NodeInfos)
           /\ DOMAIN mergeNodeMetrics(snapNodes, nodeMetrics) = DOMAIN snapNodes
           /\ DOMAIN mergeGPUNodeMetrics(snapNodes) = DOMAIN snapNodes
           /\ \A i \in DOMAIN snapNodes :
                 /\ mergeNodeMetrics(snapNodes, nodeMetrics)[i].name = snapNodes[i].name
                 /\ mergeGPUNodeMetrics(snapNodes)[i].name = snapNodes[i].name
<1> DEFINE m == mergeNodeMetrics(snapNodes, nodeMetrics)
           g == mergeGPUNodeMetrics(snapNodes)
<1>1. snapNodes \in Seq(NodeInfos) /\ \A i \in DOMAIN snapNodes : snapNodes[i] \in NodeInfos
  BY DEF TypeOK, BuildType
<1>2. \A n \in DOMAIN nodeMetrics : nodeMetrics[n] \in Measured
  BY PartialFacts DEF TypeOK, MetricsType
<1>3. \A n \in DOMAIN gpuMetrics : gpuMetrics[n].util \in Measured
  <2>1. gpuMetrics \in [DOMAIN gpuMetrics -> Devices]
    BY PartialFacts DEF TypeOK, GPUType
  <2> QED
    BY <2>1 DEF Devices
<1>4. \A i \in DOMAIN snapNodes : m[i] \in NodeInfos /\ m[i].name = snapNodes[i].name
  BY <1>1, <1>2 DEF mergeNodeMetrics, NodeInfos
<1>5. \A i \in DOMAIN snapNodes : g[i] \in NodeInfos /\ g[i].name = snapNodes[i].name
  BY <1>1, <1>3 DEF mergeGPUNodeMetrics, NodeInfos
<1>6. DOMAIN m = DOMAIN snapNodes /\ m = [i \in DOMAIN snapNodes |-> m[i]]
  BY DEF mergeNodeMetrics
<1>7. DOMAIN g = DOMAIN snapNodes /\ g = [i \in DOMAIN snapNodes |-> g[i]]
  BY DEF mergeGPUNodeMetrics
<1> HIDE DEF m, g
<1>8. m \in Seq(NodeInfos)
  BY <1>1, <1>4, <1>6, MergedNodes
<1>9. g \in Seq(NodeInfos)
  BY <1>1, <1>5, <1>7, MergedNodes
<1> QED
  BY <1>4, <1>5, <1>6, <1>7, <1>8, <1>9 DEF m, g

\* The merges into containers write measurements into cells.
LEMMA CellMerges ==
    ASSUME TypeOK
    PROVE  /\ mergePodMetrics(snapPods, podMetrics) \in [Cells -> [cpu : Measured, gpu : Measured]]
           /\ mergeGPUContainerMetrics(snapPods) \in [Cells -> [cpu : Measured, gpu : Measured]]
<1> DEFINE Cell == [cpu : Measured, gpu : Measured]
<1>1. \A c \in Cells : cells[c] \in Cell
  BY DEF TypeOK, BuildType
<1>2. ASSUME NEW c \in Cells
      PROVE  mergePodMetrics(snapPods, podMetrics)[c] \in Cell
  <2> DEFINE owners == MetricOwners(snapPods, podMetrics, c)
             p == CHOOSE p \in owners : TRUE
  <2>1. CASE owners = {}
    BY <1>1, <2>1 DEF mergePodMetrics
  <2>2. CASE owners # {}
    <3>1. p \in DOMAIN podMetrics
      BY <2>2 DEF MetricOwners
    <3>2. podMetrics[p] \in Measured
      BY <3>1, PartialFacts DEF TypeOK, MetricsType
    <3>3. mergePodMetrics(snapPods, podMetrics)[c] = [cells[c] EXCEPT !.cpu = podMetrics[p]]
      BY <2>2 DEF mergePodMetrics
    <3> HIDE DEF p
    <3> QED
      BY <1>1, <3>2, <3>3
  <2> QED
    BY <2>1, <2>2
<1>3. ASSUME NEW c \in Cells
      PROVE  mergeGPUContainerMetrics(snapPods)[c] \in Cell
  <2> DEFINE devices == {n \in DOMAIN gpuMetrics : /\ gpuMetrics[n].pod \in DOMAIN snapPods
                                                   /\ snapPods[gpuMetrics[n].pod].cell = c
                                                   /\ gpuMetrics[n].util # 0}
             n == CHOOSE n \in devices : TRUE
  <2>1. CASE devices = {}
    BY <1>1, <2>1 DEF mergeGPUContainerMetrics
  <2>2. CASE devices # {}
    <3>1. n \in DOMAIN gpuMetrics
      BY <2>2
    <3>2. gpuMetrics \in [DOMAIN gpuMetrics -> Devices]
      BY PartialFacts DEF TypeOK, GPUType
    <3>3. mergeGPUContainerMetrics(snapPods)[c] = [cells[c] EXCEPT !.gpu = gpuMetrics[n].util]
      BY <2>2 DEF mergeGPUContainerMetrics
    <3> HIDE DEF n
    <3>4. gpuMetrics[n].util \in Measured
      BY <3>1, <3>2 DEF Devices
    <3> QED
      BY <1>1, <3>3, <3>4
  <2> QED
    BY <2>1, <2>2
<1>4. mergePodMetrics(snapPods, podMetrics)
         = [c \in Cells |-> mergePodMetrics(snapPods, podMetrics)[c]]
  BY DEF mergePodMetrics
<1>5. mergeGPUContainerMetrics(snapPods) = [c \in Cells |-> mergeGPUContainerMetrics(snapPods)[c]]
  BY DEF mergeGPUContainerMetrics
<1> QED
  BY <1>2, <1>3, <1>4, <1>5

\* The nodes that pods refer to and the snapshot lacks.
Referenced == {snapPods[p].node : p \in DOMAIN snapPods} \ (Names(snapNodes) \cup {NoNode})

\* They are nodes.
LEMMA ReferencedNodes ==
    ASSUME TypeOK
    PROVE  Referenced \subseteq Nodes
<1>1. snapPods \in [DOMAIN snapPods -> PodInfos]
  BY PartialFacts DEF TypeOK, BuildType
<1>2. \A p \in DOMAIN snapPods : snapPods[p].node \in Nodes \cup {NoNode}
  BY <1>1 DEF PodInfos
<1> QED
  BY <1>2 DEF Referenced

\* What the backfill does, in these terms.
LEMMA BackfillStep ==
    ASSUME backfillReferencedNodes
    PROVE  /\ snapNodes' = snapNodes \o SetToSeq({NewNode(n) : n \in Referenced \cap nodeStore})
           /\ orphans' = Referenced \ nodeStore
<1> DEFINE found == {n \in Referenced : n \in nodeStore}
<1>1. snapNodes' = snapNodes \o Backfilled(found) /\ orphans' = Referenced \ found
  BY DEF backfillReferencedNodes, Referenced, FoundAgain
<1>2. found = Referenced \cap nodeStore /\ Referenced \ found = Referenced \ nodeStore
  OBVIOUS
<1> QED
  BY <1>1, <1>2 DEF Backfilled

\* What Build reads, merges and adds has its type.
LEMMA BuildTypes ==
    ASSUME TypeOK, Build
    PROVE  TypeOK'
<1> USE DEF BesidesBuild, apiVars, storeVars, metricVars, gpuVars
<1>1. NodeType' /\ PodType' /\ MetricsType' /\ GPUType'
  BY DEF Build, ReadNodes, ReadPods, MergeNodeMetrics, MergePodMetrics, MergeGPU,
     backfillReferencedNodes, FinishBuild, TypeOK, NodeType, PodType, MetricsType, GPUType
<1>2. buildPc' \in BuildPcs
  BY DEF Build, ReadNodes, ReadPods, MergeNodeMetrics, MergePodMetrics, MergeGPU,
     backfillReferencedNodes, FinishBuild, BuildPcs
<1>3. logged' \in BOOLEAN
  BY DEF Build, ReadNodes, ReadPods, MergeNodeMetrics, MergePodMetrics, MergeGPU,
     backfillReferencedNodes, FinishBuild, TypeOK, BuildType
<1>4. cells' \in [Cells -> [cpu : Measured, gpu : Measured]]
  BY CellMerges DEF Build, ReadNodes, ReadPods, MergeNodeMetrics, MergePodMetrics, MergeGPU,
     backfillReferencedNodes, FinishBuild, TypeOK, BuildType
<1>5. snapPods' \in Partial(Pods, PodInfos)
  BY PartialUpdates DEF Build, ReadNodes, ReadPods, MergeNodeMetrics, MergePodMetrics, MergeGPU,
     backfillReferencedNodes, FinishBuild, TypeOK, BuildType, PodType
<1>6. orphans' \subseteq Nodes
  <2>1. CASE backfillReferencedNodes
    BY <2>1, BackfillStep, ReferencedNodes
  <2>2. CASE ~backfillReferencedNodes
    BY <2>2 DEF Build, ReadNodes, ReadPods, MergeNodeMetrics, MergePodMetrics, MergeGPU,
       FinishBuild, TypeOK, BuildType
  <2> QED
    BY <2>1, <2>2
<1>7. snapNodes' \in Seq(NodeInfos)
  <2>1. CASE ReadNodes
    BY <2>1, NewNodesSeq DEF ReadNodes, TypeOK, NodeType
  <2>2. CASE MergeNodeMetrics \/ MergeGPU
    BY <2>2, NodeMerges DEF MergeNodeMetrics, MergeGPU
  <2>3. CASE backfillReferencedNodes
    <3>1. Referenced \cap nodeStore \in SUBSET Nodes
      BY DEF TypeOK, NodeType
    <3>2. SetToSeq({NewNode(n) : n \in Referenced \cap nodeStore}) \in Seq(NodeInfos)
      BY <3>1, NewNodesSeq
    <3>3. snapNodes \in Seq(NodeInfos)
      BY DEF TypeOK, BuildType
    <3>4. snapNodes \o SetToSeq({NewNode(n) : n \in Referenced \cap nodeStore}) \in Seq(NodeInfos)
      BY <3>2, <3>3, ConcatProperties
    <3> QED
      BY <2>3, <3>4, BackfillStep
  <2>4. CASE ReadPods \/ MergePodMetrics \/ FinishBuild
    <3>1. snapNodes' = snapNodes \/ snapNodes' = <<>>
      BY <2>4 DEF ReadPods, MergePodMetrics, FinishBuild
    <3>2. snapNodes \in Seq(NodeInfos)
      BY DEF TypeOK, BuildType
    <3> QED
      BY <3>1, <3>2, EmptySeq
  <2> QED
    BY <2>1, <2>2, <2>3, <2>4 DEF Build
<1> QED
  BY <1>1, <1>2, <1>3, <1>4, <1>5, <1>6, <1>7 DEF TypeOK, BuildType

\* Every step keeps the types.
LEMMA TypeNext == TypeOK /\ [Next]_vars => TypeOK'
<1> SUFFICES ASSUME TypeOK, [Next]_vars PROVE TypeOK'
  OBVIOUS
<1>1. CASE UNCHANGED vars
  BY <1>1 DEF vars, apiVars, storeVars, metricVars, gpuVars, buildVars, TypeOK, NodeType, PodType,
     MetricsType, GPUType, BuildType
<1> QED
  BY <1>1, ClusterTypes, HandlerTypes, PollTypes, BuildTypes DEF Next

\* The stores, the pollers and Build keep to their types, for any cluster and any number
\* of changes and polls.
THEOREM BuilderTypeCorrect == Spec => []TypeOK
BY TypeInit, TypeNext, PTL DEF Spec

------------------------------------------------------------------------------
(* The stores and the cluster.                                              *)

\* The last event of an object tells whether, and how, the cluster has it: the store gets
\* there when it is handled.
LastEvents ==
    /\ \A i \in DOMAIN nodeQ : LastOf(nodeQ, i) =>
          (nodeQ[i].op = "set" <=> nodeQ[i].name \in apiNodes)
    /\ \A i \in DOMAIN podQ : LastOf(podQ, i) =>
          IF podQ[i].op = "set"
             THEN podQ[i].name \in DOMAIN apiPods /\ apiPods[podQ[i].name] = podQ[i].node
             ELSE podQ[i].name \notin DOMAIN apiPods

\* The first list holds the nodes there are.
LEMMA StoresInit == Init => LastEvents /\ StoresAgree
<1> SUFFICES ASSUME Init PROVE LastEvents /\ StoresAgree
  OBVIOUS
<1>1. apiNodes \in SUBSET Nodes /\ nodeQ = SetToSeq({[op |-> "set", name |-> n] : n \in apiNodes})
  BY DEF Init
<1>2. /\ \A i \in DOMAIN nodeQ : nodeQ[i].op = "set" /\ nodeQ[i].name \in apiNodes
      /\ \A n \in apiNodes : Pending(nodeQ, n)
  BY <1>1, FirstList
<1>3. nodeStore = {} /\ podQ = <<>> /\ podStore = Empty /\ apiPods = Empty
  BY DEF Init
<1>4. LastEvents
  BY <1>2, <1>3 DEF LastEvents
<1>5. StoresAgree
  BY <1>2, <1>3 DEF StoresAgree, Empty
<1> QED
  BY <1>4, <1>5

\* A change of the cluster reports its own event last.
LEMMA StoresCluster ==
    ASSUME TypeOK, LastEvents, StoresAgree, Cluster
    PROVE  LastEvents' /\ StoresAgree'
<1> USE DEF BesidesCluster, storeVars
<1>1. ASSUME NEW n \in Nodes, CreateNode(n) \/ DeleteNode(n)
      PROVE  LastEvents' /\ StoresAgree'
  <2>1. \E op \in {"set", "delete", "tombstone"} :
           /\ nodeQ' = Append(nodeQ, [op |-> op, name |-> n])
           /\ apiNodes' = IF op = "set" THEN apiNodes \cup {n} ELSE apiNodes \ {n}
    BY <1>1 DEF CreateNode, DeleteNode
  <2>2. PICK op \in {"set", "delete", "tombstone"} :
           /\ nodeQ' = Append(nodeQ, [op |-> op, name |-> n])
           /\ apiNodes' = IF op = "set" THEN apiNodes \cup {n} ELSE apiNodes \ {n}
    BY <2>1
  <2>3. PICK e : e = [op |-> op, name |-> n]
    OBVIOUS
  <2>4. e \in NodeEvents /\ e.op = op /\ e.name = n /\ nodeQ \in Seq(NodeEvents)
    BY <2>3 DEF NodeEvents, TypeOK, NodeType
  <2>5. nodeQ' = Append(nodeQ, e)
    BY <2>2, <2>3
  <2>6. UNCHANGED <<apiPods, podQ, podStore, nodeStore>>
    BY <1>1 DEF CreateNode, DeleteNode
  <2>7. /\ \A i \in DOMAIN nodeQ' : LastOf(nodeQ', i) =>
              \/ nodeQ'[i] = e
              \/ /\ i \in DOMAIN nodeQ /\ LastOf(nodeQ, i)
                 /\ nodeQ'[i] = nodeQ[i] /\ nodeQ[i].name # e.name
        /\ \A x : ~Pending(nodeQ', x) => ~Pending(nodeQ, x) /\ e.name # x
    BY <2>4, <2>5, AppendLast
  <2>8. ASSUME NEW i \in DOMAIN nodeQ', LastOf(nodeQ', i)
        PROVE  nodeQ'[i].op = "set" <=> nodeQ'[i].name \in apiNodes'
    <3>1. CASE nodeQ'[i] = e
      BY <2>2, <2>4, <3>1
    <3>2. CASE nodeQ'[i] # e
      <4>1. /\ i \in DOMAIN nodeQ /\ LastOf(nodeQ, i)
            /\ nodeQ'[i] = nodeQ[i] /\ nodeQ[i].name # n
        BY <2>4, <2>7, <2>8, <3>2
      <4>2. nodeQ[i].op = "set" <=> nodeQ[i].name \in apiNodes
        BY <4>1 DEF LastEvents
      <4> QED
        BY <2>2, <4>1, <4>2
    <3> QED
      BY <3>1, <3>2
  <2>9. LastEvents'
    BY <2>6, <2>8 DEF LastEvents
  <2>10. ASSUME NEW x \in Nodes, ~Pending(nodeQ', x)
         PROVE  x \in nodeStore' <=> x \in apiNodes'
    <3>1. ~Pending(nodeQ, x) /\ x # n
      BY <2>4, <2>7, <2>10
    <3>2. x \in nodeStore <=> x \in apiNodes
      BY <3>1 DEF StoresAgree
    <3> QED
      BY <2>2, <2>6, <3>1, <3>2
  <2>11. StoresAgree'
    BY <2>6, <2>10 DEF StoresAgree
  <2> QED
    BY <2>9, <2>11
<1>2. ASSUME NEW p \in Pods, NEW e \in PodEvents, e.name = p, podQ' = Append(podQ, e),
             IF e.op = "set" THEN apiPods' = Put(apiPods, p, e.node)
                             ELSE apiPods' = Without(apiPods, p),
             UNCHANGED <<apiNodes, nodeQ, podStore, nodeStore>>
      PROVE  LastEvents' /\ StoresAgree'
  <2>1. podQ \in Seq(PodEvents)
    BY DEF TypeOK, PodType
  <2>2. /\ \A i \in DOMAIN podQ' : LastOf(podQ', i) =>
              \/ podQ'[i] = e
              \/ /\ i \in DOMAIN podQ /\ LastOf(podQ, i)
                 /\ podQ'[i] = podQ[i] /\ podQ[i].name # e.name
        /\ \A x : ~Pending(podQ', x) => ~Pending(podQ, x) /\ e.name # x
    BY <1>2, <2>1, AppendLast
  <2>3. /\ e.op = "set" => p \in DOMAIN apiPods' /\ apiPods'[p] = e.node
        /\ e.op # "set" => p \notin DOMAIN apiPods'
        /\ \A x : x # p => (x \in DOMAIN apiPods' <=> x \in DOMAIN apiPods)
        /\ \A x \in DOMAIN apiPods : x # p => apiPods'[x] = apiPods[x]
    BY <1>2 DEF Put, Without
  <2>4. ASSUME NEW i \in DOMAIN podQ', LastOf(podQ', i)
        PROVE  IF podQ'[i].op = "set"
                  THEN podQ'[i].name \in DOMAIN apiPods' /\ apiPods'[podQ'[i].name] = podQ'[i].node
                  ELSE podQ'[i].name \notin DOMAIN apiPods'
    <3>1. CASE podQ'[i] = e
      BY <1>2, <2>3, <3>1
    <3>2. CASE podQ'[i] # e
      <4>1. /\ i \in DOMAIN podQ /\ LastOf(podQ, i)
            /\ podQ'[i] = podQ[i] /\ podQ[i].name # p
        BY <1>2, <2>2, <2>4, <3>2
      <4>2. IF podQ[i].op = "set"
               THEN podQ[i].name \in DOMAIN apiPods /\ apiPods[podQ[i].name] = podQ[i].node
               ELSE podQ[i].name \notin DOMAIN apiPods
        BY <4>1 DEF LastEvents
      <4> QED
        BY <2>3, <4>1, <4>2
    <3> QED
      BY <3>1, <3>2
  <2>5. LastEvents'
    BY <1>2, <2>4 DEF LastEvents
  <2>6. ASSUME NEW x \in Pods, ~Pending(podQ', x)
        PROVE  /\ x \in DOMAIN podStore' <=> x \in DOMAIN apiPods'
               /\ x \in DOMAIN apiPods' => podStore'[x].node = apiPods'[x]
    <3>1. ~Pending(podQ, x) /\ x # p
      BY <1>2, <2>2, <2>6
    <3>2. /\ x \in DOMAIN podStore <=> x \in DOMAIN apiPods
          /\ x \in DOMAIN apiPods => podStore[x].node = apiPods[x]
      BY <3>1 DEF StoresAgree
    <3>3. x \in DOMAIN apiPods' <=> x \in DOMAIN apiPods
      BY <2>3, <3>1
    <3>4. x \in DOMAIN apiPods => apiPods'[x] = apiPods[x]
      BY <2>3, <3>1
    <3> QED
      BY <1>2, <3>2, <3>3, <3>4
  <2>7. StoresAgree'
    BY <1>2, <2>6 DEF StoresAgree
  <2> QED
    BY <2>5, <2>7
<1>3. ASSUME NEW p \in Pods, NEW n \in Nodes \cup {NoNode}, SetPod(p, n)
      PROVE  LastEvents' /\ StoresAgree'
  <2>1. PICK e : e = [op |-> "set", name |-> p, node |-> n, cell |-> events + 1]
    OBVIOUS
  <2>2. e \in PodEvents
    BY <1>3, <2>1, BuilderAssumption DEF SetPod, ClusterChanges, PodEvents, Cells, TypeOK, PodType
  <2>3. e.op = "set" /\ e.name = p /\ e.node = n
    BY <2>1
  <2>4. /\ podQ' = Append(podQ, e) /\ apiPods' = Put(apiPods, p, n)
        /\ UNCHANGED <<apiNodes, nodeQ, podStore, nodeStore>>
    BY <1>3, <2>1 DEF SetPod
  <2> QED
    BY <1>2, <2>2, <2>3, <2>4
<1>4. ASSUME NEW p \in Pods, DeletePod(p)
      PROVE  LastEvents' /\ StoresAgree'
  <2>1. PICK op \in {"delete", "tombstone"} : podQ' = Append(podQ, [op |-> op, name |-> p])
    BY <1>4 DEF DeletePod
  <2>2. PICK e : e = [op |-> op, name |-> p]
    OBVIOUS
  <2>3. e \in PodEvents /\ e.op # "set" /\ e.name = p
    BY <2>2 DEF PodEvents
  <2>4. /\ podQ' = Append(podQ, e) /\ apiPods' = Without(apiPods, p)
        /\ UNCHANGED <<apiNodes, nodeQ, podStore, nodeStore>>
    BY <1>4, <2>1, <2>2 DEF DeletePod
  <2> QED
    BY <1>2, <2>3, <2>4
<1> QED
  BY <1>1, <1>3, <1>4 DEF Cluster

\* The handlers bring a store to what the last event of an object says.
LEMMA StoresHandlers ==
    ASSUME TypeOK, LastEvents, StoresAgree, HandleNodeEvent \/ HandlePodEvent
    PROVE  LastEvents' /\ StoresAgree'
<1> USE DEF BesidesStore, apiVars
<1>1. CASE HandleNodeEvent
  <2>1. PICK e : e = Head(nodeQ)
    OBVIOUS
  <2>2. /\ nodeQ # <<>> /\ nodeQ' = Tail(nodeQ) /\ nodeQ \in Seq(NodeEvents)
        /\ UNCHANGED <<apiNodes, apiPods, podQ, podStore>>
    BY <1>1 DEF HandleNodeEvent, TypeOK, NodeType
  <2>3. e \in NodeEvents
    BY <2>1, <2>2, HeadTailProperties
  <2>4. nodeStore' = IF e.op = "set" THEN nodeStore \cup {e.name} ELSE nodeStore \ {e.name}
    BY <1>1, <2>1, <2>3 DEF HandleNodeEvent, IsDelete, NodeEvents
  <2>5. /\ \A i \in DOMAIN nodeQ' : LastOf(nodeQ', i) =>
              i + 1 \in DOMAIN nodeQ /\ LastOf(nodeQ, i + 1) /\ nodeQ'[i] = nodeQ[i + 1]
        /\ \A x : ~Pending(nodeQ', x) =>
              IF e.name = x THEN LastOf(nodeQ, 1) ELSE ~Pending(nodeQ, x)
        /\ e = nodeQ[1] /\ 1 \in DOMAIN nodeQ
    BY <2>1, <2>2, TailLast
  <2>6. LastEvents'
    BY <2>2, <2>5 DEF LastEvents
  <2>7. ASSUME NEW x \in Nodes, ~Pending(nodeQ', x)
        PROVE  x \in nodeStore' <=> x \in apiNodes'
    <3>1. CASE e.name = x
      <4>1. LastOf(nodeQ, 1)
        BY <2>5, <2>7, <3>1
      <4>2. e.op = "set" <=> x \in apiNodes
        BY <2>5, <3>1, <4>1 DEF LastEvents
      <4> QED
        BY <2>2, <2>4, <3>1, <4>2
    <3>2. CASE e.name # x
      <4>1. x \in nodeStore <=> x \in apiNodes
        BY <2>5, <2>7, <3>2 DEF StoresAgree
      <4> QED
        BY <2>2, <2>4, <3>2, <4>1
    <3> QED
      BY <3>1, <3>2
  <2>8. StoresAgree'
    BY <2>2, <2>7 DEF StoresAgree
  <2> QED
    BY <2>6, <2>8
<1>2. CASE HandlePodEvent
  <2>1. PICK e : e = Head(podQ)
    OBVIOUS
  <2>2. /\ podQ # <<>> /\ podQ' = Tail(podQ) /\ podQ \in Seq(PodEvents)
        /\ UNCHANGED <<apiNodes, apiPods, nodeQ, nodeStore>>
    BY <1>2 DEF HandlePodEvent, TypeOK, PodType
  <2>3. e \in PodEvents
    BY <2>1, <2>2, HeadTailProperties
  <2>4. e.op \in {"set", "delete", "tombstone"}
    BY <2>3 DEF PodEvents
  <2>5. podStore' = IF e.op = "set" THEN Put(podStore, e.name, [node |-> e.node, cell |-> e.cell])
                                    ELSE Without(podStore, e.name)
    BY <1>2, <2>1, <2>4 DEF HandlePodEvent, IsDelete
  <2>6. /\ e.op = "set" => e.name \in DOMAIN podStore' /\ podStore'[e.name].node = e.node
        /\ e.op # "set" => e.name \notin DOMAIN podStore'
        /\ \A x : x # e.name => (x \in DOMAIN podStore' <=> x \in DOMAIN podStore)
        /\ \A x \in DOMAIN podStore : x # e.name => podStore'[x] = podStore[x]
    BY <2>5 DEF Put, Without
  <2>7. /\ \A i \in DOMAIN podQ' : LastOf(podQ', i) =>
              i + 1 \in DOMAIN podQ /\ LastOf(podQ, i + 1) /\ podQ'[i] = podQ[i + 1]
        /\ \A x : ~Pending(podQ', x) =>
              IF e.name = x THEN LastOf(podQ, 1) ELSE ~Pending(podQ, x)
        /\ e = podQ[1] /\ 1 \in DOMAIN podQ
    BY <2>1, <2>2, TailLast
  <2>8. LastEvents'
    BY <2>2, <2>7 DEF LastEvents
  <2>9. ASSUME NEW x \in Pods, ~Pending(podQ', x)
        PROVE  /\ x \in DOMAIN podStore' <=> x \in DOMAIN apiPods'
               /\ x \in DOMAIN apiPods' => podStore'[x].node = apiPods'[x]
    <3>1. CASE e.name = x
      <4>1. LastOf(podQ, 1)
        BY <2>7, <2>9, <3>1
      <4>2. IF e.op = "set" THEN x \in DOMAIN apiPods /\ apiPods[x] = e.node
                            ELSE x \notin DOMAIN apiPods
        BY <2>7, <3>1, <4>1 DEF LastEvents
      <4> QED
        BY <2>2, <2>6, <3>1, <4>2
    <3>2. CASE e.name # x
      <4>1. /\ x \in DOMAIN podStore <=> x \in DOMAIN apiPods
            /\ x \in DOMAIN apiPods => podStore[x].node = apiPods[x]
        BY <2>7, <2>9, <3>2 DEF StoresAgree
      <4>2. /\ x \in DOMAIN podStore' <=> x \in DOMAIN podStore
            /\ x \in DOMAIN podStore => podStore'[x] = podStore[x]
        BY <2>6, <3>2
      <4> QED
        BY <2>2, <4>1, <4>2
    <3> QED
      BY <3>1, <3>2
  <2>10. StoresAgree'
    BY <2>2, <2>9 DEF StoresAgree
  <2> QED
    BY <2>8, <2>10
<1> QED
  BY <1>1, <1>2

\* The other steps touch neither the cluster nor the stores.
LEMMA StoresNext == TypeOK /\ LastEvents /\ StoresAgree /\ [Next]_vars => LastEvents' /\ StoresAgree'
<1> SUFFICES ASSUME TypeOK, LastEvents, StoresAgree, [Next]_vars
             PROVE  LastEvents' /\ StoresAgree'
  OBVIOUS
<1>1. CASE UNCHANGED <<apiNodes, apiPods, nodeQ, podQ, nodeStore, podStore>>
  BY <1>1 DEF LastEvents, StoresAgree
<1>2. PollMetrics \/ PollGPU \/ Build \/ UNCHANGED vars =>
         UNCHANGED <<apiNodes, apiPods, nodeQ, podQ, nodeStore, podStore>>
  BY DEF vars, apiVars, storeVars, PollMetrics, PollGPU, ListNodeMetrics, SetNodeMetrics,
     ListPodMetrics, SetPodMetrics, PollGPUBegin, PollGPUEnd, BesidesMetrics, BesidesGPU, Build,
     ReadNodes, ReadPods, MergeNodeMetrics, MergePodMetrics, MergeGPU, backfillReferencedNodes,
     FinishBuild, BesidesBuild
<1> QED
  BY <1>1, <1>2, StoresCluster, StoresHandlers DEF Next

\* However many objects there are and whatever happens to them, an informer that has
\* nothing left to say of an object has brought its store to what the cluster has
\* (the handlers of collector/resource and internal/store).
THEOREM StoresAgreeHolds == Spec => []StoresAgree
BY TypeInit, TypeNext, StoresInit, StoresNext, PTL DEF Spec

\* For any number of nodes and pods, the node that the backfill reports as missing is not
\* in the cluster, or the node informer is behind with it (backfillReferencedNodes).
THEOREM OrphansExplainedHolds == Spec => OrphansExplained
<1>1. ASSUME TypeOK, StoresAgree, backfillReferencedNodes, NEW n \in orphans'
      PROVE  n \notin apiNodes \/ Pending(nodeQ, n)
  <2>1. n \in Referenced /\ n \notin nodeStore
    BY <1>1, BackfillStep
  <2>2. n \in Nodes
    BY <1>1, <2>1, ReferencedNodes
  <2> QED
    BY <1>1, <2>1, <2>2 DEF StoresAgree
<1>2. TypeOK /\ StoresAgree =>
         [backfillReferencedNodes => \A n \in orphans' : n \notin apiNodes \/ Pending(nodeQ, n)]_vars
  BY <1>1
<1> QED
  BY <1>2, TypeInit, TypeNext, StoresInit, StoresNext, PTL DEF Spec, OrphansExplained

------------------------------------------------------------------------------
(* Nodes of a snapshot.                                                     *)

\* Two lists of nodes, each with distinct names and with no name in common, make one
\* with distinct names.
LEMMA ConcatUnique ==
    ASSUME NEW s \in Seq(NodeInfos), NEW t \in Seq(NodeInfos),
           \A i, j \in DOMAIN s : s[i].name = s[j].name => i = j,
           \A i, j \in DOMAIN t : t[i].name = t[j].name => i = j,
           \A i \in DOMAIN s, j \in DOMAIN t : s[i].name # t[j].name
    PROVE  \A i, j \in DOMAIN (s \o t) : (s \o t)[i].name = (s \o t)[j].name => i = j
<1> DEFINE r == s \o t
<1>1. /\ DOMAIN s = 1 .. Len(s) /\ Len(s) \in Nat /\ DOMAIN t = 1 .. Len(t) /\ Len(t) \in Nat
      /\ DOMAIN r = 1 .. Len(s) + Len(t)
      /\ \A i \in 1 .. Len(s) + Len(t) : r[i] = IF i <= Len(s) THEN s[i] ELSE t[i - Len(s)]
  BY ConcatProperties
<1> HIDE DEF r
<1>2. ASSUME NEW i \in DOMAIN r
      PROVE  \/ i \in DOMAIN s /\ r[i] = s[i]
             \/ i - Len(s) \in DOMAIN t /\ r[i] = t[i - Len(s)]
  BY <1>1
<1>3. ASSUME NEW i \in DOMAIN r, NEW j \in DOMAIN r, r[i].name = r[j].name
      PROVE  i = j
  <2>1. CASE i \in DOMAIN s /\ r[i] = s[i] /\ j \in DOMAIN s /\ r[j] = s[j]
    BY <1>3, <2>1
  <2>2. CASE /\ i - Len(s) \in DOMAIN t /\ r[i] = t[i - Len(s)]
             /\ j - Len(s) \in DOMAIN t /\ r[j] = t[j - Len(s)]
    <3>1. i - Len(s) = j - Len(s)
      BY <1>3, <2>2
    <3> QED
      BY <1>1, <3>1
  <2>3. CASE i \in DOMAIN s /\ r[i] = s[i] /\ j - Len(s) \in DOMAIN t /\ r[j] = t[j - Len(s)]
    BY <1>3, <2>3
  <2>4. CASE i - Len(s) \in DOMAIN t /\ r[i] = t[i - Len(s)] /\ j \in DOMAIN s /\ r[j] = s[j]
    BY <1>3, <2>4
  <2> QED
    BY <1>2, <2>1, <2>2, <2>3, <2>4
<1> QED
  BY <1>3 DEF r

\* Every step of Build keeps the nodes distinct.
LEMMA UniqueNext == TypeOK /\ UniqueNodes /\ [Next]_vars => UniqueNodes'
<1> SUFFICES ASSUME TypeOK, UniqueNodes, [Next]_vars PROVE UniqueNodes'
  OBVIOUS
<1>1. CASE UNCHANGED snapNodes
  BY <1>1 DEF UniqueNodes
<1>2. CASE snapNodes' = <<>>
  BY <1>2 DEF UniqueNodes
<1>3. CASE ReadNodes
  BY <1>3, NewNodesSeq DEF ReadNodes, UniqueNodes, TypeOK, NodeType
<1>4. CASE MergeNodeMetrics
  BY <1>4, NodeMerges DEF MergeNodeMetrics, UniqueNodes
<1>5. CASE MergeGPU
  BY <1>5, NodeMerges DEF MergeGPU, UniqueNodes
<1>6. CASE backfillReferencedNodes
  <2>1. PICK t : t = SetToSeq({NewNode(n) : n \in Referenced \cap nodeStore})
    OBVIOUS
  <2>2. Referenced \cap nodeStore \in SUBSET Nodes
    BY DEF TypeOK, NodeType
  <2>3. /\ t \in Seq(NodeInfos)
        /\ \A i \in DOMAIN t : t[i].name \in Referenced \cap nodeStore
        /\ \A i, j \in DOMAIN t : t[i].name = t[j].name => i = j
    BY <2>1, <2>2, NewNodesSeq
  <2>4. \A i \in DOMAIN snapNodes : snapNodes[i].name \notin Referenced
    BY DEF Referenced, Names
  <2>5. \A i \in DOMAIN snapNodes, j \in DOMAIN t : snapNodes[i].name # t[j].name
    BY <2>3, <2>4
  <2>6. snapNodes \in Seq(NodeInfos)
    BY DEF TypeOK, BuildType
  <2>7. snapNodes' = snapNodes \o t
    BY <1>6, <2>1, BackfillStep
  <2>8. \A i, j \in DOMAIN (snapNodes \o t) :
           (snapNodes \o t)[i].name = (snapNodes \o t)[j].name => i = j
    BY <2>3, <2>5, <2>6, ConcatUnique DEF UniqueNodes
  <2> QED
    BY <2>7, <2>8 DEF UniqueNodes
<1>7. CASE Cluster \/ HandleNodeEvent \/ HandlePodEvent \/ PollMetrics \/ PollGPU \/ UNCHANGED vars
  <2>1. UNCHANGED snapNodes
    BY <1>7 DEF vars, buildVars, Cluster, CreateNode, DeleteNode, SetPod, DeletePod,
       BesidesCluster, HandleNodeEvent, HandlePodEvent, BesidesStore, PollMetrics, PollGPU,
       ListNodeMetrics, SetNodeMetrics, ListPodMetrics, SetPodMetrics, BesidesMetrics,
       PollGPUBegin, PollGPUEnd, BesidesGPU
  <2> QED
    BY <1>1, <2>1
<1>8. CASE ReadPods \/ MergePodMetrics \/ FinishBuild
  <2>1. snapNodes' = snapNodes \/ snapNodes' = <<>>
    BY <1>8 DEF ReadPods, MergePodMetrics, FinishBuild
  <2> QED
    BY <1>1, <1>2, <2>1
<1> QED
  BY <1>3, <1>4, <1>5, <1>6, <1>7, <1>8 DEF Next, Build

\* A snapshot never has a node twice, whatever the node store does between the two times
\* Build reads it (readStores and backfillReferencedNodes).
THEOREM UniqueNodesHolds == Spec => []UniqueNodes
<1>1. Init => UniqueNodes
  BY DEF Init, UniqueNodes
<1> QED
  BY <1>1, TypeInit, TypeNext, UniqueNext, PTL DEF Spec

=============================================================================
