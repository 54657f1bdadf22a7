------------------------------ MODULE Workloads ------------------------------
(***************************************************************************)
(* How the workloads of a snapshot come about: every kind of object has an *)
(* informer of its own that fills a store of its own, and Build reads the  *)
(* stores at different moments, joins what it read by names, and reports   *)
(* whose pods a workload has, what they request and who targets it.        *)
(*                                                                         *)
(* The cluster is the environment: objects are created below their owners, *)
(* pods finish, objects are deleted, and the garbage collector deletes     *)
(* what has lost its owner.  A name may be used again; its UID is new.     *)
(***************************************************************************)
EXTENDS Enrichment, FiniteSetsExt, Functions

CONSTANTS
    Scenarios,      \* clusters to start from, and what else they may hold
    MaxEvents       \* bound: changes of the cluster

ASSUME WorkloadsAssumption == MaxEvents \in Nat

Kinds == {"Pod", "ReplicaSet", "Deployment", "StatefulSet", "DaemonSet",
          "Job", "CronJob", "Service", "PDB"}

VARIABLES
    scenario,   \* the objects this cluster may hold
    api,        \* the cluster: kind -> key -> object
    events,     \* bound: changes so far
    past,       \* history: every object there has been
    queue,      \* kind -> events its informer has yet to hand to the handler
    store,      \* kind -> key -> item: internal/store
    unread,     \* Build: the stores its goroutines have not read yet
    building,   \* Build runs
    snap        \* its snapshot: kind -> key -> item

clusterVars == <<scenario, api, events, past>>
buildVars == <<unread, building, snap>>
vars == <<clusterVars, queue, store, buildVars>>

NoItems == [key \in {} |-> NoOwner]
Nothing == [k \in Kinds |-> NoItems]
Key(o) == <<o.ns, o.name>>
Put(f, key, value) == [x \in DOMAIN f \cup {key} |-> IF x = key THEN value ELSE f[x]]
Without(f, key) == [x \in DOMAIN f \ {key} |-> f[x]]

\* Owners are looked up in the namespace of the object; a Node or a custom
\* resource is not among the kinds here.
Tracked(o) == {r \in ToSet(o.owners) : r.kind \in Kinds}

Is(o, kind, key) == o.kind = kind /\ Key(o) = key

\* What an object is made of; a container sets some requests or none.
ObjectFields == {"kind", "ns", "name", "uid", "owners", "selector", "containers", "phase"}
Phases == {"Pending", "Running", "Succeeded", "Failed", "Unknown"}
OwnerRefs == [kind : STRING, name : STRING, uid : Int]

IsObject(o) ==
    /\ o = [f \in ObjectFields |-> o[f]]
    /\ o.kind \in Kinds /\ o.phase \in Phases /\ o.uid \in Int
    /\ o.owners \in Seq(OwnerRefs)
    /\ IsFiniteSet(DOMAIN o.containers)
    /\ \A i \in DOMAIN o.containers : \A r \in DOMAIN o.containers[i] : o.containers[i][r] \in Nat

SameOwners(o, x) ==
    /\ DOMAIN o.owners = DOMAIN x.owners
    /\ \A i \in DOMAIN o.owners : /\ o.owners[i].kind = x.owners[i].kind
                                  /\ o.owners[i].name = x.owners[i].name

\* An owner reference of x, to an object that is there.
Refers(objects, x, r) ==
    r.kind \in Kinds => \E y \in objects : Is(y, r.kind, <<x.ns, r.name>>) /\ y.uid = r.uid

\* A cluster starts with the owners of its objects, and a name that is used
\* again is used below the same owners: controllers name what they create
\* after themselves.  (A ReplicaSet that came back below another Deployment
\* would take the pods of the first one along: the join is by name.)
ASSUME ScenarioAssumption ==
    \A c \in Scenarios :
        /\ IsFiniteSet(c.start)
        /\ \A o \in c.start \cup c.later : IsObject(o)
        /\ \A o, x \in c.start \cup c.later : o.kind = x.kind /\ Key(o) = Key(x) => SameOwners(o, x)
        /\ \A o \in c.start : \A i \in DOMAIN o.owners : Refers(c.start, o, o.owners[i])

\* An object with the UID it gets and those of its owners.
Object(cluster, o, uid) ==
    LET refers(r) == [r EXCEPT !.uid = IF r.kind \in Kinds
                                          THEN cluster[r.kind][<<o.ns, r.name>>].uid ELSE @]
    IN [o EXCEPT !.uid = uid, !.owners = [i \in DOMAIN @ |-> refers(@[i])]]

UsedKinds == {o.kind : o \in scenario.start \cup scenario.later}

\* How the handler of a kind converts an object.
ToModel(k, o) ==
    CASE k = "Pod" -> PodToModel(o)
      [] k = "ReplicaSet" -> ReplicaSetToModel(o)
      [] k = "Deployment" -> DeploymentToModel(o)
      [] k = "StatefulSet" -> StatefulSetToModel(o)
      [] k = "DaemonSet" -> DaemonSetToModel(o)
      [] k = "Job" -> JobToModel(o)
      [] k = "CronJob" -> CronJobToModel(o)
      [] k = "Service" -> ServiceToModel(o)
      [] k = "PDB" -> PDBToModel(o)

\* Snapshots begin when the stores hold the informers' first lists; where one
\* informer is late, its list is still on its way ("continuing with partial
\* data", agent.go).
Init ==
    /\ scenario \in Scenarios
    /\ api = [k \in Kinds |->
                 [key \in {Key(o) : o \in {x \in scenario.start : x.kind = k}} |->
                    CHOOSE o \in scenario.start : o.kind = k /\ Key(o) = key]]
    /\ events = 0 /\ past = scenario.start
    /\ \E late \in {{}} \cup {{k} : k \in UsedKinds} :
          /\ store = [k \in Kinds |-> IF k \in late THEN NoItems
                                      ELSE [key \in DOMAIN api[k] |-> ToModel(k, api[k][key])]]
          /\ queue = [k \in Kinds |-> IF k \notin late THEN <<>>
                                      ELSE SetToSeq({[op |-> "set", object |-> api[k][key]] : key \in DOMAIN api[k]})]
    /\ unread = {} /\ building = FALSE /\ snap = Nothing

------------------------------------------------------------------------------
(* The cluster.                                                             *)

ClusterChanges == events < MaxEvents /\ events' = events + 1
BesidesCluster == UNCHANGED <<scenario, store, buildVars>>
Report(op, o) == queue' = [queue EXCEPT ![o.kind] = Append(@, [op |-> op, object |-> o])]

Create(o) ==
    /\ ClusterChanges
    /\ Key(o) \notin DOMAIN api[o.kind]
    /\ \A r \in Tracked(o) : <<o.ns, r.name>> \in DOMAIN api[r.kind]
    /\ LET new == Object(api, o, 100 + events) IN
          /\ api' = [api EXCEPT ![o.kind] = Put(@, Key(o), new)]
          /\ past' = past \cup {new}
          /\ Report("set", new)
    /\ BesidesCluster

Erase(o) ==
    /\ api' = [api EXCEPT ![o.kind] = Without(@, Key(o))]
    /\ Report("delete", o)
    /\ UNCHANGED past
    /\ BesidesCluster

Delete(k, key) == ClusterChanges /\ Erase(api[k][key])

\* A pod ends, whatever owns it.
Finish(key, phase) ==
    /\ ClusterChanges
    /\ api["Pod"][key].phase = "Running"
    /\ LET new == [api["Pod"][key] EXCEPT !.phase = phase] IN
          /\ api' = [api EXCEPT !["Pod"][key] = new]
          /\ Report("set", new)
    /\ UNCHANGED past
    /\ BesidesCluster

\* An object none of whose owners exists any more is collected.
Abandoned(o) ==
    /\ Tracked(o) # {}
    /\ \A r \in Tracked(o) : \A key \in DOMAIN api[r.kind] : api[r.kind][key].uid # r.uid

CollectGarbage(k, key) ==
    /\ Abandoned(api[k][key])
    /\ Erase(api[k][key])
    /\ UNCHANGED events

------------------------------------------------------------------------------
(* The handlers: AddFunc and UpdateFunc convert the object and Set it,      *)
(* DeleteFunc deletes its key, from the object or from its tombstone.       *)

Handle(k) ==
    /\ queue[k] # <<>>
    /\ LET e == Head(queue[k]) IN
          store' = [store EXCEPT ![k] = IF e.op = "set" THEN Put(@, Key(e.object), ToModel(k, e.object))
                                                        ELSE Without(@, Key(e.object))]
    /\ queue' = [queue EXCEPT ![k] = Tail(@)]
    /\ UNCHANGED <<clusterVars, buildVars>>

HandlePod == Handle("Pod")
HandleDeployment == Handle("Deployment")
HandleStatefulSet == Handle("StatefulSet")
HandleDaemonSet == Handle("DaemonSet")
HandleReplicaSet == Handle("ReplicaSet")
HandleJob == Handle("Job")
HandleCronJob == Handle("CronJob")
HandleService == Handle("Service")
HandlePDB == Handle("PDB")

HandleEvent ==
    \/ HandlePod \/ HandleDeployment \/ HandleStatefulSet \/ HandleDaemonSet
    \/ HandleReplicaSet \/ HandleJob \/ HandleCronJob \/ HandleService \/ HandlePDB

------------------------------------------------------------------------------
(* Build.  The store of a kind the scenario does not use stays empty, and   *)
(* reading it is not a step.                                                *)

StartBuild ==
    /\ ~building
    /\ building' = TRUE /\ unread' = UsedKinds /\ snap' = Nothing
    /\ UNCHANGED <<clusterVars, queue, store>>

\* readStores: one goroutine per store.
ReadStore(k) ==
    /\ k \in unread
    /\ snap' = [snap EXCEPT ![k] = store[k]]
    /\ unread' = unread \ {k}
    /\ UNCHANGED <<clusterVars, queue, store, building>>

\* Once they are all read, Steps 4 to 6 work on the snapshot alone.
FinishBuild ==
    /\ building /\ unread = {}
    /\ snap' = Enrich(snap)
    /\ building' = FALSE
    /\ UNCHANGED <<clusterVars, queue, store, unread>>

Build == StartBuild \/ FinishBuild \/ \E k \in Kinds : ReadStore(k)

Garbage == \E k \in Kinds : \E key \in DOMAIN api[k] : CollectGarbage(k, key)

Next ==
    \/ \E o \in scenario.start \cup scenario.later : Create(o)
    \/ \E k \in Kinds : \E key \in DOMAIN api[k] : Delete(k, key)
    \/ \E key \in DOMAIN api["Pod"], phase \in {"Succeeded", "Failed"} : Finish(key, phase)
    \/ Garbage
    \/ HandleEvent
    \/ Build

\* Informers deliver what they watch, a snapshot is built on every tick, and
\* the garbage collector of the cluster does its work.
Fairness == WF_vars(HandleEvent) /\ WF_vars(Build) /\ WF_vars(Garbage)

Spec == Init /\ [][Next]_vars /\ Fairness

------------------------------------------------------------------------------
(* Properties.                                                              *)

WorkloadKinds == {"Deployment", "StatefulSet", "DaemonSet"}

\* The owners of an object, by UID, and what is above it: its owners, their
\* owners and so on, which is the smallest set that holds the owners of o and
\* of its own members.
Direct(objects, x) == {y \in objects : \E r \in ToSet(x.owners) : r.uid = y.uid}
Closed(objects, o, S) ==
    Direct(objects, o) \subseteq S /\ \A x \in S : Direct(objects, x) \subseteq S
Above(objects, o) ==
    {y \in objects : \A S \in SUBSET objects : Closed(objects, o, S) => y \in S}

\* Whatever the stores held when Build read them, the owner it reports for a
\* pod is of a kind and a name that has been above a pod of that name:
\* ownership.go joins by namespace and name, and must not hand a pod to a
\* namesake's owner.
OwnersReal ==
    ~building => \A p \in DOMAIN snap["Pod"] :
        LET o == snap["Pod"][p].owner IN
        o.kind \in Kinds => \E pod \in past : /\ Is(pod, "Pod", p)
                                           /\ \E x \in Above(past, pod) : Is(x, o.kind, <<p[1], o.name>>)

\* The UID reported for an owner is one that an object of that kind and name
\* has had, except where the CronJob of a Job is not in the snapshot: there the
\* UID is still that of the Job.
OwnerUIDsReal ==
    ~building => \A p \in DOMAIN snap["Pod"] :
        LET o == snap["Pod"][p].owner
            key == <<p[1], o.name>>
        IN o.kind \in Kinds =>
              \/ \E x \in past : Is(x, o.kind, key) /\ x.uid = o.uid
              \/ o.kind = "CronJob" /\ key \notin DOMAIN snap["CronJob"]

\* What the workloads of a kind request together of a resource.
KindTotal(k, r) == SumFunction([key \in DOMAIN snap[k] |-> snap[k][key].total[r]])

\* No pod is counted for two workloads: what the workloads of a snapshot
\* request together of a resource is no more than its summary's total.
CountedOnce ==
    ~building => \A r \in Resources :
        SumFunction([k \in WorkloadKinds |-> KindTotal(k, r)]) <= TotalRequested(snap)[r]

Objects(k) == {api[k][key] : key \in DOMAIN api[k]}
AllObjects == UNION {Objects(k) : k \in Kinds}
PodsBelow(w) == {p \in Objects("Pod") : w \in Above(AllObjects, p)}
Requested(o) == sumContainerSpecRequests(extractContainerSpecs(o.containers))
RequestedBy(pods) == SumRequests([p \in pods |-> Requested(p)])

OfCronJob(w) == w.kind = "Job" /\ \E r \in ToSet(w.owners) : r.kind = "CronJob"

\* What a workload should report of the cluster as it is (aggregation.go and its tests):
\* what its pods request, the finished ones of a Job included; the template of a Job
\* stands in when they request nothing.
TrueTotal(w) ==
    IF w.kind # "Job"
       THEN RequestedBy({p \in PodsBelow(w) : p.phase \notin {"Succeeded", "Failed"}})
       ELSE IF RequestedBy(PodsBelow(w)) = Zero THEN Requested(w) ELSE RequestedBy(PodsBelow(w))

\* Once the cluster is quiet, the snapshots report for every workload what the
\* pods below it request, by UIDs and not by names: its unfinished pods for a
\* Deployment, a StatefulSet or a DaemonSet, all its pods for a Job, and the template
\* for a Job that has none.  The Jobs of a CronJob are reported too, with the totals
\* that LivePodsTrump is about.
TotalsCatchUp ==
    <>[](~building => \A k \in WorkloadKinds \cup {"Job"} :
            /\ DOMAIN snap[k] = DOMAIN api[k]
            /\ \A key \in DOMAIN api[k] :
                  ~OfCronJob(api[k][key]) => snap[k][key].total = TrueTotal(api[k][key]))

\* A selector of a Service or a PodDisruptionBudget selects the pods of w when
\* it selects the labels all of them carry.
Selects(o, w) ==
    /\ o.ns = w.ns
    /\ DOMAIN o.selector # {}
    /\ \A k \in DOMAIN o.selector : k \in DOMAIN w.selector /\ w.selector[k] = o.selector[k]

TrueTargets(o) ==
    {[kind |-> w.kind, key |-> Key(w)] : w \in {x \in UNION {Objects(k) : k \in WorkloadKinds} : Selects(o, x)}}

\* Once the cluster is quiet, a Service and a PodDisruptionBudget report
\* exactly the workloads whose pods they select (a label with an empty value
\* is left out: labelsMatch takes it for a missing one).
TargetsCatchUp ==
    <>[](~building => \A k \in {"Service", "PDB"} :
            [key \in DOMAIN snap[k] |-> snap[k][key].targets]
                = [key \in DOMAIN api[k] |-> TrueTargets(api[k][key])])

------------------------------------------------------------------------------
(* What the tests and the comments say and the code does not do.            *)

\* aggregation.go falls back to a Job's template "when no live pods remain", and its test
\* says "live aggregate must win over spec fallback".  So the Job of a CronJob, too, comes
\* to report what its pods request.  But ownership.go has already moved those pods to the
\* CronJob, where no total is reported, and the template stands in for pods that live.
LivePodsTrump ==
    <>[](~building => \A key \in DOMAIN snap["Job"] \cap DOMAIN api["Job"] :
            OfCronJob(api["Job"][key]) => snap["Job"][key].total = TrueTotal(api["Job"][key]))
=============================================================================
