---------------------------- MODULE MCWorkloads ----------------------------
(***************************************************************************)
(* Small clusters: namesakes in two namespaces, a CronJob and Jobs with    *)
(* and without pods, Services and PodDisruptionBudgets over workloads, and *)
(* pods without a workload.                                                *)
(***************************************************************************)
EXTENDS Workloads

Owner(kind, name, uid) == [kind |-> kind, name |-> name, uid |-> uid]
Obj(kind, ns, name, uid, owners, selector, containers) ==
    [kind |-> kind, ns |-> ns, name |-> name, uid |-> uid, owners |-> owners,
     selector |-> selector, containers |-> containers, phase |-> "Running"]
NoLabels == [k \in {} |-> ""]
One == <<[cpu |-> 1, mem |-> 1]>>
Two == <<[cpu |-> 1], [cpu |-> 1, mem |-> 1]>>

\* Namesakes: the pods of both ReplicaSets are called p, the sets r.
Namesakes ==
    [start |-> {Obj("Deployment", "a", "d", 1, <<>>, [app |-> "x"], <<>>),
                Obj("ReplicaSet", "a", "r", 2, <<Owner("Deployment", "d", 1)>>, NoLabels, <<>>),
                Obj("Pod", "a", "p", 3, <<Owner("ReplicaSet", "r", 2)>>, NoLabels, One),
                Obj("ReplicaSet", "b", "r", 4, <<Owner("Rollout", "x", 9)>>, NoLabels, <<>>),
                Obj("Pod", "b", "p", 5, <<Owner("ReplicaSet", "r", 4)>>, NoLabels, Two)},
     later |-> {}]

\* A Job below a CronJob and another one on its own; the pod of the first
\* requests more than the template says.
Batch ==
    [start |-> {Obj("CronJob", "a", "c", 1, <<>>, NoLabels, One),
                Obj("Job", "a", "j", 2, <<Owner("Workflow", "w", 9), Owner("CronJob", "c", 1)>>, NoLabels, One),
                Obj("Pod", "a", "p", 3, <<Owner("Job", "j", 2)>>, NoLabels, Two),
                Obj("Job", "a", "k", 4, <<>>, NoLabels, One)},
     later |-> {Obj("Pod", "a", "q", 5, <<Owner("Job", "k", 4)>>, NoLabels, Two)}]

\* A Deployment and a StatefulSet with the same name, and who selects them.
Selectors ==
    [start |-> {Obj("Deployment", "a", "d", 1, <<>>, [app |-> "x", tier |-> "y"], <<>>),
                Obj("StatefulSet", "a", "d", 2, <<>>, [app |-> "x"], <<>>),
                Obj("Pod", "a", "p", 3, <<Owner("StatefulSet", "d", 2)>>, NoLabels, One),
                Obj("Service", "a", "v", 4, <<>>, [app |-> "x"], <<>>),
                Obj("Service", "b", "v", 5, <<>>, [app |-> "x"], <<>>)},
     later |-> {Obj("PDB", "a", "b", 6, <<>>, [tier |-> "y"], <<>>)}]

\* A DaemonSet, a static pod, a pod of its own, a Service without a selector.
Singles ==
    [start |-> {Obj("DaemonSet", "a", "g", 1, <<>>, [app |-> "g"], <<>>),
                Obj("Pod", "a", "p", 2, <<Owner("DaemonSet", "g", 1)>>, NoLabels, One),
                Obj("Pod", "a", "q", 3, <<Owner("Node", "n", 9)>>, NoLabels, One)},
     later |-> {Obj("Pod", "a", "s", 4, <<>>, NoLabels, One),
                Obj("Service", "a", "v", 5, <<>>, NoLabels, <<>>)}]

MCScenarios == {Namesakes, Batch, Selectors, Singles}
MCBatch == {Batch}
=============================================================================
