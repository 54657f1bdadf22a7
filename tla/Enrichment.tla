----------------------------- MODULE Enrichment -----------------------------
(***************************************************************************)
(* internal/convert and internal/enrichment as far as workloads go: what   *)
(* the conversions keep of an object, whose pods a workload counts, and    *)
(* which workloads a Service or a PodDisruptionBudget targets.             *)
(*                                                                         *)
(* A snapshot maps a kind to the items read from its store, which map a    *)
(* key <<namespace, name>> to what the conversion kept. An object of the   *)
(* API is a record with its owners, labels and containers; labels, and the *)
(* requests of a container, are functions over the keys that are set. Of   *)
(* the six sums of a workload the two requests are kept: the limits are    *)
(* summed the same way.                                                    *)
(***************************************************************************)
EXTENDS Integers, Sequences, FiniteSets, SequencesExt

CONSTANT maxOwnerDepth      \* hops of resolveOwner

ASSUME DepthAssumption == maxOwnerDepth \in Nat

Resources == {"cpu", "mem"}
Zero == [r \in Resources |-> 0]

\* The sum of the requests f[i], resource by resource.
SumRequests(f) == [r \in Resources |-> SumFunction([i \in DOMAIN f |-> f[i][r]])]

NoOwner == [kind |-> "", name |-> "", uid |-> 0]

------------------------------------------------------------------------------
(* Conversions.                                                             *)

\* A request that is not set is 0.
quantityValue(list, name) == IF name \in DOMAIN list THEN list[name] ELSE 0
Requests(container) == [r \in Resources |-> quantityValue(container, r)]

\* The containers of a pod come from its spec, with a status or without.
convertContainers(specs) == [i \in DOMAIN specs |-> Requests(specs[i])]
extractContainerSpecs(containers) == [i \in DOMAIN containers |-> Requests(containers[i])]

FirstOwner(o) == IF o.owners = <<>> THEN NoOwner ELSE o.owners[1]

PodToModel(o) ==
    [owner |-> FirstOwner(o), phase |-> o.phase,
     containers |-> convertContainers(o.containers)]

ReplicaSetToModel(o) == [owner |-> FirstOwner(o)]

\* The first owner that is a CronJob, by name: its UID is not kept.
JobToModel(o) ==
    LET cronJobs == {i \in DOMAIN o.owners : o.owners[i].kind = "CronJob"}
    IN [ownerCronJob |-> IF cronJobs = {} THEN "" ELSE o.owners[Min(cronJobs)].name,
        specs |-> extractContainerSpecs(o.containers), total |-> Zero]

CronJobToModel(o) == [uid |-> o.uid]

\* MatchLabels only: the matchExpressions of a selector are not used.
DeploymentToModel(o) == [selector |-> o.selector, total |-> Zero]
StatefulSetToModel(o) == [selector |-> o.selector, total |-> Zero]
DaemonSetToModel(o) == [selector |-> o.selector, total |-> Zero]
PDBToModel(o) == [selector |-> o.selector, targets |-> {}]
ServiceToModel(o) == [selector |-> o.selector, targets |-> {}]

------------------------------------------------------------------------------
(* OwnershipEnricher.  The maps are keyed by namespace and name.            *)

\* Mutant: the maps are keyed by the name alone.
MutHopAnyNamespace(s, ns, o) ==
    LET same == {key \in DOMAIN s["ReplicaSet"] : key[2] = o.name} IN
    IF o.kind = "ReplicaSet" /\ same # {}
       THEN LET rs == s["ReplicaSet"][CHOOSE key \in same : TRUE]
            IN IF rs.owner.kind = "" THEN o ELSE rs.owner
       ELSE o

\* Mutant: a hop keeps the UID of the object it started from.
MutHopKeepsUID(s, ns, o) ==
    LET key == <<ns, o.name>> IN
    IF o.kind = "ReplicaSet" /\ key \in DOMAIN s["ReplicaSet"]
          /\ s["ReplicaSet"][key].owner.kind # ""
       THEN [s["ReplicaSet"][key].owner EXCEPT !.uid = o.uid]
       ELSE o

\* One pass of the loop of resolveOwner; the owner itself when it is not resolved.
Hop(s, ns, o) ==
    LET key == <<ns, o.name>>
        cronJob == <<ns, s["Job"][key].ownerCronJob>>
    IN CASE o.kind = "ReplicaSet" /\ key \in DOMAIN s["ReplicaSet"]
               /\ s["ReplicaSet"][key].owner.kind # "" ->
                 s["ReplicaSet"][key].owner
         [] o.kind = "Job" /\ key \in DOMAIN s["Job"] /\ s["Job"][key].ownerCronJob # "" ->
                 [kind |-> "CronJob", name |-> cronJob[2],
                  uid |-> IF cronJob \in DOMAIN s["CronJob"]
                             THEN s["CronJob"][cronJob].uid ELSE o.uid]
         [] OTHER -> o

\* after[n] holds the one owner the loop has come to in n passes.
resolveOwner(s, ns, owner) ==
    LET after[n \in 0 .. maxOwnerDepth] ==
            IF n = 0 THEN {owner} ELSE {Hop(s, ns, o) : o \in after[n - 1]}
    IN IF owner.kind \in {"", "Node"} THEN owner ELSE CHOOSE o \in after[maxOwnerDepth] : TRUE

ResolveOwners(s) ==
    [s EXCEPT !["Pod"] = [p \in DOMAIN @ |->
        [s["Pod"][p] EXCEPT !.owner = resolveOwner(s, p[1], @)]]]

------------------------------------------------------------------------------
(* AggregationEnricher.                                                     *)

isBatchOwnerKind(kind) == kind \in {"Job", "CronJob"}

Counted(pod) ==
    /\ pod.owner.kind # ""
    /\ isBatchOwnerKind(pod.owner.kind) \/ pod.phase \notin {"Succeeded", "Failed"}

sumContainerSpecRequests(specs) == SumRequests(specs)

\* Mutant: pods are grouped by the name of their owner, not by its kind.
MutPodsByName(pods, kind, key) ==
    {p \in DOMAIN pods : Counted(pods[p]) /\ p[1] = key[1] /\ pods[p].owner.name = key[2]}

podsByWorkload(pods, kind, key) ==
    {p \in DOMAIN pods : /\ Counted(pods[p])
                         /\ p[1] = key[1]
                         /\ pods[p].owner.kind = kind
                         /\ pods[p].owner.name = key[2]}

sumPodResources(pods, keys) ==
    SumRequests([p \in keys |-> sumContainerSpecRequests(pods[p].containers)])

Totals(s, kind) ==
    [key \in DOMAIN s[kind] |->
        [s[kind][key] EXCEPT !.total =
            sumPodResources(s["Pod"], podsByWorkload(s["Pod"], kind, key))]]

\* The template of the Job stands in when its pods request nothing.
JobTotals(s) ==
    [key \in DOMAIN s["Job"] |->
        LET job == s["Job"][key]
            sum == sumPodResources(s["Pod"], podsByWorkload(s["Pod"], "Job", key))
        IN [job EXCEPT !.total = IF sum = Zero /\ job.specs # <<>>
                                    THEN sumContainerSpecRequests(job.specs) ELSE sum]]

Aggregate(s) ==
    [s EXCEPT !["Deployment"] = Totals(s, "Deployment"),
              !["StatefulSet"] = Totals(s, "StatefulSet"),
              !["DaemonSet"] = Totals(s, "DaemonSet"),
              !["Job"] = JobTotals(s)]

------------------------------------------------------------------------------
(* TargetsEnricher.                                                         *)

\* target[k] of a Go map: the empty string when k is not there.
Label(labels, k) == IF k \in DOMAIN labels THEN labels[k] ELSE ""

labelsMatch(selector, target) == \A k \in DOMAIN selector : Label(target, k) = selector[k]

\* The workloads with a selector.
collectWorkloads(s) ==
    UNION {{[kind |-> k, key |-> key] : key \in {x \in DOMAIN s[k] : DOMAIN s[k][x].selector # {}}} :
              k \in {"Deployment", "StatefulSet", "DaemonSet"}}

\* Mutant: the workloads of every namespace.
MutMatchAllNamespaces(s, ns, selector) ==
    {w \in collectWorkloads(s) : labelsMatch(selector, s[w.kind][w.key].selector)}

matchWorkloads(s, ns, selector) ==
    {w \in collectWorkloads(s) : /\ w.key[1] = ns
                                 /\ labelsMatch(selector, s[w.kind][w.key].selector)}

\* A selector without labels is skipped: it leaves the targets as they are.
Targets(s, kind) ==
    [key \in DOMAIN s[kind] |->
        IF DOMAIN s[kind][key].selector = {} THEN s[kind][key]
        ELSE [s[kind][key] EXCEPT !.targets =
                 matchWorkloads(s, key[1], s[kind][key].selector)]]

MatchTargets(s) ==
    [s EXCEPT !["PDB"] = Targets(s, "PDB"), !["Service"] = Targets(s, "Service")]

------------------------------------------------------------------------------
(* Build, Steps 4 and 5: ownership first, then the pipeline (its last       *)
(* enricher, mounts, does nothing), then the summary's sums over the pods.  *)

\* Mutant: the pipeline runs before ownership is resolved.
MutEnrichOwnersLast(s) == ResolveOwners(MatchTargets(Aggregate(s)))

Enrich(s) == MatchTargets(Aggregate(ResolveOwners(s)))

\* ComputeSummary: what all the pods request, finished ones included.
TotalRequested(s) == sumPodResources(s["Pod"], DOMAIN s["Pod"])
=============================================================================
