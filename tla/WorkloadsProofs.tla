--------------------------- MODULE WorkloadsProofs ---------------------------
(***************************************************************************)
(* Proofs about Workloads. The owners a snapshot reports are real, and no  *)
(* pod is counted for two workloads, whatever moments Build read the       *)
(* stores at and however often a name was used again. A store whose        *)
(* informer has handed over all its events is the cluster as it is; and a  *)
(* Build that has read the cluster as it is reports the targets and the    *)
(* totals that the labels and the UIDs of the cluster give.                *)
(*                                                                         *)
(* What holds all the time is that every item of a store, and of a         *)
(* snapshot while Build reads, is the conversion of an object there has    *)
(* been, of that kind and key (StoreInv). The owners of such objects are   *)
(* there too (PastInv). The newest event of a queue about a key tells what *)
(* the cluster holds at that key, and where there is none the store does   *)
(* (FollowInv).                                                            *)
(***************************************************************************)
EXTENDS Workloads, SumProofs, SequenceTheorems

Templates == scenario.start \cup scenario.later

\* An object changes in its phase only.
Versions(objects) == {[x EXCEPT !.phase = phase] : x \in objects, phase \in Phases}

ItemsOf(objects, f, k) ==
    \A key \in DOMAIN f : \E o \in Versions(objects) : Is(o, k, key) /\ f[key] = ToModel(k, o)

EventsOf(objects, k) == [op : {"set", "delete"}, object : {o \in Versions(objects) : o.kind = k}]

OwnersThere(objects) ==
    \A x \in objects : \A i \in DOMAIN x.owners : Refers(objects, x, x.owners[i])

Consistent(objects) ==
    \A x, y \in objects : x.kind = y.kind /\ Key(x) = Key(y) => SameOwners(x, y)

\* The inductive invariant.
PastInv ==
    /\ scenario \in Scenarios /\ events \in Nat
    /\ IsFiniteSet(past)
    /\ \A x \in past : IsObject(x)
    /\ OwnersThere(past)
    /\ Consistent(past \cup Templates)

ClusterInv ==
    /\ DOMAIN api = Kinds /\ DOMAIN queue = Kinds
    /\ \A k \in Kinds : \A key \in DOMAIN api[k] :
          api[k][key] \in Versions(past) /\ Is(api[k][key], k, key)
    /\ \A k \in Kinds : queue[k] \in Seq(EventsOf(past, k))

StoreInv ==
    /\ DOMAIN store = Kinds /\ DOMAIN snap = Kinds
    /\ \A k \in Kinds : ItemsOf(past, store[k], k)
    /\ building => \A k \in Kinds : ItemsOf(past, snap[k], k)
    /\ unread # {} => building

Inv == PastInv /\ ClusterInv /\ StoreInv

------------------------------------------------------------------------------
(* Objects and their versions.                                              *)

LEMMA VersionFacts ==
    ASSUME NEW objects, \A x \in objects : IsObject(x), NEW o \in Versions(objects)
    PROVE  /\ IsObject(o)
           /\ \E x \in objects : /\ o.kind = x.kind /\ Key(o) = Key(x) /\ o.uid = x.uid
                                 /\ o.ns = x.ns /\ o.name = x.name
                                 /\ o.owners = x.owners /\ o.containers = x.containers
<1>1. PICK x \in objects, phase \in Phases : o = [x EXCEPT !.phase = phase]
  BY DEF Versions
<1>2. x = [f \in ObjectFields |-> x[f]] /\ IsObject(x)
  BY DEF IsObject
<1>3. /\ o.kind = x.kind /\ o.uid = x.uid /\ o.ns = x.ns /\ o.name = x.name
      /\ o.owners = x.owners /\ o.containers = x.containers /\ o.phase = phase
      /\ o = [f \in ObjectFields |-> o[f]]
  BY <1>1, <1>2 DEF ObjectFields
<1>4. IsObject(o)
  BY <1>2, <1>3 DEF IsObject
<1> QED
  BY <1>3, <1>4 DEF Key

LEMMA OwnVersion ==
    ASSUME NEW objects, NEW o \in objects, IsObject(o)
    PROVE  o \in Versions(objects)
<1>1. o = [f \in ObjectFields |-> o[f]] /\ o.phase \in Phases
  BY DEF IsObject
<1>2. o = [o EXCEPT !.phase = o.phase]
  BY <1>1 DEF ObjectFields
<1> QED
  BY <1>1, <1>2 DEF Versions

LEMMA NewVersion ==
    ASSUME NEW objects, \A x \in objects : IsObject(x), NEW o \in Versions(objects),
           NEW phase \in Phases
    PROVE  [o EXCEPT !.phase = phase] \in Versions(objects)
<1>1. PICK x \in objects, old \in Phases : o = [x EXCEPT !.phase = old]
  BY DEF Versions
<1>2. x = [f \in ObjectFields |-> x[f]]
  BY DEF IsObject
<1>3. [o EXCEPT !.phase = phase] = [x EXCEPT !.phase = phase]
  BY <1>1, <1>2 DEF ObjectFields
<1> QED
  BY <1>3 DEF Versions

LEMMA MoreVersions ==
    ASSUME NEW objects, NEW more, objects \subseteq more
    PROVE  Versions(objects) \subseteq Versions(more)
BY DEF Versions

LEMMA MoreItems ==
    ASSUME NEW objects, NEW more, objects \subseteq more, NEW f, NEW k, ItemsOf(objects, f, k)
    PROVE  ItemsOf(more, f, k)
BY MoreVersions DEF ItemsOf

LEMMA MoreEvents ==
    ASSUME NEW objects, NEW more, objects \subseteq more, NEW k, NEW q \in Seq(EventsOf(objects, k))
    PROVE  q \in Seq(EventsOf(more, k))
<1>1. EventsOf(objects, k) \subseteq EventsOf(more, k)
  BY MoreVersions DEF EventsOf
<1> QED
  BY <1>1, SeqMonotonic

------------------------------------------------------------------------------
(* What is above an object.                                                 *)

LEMMA AboveDirect ==
    ASSUME NEW objects, NEW o
    PROVE  Direct(objects, o) \subseteq Above(objects, o)
BY DEF Direct, Above, Closed

LEMMA AboveAgain ==
    ASSUME NEW objects, NEW o, NEW x \in Above(objects, o)
    PROVE  Direct(objects, x) \subseteq Above(objects, o)
BY DEF Direct, Above, Closed

LEMMA MoreAbove ==
    ASSUME NEW objects, NEW more, objects \subseteq more, NEW o
    PROVE  Above(objects, o) \subseteq Above(more, o)
<1> SUFFICES ASSUME NEW y \in Above(objects, o), NEW S \in SUBSET more, Closed(more, o, S)
             PROVE  y \in S
  BY DEF Above
<1> DEFINE R == S \cap objects
<1>1. \A x : Direct(objects, x) \subseteq Direct(more, x) \cap objects
  BY DEF Direct
<1>2. Closed(objects, o, R)
  BY <1>1 DEF Closed
<1>3. R \in SUBSET objects
  OBVIOUS
<1> HIDE DEF R
<1>4. y \in R
  BY <1>2, <1>3 DEF Above
<1> QED
  BY <1>4 DEF R

------------------------------------------------------------------------------
(* resolveOwner: the passes of its loop, one after the other.               *)

Path(a, s, ns, owner) ==
    /\ a[0] = owner
    /\ \A n \in Nat : n < maxOwnerDepth => a[n + 1] = Hop(s, ns, a[n])

LEMMA ResolvePath ==
    ASSUME NEW s, NEW ns, NEW owner
    PROVE  \E a : /\ Path(a, s, ns, owner)
                  /\ resolveOwner(s, ns, owner)
                        = IF owner.kind \in {"", "Node"} THEN owner ELSE a[maxOwnerDepth]
<1> DEFINE Pass(a, n) == IF n = 0 THEN {owner} ELSE {Hop(s, ns, o) : o \in a[n - 1]}
           IsAfter(a, d) == a = [n \in 0 .. d |-> Pass(a, n)]
           P == {d \in Nat : \E a : IsAfter(a, d)}
           after == CHOOSE a : IsAfter(a, maxOwnerDepth)
<1>1. 0 \in P
  <2> DEFINE a == [n \in 0 .. 0 |-> {owner}]
  <2>1. IsAfter(a, 0)
    OBVIOUS
  <2> QED
    BY <2>1
<1>2. ASSUME NEW d \in Nat, d \in P PROVE d + 1 \in P
  <2>1. PICK a : IsAfter(a, d)
    BY <1>2
  <2> DEFINE b == [n \in 0 .. d + 1 |-> Pass(a, n)]
  <2>2. \A n \in 0 .. d : b[n] = a[n]
    <3>1. \A n \in 0 .. d : a[n] = Pass(a, n)
      BY <2>1
    <3> HIDE DEF Pass
    <3> QED BY <3>1
  <2>3. ASSUME NEW n \in 0 .. d + 1 PROVE Pass(b, n) = Pass(a, n)
    <3>1. CASE n = 0
      BY <3>1
    <3>2. CASE n # 0
      <4>1. n - 1 \in 0 .. d
        BY <3>2
      <4> HIDE DEF b
      <4> QED BY <2>2, <3>2, <4>1
    <3> QED
      BY <3>1, <3>2
  <2>4. IsAfter(b, d + 1)
    <3> HIDE DEF Pass
    <3> QED BY <2>3
  <2> HIDE DEF b, IsAfter
  <2>5. \E c : IsAfter(c, d + 1)
    BY <2>4
  <2> QED
    BY <2>5
<1>3. IsAfter(after, maxOwnerDepth)
  <2>1. maxOwnerDepth \in P
    <3> HIDE DEF P
    <3>1. Nat \subseteq P
      BY <1>1, <1>2, NumberInduction
    <3> QED
      BY <3>1, DepthAssumption
  <2>2. \E a : IsAfter(a, maxOwnerDepth)
    BY <2>1
  <2> HIDE DEF IsAfter
  <2> QED
    BY <2>2
<1> HIDE DEF after
<1>4. \A n \in 0 .. maxOwnerDepth : after[n] = Pass(after, n)
  BY <1>3
<1>5. after[0] = {owner}
  <2>1. 0 \in 0 .. maxOwnerDepth
    BY DepthAssumption
  <2> QED
    BY <1>4, <2>1
<1>6. ASSUME NEW n \in Nat, n < maxOwnerDepth
      PROVE  after[n + 1] = {Hop(s, ns, o) : o \in after[n]}
  <2>1. n + 1 \in 0 .. maxOwnerDepth /\ n + 1 # 0 /\ (n + 1) - 1 = n
    BY <1>6, DepthAssumption
  <2>2. Pass(after, n + 1) = {Hop(s, ns, o) : o \in after[(n + 1) - 1]}
    BY <2>1
  <2> HIDE DEF Pass
  <2> QED
    BY <1>4, <2>1, <2>2
<1> DEFINE only(S) == CHOOSE o \in S : TRUE
           Q == {n \in Nat : n <= maxOwnerDepth => after[n] = {only(after[n])}}
<1>7. 0 \in Q
  BY <1>5
<1>8. ASSUME NEW n \in Nat, n \in Q PROVE n + 1 \in Q
  <2> SUFFICES ASSUME n + 1 <= maxOwnerDepth PROVE after[n + 1] = {only(after[n + 1])}
    OBVIOUS
  <2>1. n < maxOwnerDepth /\ n <= maxOwnerDepth
    BY DepthAssumption
  <2>2. after[n] = {only(after[n])}
    BY <1>8, <2>1
  <2>3. after[n + 1] = {Hop(s, ns, only(after[n]))}
    BY <1>6, <2>1, <2>2
  <2> QED
    BY <2>3
<1>9. Nat \subseteq Q
  <2> HIDE DEF Q
  <2> QED BY <1>7, <1>8, NumberInduction
<1> DEFINE a == [n \in Nat |-> only(after[n])]
<1>10. \A n \in Nat : n <= maxOwnerDepth => after[n] = {a[n]}
  BY <1>9
<1> HIDE DEF a
<1>11. a[0] = owner
  BY <1>5, <1>10, DepthAssumption
<1>12. ASSUME NEW n \in Nat, n < maxOwnerDepth PROVE a[n + 1] = Hop(s, ns, a[n])
  <2>1. n <= maxOwnerDepth /\ n + 1 <= maxOwnerDepth /\ n + 1 \in Nat
    BY <1>12, DepthAssumption
  <2>2. after[n] = {a[n]} /\ after[n + 1] = {a[n + 1]}
    BY <1>10, <2>1
  <2> QED
    BY <1>6, <1>12, <2>2
<1>13. (CHOOSE o \in after[maxOwnerDepth] : TRUE) = a[maxOwnerDepth]
  BY <1>10, DepthAssumption
<1>14. resolveOwner(s, ns, owner)
         = IF owner.kind \in {"", "Node"} THEN owner ELSE CHOOSE o \in after[maxOwnerDepth] : TRUE
  BY DEF resolveOwner, after
<1>15. Path(a, s, ns, owner)
  BY <1>11, <1>12 DEF Path
<1> QED
  BY <1>13, <1>14, <1>15

------------------------------------------------------------------------------
(* What the conversions keep of the owners.                                 *)

LEMMA FirstOwnerFacts ==
    ASSUME NEW o, IsObject(o)
    PROVE  FirstOwner(o).kind # "" => 1 \in DOMAIN o.owners /\ FirstOwner(o) = o.owners[1]
<1>1. o.owners \in Seq(OwnerRefs)
  BY DEF IsObject
<1>2. CASE o.owners = <<>>
  BY <1>2 DEF FirstOwner, NoOwner
<1>3. CASE o.owners # <<>>
  <2>1. 1 \in DOMAIN o.owners /\ o.owners[1] \in OwnerRefs
    BY <1>1, <1>3
  <2> QED
    BY <1>3, <2>1 DEF FirstOwner
<1> QED
  BY <1>2, <1>3

LEMMA LeastIndex ==
    ASSUME NEW S \in SUBSET Nat, S # {}
    PROVE  Min(S) \in S
BY LeastNumber DEF Min

LEMMA OwnerCronJobFacts ==
    ASSUME NEW o, IsObject(o)
    PROVE  \/ /\ JobToModel(o).ownerCronJob = ""
              /\ \A i \in DOMAIN o.owners : o.owners[i].kind # "CronJob"
           \/ \E i \in DOMAIN o.owners : /\ o.owners[i].kind = "CronJob"
                                        /\ o.owners[i].name = JobToModel(o).ownerCronJob
<1> DEFINE cronJobs == {i \in DOMAIN o.owners : o.owners[i].kind = "CronJob"}
<1>1. JobToModel(o).ownerCronJob = IF cronJobs = {} THEN "" ELSE o.owners[Min(cronJobs)].name
  BY DEF JobToModel
<1>2. o.owners \in Seq(OwnerRefs)
  BY DEF IsObject
<1>4. cronJobs \in SUBSET Nat
  BY <1>2
<1>5. cronJobs # {} => Min(cronJobs) \in cronJobs
  <2> HIDE DEF cronJobs
  <2> QED BY <1>4, LeastIndex
<1>7. CASE cronJobs = {}
  BY <1>1, <1>7
<1>8. CASE cronJobs # {}
  <2>1. /\ Min(cronJobs) \in DOMAIN o.owners
        /\ o.owners[Min(cronJobs)].kind = "CronJob"
    BY <1>5, <1>8
  <2>2. JobToModel(o).ownerCronJob = o.owners[Min(cronJobs)].name
    BY <1>1, <1>8
  <2> HIDE DEF cronJobs
  <2> QED
    BY <2>1, <2>2
<1> QED
  BY <1>7, <1>8

------------------------------------------------------------------------------
(* What a snapshot holds before it is enriched.                             *)

World(objects) == (\A x \in objects : IsObject(x)) /\ OwnersThere(objects) /\ Consistent(objects)
Taken(objects, s) == DOMAIN s = Kinds /\ \A k \in Kinds : ItemsOf(objects, s[k], k)

LEMMA PodItem ==
    ASSUME NEW objects, World(objects), NEW s, Taken(objects, s), NEW p \in DOMAIN s["Pod"]
    PROVE  \E x \in objects : /\ Is(x, "Pod", p)
                              /\ s["Pod"][p] = [owner |-> FirstOwner(x), phase |-> s["Pod"][p].phase,
                                                containers |-> convertContainers(x.containers)]
<1>1. "Pod" \in Kinds
  BY DEF Kinds
<1>2. PICK o \in Versions(objects) : Is(o, "Pod", p) /\ s["Pod"][p] = ToModel("Pod", o)
  BY <1>1 DEF Taken, ItemsOf
<1>3. PICK x \in objects : /\ o.kind = x.kind /\ Key(o) = Key(x)
                           /\ o.owners = x.owners /\ o.containers = x.containers
  BY VersionFacts DEF World
<1>4. s["Pod"][p] = PodToModel(o)
  BY <1>2 DEF ToModel
<1>5. FirstOwner(o) = FirstOwner(x)
  BY <1>3 DEF FirstOwner
<1>6. s["Pod"][p] = [owner |-> FirstOwner(x), phase |-> o.phase,
                     containers |-> convertContainers(x.containers)]
  BY <1>3, <1>4, <1>5 DEF PodToModel
<1>7. s["Pod"][p].phase = o.phase
  BY <1>6
<1>8. Is(x, "Pod", p)
  BY <1>2, <1>3 DEF Is
<1> QED
  BY <1>6, <1>7, <1>8

LEMMA ReplicaSetItem ==
    ASSUME NEW objects, World(objects), NEW s, Taken(objects, s), NEW key \in DOMAIN s["ReplicaSet"]
    PROVE  \E x \in objects : Is(x, "ReplicaSet", key) /\ s["ReplicaSet"][key].owner = FirstOwner(x)
<1>1. "ReplicaSet" \in Kinds
  BY DEF Kinds
<1>2. PICK o \in Versions(objects) : Is(o, "ReplicaSet", key) /\ s["ReplicaSet"][key] = ToModel("ReplicaSet", o)
  BY <1>1 DEF Taken, ItemsOf
<1>3. PICK x \in objects : o.kind = x.kind /\ Key(o) = Key(x) /\ o.owners = x.owners
  BY VersionFacts DEF World
<1>4. s["ReplicaSet"][key] = ReplicaSetToModel(o)
  BY <1>2 DEF ToModel
<1> QED
  BY <1>2, <1>3, <1>4 DEF ReplicaSetToModel, FirstOwner, Is

LEMMA JobItem ==
    ASSUME NEW objects, World(objects), NEW s, Taken(objects, s), NEW key \in DOMAIN s["Job"]
    PROVE  \E x \in objects : /\ Is(x, "Job", key)
                              /\ s["Job"][key].ownerCronJob = JobToModel(x).ownerCronJob
<1>1. "Job" \in Kinds
  BY DEF Kinds
<1>2. PICK o \in Versions(objects) : Is(o, "Job", key) /\ s["Job"][key] = ToModel("Job", o)
  BY <1>1 DEF Taken, ItemsOf
<1>3. PICK x \in objects : o.kind = x.kind /\ Key(o) = Key(x) /\ o.owners = x.owners
  BY VersionFacts DEF World
<1>4. s["Job"][key] = JobToModel(o)
  BY <1>2 DEF ToModel
<1>5. JobToModel(o).ownerCronJob = JobToModel(x).ownerCronJob
  BY <1>3 DEF JobToModel
<1> QED
  BY <1>2, <1>3, <1>4, <1>5 DEF Is

LEMMA CronJobItem ==
    ASSUME NEW objects, World(objects), NEW s, Taken(objects, s), NEW key \in DOMAIN s["CronJob"]
    PROVE  \E x \in objects : Is(x, "CronJob", key) /\ s["CronJob"][key].uid = x.uid
<1>1. "CronJob" \in Kinds
  BY DEF Kinds
<1>2. PICK o \in Versions(objects) : Is(o, "CronJob", key) /\ s["CronJob"][key] = ToModel("CronJob", o)
  BY <1>1 DEF Taken, ItemsOf
<1>3. PICK x \in objects : o.kind = x.kind /\ Key(o) = Key(x) /\ o.uid = x.uid
  BY VersionFacts DEF World
<1>4. s["CronJob"][key] = CronJobToModel(o)
  BY <1>2 DEF ToModel
<1> QED
  BY <1>2, <1>3, <1>4 DEF CronJobToModel, Is

------------------------------------------------------------------------------
(* The owners that are real.                                                *)

RealOwner(objects, p, o) ==
    o.kind \in Kinds => \E pod \in objects : /\ Is(pod, "Pod", p)
                                         /\ \E x \in Above(objects, pod) : Is(x, o.kind, <<p[1], o.name>>)

RealUID(objects, s, p, o) ==
    o.kind \in Kinds =>
        \/ \E x \in objects : Is(x, o.kind, <<p[1], o.name>>) /\ x.uid = o.uid
        \/ o.kind = "CronJob" /\ <<p[1], o.name>> \notin DOMAIN s["CronJob"]

\* An owner of an object above a pod is above it.
LEMMA OwnerAbove ==
    ASSUME NEW objects, World(objects), NEW x \in objects, NEW i \in DOMAIN x.owners,
           x.owners[i].kind \in Kinds
    PROVE  \E y \in Direct(objects, x) : /\ Is(y, x.owners[i].kind, <<x.ns, x.owners[i].name>>)
                                         /\ y.uid = x.owners[i].uid
<1>1. PICK y \in objects : /\ Is(y, x.owners[i].kind, <<x.ns, x.owners[i].name>>)
                           /\ y.uid = x.owners[i].uid
  BY DEF World, OwnersThere, Refers
<1>2. y \in Direct(objects, x)
  BY <1>1 DEF Direct, ToSet
<1> QED
  BY <1>1, <1>2

LEMMA PodOwnerReal ==
    ASSUME NEW objects, World(objects), NEW s, Taken(objects, s), NEW p \in DOMAIN s["Pod"]
    PROVE  /\ RealOwner(objects, p, s["Pod"][p].owner)
           /\ RealUID(objects, s, p, s["Pod"][p].owner)
<1> DEFINE o == s["Pod"][p].owner
<1>1. PICK x \in objects : Is(x, "Pod", p) /\ o = FirstOwner(x)
  <2>1. PICK x \in objects : /\ Is(x, "Pod", p)
                             /\ s["Pod"][p] = [owner |-> FirstOwner(x), phase |-> s["Pod"][p].phase,
                                               containers |-> convertContainers(x.containers)]
    BY PodItem
  <2>2. o = FirstOwner(x)
    BY <2>1
  <2> QED
    BY <2>1, <2>2
<1> SUFFICES ASSUME o.kind \in Kinds
             PROVE  /\ \E y \in Above(objects, x) : Is(y, o.kind, <<p[1], o.name>>)
                    /\ \E y \in objects : Is(y, o.kind, <<p[1], o.name>>) /\ y.uid = o.uid
  BY <1>1 DEF RealOwner, RealUID
<1>2. o.kind # ""
  BY DEF Kinds
<1>3. IsObject(x)
  BY DEF World
<1>4. 1 \in DOMAIN x.owners /\ o = x.owners[1]
  BY <1>1, <1>2, <1>3, FirstOwnerFacts
<1>5. x.ns = p[1]
  BY <1>1 DEF Is, Key
<1>6. PICK y \in Direct(objects, x) : Is(y, o.kind, <<x.ns, o.name>>) /\ y.uid = o.uid
  BY <1>4, OwnerAbove
<1>7. y \in Above(objects, x)
  BY <1>6, AboveDirect
<1>8. y \in objects
  BY <1>6 DEF Direct
<1> HIDE DEF o
<1> QED
  BY <1>5, <1>6, <1>7, <1>8

\* A pass goes from an object above a pod to the owner that an object of the
\* same kind and name has: theirs have the same kinds and names.
LEMMA StepAbove ==
    ASSUME NEW objects, World(objects), NEW pod \in objects, NEW x \in Above(objects, pod),
           NEW z \in objects, z.kind = x.kind, Key(z) = Key(x), NEW i \in DOMAIN z.owners,
           z.owners[i].kind \in Kinds
    PROVE  \E y \in Above(objects, pod) : Is(y, z.owners[i].kind, <<x.ns, z.owners[i].name>>)
<1>1. x \in objects
  BY DEF Above
<1>2. SameOwners(z, x)
  BY <1>1 DEF World, Consistent
<1>3. /\ i \in DOMAIN x.owners /\ z.owners[i].kind = x.owners[i].kind
      /\ z.owners[i].name = x.owners[i].name
  BY <1>2 DEF SameOwners
<1>4. PICK y \in Direct(objects, x) : Is(y, x.owners[i].kind, <<x.ns, x.owners[i].name>>)
  BY <1>1, <1>3, OwnerAbove
<1>5. y \in Above(objects, pod)
  BY <1>4, AboveAgain
<1> QED
  BY <1>3, <1>4, <1>5

\* What a pass makes of an owner: that of a ReplicaSet, the CronJob of a Job,
\* or the owner it had.
HopTo(s, ns, o, h, key) ==
    \/ o.kind = "ReplicaSet" /\ key \in DOMAIN s["ReplicaSet"] /\ h = s["ReplicaSet"][key].owner
    \/ /\ o.kind = "Job" /\ key \in DOMAIN s["Job"] /\ s["Job"][key].ownerCronJob # ""
       /\ h.kind = "CronJob" /\ h.name = s["Job"][key].ownerCronJob
       /\ <<ns, h.name>> \in DOMAIN s["CronJob"] => h.uid = s["CronJob"][<<ns, h.name>>].uid
    \/ h = o

LEMMA HopCases ==
    ASSUME NEW s, NEW ns, NEW o
    PROVE  HopTo(s, ns, o, Hop(s, ns, o), <<ns, o.name>>)
<1> DEFINE h == Hop(s, ns, o)
           key == <<ns, o.name>>
<1> SUFFICES HopTo(s, ns, o, h, key)
  OBVIOUS
<1>1. CASE o.kind = "ReplicaSet" /\ key \in DOMAIN s["ReplicaSet"] /\ s["ReplicaSet"][key].owner.kind # ""
  BY <1>1 DEF Hop, HopTo
<1>2. CASE o.kind = "Job" /\ key \in DOMAIN s["Job"] /\ s["Job"][key].ownerCronJob # ""
  <2> DEFINE cronJob == <<ns, s["Job"][key].ownerCronJob>>
  <2>1. h = [kind |-> "CronJob", name |-> cronJob[2],
             uid |-> IF cronJob \in DOMAIN s["CronJob"] THEN s["CronJob"][cronJob].uid ELSE o.uid]
    BY <1>2 DEF Hop
  <2>2. cronJob[2] = s["Job"][key].ownerCronJob
    OBVIOUS
  <2>3. h.kind = "CronJob" /\ h.name = s["Job"][key].ownerCronJob
    BY <2>1, <2>2
  <2>4. cronJob = <<ns, h.name>>
    BY <2>3
  <2> HIDE DEF cronJob, h
  <2>5. cronJob \in DOMAIN s["CronJob"] => h.uid = s["CronJob"][cronJob].uid
    BY <2>1
  <2> QED
    BY <1>2, <2>3, <2>4, <2>5 DEF HopTo
<1>3. CASE /\ ~(o.kind = "ReplicaSet" /\ key \in DOMAIN s["ReplicaSet"] /\ s["ReplicaSet"][key].owner.kind # "")
           /\ ~(o.kind = "Job" /\ key \in DOMAIN s["Job"] /\ s["Job"][key].ownerCronJob # "")
  BY <1>3 DEF Hop, HopTo
<1> QED
  BY <1>1, <1>2, <1>3

LEMMA HopReal ==
    ASSUME NEW objects, World(objects), NEW s, Taken(objects, s), NEW p, NEW o,
           RealOwner(objects, p, o), RealUID(objects, s, p, o)
    PROVE  RealOwner(objects, p, Hop(s, p[1], o)) /\ RealUID(objects, s, p, Hop(s, p[1], o))
<1> DEFINE key == <<p[1], o.name>>
           h == Hop(s, p[1], o)
<1> SUFFICES ASSUME h.kind \in Kinds
             PROVE  RealOwner(objects, p, h) /\ RealUID(objects, s, p, h)
  BY DEF RealOwner, RealUID
<1>4. HopTo(s, p[1], o, h, key)
  BY HopCases
<1>5. key = <<p[1], o.name>>
  OBVIOUS
<1> HIDE DEF h, key
<1>1. CASE o.kind = "ReplicaSet" /\ key \in DOMAIN s["ReplicaSet"] /\ h = s["ReplicaSet"][key].owner
  <2>1. PICK z \in objects : Is(z, "ReplicaSet", key) /\ h = FirstOwner(z)
    BY <1>1, ReplicaSetItem
  <2>2. IsObject(z) /\ h.kind # ""
    BY DEF World, Kinds
  <2>3. 1 \in DOMAIN z.owners /\ h = z.owners[1]
    BY <2>1, <2>2, FirstOwnerFacts
  <2>4. z.ns = p[1] /\ z.kind = "ReplicaSet" /\ Key(z) = key
    BY <1>5, <2>1 DEF Is, Key
  <2>5. RealUID(objects, s, p, h)
    <3>1. PICK y \in Direct(objects, z) : Is(y, h.kind, <<z.ns, h.name>>) /\ y.uid = h.uid
      BY <2>3, OwnerAbove
    <3>2. y \in objects
      BY DEF Direct
    <3> QED
      BY <2>4, <3>1, <3>2 DEF RealUID
  <2>6. RealOwner(objects, p, h)
    <3>1. PICK pod \in objects : /\ Is(pod, "Pod", p)
                                 /\ \E x \in Above(objects, pod) : Is(x, "ReplicaSet", key)
      BY <1>1, <1>5 DEF RealOwner, Kinds
    <3>2. PICK x \in Above(objects, pod) : Is(x, "ReplicaSet", key)
      BY <3>1
    <3>3. x.kind = "ReplicaSet" /\ Key(x) = key /\ x.ns = p[1]
      BY <1>5, <3>2 DEF Is, Key
    <3>4. \E y \in Above(objects, pod) : Is(y, h.kind, <<x.ns, h.name>>)
      BY <2>3, <2>4, <3>3, StepAbove
    <3> QED
      BY <3>1, <3>3, <3>4 DEF RealOwner
  <2> QED
    BY <2>5, <2>6
<1>2. CASE o.kind = "Job" /\ key \in DOMAIN s["Job"] /\ s["Job"][key].ownerCronJob # ""
           /\ h.kind = "CronJob" /\ h.name = s["Job"][key].ownerCronJob
           /\ (<<p[1], h.name>> \in DOMAIN s["CronJob"] => h.uid = s["CronJob"][<<p[1], h.name>>].uid)
  <2>1. PICK z \in objects : Is(z, "Job", key) /\ h.name = JobToModel(z).ownerCronJob
    <3>1. key \in DOMAIN s["Job"] /\ h.name = s["Job"][key].ownerCronJob
      BY <1>2
    <3>2. PICK z \in objects : /\ Is(z, "Job", key)
                               /\ s["Job"][key].ownerCronJob = JobToModel(z).ownerCronJob
      BY <3>1, JobItem
    <3> QED
      BY <3>1, <3>2
  <2>2. IsObject(z)
    BY DEF World
  <2>3. PICK i \in DOMAIN z.owners : z.owners[i].kind = "CronJob" /\ z.owners[i].name = h.name
    BY <1>2, <2>1, <2>2, OwnerCronJobFacts
  <2>4. z.kind = "Job" /\ Key(z) = key
    BY <2>1 DEF Is, Key
  <2>5. "CronJob" \in Kinds /\ "Job" \in Kinds
    BY DEF Kinds
  <2>6. RealUID(objects, s, p, h)
    <3>1. CASE <<p[1], h.name>> \in DOMAIN s["CronJob"]
      <4>1. PICK x \in objects : Is(x, "CronJob", <<p[1], h.name>>)
                                 /\ s["CronJob"][<<p[1], h.name>>].uid = x.uid
        BY <3>1, CronJobItem
      <4> QED
        BY <1>2, <3>1, <4>1 DEF RealUID
    <3>2. CASE <<p[1], h.name>> \notin DOMAIN s["CronJob"]
      BY <1>2, <3>2 DEF RealUID
    <3> QED
      BY <3>1, <3>2
  <2>7. RealOwner(objects, p, h)
    <3>1. PICK pod \in objects : /\ Is(pod, "Pod", p)
                                 /\ \E x \in Above(objects, pod) : Is(x, "Job", key)
      BY <1>2, <1>5, <2>5 DEF RealOwner
    <3>2. PICK x \in Above(objects, pod) : Is(x, "Job", key)
      BY <3>1
    <3>3. x.kind = "Job" /\ Key(x) = key /\ x.ns = p[1]
      BY <1>5, <3>2 DEF Is, Key
    <3>4. \E y \in Above(objects, pod) : Is(y, "CronJob", <<x.ns, h.name>>)
      BY <2>3, <2>4, <2>5, <3>3, StepAbove
    <3> QED
      BY <1>2, <3>1, <3>3, <3>4 DEF RealOwner
  <2> QED
    BY <2>6, <2>7
<1>3. CASE h = o
  BY <1>3
<1> QED
  BY <1>1, <1>2, <1>3, <1>4 DEF h, HopTo

LEMMA ResolvedReal ==
    ASSUME NEW objects, World(objects), NEW s, Taken(objects, s), NEW p \in DOMAIN s["Pod"]
    PROVE  LET o == resolveOwner(s, p[1], s["Pod"][p].owner)
           IN  RealOwner(objects, p, o) /\ RealUID(objects, s, p, o)
<1> DEFINE owner == s["Pod"][p].owner
           Real(o) == RealOwner(objects, p, o) /\ RealUID(objects, s, p, o)
<1>1. PICK a : /\ Path(a, s, p[1], owner)
               /\ resolveOwner(s, p[1], owner)
                     = IF owner.kind \in {"", "Node"} THEN owner ELSE a[maxOwnerDepth]
  BY ResolvePath
<1>2. Real(owner)
  BY PodOwnerReal
<1> DEFINE P == {n \in Nat : n <= maxOwnerDepth => Real(a[n])}
<1>3. 0 \in P
  BY <1>1, <1>2 DEF Path
<1>4. ASSUME NEW n \in Nat, n \in P PROVE n + 1 \in P
  <2> SUFFICES ASSUME n + 1 <= maxOwnerDepth PROVE Real(a[n + 1])
    OBVIOUS
  <2>1. n < maxOwnerDepth /\ n <= maxOwnerDepth
    BY DepthAssumption
  <2>2. Real(a[n]) /\ a[n + 1] = Hop(s, p[1], a[n])
    BY <1>1, <1>4, <2>1 DEF Path
  <2> QED
    BY <2>2, HopReal
<1>5. Real(a[maxOwnerDepth])
  <2>1. Nat \subseteq P
    <3> HIDE DEF P
    <3> QED BY <1>3, <1>4, NumberInduction
  <2> QED
    BY <2>1, DepthAssumption
<1> QED
  BY <1>1, <1>2, <1>5

------------------------------------------------------------------------------
(* What Enrich leaves alone, and what it puts in.                           *)

LEMMA ResolvedPods ==
    ASSUME NEW s, DOMAIN s = Kinds
    PROVE  /\ DOMAIN ResolveOwners(s) = Kinds
           /\ ResolveOwners(s)["Pod"] = [p \in DOMAIN s["Pod"] |->
                 [s["Pod"][p] EXCEPT !.owner = resolveOwner(s, p[1], @)]]
           /\ \A k \in Kinds : k # "Pod" => ResolveOwners(s)[k] = s[k]
BY DEF ResolveOwners, Kinds

LEMMA EnrichFacts ==
    ASSUME NEW s, DOMAIN s = Kinds
    PROVE  /\ DOMAIN Enrich(s) = Kinds
           /\ Enrich(s)["Pod"] = ResolveOwners(s)["Pod"]
           /\ Enrich(s)["CronJob"] = s["CronJob"]
           /\ \A k \in WorkloadKinds : Enrich(s)[k] = Totals(ResolveOwners(s), k)
<1> DEFINE r == ResolveOwners(s)
           a == Aggregate(r)
<1>1. DOMAIN r = Kinds /\ r["CronJob"] = s["CronJob"]
  BY ResolvedPods DEF Kinds
<1> HIDE DEF r
<1>2. /\ DOMAIN a = Kinds /\ a["Pod"] = r["Pod"] /\ a["CronJob"] = r["CronJob"]
      /\ \A k \in WorkloadKinds : a[k] = Totals(r, k)
  BY <1>1 DEF Aggregate, Kinds, WorkloadKinds
<1> HIDE DEF a
<1>3. /\ DOMAIN MatchTargets(a) = Kinds
      /\ \A k \in WorkloadKinds \cup {"Pod", "CronJob"} : MatchTargets(a)[k] = a[k]
  BY <1>2 DEF MatchTargets, Kinds, WorkloadKinds
<1>4. Enrich(s) = MatchTargets(a)
  BY DEF Enrich, a, r
<1> QED
  BY <1>1, <1>2, <1>3, <1>4 DEF r

\* Keys are pairs, and finitely many.
LEMMA ItemKeys ==
    ASSUME NEW objects, World(objects), IsFiniteSet(objects), NEW f, NEW k, ItemsOf(objects, f, k)
    PROVE  /\ IsFiniteSet(DOMAIN f)
           /\ \A key \in DOMAIN f : key = <<key[1], key[2]>>
<1> DEFINE keys == {[y \in objects |-> Key(y)][x] : x \in objects}
<1>1. \A key \in DOMAIN f : \E x \in objects : key = Key(x)
  BY VersionFacts DEF ItemsOf, World, Is
<1>2. IsFiniteSet(keys)
  BY FiniteImage
<1>3. DOMAIN f \in SUBSET keys
  BY <1>1
<1>4. IsFiniteSet(DOMAIN f)
  <2> HIDE DEF keys
  <2> QED BY <1>2, <1>3, FS_Subset
<1> QED
  BY <1>1, <1>4 DEF Key

\* What a pod requests of a resource is a number.
LEMMA PodRequests ==
    ASSUME NEW x, IsObject(x), NEW r \in Resources
    PROVE  sumContainerSpecRequests(convertContainers(x.containers))[r] \in Nat
<1> DEFINE specs == convertContainers(x.containers)
           f == [i \in DOMAIN specs |-> specs[i][r]]
<1>1. DOMAIN specs = DOMAIN x.containers /\ IsFiniteSet(DOMAIN x.containers)
  BY DEF convertContainers, IsObject
<1>2. ASSUME NEW i \in DOMAIN specs PROVE f[i] \in Nat
  <2>1. f[i] = quantityValue(x.containers[i], r)
    BY DEF convertContainers, Requests
  <2>2. \A q \in DOMAIN x.containers[i] : x.containers[i][q] \in Nat
    BY <1>1 DEF IsObject
  <2> QED
    BY <2>1, <2>2 DEF quantityValue
<1>3. sumContainerSpecRequests(specs)[r] = SumFunctionOnSet(f, DOMAIN specs)
  BY DEF sumContainerSpecRequests, SumRequests, SumFunction
<1> HIDE DEF f, specs
<1>4. SumFunctionOnSet(f, DOMAIN specs) \in Nat
  BY <1>1, <1>2, SumNat
<1> QED
  BY <1>3, <1>4 DEF specs

------------------------------------------------------------------------------
(* No pod is counted twice.                                                 *)

LEMMA WorkloadKindsFinite == IsFiniteSet(WorkloadKinds)
<1>1. WorkloadKinds = ({"Deployment"} \cup {"StatefulSet"}) \cup {"DaemonSet"}
  BY DEF WorkloadKinds
<1>2. IsFiniteSet({"Deployment"} \cup {"StatefulSet"})
  BY FS_Singleton, FS_AddElement
<1> QED
  BY <1>1, <1>2, FS_AddElement

LEMMA EnrichedOnce ==
    ASSUME NEW objects, World(objects), IsFiniteSet(objects), NEW s, Taken(objects, s),
           NEW e, e = Enrich(s), NEW r \in Resources
    PROVE  SumFunction([k \in WorkloadKinds |->
                          SumFunction([key \in DOMAIN e[k] |-> e[k][key].total[r]])])
              <= TotalRequested(e)[r]
<1> DEFINE pods == e["Pod"]
           D == DOMAIN pods
           F == [p \in D |-> sumContainerSpecRequests(pods[p].containers)[r]]
           ofKind == [k \in WorkloadKinds |-> {p \in D : Counted(pods[p]) /\ pods[p].owner.kind = k}]
           total == [k \in WorkloadKinds |-> SumFunction([key \in DOMAIN e[k] |-> e[k][key].total[r]])]
<1>1. /\ DOMAIN s = Kinds /\ ItemsOf(objects, s["Pod"], "Pod")
      /\ \A k \in WorkloadKinds : ItemsOf(objects, s[k], k)
  BY DEF Taken, Kinds, WorkloadKinds
<1>2. D = DOMAIN s["Pod"] /\ \A p \in D : pods[p].containers = s["Pod"][p].containers
  <2>1. pods = [p \in DOMAIN s["Pod"] |-> [s["Pod"][p] EXCEPT !.owner = resolveOwner(s, p[1], @)]]
    BY <1>1, EnrichFacts, ResolvedPods
  <2>2. ASSUME NEW p \in DOMAIN s["Pod"] PROVE pods[p].containers = s["Pod"][p].containers
    <3>1. PICK x \in objects : s["Pod"][p] = [owner |-> FirstOwner(x), phase |-> s["Pod"][p].phase,
                                              containers |-> convertContainers(x.containers)]
      BY PodItem
    <3> QED
      BY <2>1, <3>1
  <2> QED
    BY <2>1, <2>2
<1>3. IsFiniteSet(D)
  BY <1>1, <1>2, ItemKeys
<1>4. ASSUME NEW p \in D PROVE F[p] \in Nat
  <2>1. PICK x \in objects : s["Pod"][p] = [owner |-> FirstOwner(x), phase |-> s["Pod"][p].phase,
                                            containers |-> convertContainers(x.containers)]
    BY <1>2, PodItem
  <2>2. pods[p].containers = convertContainers(x.containers)
    BY <1>2, <2>1
  <2> QED
    BY <2>2, PodRequests DEF World
<1>5. ASSUME NEW keys \in SUBSET D
      PROVE  sumPodResources(pods, keys)[r] = SumFunctionOnSet(F, keys)
  <2> DEFINE G == [p \in keys |-> sumContainerSpecRequests(pods[p].containers)]
             H == [p \in DOMAIN G |-> G[p][r]]
  <2>1. sumPodResources(pods, keys)[r] = SumFunctionOnSet(H, keys)
    BY DEF sumPodResources, SumRequests, SumFunction
  <2>2. \A p \in keys : H[p] = F[p]
    OBVIOUS
  <2>3. IsFiniteSet(keys)
    BY <1>3, FS_Subset
  <2> HIDE DEF H, F, D
  <2> QED
    BY <2>1, <2>2, <2>3, SumEqual
<1>6. ASSUME NEW k \in WorkloadKinds
      PROVE  total[k] \in Nat /\ total[k] <= SumFunctionOnSet(F, ofKind[k])
  <2> DEFINE K == DOMAIN s[k]
             part == [key \in K |-> podsByWorkload(pods, k, key)]
             inner == [key \in K |-> e[k][key].total[r]]
             E == ofKind[k]
  <2>1. IsFiniteSet(K) /\ \A key \in K : key = <<key[1], key[2]>>
    BY <1>1, ItemKeys
  <2>2. E \subseteq D /\ IsFiniteSet(E) /\ \A p \in E : F[p] \in Nat
    <3>1. E \in SUBSET D
      OBVIOUS
    <3> HIDE DEF E, D, F
    <3> QED BY <1>3, <1>4, <3>1, FS_Subset
  <2>3. ASSUME NEW key \in K
        PROVE  part[key] \subseteq E /\ inner[key] = SumFunctionOnSet(F, part[key])
    <3>1. part[key] \subseteq E
      BY DEF podsByWorkload
    <3>2. e[k] = Totals(ResolveOwners(s), k) /\ pods = ResolveOwners(s)["Pod"]
      BY <1>1, EnrichFacts
    <3>3. ResolveOwners(s)[k] = s[k]
      BY <1>1, ResolvedPods DEF Kinds, WorkloadKinds
    <3>4. e[k][key] = [s[k][key] EXCEPT !.total = sumPodResources(pods, part[key])]
      BY <3>2, <3>3 DEF Totals
    <3>5. s[k][key] = [selector |-> s[k][key].selector, total |-> Zero]
      <4>1. PICK o : s[k][key] = ToModel(k, o)
        BY <1>1 DEF ItemsOf
      <4> QED
        BY <4>1 DEF ToModel, WorkloadKinds, DeploymentToModel, StatefulSetToModel, DaemonSetToModel
    <3>6. e[k][key].total = sumPodResources(pods, part[key])
      BY <3>4, <3>5
    <3> HIDE DEF part, F, pods, E, D
    <3> QED
      BY <1>5, <2>2, <3>1, <3>6
  <2>4. \A key \in K : inner[key] \in Nat
    <3>1. ASSUME NEW key \in K PROVE SumFunctionOnSet(F, part[key]) \in Nat
      <4>1. IsFiniteSet(part[key]) /\ \A p \in part[key] : F[p] \in Nat
        <5> HIDE DEF part, E, F
        <5> QED BY <2>2, <2>3, FS_Subset
      <4> HIDE DEF part, F
      <4> QED BY <4>1, SumNat
    <3> HIDE DEF part, inner, F
    <3> QED BY <2>3, <3>1
  <2>5. \A j, key \in K : j # key => part[j] \cap part[key] = {}
    BY <2>1 DEF podsByWorkload
  <2>6. total[k] = SumFunctionOnSet(inner, K)
    <3>1. DOMAIN e[k] = K
      <4>1. e[k] = Totals(ResolveOwners(s), k)
        BY <1>1, EnrichFacts
      <4>2. ResolveOwners(s)[k] = s[k]
        BY <1>1, ResolvedPods DEF Kinds, WorkloadKinds
      <4> QED
        BY <4>1, <4>2 DEF Totals
    <3> QED
      BY <3>1 DEF SumFunction
  <2> HIDE DEF K, part, inner, E, F, total
  <2>7. total[k] \in Nat
    BY <2>1, <2>4, <2>6, SumNat
  <2>8. \A key \in K : inner[key] <= SumFunctionOnSet(F, part[key])
    BY <2>3, <2>4
  <2>9. SumFunctionOnSet(inner, K) <= SumFunctionOnSet(F, E)
    BY <2>1, <2>2, <2>3, <2>4, <2>5, <2>8, SumParts
  <2> QED
    BY <2>6, <2>7, <2>9 DEF E
<1>7. \A j, k \in WorkloadKinds : j # k => ofKind[j] \cap ofKind[k] = {}
  OBVIOUS
<1>8. \A k \in WorkloadKinds : ofKind[k] \subseteq D
  OBVIOUS
<1>9. TotalRequested(e)[r] = SumFunctionOnSet(F, D)
  BY <1>5 DEF TotalRequested
<1>10. SumFunction(total) = SumFunctionOnSet(total, WorkloadKinds)
  BY DEF SumFunction
<1> HIDE DEF total, ofKind, F, D
<1>11. SumFunctionOnSet(total, WorkloadKinds) <= SumFunctionOnSet(F, D)
  BY <1>3, <1>4, <1>6, <1>7, <1>8, WorkloadKindsFinite, SumParts
<1> QED
  BY <1>9, <1>10, <1>11 DEF total

------------------------------------------------------------------------------
(* The inductive invariant.                                                 *)

LEMMA PastWorld ==
    ASSUME PastInv
    PROVE  World(past) /\ IsFiniteSet(past)
BY DEF PastInv, World, Consistent

LEMMA TemplateFacts ==
    ASSUME PastInv, NEW o \in Templates
    PROVE  IsObject(o)
BY ScenarioAssumption DEF PastInv, Templates

\* The object that is created: its owners are those of the template, with the
\* UIDs of the objects that have their names now.
LEMMA ObjectFacts ==
    ASSUME PastInv, ClusterInv, NEW o \in Templates, NEW uid \in Int, NEW new,
           new = Object(api, o, uid),
           \A r \in Tracked(o) : <<o.ns, r.name>> \in DOMAIN api[r.kind]
    PROVE  /\ IsObject(new) /\ new.kind = o.kind /\ Key(new) = Key(o) /\ new.ns = o.ns
           /\ SameOwners(new, o)
           /\ \A i \in DOMAIN new.owners : Refers(past, new, new.owners[i])
<1> DEFINE refers(r) == [r EXCEPT !.uid = IF r.kind \in Kinds
                                             THEN api[r.kind][<<o.ns, r.name>>].uid ELSE @]
           owners == [i \in DOMAIN o.owners |-> refers(o.owners[i])]
<1>1. /\ IsObject(o) /\ o = [f \in ObjectFields |-> o[f]] /\ o.owners \in Seq(OwnerRefs)
  BY TemplateFacts DEF IsObject
<1>2. new = [o EXCEPT !.uid = uid, !.owners = owners]
  <2>1. o.owners = [o EXCEPT !.uid = uid].owners
    BY <1>1 DEF ObjectFields
  <2> QED
    BY <2>1 DEF Object
<1>3. /\ new = [f \in ObjectFields |-> new[f]]
      /\ new.kind = o.kind /\ new.ns = o.ns /\ new.name = o.name /\ new.phase = o.phase
      /\ new.uid = uid /\ new.owners = owners /\ new.containers = o.containers
  <2> HIDE DEF owners
  <2> QED BY <1>1, <1>2 DEF ObjectFields
<1>4. ASSUME NEW i \in DOMAIN o.owners
      PROVE  /\ o.owners[i] \in OwnerRefs /\ owners[i] \in OwnerRefs
             /\ owners[i].kind = o.owners[i].kind /\ owners[i].name = o.owners[i].name
             /\ o.owners[i].kind \in Kinds =>
                   /\ <<o.ns, owners[i].name>> \in DOMAIN api[owners[i].kind]
                   /\ owners[i].uid = api[owners[i].kind][<<o.ns, owners[i].name>>].uid
  <2> DEFINE r == o.owners[i]
  <2>1. r \in OwnerRefs
    BY <1>1
  <2>2. r.kind \in Kinds => <<o.ns, r.name>> \in DOMAIN api[r.kind]
    BY DEF Tracked, ToSet
  <2>3. owners[i] = refers(r)
    OBVIOUS
  <2> HIDE DEF owners, r
  <2>4. CASE r.kind \in Kinds
    <3> DEFINE a == api[r.kind][<<o.ns, r.name>>]
    <3>1. a \in Versions(past)
      BY <2>2, <2>4 DEF ClusterInv
    <3>2. a.uid \in Int
      BY <3>1, PastWorld, VersionFacts DEF World, IsObject
    <3> HIDE DEF a
    <3>3. owners[i] = [r EXCEPT !.uid = a.uid]
      BY <2>3, <2>4 DEF a
    <3>4. owners[i] \in OwnerRefs /\ owners[i].kind = r.kind /\ owners[i].name = r.name
          /\ owners[i].uid = a.uid
      BY <2>1, <3>2, <3>3 DEF OwnerRefs
    <3> QED
      BY <2>1, <2>2, <2>4, <3>4 DEF r, a
  <2>5. CASE r.kind \notin Kinds
    <3>1. owners[i] = [r EXCEPT !.uid = r.uid]
      BY <2>3, <2>5
    <3>2. owners[i] \in OwnerRefs /\ owners[i].kind = r.kind /\ owners[i].name = r.name
      BY <2>1, <3>1 DEF OwnerRefs
    <3> QED
      BY <2>1, <2>5, <3>2 DEF r
  <2> QED
    BY <2>4, <2>5
<1>5. DOMAIN owners = DOMAIN o.owners
  OBVIOUS
<1>6. owners \in Seq(OwnerRefs)
  <2>1. Len(o.owners) \in Nat /\ DOMAIN o.owners = 1 .. Len(o.owners)
    BY <1>1
  <2>2. owners \in [1 .. Len(o.owners) -> OwnerRefs]
    <3>1. owners = [i \in DOMAIN o.owners |-> owners[i]]
      OBVIOUS
    <3> HIDE DEF owners
    <3> QED BY <1>4, <2>1, <3>1
  <2> HIDE DEF owners
  <2> QED
    BY <2>1, <2>2
<1> HIDE DEF owners
<1>7. IsObject(new)
  BY <1>1, <1>3, <1>6 DEF IsObject
<1>8. SameOwners(new, o)
  BY <1>3, <1>4, <1>5 DEF SameOwners
<1>9. ASSUME NEW i \in DOMAIN new.owners, new.owners[i].kind \in Kinds
      PROVE  \E y \in past : /\ Is(y, new.owners[i].kind, <<new.ns, new.owners[i].name>>)
                             /\ y.uid = new.owners[i].uid
  <2> DEFINE key == <<o.ns, owners[i].name>>
             k == owners[i].kind
             a == api[k][key]
  <2>1. k \in Kinds /\ key \in DOMAIN api[k] /\ owners[i].uid = a.uid
    BY <1>3, <1>4, <1>5, <1>9
  <2>2. a \in Versions(past) /\ Is(a, k, key)
    BY <2>1 DEF ClusterInv
  <2>3. PICK y \in past : a.kind = y.kind /\ Key(a) = Key(y) /\ a.uid = y.uid
    BY <2>2, PastWorld, VersionFacts DEF World
  <2>4. Is(y, k, key) /\ y.uid = owners[i].uid
    BY <2>1, <2>2, <2>3 DEF Is
  <2> QED
    BY <1>3, <2>4
<1> QED
  BY <1>3, <1>7, <1>8, <1>9 DEF Key, Refers

LEMMA CreatePast ==
    ASSUME PastInv, ClusterInv, NEW o \in Templates, Create(o)
    PROVE  /\ PastInv'
           /\ \E new : /\ past' = past \cup {new} /\ IsObject(new) /\ Is(new, o.kind, Key(o))
                       /\ api' = [api EXCEPT ![o.kind] = Put(@, Key(o), new)]
                       /\ Report("set", new)
<1> DEFINE new == Object(api, o, 100 + events)
<1>1. /\ past' = past \cup {new} /\ Report("set", new) /\ scenario' = scenario /\ events' \in Nat
      /\ api' = [api EXCEPT ![o.kind] = Put(@, Key(o), new)] /\ 100 + events \in Int
      /\ \A r \in Tracked(o) : <<o.ns, r.name>> \in DOMAIN api[r.kind]
  BY DEF Create, ClusterChanges, BesidesCluster, PastInv
<1>2. /\ IsObject(new) /\ new.kind = o.kind /\ Key(new) = Key(o) /\ new.ns = o.ns
      /\ SameOwners(new, o)
      /\ \A i \in DOMAIN new.owners : Refers(past, new, new.owners[i])
  BY <1>1, ObjectFacts
<1> HIDE DEF new
<1>3. IsFiniteSet(past') /\ \A x \in past' : IsObject(x)
  BY <1>1, <1>2, FS_AddElement DEF PastInv
<1>4. OwnersThere(past)'
  <2>1. \A x, r : Refers(past, x, r) => Refers(past', x, r)
    BY <1>1 DEF Refers
  <2>2. \A x \in past' : \A i \in DOMAIN x.owners : Refers(past', x, x.owners[i])
    BY <1>1, <1>2, <2>1 DEF PastInv, OwnersThere
  <2> QED
    BY <2>2 DEF OwnersThere
<1>5. Consistent(past \cup Templates)'
  <2>1. Consistent(past \cup Templates) /\ o \in past \cup Templates
    BY DEF PastInv
  <2>2. \A y \in past \cup Templates : new.kind = y.kind /\ Key(new) = Key(y) =>
            SameOwners(new, y) /\ SameOwners(y, new)
    BY <1>2, <2>1 DEF Consistent, SameOwners
  <2>3. SameOwners(new, new)
    BY DEF SameOwners
  <2>4. (past \cup Templates)' = (past \cup Templates) \cup {new}
    BY <1>1 DEF Templates
  <2>5. Consistent((past \cup Templates) \cup {new})
    BY <2>1, <2>2, <2>3 DEF Consistent
  <2> QED
    BY <2>4, <2>5 DEF Consistent
<1>6. PastInv'
  BY <1>1, <1>3, <1>4, <1>5 DEF PastInv
<1>7. Is(new, o.kind, Key(o))
  BY <1>2 DEF Is
<1> QED
  BY <1>1, <1>2, <1>6, <1>7

\* Events that are reported are of versions of objects there have been.
LEMMA ReportQueue ==
    ASSUME DOMAIN queue = Kinds, NEW objects, NEW op \in {"set", "delete"}, NEW o \in Versions(objects),
           o.kind \in Kinds, \A k \in Kinds : queue[k] \in Seq(EventsOf(objects, k)), Report(op, o)
    PROVE  DOMAIN queue' = Kinds /\ \A k \in Kinds : queue'[k] \in Seq(EventsOf(objects, k))
<1> DEFINE e == [op |-> op, object |-> o]
<1>1. queue' = [queue EXCEPT ![o.kind] = Append(@, e)]
  BY DEF Report
<1>2. e \in EventsOf(objects, o.kind)
  BY DEF EventsOf
<1> HIDE DEF e
<1>3. Append(queue[o.kind], e) \in Seq(EventsOf(objects, o.kind))
  BY <1>2
<1> QED
  BY <1>1, <1>3

LEMMA CreateInv ==
    ASSUME Inv, NEW o \in Templates, Create(o)
    PROVE  Inv'
<1>1. PICK new : /\ past' = past \cup {new} /\ IsObject(new) /\ Is(new, o.kind, Key(o))
                 /\ api' = [api EXCEPT ![o.kind] = Put(@, Key(o), new)]
                 /\ Report("set", new)
  BY CreatePast DEF Inv
<1>2. PastInv'
  BY CreatePast DEF Inv
<1>3. past \subseteq past' /\ new \in Versions(past') /\ new.kind = o.kind /\ o.kind \in Kinds
  <2>1. new \in past' /\ past \subseteq past'
    BY <1>1
  <2>2. new \in Versions(past')
    BY <1>1, <2>1, OwnVersion
  <2> QED
    BY <1>1, <2>1, <2>2 DEF Is, IsObject
<1>4. \A k \in Kinds : queue[k] \in Seq(EventsOf(past', k))
  BY <1>3, MoreEvents DEF Inv, ClusterInv
<1>5. DOMAIN queue' = Kinds /\ \A k \in Kinds : queue'[k] \in Seq(EventsOf(past', k))
  BY <1>1, <1>3, <1>4, ReportQueue DEF Inv, ClusterInv
<1>6. ASSUME NEW k \in Kinds, NEW key \in DOMAIN api'[k]
      PROVE  api'[k][key] \in Versions(past') /\ Is(api'[k][key], k, key)
  <2>1. \A j \in DOMAIN api[k] : api[k][j] \in Versions(past') /\ Is(api[k][j], k, j)
    BY <1>3, MoreVersions DEF Inv, ClusterInv
  <2>2. CASE k = o.kind
    <3>1. api'[k] = Put(api[k], Key(o), new)
      BY <1>1, <2>2 DEF Inv, ClusterInv
    <3>2. CASE key = Key(o)
      BY <1>1, <1>3, <2>2, <3>1, <3>2 DEF Put
    <3>3. CASE key # Key(o)
      BY <2>1, <3>1, <3>3 DEF Put
    <3> QED
      BY <3>2, <3>3
  <2>3. CASE k # o.kind
    BY <1>1, <2>1, <2>3 DEF Inv, ClusterInv
  <2> QED
    BY <2>2, <2>3
<1>7. DOMAIN api' = Kinds
  BY <1>1 DEF Inv, ClusterInv
<1>8. ClusterInv'
  BY <1>5, <1>6, <1>7 DEF ClusterInv
<1>9. UNCHANGED <<store, unread, building, snap>>
  BY DEF Create, BesidesCluster, buildVars
<1>10. StoreInv'
  <2>1. \A k \in Kinds : /\ ItemsOf(past', store[k], k)
                         /\ building => ItemsOf(past', snap[k], k)
    BY <1>3, MoreItems DEF Inv, StoreInv
  <2> QED
    BY <1>9, <2>1 DEF Inv, StoreInv
<1> QED
  BY <1>2, <1>8, <1>10 DEF Inv

LEMMA EraseInv ==
    ASSUME Inv, NEW k \in Kinds, NEW key \in DOMAIN api[k], Erase(api[k][key]), events' \in Nat
    PROVE  Inv'
<1> DEFINE o == api[k][key]
<1>1. o \in Versions(past) /\ o.kind = k /\ Key(o) = key
  BY DEF Inv, ClusterInv, Is
<1>2. /\ api' = [api EXCEPT ![k] = Without(@, key)] /\ Report("delete", o)
      /\ UNCHANGED <<past, scenario, store, unread, building, snap>>
  BY <1>1 DEF Erase, BesidesCluster, buildVars
<1> HIDE DEF o
<1>3. PastInv'
  BY <1>2 DEF Inv, PastInv, Templates, Consistent, OwnersThere
<1>4. DOMAIN queue' = Kinds /\ \A j \in Kinds : queue'[j] \in Seq(EventsOf(past, j))
  BY <1>1, <1>2, ReportQueue DEF Inv, ClusterInv
<1>5. ASSUME NEW j \in Kinds, NEW x \in DOMAIN api'[j]
      PROVE  api'[j][x] \in Versions(past) /\ Is(api'[j][x], j, x)
  <2>1. x \in DOMAIN api[j] /\ api'[j][x] = api[j][x]
    BY <1>2 DEF Inv, ClusterInv, Without
  <2> QED
    BY <2>1 DEF Inv, ClusterInv
<1>6. DOMAIN api' = Kinds
  BY <1>2 DEF Inv, ClusterInv
<1>7. ClusterInv'
  BY <1>2, <1>4, <1>5, <1>6 DEF ClusterInv
<1>8. StoreInv'
  BY <1>2 DEF Inv, StoreInv
<1> QED
  BY <1>3, <1>7, <1>8 DEF Inv

LEMMA FinishInv ==
    ASSUME Inv, NEW key \in DOMAIN api["Pod"], NEW phase \in {"Succeeded", "Failed"}, Finish(key, phase)
    PROVE  Inv'
<1> DEFINE o == api["Pod"][key]
           new == [o EXCEPT !.phase = phase]
<1>1. "Pod" \in Kinds /\ phase \in Phases
  BY DEF Kinds, Phases
<1>2. o \in Versions(past) /\ Is(o, "Pod", key)
  BY <1>1 DEF Inv, ClusterInv
<1>3. new \in Versions(past)
  BY <1>1, <1>2, NewVersion DEF Inv, PastInv
<1>4. Is(new, "Pod", key)
  <2>1. o = [f \in ObjectFields |-> o[f]]
    BY <1>2, VersionFacts DEF Inv, PastInv, IsObject
  <2>2. new.kind = o.kind /\ new.ns = o.ns /\ new.name = o.name
    <3> HIDE DEF o
    <3> QED BY <2>1 DEF ObjectFields
  <2> QED
    BY <1>2, <2>2 DEF Is, Key
<1>5. /\ api' = [api EXCEPT !["Pod"][key] = new] /\ Report("set", new) /\ events' \in Nat
      /\ UNCHANGED <<past, scenario, store, unread, building, snap>>
  BY DEF Finish, ClusterChanges, BesidesCluster, buildVars, Inv, PastInv
<1> HIDE DEF new, o
<1>6. PastInv'
  BY <1>5 DEF Inv, PastInv, Templates, Consistent, OwnersThere
<1>7. DOMAIN queue' = Kinds /\ \A j \in Kinds : queue'[j] \in Seq(EventsOf(past, j))
  <2>1. new.kind \in Kinds
    BY <1>1, <1>4 DEF Is
  <2> QED
    BY <1>3, <1>5, <2>1, ReportQueue DEF Inv, ClusterInv
<1>8. ASSUME NEW j \in Kinds, NEW x \in DOMAIN api'[j]
      PROVE  api'[j][x] \in Versions(past) /\ Is(api'[j][x], j, x)
  <2>1. x \in DOMAIN api[j]
    BY <1>5 DEF Inv, ClusterInv
  <2>2. CASE j = "Pod" /\ x = key
    BY <1>3, <1>4, <1>5, <2>1, <2>2 DEF Inv, ClusterInv
  <2>3. CASE ~(j = "Pod" /\ x = key)
    <3>1. api'[j][x] = api[j][x]
      BY <1>5, <2>1, <2>3 DEF Inv, ClusterInv
    <3> QED
      BY <2>1, <3>1 DEF Inv, ClusterInv
  <2> QED
    BY <2>2, <2>3
<1>9. DOMAIN api' = Kinds
  BY <1>5 DEF Inv, ClusterInv
<1>10. ClusterInv'
  BY <1>5, <1>7, <1>8, <1>9 DEF ClusterInv
<1>11. StoreInv'
  BY <1>5 DEF Inv, StoreInv
<1> QED
  BY <1>6, <1>10, <1>11 DEF Inv

LEMMA HandleInv ==
    ASSUME Inv, NEW k \in Kinds, Handle(k)
    PROVE  Inv'
<1> DEFINE e == Head(queue[k])
<1>1. /\ queue[k] # <<>> /\ queue' = [queue EXCEPT ![k] = Tail(@)]
      /\ store' = [store EXCEPT ![k] = IF e.op = "set" THEN Put(@, Key(e.object), ToModel(k, e.object))
                                                       ELSE Without(@, Key(e.object))]
      /\ UNCHANGED <<scenario, api, events, past, unread, building, snap>>
  BY DEF Handle, clusterVars, buildVars
<1>2. queue[k] \in Seq(EventsOf(past, k)) /\ DOMAIN queue = Kinds /\ DOMAIN store = Kinds
  BY DEF Inv, ClusterInv, StoreInv
<1>3. e \in EventsOf(past, k) /\ Tail(queue[k]) \in Seq(EventsOf(past, k))
  BY <1>1, <1>2
<1> HIDE DEF e
<1>4. e.object \in Versions(past) /\ Is(e.object, k, Key(e.object))
  BY <1>3 DEF EventsOf, Is
<1>5. PastInv'
  BY <1>1 DEF Inv, PastInv, Templates, Consistent, OwnersThere
<1>6. ClusterInv'
  <2>1. DOMAIN queue' = Kinds /\ \A j \in Kinds : queue'[j] \in Seq(EventsOf(past, j))
    BY <1>1, <1>2, <1>3 DEF Inv, ClusterInv
  <2> QED
    BY <1>1, <2>1 DEF Inv, ClusterInv
<1>7. ItemsOf(past, store'[k], k)
  <2>1. ItemsOf(past, store[k], k)
    BY DEF Inv, StoreInv
  <2>2. CASE e.op = "set"
    <3>1. store'[k] = Put(store[k], Key(e.object), ToModel(k, e.object))
      BY <1>1, <1>2, <2>2
    <3> QED
      BY <1>4, <2>1, <3>1 DEF ItemsOf, Put
  <2>3. CASE e.op # "set"
    <3>1. store'[k] = Without(store[k], Key(e.object))
      BY <1>1, <1>2, <2>3
    <3> QED
      BY <2>1, <3>1 DEF ItemsOf, Without
  <2> QED
    BY <2>2, <2>3
<1>8. \A j \in Kinds : ItemsOf(past, store'[j], j)
  BY <1>1, <1>2, <1>7 DEF Inv, StoreInv
<1>9. StoreInv'
  BY <1>1, <1>2, <1>8 DEF Inv, StoreInv
<1> QED
  BY <1>5, <1>6, <1>9 DEF Inv

LEMMA BuildInv ==
    ASSUME Inv, Build
    PROVE  Inv'
<1>1. UNCHANGED <<scenario, api, events, past, queue, store>>
  BY DEF Build, StartBuild, ReadStore, FinishBuild, clusterVars
<1>2. PastInv' /\ ClusterInv'
  BY <1>1 DEF Inv, PastInv, ClusterInv, Templates, Consistent, OwnersThere
<1>3. CASE StartBuild
  <2>1. snap' = Nothing /\ building' = TRUE
    BY <1>3 DEF StartBuild
  <2>2. DOMAIN snap' = Kinds /\ \A k \in Kinds : ItemsOf(past, snap'[k], k)
    BY <2>1 DEF Nothing, NoItems, ItemsOf
  <2>3. StoreInv'
    BY <1>1, <2>1, <2>2 DEF Inv, StoreInv
  <2> QED
    BY <1>2, <2>3 DEF Inv
<1>4. ASSUME NEW k \in Kinds, ReadStore(k) PROVE Inv'
  <2>1. /\ snap' = [snap EXCEPT ![k] = store[k]] /\ building' = building
        /\ k \in unread
    BY <1>4 DEF ReadStore
  <2>2. building
    BY <2>1 DEF Inv, StoreInv
  <2>3. DOMAIN snap' = Kinds /\ \A j \in Kinds : ItemsOf(past, snap'[j], j)
    BY <2>1, <2>2 DEF Inv, StoreInv
  <2>4. StoreInv'
    BY <1>1, <2>1, <2>2, <2>3 DEF Inv, StoreInv
  <2> QED
    BY <1>2, <2>4 DEF Inv
<1>5. CASE FinishBuild
  <2>1. snap' = Enrich(snap) /\ building' = FALSE /\ unread' = {}
    BY <1>5 DEF FinishBuild
  <2>2. DOMAIN snap' = Kinds
    BY <2>1, EnrichFacts DEF Inv, StoreInv
  <2>3. StoreInv'
    BY <1>1, <2>1, <2>2 DEF Inv, StoreInv
  <2> QED
    BY <1>2, <2>3 DEF Inv
<1> QED
  BY <1>3, <1>4, <1>5 DEF Build

LEMMA HandleEventKind ==
    ASSUME HandleEvent
    PROVE  \E k \in Kinds : Handle(k)
BY DEF HandleEvent, HandlePod, HandleDeployment, HandleStatefulSet, HandleDaemonSet, HandleReplicaSet,
       HandleJob, HandleCronJob, HandleService, HandlePDB, Kinds

LEMMA NextInv ==
    ASSUME Inv, [Next]_vars
    PROVE  Inv'
<1>1. ASSUME NEW o \in scenario.start \cup scenario.later, Create(o) PROVE Inv'
  BY <1>1, CreateInv DEF Templates
<1>2. ASSUME NEW k \in Kinds, NEW key \in DOMAIN api[k], Delete(k, key) PROVE Inv'
  <2>1. Erase(api[k][key]) /\ events' \in Nat
    BY <1>2 DEF Delete, ClusterChanges, Inv, PastInv
  <2> QED
    BY <2>1, EraseInv
<1>3. ASSUME NEW key \in DOMAIN api["Pod"], NEW phase \in {"Succeeded", "Failed"}, Finish(key, phase)
      PROVE  Inv'
  BY <1>3, FinishInv
<1>4. CASE Garbage
  <2>1. PICK k \in Kinds : \E key \in DOMAIN api[k] : CollectGarbage(k, key)
    BY <1>4 DEF Garbage
  <2>2. PICK key \in DOMAIN api[k] : CollectGarbage(k, key)
    BY <2>1
  <2>3. Erase(api[k][key]) /\ events' \in Nat
    BY <2>2 DEF CollectGarbage, Inv, PastInv
  <2> QED
    BY <2>3, EraseInv
<1>5. CASE HandleEvent
  BY <1>5, HandleEventKind, HandleInv
<1>6. CASE Build
  BY <1>6, BuildInv
<1>7. CASE UNCHANGED vars
  <2>1. UNCHANGED <<scenario, api, events, past, queue, store, unread, building, snap>>
    BY <1>7 DEF vars, clusterVars, buildVars
  <2> QED
    BY <2>1 DEF Inv, PastInv, ClusterInv, StoreInv, Templates, Consistent, OwnersThere
<1> QED
  BY <1>1, <1>2, <1>3, <1>4, <1>5, <1>6, <1>7 DEF Next

\* A set as a sequence holds its members, and nothing else.
LEMMA SetToSeqSeq ==
    ASSUME NEW S, IsFiniteSet(S)
    PROVE  SetToSeq(S) \in Seq(S) /\ \A x \in S : \E i \in DOMAIN SetToSeq(S) : SetToSeq(S)[i] = x
<1> DEFINE n == Cardinality(S)
           s == SetToSeq(S)
<1>1. n \in Nat /\ ExistsBijection(1 .. n, S)
  BY FS_CardinalityType
<1>2. \E f \in [1 .. n -> S] : IsInjective(f)
  BY <1>1 DEF ExistsBijection, Bijection, Injection
<1>3. s \in [1 .. n -> S] /\ IsInjective(s)
  BY <1>2 DEF SetToSeq
<1>4. s \in Injection(1 .. n, S) /\ Cardinality(1 .. n) = Cardinality(S)
  BY <1>1, <1>3, FS_Interval DEF Injection
<1>5. s \in Surjection(1 .. n, S)
  BY <1>4, FS_Injection
<1>6. \A x \in S : \E i \in DOMAIN s : s[i] = x
  BY <1>3, <1>5 DEF Surjection
<1> HIDE DEF n
<1> QED
  BY <1>1, <1>3, <1>6

LEMMA InitInv ==
    ASSUME Init
    PROVE  Inv
<1>1. /\ scenario \in Scenarios /\ events = 0 /\ past = scenario.start
      /\ unread = {} /\ building = FALSE /\ snap = Nothing
      /\ api = [k \in Kinds |->
                 [key \in {Key(o) : o \in {x \in scenario.start : x.kind = k}} |->
                    CHOOSE o \in scenario.start : o.kind = k /\ Key(o) = key]]
  BY DEF Init
<1>2. PICK late \in {{}} \cup {{k} : k \in UsedKinds} :
          /\ store = [k \in Kinds |-> IF k \in late THEN NoItems
                                      ELSE [key \in DOMAIN api[k] |-> ToModel(k, api[k][key])]]
          /\ queue = [k \in Kinds |-> IF k \notin late THEN <<>>
                                      ELSE SetToSeq({[op |-> "set", object |-> api[k][key]] : key \in DOMAIN api[k]})]
  BY DEF Init
<1>3. PastInv
  <2>1. /\ IsFiniteSet(past) /\ \A o \in past \cup Templates : IsObject(o)
        /\ OwnersThere(past) /\ Consistent(past \cup Templates)
    BY <1>1, ScenarioAssumption DEF Templates, OwnersThere, Consistent
  <2> QED
    BY <1>1, <2>1 DEF PastInv
<1>4. ASSUME NEW k \in Kinds, NEW key \in DOMAIN api[k]
      PROVE  api[k][key] \in past /\ api[k][key] \in Versions(past) /\ Is(api[k][key], k, key)
  <2>1. \E o \in scenario.start : o.kind = k /\ Key(o) = key
    BY <1>1
  <2>2. api[k][key] = CHOOSE o \in scenario.start : o.kind = k /\ Key(o) = key
    BY <1>1
  <2>3. api[k][key] \in past /\ Is(api[k][key], k, key)
    BY <1>1, <2>1, <2>2 DEF Is
  <2> QED
    BY <1>3, <2>3, OwnVersion DEF PastInv
<1>5. ASSUME NEW k \in Kinds PROVE queue[k] \in Seq(EventsOf(past, k))
  <2> DEFINE event == [key \in DOMAIN api[k] |-> [op |-> "set", object |-> api[k][key]]]
             S == {[op |-> "set", object |-> api[k][key]] : key \in DOMAIN api[k]}
             keyOf == [x \in past |-> Key(x)]
  <2>1. CASE k \notin late
    BY <1>2, <2>1
  <2>2. CASE k \in late
    <3>1. IsFiniteSet(DOMAIN api[k])
      <4>1. IsFiniteSet({keyOf[x] : x \in past})
        BY <1>3, FiniteImage DEF PastInv
      <4>2. DOMAIN api[k] \in SUBSET {keyOf[x] : x \in past}
        BY <1>1
      <4> HIDE DEF keyOf
      <4> QED
        BY <4>1, <4>2, FS_Subset
    <3>2. S = {event[key] : key \in DOMAIN api[k]}
      OBVIOUS
    <3>3. S \subseteq EventsOf(past, k)
      BY <1>4 DEF EventsOf, Is
    <3>4. queue[k] = SetToSeq(S)
      BY <1>2, <2>2
    <3> HIDE DEF S, event
    <3>5. IsFiniteSet(S)
      BY <3>1, <3>2, FiniteImage
    <3>6. SetToSeq(S) \in Seq(S)
      BY <3>5, SetToSeqSeq
    <3> QED
      BY <3>3, <3>4, <3>6, SeqMonotonic
  <2> QED
    BY <2>1, <2>2
<1>6. ClusterInv
  BY <1>1, <1>2, <1>4, <1>5 DEF ClusterInv
<1>7. ASSUME NEW k \in Kinds PROVE ItemsOf(past, store[k], k)
  BY <1>2, <1>4 DEF ItemsOf, NoItems
<1>8. StoreInv
  BY <1>1, <1>2, <1>7 DEF StoreInv, Nothing
<1> QED
  BY <1>3, <1>6, <1>8 DEF Inv

------------------------------------------------------------------------------
(* The snapshots that are finished.                                         *)

\* What a step does to them: it leaves them alone, or Build runs or has just
\* finished.
LEMMA SnapStep ==
    ASSUME Inv, [Next]_vars
    PROVE  /\ past \subseteq past'
           /\ \/ UNCHANGED <<building, snap>>
              \/ building'
              \/ building /\ snap' = Enrich(snap) /\ past' = past
<1>1. ASSUME NEW o \in scenario.start \cup scenario.later, Create(o)
      PROVE  past \subseteq past' /\ UNCHANGED <<building, snap>>
  BY <1>1 DEF Create, BesidesCluster, buildVars
<1>2. ASSUME NEW o, Erase(o) PROVE UNCHANGED <<past, building, snap>>
  BY <1>2 DEF Erase, BesidesCluster, buildVars
<1>3. ASSUME NEW key, NEW phase, Finish(key, phase) PROVE UNCHANGED <<past, building, snap>>
  BY <1>3 DEF Finish, BesidesCluster, buildVars
<1>4. ASSUME NEW k, Handle(k) PROVE UNCHANGED <<past, building, snap>>
  BY <1>4 DEF Handle, clusterVars, buildVars
<1>5. CASE Build
  <2>1. CASE StartBuild
    BY <2>1 DEF StartBuild, clusterVars
  <2>2. ASSUME NEW k \in Kinds, ReadStore(k) PROVE building' /\ past' = past
    BY <2>2 DEF ReadStore, clusterVars, Inv, StoreInv
  <2>3. CASE FinishBuild
    BY <2>3 DEF FinishBuild, clusterVars
  <2> QED
    BY <1>5, <2>1, <2>2, <2>3 DEF Build
<1>6. CASE UNCHANGED vars
  BY <1>6 DEF vars, clusterVars, buildVars
<1>7. CASE Next /\ ~Build
  <2>1. \/ \E o \in scenario.start \cup scenario.later : Create(o)
        \/ \E o : Erase(o)
        \/ \E key, phase : Finish(key, phase)
        \/ \E k : Handle(k)
    BY <1>7, HandleEventKind DEF Next, Delete, Garbage, CollectGarbage
  <2> QED
    BY <1>1, <1>2, <1>3, <1>4, <2>1
<1> QED
  BY <1>5, <1>6, <1>7

LEMMA OwnersInit == Init => OwnersReal /\ OwnerUIDsReal /\ CountedOnce
<1> SUFFICES ASSUME Init PROVE OwnersReal /\ OwnerUIDsReal /\ CountedOnce
  OBVIOUS
<1>1. snap = Nothing
  BY DEF Init
<1>2. DOMAIN snap["Pod"] = {} /\ \A k \in WorkloadKinds : DOMAIN snap[k] = {}
  BY <1>1 DEF Nothing, NoItems, Kinds, WorkloadKinds
<1>3. ASSUME NEW r \in Resources
      PROVE  SumFunction([k \in WorkloadKinds |-> KindTotal(k, r)]) <= TotalRequested(snap)[r]
  <2> DEFINE total == [k \in WorkloadKinds |-> KindTotal(k, r)]
  <2>1. ASSUME NEW k \in WorkloadKinds PROVE total[k] = 0
    BY <1>2, SumEmpty DEF KindTotal, SumFunction
  <2>2. SumFunction(total) = SumFunctionOnSet(total, WorkloadKinds)
    BY DEF SumFunction
  <2>3. TotalRequested(snap)[r] = 0
    BY <1>2, SumEmpty DEF TotalRequested, sumPodResources, SumRequests, SumFunction
  <2> HIDE DEF total
  <2>4. SumFunctionOnSet(total, WorkloadKinds) = 0
    BY <2>1, WorkloadKindsFinite, SumZeros
  <2> QED
    BY <2>2, <2>3, <2>4 DEF total
<1> QED
  BY <1>2, <1>3 DEF OwnersReal, OwnerUIDsReal, CountedOnce

\* The owners of a snapshot that Build has just finished.
LEMMA FinishedOwners ==
    ASSUME Inv, building, snap' = Enrich(snap), NEW p \in DOMAIN snap'["Pod"]
    PROVE  /\ RealOwner(past, p, snap'["Pod"][p].owner)
           /\ RealUID(past, snap', p, snap'["Pod"][p].owner)
<1>1. World(past) /\ Taken(past, snap) /\ DOMAIN snap = Kinds
  BY PastWorld DEF Inv, StoreInv, Taken
<1>2. /\ snap'["Pod"] = [q \in DOMAIN snap["Pod"] |->
                           [snap["Pod"][q] EXCEPT !.owner = resolveOwner(snap, q[1], @)]]
      /\ snap'["CronJob"] = snap["CronJob"]
  BY <1>1, EnrichFacts, ResolvedPods
<1>3. p \in DOMAIN snap["Pod"]
  BY <1>2
<1>4. PICK x \in past : snap["Pod"][p] = [owner |-> FirstOwner(x), phase |-> snap["Pod"][p].phase,
                                          containers |-> convertContainers(x.containers)]
  BY <1>1, <1>3, PodItem
<1>5. snap'["Pod"][p].owner = resolveOwner(snap, p[1], snap["Pod"][p].owner)
  BY <1>2, <1>3, <1>4
<1>6. /\ RealOwner(past, p, snap'["Pod"][p].owner)
      /\ RealUID(past, snap, p, snap'["Pod"][p].owner)
  BY <1>1, <1>3, <1>5, ResolvedReal
<1> QED
  BY <1>2, <1>6 DEF RealUID

LEMMA OwnersNext ==
    ASSUME Inv, [Next]_vars, OwnersReal, OwnerUIDsReal
    PROVE  OwnersReal' /\ OwnerUIDsReal'
<1>1. past \subseteq past'
  BY SnapStep
<1>2. CASE UNCHANGED <<building, snap>>
  <2>1. ASSUME NEW p, NEW o, RealOwner(past, p, o) PROVE RealOwner(past', p, o)
    <3> SUFFICES ASSUME o.kind \in Kinds
                 PROVE  \E pod \in past' : /\ Is(pod, "Pod", p)
                                           /\ \E x \in Above(past', pod) : Is(x, o.kind, <<p[1], o.name>>)
      BY DEF RealOwner
    <3>1. PICK pod \in past : /\ Is(pod, "Pod", p)
                              /\ \E x \in Above(past, pod) : Is(x, o.kind, <<p[1], o.name>>)
      BY <2>1 DEF RealOwner
    <3>2. Above(past, pod) \subseteq Above(past', pod)
      BY <1>1, MoreAbove
    <3> QED
      BY <1>1, <3>1, <3>2
  <2>2. OwnersReal'
    BY <1>2, <2>1 DEF OwnersReal, RealOwner
  <2>3. OwnerUIDsReal'
    BY <1>1, <1>2 DEF OwnerUIDsReal
  <2> QED
    BY <2>2, <2>3
<1>3. CASE building'
  BY <1>3 DEF OwnersReal, OwnerUIDsReal
<1>4. CASE building /\ snap' = Enrich(snap) /\ past' = past
  BY <1>4, FinishedOwners DEF OwnersReal, OwnerUIDsReal, RealOwner, RealUID
<1> QED
  BY <1>2, <1>3, <1>4, SnapStep

LEMMA CountedNext ==
    ASSUME Inv, [Next]_vars, CountedOnce
    PROVE  CountedOnce'
<1>1. CASE UNCHANGED <<building, snap>>
  BY <1>1 DEF CountedOnce, KindTotal
<1>2. CASE building'
  BY <1>2 DEF CountedOnce
<1>3. CASE building /\ snap' = Enrich(snap) /\ past' = past
  <2>1. World(past) /\ Taken(past, snap) /\ IsFiniteSet(past)
    BY <1>3, PastWorld DEF Inv, StoreInv, Taken
  <2>2. \A r \in Resources :
           SumFunction([k \in WorkloadKinds |->
                          SumFunction([key \in DOMAIN snap'[k] |-> snap'[k][key].total[r]])])
              <= TotalRequested(snap')[r]
    BY <1>3, <2>1, EnrichedOnce
  <2> QED
    BY <2>2 DEF CountedOnce, KindTotal
<1> QED
  BY <1>1, <1>2, <1>3, SnapStep

------------------------------------------------------------------------------
(* Theorems.                                                                *)

LEMMA Invariant == Spec => []Inv
<1>1. Init => Inv
  BY InitInv
<1>2. Inv /\ [Next]_vars => Inv'
  BY NextInv
<1> QED
  BY <1>1, <1>2, PTL DEF Spec

\* The owner a snapshot reports for a pod has been above a pod of that name, by
\* UIDs, in every cluster whose names keep their owners: resolveOwner's joins by
\* name over stores read at different moments hand no pod to a stranger.
THEOREM OwnersRealHolds == Spec => []OwnersReal
<1>1. Init => OwnersReal /\ OwnerUIDsReal
  BY OwnersInit
<1>2. Inv /\ [Next]_vars /\ (OwnersReal /\ OwnerUIDsReal) => (OwnersReal /\ OwnerUIDsReal)'
  BY OwnersNext
<1> QED
  BY <1>1, <1>2, Invariant, PTL DEF Spec

\* The UID reported with an owner is one that an object of that kind and name
\* has had, unless it is that of the Job below a CronJob the snapshot lacks.
THEOREM OwnerUIDsRealHolds == Spec => []OwnerUIDsReal
<1>1. Init => OwnersReal /\ OwnerUIDsReal
  BY OwnersInit
<1>2. Inv /\ [Next]_vars /\ (OwnersReal /\ OwnerUIDsReal) => (OwnersReal /\ OwnerUIDsReal)'
  BY OwnersNext
<1> QED
  BY <1>1, <1>2, Invariant, PTL DEF Spec

\* Deployments, StatefulSets and DaemonSets request together no more than the
\* summary's total, of either resource: podsByWorkload hands a pod to one
\* workload at most, however many there are of each.
THEOREM CountedOnceHolds == Spec => []CountedOnce
<1>1. Init => CountedOnce
  BY OwnersInit
<1>2. Inv /\ [Next]_vars /\ CountedOnce => CountedOnce'
  BY CountedNext
<1> QED
  BY <1>1, <1>2, Invariant, PTL DEF Spec

------------------------------------------------------------------------------
(* Stores that have caught up.                                              *)

\* Items of kind k that show the cluster as it is.
Current(k, items) ==
    /\ DOMAIN items = DOMAIN api[k]
    /\ \A key \in DOMAIN api[k] : items[key] = ToModel(k, api[k][key])

\* A store whose informer has no event left shows the cluster as it is.
StoresFollow == \A k \in Kinds : queue[k] = <<>> => Current(k, store[k])

Newest(q, i) == \A j \in DOMAIN q : j > i => Key(q[j].object) # Key(q[i].object)

Tells(objects, e) ==
    /\ e.op = "set" <=> Key(e.object) \in DOMAIN objects
    /\ e.op = "set" => e.object = objects[Key(e.object)]

\* The newest event of a key tells how the cluster has it.
LastTells(q, objects) == \A i \in DOMAIN q : Newest(q, i) => Tells(objects, q[i])

Silent(q, key) == \A i \in DOMAIN q : Key(q[i].object) # key

Agree(k, items, objects, key) ==
    /\ key \in DOMAIN items <=> key \in DOMAIN objects
    /\ key \in DOMAIN objects => items[key] = ToModel(k, objects[key])

\* A key without an event is in the store as in the cluster.
StoreTells(k, q, items, objects) == \A key : Silent(q, key) => Agree(k, items, objects, key)

FollowInv ==
    \A k \in Kinds : LastTells(queue[k], api[k]) /\ StoreTells(k, queue[k], store[k], api[k])

\* The cluster changes at a key, and the event that tells is queued.
LEMMA AppendFollows ==
    ASSUME NEW E, NEW q \in Seq(E), NEW e \in E, NEW k, NEW items, NEW objects, NEW new,
           \A key : key # Key(e.object) =>
              (key \in DOMAIN new <=> key \in DOMAIN objects) /\ (key \in DOMAIN new => new[key] = objects[key]),
           Tells(new, e), LastTells(q, objects), StoreTells(k, q, items, objects)
    PROVE  LastTells(Append(q, e), new) /\ StoreTells(k, Append(q, e), items, new)
<1> DEFINE r == Append(q, e)
<1>1. /\ DOMAIN r = 1 .. Len(q) + 1 /\ DOMAIN q = 1 .. Len(q) /\ Len(q) \in Nat
      /\ \A i \in 1 .. Len(q) : r[i] = q[i]
      /\ r[Len(q) + 1] = e
  BY AppendProperties
<1> HIDE DEF r
<1>2. ASSUME NEW i \in DOMAIN r, Newest(r, i) PROVE Tells(new, r[i])
  <2>1. CASE i = Len(q) + 1
    BY <1>1, <2>1
  <2>2. CASE i # Len(q) + 1
    <3>1. i \in DOMAIN q /\ r[i] = q[i]
      BY <1>1, <2>2
    <3>2. Key(q[i].object) # Key(e.object)
      BY <1>1, <1>2, <3>1 DEF Newest
    <3>3. Newest(q, i)
      BY <1>1, <1>2, <3>1 DEF Newest
    <3>4. Tells(objects, q[i])
      BY <3>1, <3>3 DEF LastTells
    <3> QED
      BY <3>1, <3>2, <3>4 DEF Tells
  <2> QED
    BY <2>1, <2>2
<1>3. ASSUME NEW key, Silent(r, key) PROVE Agree(k, items, new, key)
  <2>1. Silent(q, key) /\ Key(e.object) # key
    BY <1>1, <1>3 DEF Silent
  <2>2. Agree(k, items, objects, key)
    BY <2>1 DEF StoreTells
  <2> QED
    BY <2>1, <2>2 DEF Agree
<1> QED
  BY <1>2, <1>3 DEF LastTells, StoreTells, r

\* The handler applies the first event.
LEMMA TailFollows ==
    ASSUME NEW E, NEW q \in Seq(E), q # <<>>, NEW k, NEW items, NEW new, NEW objects,
           NEW e, e = Head(q), e.op \in {"set", "delete"},
           \A key : key # Key(e.object) =>
              (key \in DOMAIN new <=> key \in DOMAIN items) /\ (key \in DOMAIN new => new[key] = items[key]),
           Key(e.object) \in DOMAIN new <=> e.op = "set",
           e.op = "set" => new[Key(e.object)] = ToModel(k, e.object),
           LastTells(q, objects), StoreTells(k, q, items, objects)
    PROVE  LastTells(Tail(q), objects) /\ StoreTells(k, Tail(q), new, objects)
<1> DEFINE r == Tail(q)
<1>1. /\ DOMAIN r = 1 .. Len(q) - 1 /\ DOMAIN q = 1 .. Len(q)
      /\ Len(q) \in Nat /\ Len(q) > 0
      /\ \A i \in 1 .. Len(q) - 1 : r[i] = q[i + 1]
      /\ e = q[1]
  BY HeadTailProperties
<1> HIDE DEF r
<1>2. ASSUME NEW i \in DOMAIN r, Newest(r, i) PROVE Tells(objects, r[i])
  <2>1. i + 1 \in DOMAIN q /\ r[i] = q[i + 1]
    BY <1>1
  <2>2. ASSUME NEW j \in DOMAIN q, j > i + 1 PROVE Key(q[j].object) # Key(q[i + 1].object)
    <3>1. j - 1 \in DOMAIN r /\ j - 1 > i /\ r[j - 1] = q[j]
      BY <1>1, <2>2
    <3> QED
      BY <1>2, <2>1, <3>1 DEF Newest
  <2>3. Newest(q, i + 1)
    BY <2>2 DEF Newest
  <2> QED
    BY <2>1, <2>3 DEF LastTells
<1>3. ASSUME NEW key, Silent(r, key) PROVE Agree(k, new, objects, key)
  <2>1. ASSUME NEW j \in DOMAIN q, j > 1 PROVE Key(q[j].object) # key
    <3>1. j - 1 \in DOMAIN r /\ r[j - 1] = q[j]
      BY <1>1, <2>1
    <3> QED
      BY <1>3, <3>1 DEF Silent
  <2>2. CASE key = Key(e.object)
    <3>1. Newest(q, 1) /\ 1 \in DOMAIN q
      BY <1>1, <2>1, <2>2 DEF Newest
    <3>2. Tells(objects, e)
      BY <1>1, <3>1 DEF LastTells
    <3> QED
      BY <2>2, <3>2 DEF Agree, Tells
  <2>3. CASE key # Key(e.object)
    <3>1. Silent(q, key)
      <4>1. \A j \in DOMAIN q : j = 1 \/ j > 1
        BY <1>1
      <4> QED
        BY <1>1, <2>1, <2>3, <4>1 DEF Silent
    <3>2. Agree(k, items, objects, key)
      BY <3>1 DEF StoreTells
    <3> QED
      BY <2>3, <3>2 DEF Agree
  <2> QED
    BY <2>2, <2>3
<1> QED
  BY <1>2, <1>3 DEF LastTells, StoreTells, r

\* What is queued, and the change of the cluster that it tells.
LEMMA ClusterFollows ==
    ASSUME Inv, FollowInv, NEW o, NEW op \in {"set", "delete"}, o.kind \in Kinds,
           o \in Versions(past'), Report(op, o), past \subseteq past',
           DOMAIN api' = Kinds, \A k \in Kinds : k # o.kind => api'[k] = api[k],
           \A key : key # Key(o) =>
              /\ key \in DOMAIN api'[o.kind] <=> key \in DOMAIN api[o.kind]
              /\ key \in DOMAIN api'[o.kind] => api'[o.kind][key] = api[o.kind][key],
           op = "set" <=> Key(o) \in DOMAIN api'[o.kind],
           op = "set" => api'[o.kind][Key(o)] = o,
           UNCHANGED store
    PROVE  FollowInv'
<1> DEFINE e == [op |-> op, object |-> o]
<1>1. /\ queue' = [queue EXCEPT ![o.kind] = Append(@, e)] /\ DOMAIN queue = Kinds
      /\ e.op = op /\ e.object = o
  BY DEF Report, Inv, ClusterInv
<1>2. e \in EventsOf(past', o.kind)
  BY DEF EventsOf
<1>3. queue[o.kind] \in Seq(EventsOf(past', o.kind))
  BY MoreEvents DEF Inv, ClusterInv
<1> HIDE DEF e
<1>4. Tells(api'[o.kind], e)
  BY <1>1 DEF Tells
<1>5. /\ LastTells(Append(queue[o.kind], e), api'[o.kind])
      /\ StoreTells(o.kind, Append(queue[o.kind], e), store[o.kind], api'[o.kind])
  <2>1. LastTells(queue[o.kind], api[o.kind]) /\ StoreTells(o.kind, queue[o.kind], store[o.kind], api[o.kind])
    BY DEF FollowInv
  <2>2. \A key : key # Key(e.object) =>
              /\ key \in DOMAIN api'[o.kind] <=> key \in DOMAIN api[o.kind]
              /\ key \in DOMAIN api'[o.kind] => api'[o.kind][key] = api[o.kind][key]
    BY <1>1
  <2>3. PICK E, q, k, items, objects, new :
           /\ E = EventsOf(past', o.kind) /\ q = queue[o.kind] /\ k = o.kind
           /\ items = store[o.kind] /\ objects = api[o.kind] /\ new = api'[o.kind]
    OBVIOUS
  <2> QED
    BY <1>2, <1>3, <1>4, <2>1, <2>2, <2>3, AppendFollows
<1>6. ASSUME NEW k \in Kinds
      PROVE  LastTells(queue'[k], api'[k]) /\ StoreTells(k, queue'[k], store'[k], api'[k])
  <2>1. CASE k = o.kind
    BY <1>1, <1>5, <2>1
  <2>2. CASE k # o.kind
    BY <1>1, <2>2 DEF FollowInv
  <2> QED
    BY <2>1, <2>2
<1> QED
  BY <1>6 DEF FollowInv

LEMMA EraseFollows ==
    ASSUME Inv, FollowInv, NEW k \in Kinds, NEW key \in DOMAIN api[k], Erase(api[k][key])
    PROVE  FollowInv'
<1> DEFINE o == api[k][key]
<1>1. o \in Versions(past) /\ o.kind = k /\ Key(o) = key
  BY DEF Inv, ClusterInv, Is
<1>2. /\ api' = [api EXCEPT ![k] = Without(@, key)] /\ Report("delete", o)
      /\ UNCHANGED <<past, store>>
  BY <1>1 DEF Erase, BesidesCluster
<1> HIDE DEF o
<1>3. DOMAIN api' = Kinds /\ api'[k] = Without(api[k], key) /\ \A j \in Kinds : j # k => api'[j] = api[j]
  BY <1>2 DEF Inv, ClusterInv
<1> QED
  BY <1>1, <1>2, <1>3, ClusterFollows DEF Without

LEMMA CreateFollows ==
    ASSUME Inv, FollowInv, NEW o \in Templates, Create(o)
    PROVE  FollowInv'
<1>1. PICK new : /\ past' = past \cup {new} /\ IsObject(new) /\ Is(new, o.kind, Key(o))
                 /\ api' = [api EXCEPT ![o.kind] = Put(@, Key(o), new)]
                 /\ Report("set", new)
  BY CreatePast DEF Inv
<1>2. /\ new.kind = o.kind /\ o.kind \in Kinds /\ Key(new) = Key(o)
      /\ new \in Versions(past') /\ past \subseteq past' /\ UNCHANGED store
  <2>1. new \in past' /\ past \subseteq past' /\ UNCHANGED store
    BY <1>1 DEF Create, BesidesCluster
  <2> QED
    BY <1>1, <2>1, OwnVersion DEF Is, IsObject
<1>3. /\ DOMAIN api' = Kinds /\ api'[o.kind] = Put(api[o.kind], Key(o), new)
      /\ \A j \in Kinds : j # o.kind => api'[j] = api[j]
  BY <1>1, <1>2 DEF Inv, ClusterInv
<1> QED
  BY <1>1, <1>2, <1>3, ClusterFollows DEF Put

LEMMA FinishFollows ==
    ASSUME Inv, FollowInv, NEW key \in DOMAIN api["Pod"], NEW phase \in {"Succeeded", "Failed"},
           Finish(key, phase)
    PROVE  FollowInv'
<1> DEFINE o == api["Pod"][key]
           new == [o EXCEPT !.phase = phase]
<1>1. "Pod" \in Kinds /\ phase \in Phases
  BY DEF Kinds, Phases
<1>2. o \in Versions(past) /\ Is(o, "Pod", key)
  BY <1>1 DEF Inv, ClusterInv
<1>3. new \in Versions(past)
  BY <1>1, <1>2, NewVersion DEF Inv, PastInv
<1>4. new.kind = "Pod" /\ Key(new) = key
  <2>1. o = [f \in ObjectFields |-> o[f]]
    BY <1>2, VersionFacts DEF Inv, PastInv, IsObject
  <2>2. new.kind = o.kind /\ new.ns = o.ns /\ new.name = o.name
    <3> HIDE DEF o
    <3> QED BY <2>1 DEF ObjectFields
  <2> QED
    BY <1>2, <2>2 DEF Is, Key
<1>5. /\ api' = [api EXCEPT !["Pod"][key] = new] /\ Report("set", new)
      /\ UNCHANGED <<past, store>>
  BY DEF Finish, BesidesCluster
<1> HIDE DEF new, o
<1>6. /\ DOMAIN api' = Kinds /\ api'["Pod"] = [api["Pod"] EXCEPT ![key] = new]
      /\ \A j \in Kinds : j # "Pod" => api'[j] = api[j]
  BY <1>1, <1>5 DEF Inv, ClusterInv
<1> QED
  BY <1>1, <1>3, <1>4, <1>5, <1>6, ClusterFollows

LEMMA HandleFollows ==
    ASSUME Inv, FollowInv, NEW k \in Kinds, Handle(k)
    PROVE  FollowInv'
<1> DEFINE e == Head(queue[k])
<1>1. /\ queue[k] # <<>> /\ queue' = [queue EXCEPT ![k] = Tail(@)]
      /\ store' = [store EXCEPT ![k] = IF e.op = "set" THEN Put(@, Key(e.object), ToModel(k, e.object))
                                                       ELSE Without(@, Key(e.object))]
      /\ UNCHANGED api
  BY DEF Handle, clusterVars
<1>2. queue[k] \in Seq(EventsOf(past, k)) /\ DOMAIN queue = Kinds /\ DOMAIN store = Kinds
  BY DEF Inv, ClusterInv, StoreInv
<1>3. e.op \in {"set", "delete"}
  <2>1. e \in EventsOf(past, k)
    BY <1>1, <1>2
  <2> QED
    BY <2>1 DEF EventsOf
<1>4. PICK E, q, items, new, objects, f :
         /\ E = EventsOf(past, k) /\ q = queue[k] /\ items = store[k] /\ objects = api[k]
         /\ new = store'[k] /\ f = e
  OBVIOUS
<1>5. q \in Seq(E) /\ q # <<>> /\ f = Head(q) /\ f.op \in {"set", "delete"}
  BY <1>1, <1>2, <1>3, <1>4
<1>6. new = IF f.op = "set" THEN Put(items, Key(f.object), ToModel(k, f.object))
                            ELSE Without(items, Key(f.object))
  BY <1>1, <1>2, <1>4
<1>7. LastTells(q, objects) /\ StoreTells(k, q, items, objects)
  BY <1>4 DEF FollowInv
<1> HIDE DEF e
<1>8. LastTells(Tail(q), objects) /\ StoreTells(k, Tail(q), new, objects)
  <2>1. /\ \A key : key # Key(f.object) =>
              (key \in DOMAIN new <=> key \in DOMAIN items) /\ (key \in DOMAIN new => new[key] = items[key])
        /\ Key(f.object) \in DOMAIN new <=> f.op = "set"
        /\ f.op = "set" => new[Key(f.object)] = ToModel(k, f.object)
    BY <1>5, <1>6 DEF Put, Without
  <2> QED
    BY <1>5, <1>7, <2>1, TailFollows
<1>9. /\ LastTells(queue'[k], api'[k]) /\ StoreTells(k, queue'[k], store'[k], api'[k])
      /\ \A j \in Kinds : j # k => queue'[j] = queue[j] /\ store'[j] = store[j] /\ api'[j] = api[j]
  BY <1>1, <1>2, <1>4, <1>8
<1> QED
  BY <1>9 DEF FollowInv

LEMMA FollowNext ==
    ASSUME Inv, FollowInv, [Next]_vars
    PROVE  FollowInv'
<1>1. ASSUME NEW o \in scenario.start \cup scenario.later, Create(o) PROVE FollowInv'
  BY <1>1, CreateFollows DEF Templates
<1>2. ASSUME NEW k \in Kinds, NEW key \in DOMAIN api[k], Delete(k, key) PROVE FollowInv'
  BY <1>2, EraseFollows DEF Delete
<1>3. ASSUME NEW key \in DOMAIN api["Pod"], NEW phase \in {"Succeeded", "Failed"}, Finish(key, phase)
      PROVE  FollowInv'
  BY <1>3, FinishFollows
<1>4. CASE Garbage
  <2>1. PICK k \in Kinds : \E key \in DOMAIN api[k] : CollectGarbage(k, key)
    BY <1>4 DEF Garbage
  <2>2. PICK key \in DOMAIN api[k] : CollectGarbage(k, key)
    BY <2>1
  <2> QED
    BY <2>2, EraseFollows DEF CollectGarbage
<1>5. CASE HandleEvent
  BY <1>5, HandleEventKind, HandleFollows
<1>6. CASE UNCHANGED <<api, queue, store>>
  BY <1>6 DEF FollowInv
<1>7. Build \/ UNCHANGED vars => UNCHANGED <<api, queue, store>>
  BY DEF Build, StartBuild, ReadStore, FinishBuild, vars, clusterVars
<1> QED
  BY <1>1, <1>2, <1>3, <1>4, <1>5, <1>6, <1>7 DEF Next

LEMMA FollowInit ==
    ASSUME Init
    PROVE  FollowInv
<1>1. PICK late \in {{}} \cup {{k} : k \in UsedKinds} :
          /\ store = [k \in Kinds |-> IF k \in late THEN NoItems
                                      ELSE [key \in DOMAIN api[k] |-> ToModel(k, api[k][key])]]
          /\ queue = [k \in Kinds |-> IF k \notin late THEN <<>>
                                      ELSE SetToSeq({[op |-> "set", object |-> api[k][key]] : key \in DOMAIN api[k]})]
  BY DEF Init
<1>2. Inv
  BY InitInv
<1>3. ASSUME NEW k \in Kinds
      PROVE  LastTells(queue[k], api[k]) /\ StoreTells(k, queue[k], store[k], api[k])
  <2>1. CASE k \notin late
    <3>1. queue[k] = <<>> /\ store[k] = [key \in DOMAIN api[k] |-> ToModel(k, api[k][key])]
      BY <1>1, <2>1
    <3> QED
      BY <3>1 DEF LastTells, StoreTells, Agree
  <2>2. CASE k \in late
    <3> DEFINE event == [key \in DOMAIN api[k] |-> [op |-> "set", object |-> api[k][key]]]
               S == {[op |-> "set", object |-> api[k][key]] : key \in DOMAIN api[k]}
    <3>1. S = {event[key] : key \in DOMAIN api[k]} /\ queue[k] = SetToSeq(S) /\ store[k] = NoItems
      BY <1>1, <2>2
    <3>2. IsFiniteSet(S)
      <4>1. IsFiniteSet(DOMAIN api[k])
        <5> DEFINE keyOf == [x \in past |-> Key(x)]
        <5>1. IsFiniteSet({keyOf[x] : x \in past})
          BY <1>2, FiniteImage DEF Inv, PastInv
        <5>2. DOMAIN api[k] \in SUBSET {keyOf[x] : x \in past}
          <6>1. past = scenario.start
                /\ DOMAIN api[k] = {Key(o) : o \in {x \in scenario.start : x.kind = k}}
            BY DEF Init
          <6> QED BY <6>1
        <5> HIDE DEF keyOf
        <5> QED
          BY <5>1, <5>2, FS_Subset
      <4> HIDE DEF event, S
      <4> QED
        BY <3>1, <4>1, FiniteImage
    <3>3. /\ \A i \in DOMAIN queue[k] : queue[k][i] \in S
          /\ \A x \in S : \E i \in DOMAIN queue[k] : queue[k][i] = x
      <4> HIDE DEF S
      <4>1. PICK q : q = SetToSeq(S)
        OBVIOUS
      <4>2. q \in Seq(S) /\ \A x \in S : \E i \in DOMAIN q : q[i] = x
        BY <3>2, <4>1, SetToSeqSeq
      <4>3. q = queue[k]
        BY <3>1, <4>1
      <4> QED BY <4>2, <4>3
    <3>4. \A key \in DOMAIN api[k] : Key(api[k][key]) = key
      BY <1>2 DEF Inv, ClusterInv, Is
    <3>5. \A i \in DOMAIN queue[k] : Tells(api[k], queue[k][i])
      <4>1. \A x \in S : Tells(api[k], x)
        BY <3>4 DEF Tells
      <4> HIDE DEF S
      <4> QED BY <3>3, <4>1
    <3>6. ASSUME NEW key, Silent(queue[k], key) PROVE key \notin DOMAIN api[k]
      <4> SUFFICES ASSUME key \in DOMAIN api[k] PROVE FALSE
        OBVIOUS
      <4>1. event[key] \in S /\ event[key].object = api[k][key]
        OBVIOUS
      <4>2. PICK i \in DOMAIN queue[k] : queue[k][i] = event[key]
        <5> HIDE DEF S, event
        <5> QED BY <3>3, <4>1
      <4> QED
        BY <3>4, <3>6, <4>1, <4>2 DEF Silent
    <3>7. DOMAIN store[k] = {}
      BY <3>1 DEF NoItems
    <3> QED
      BY <3>5, <3>6, <3>7 DEF LastTells, StoreTells, Agree
  <2> QED
    BY <2>1, <2>2
<1> QED
  BY <1>3 DEF FollowInv

LEMMA FollowInvariant == Spec => []FollowInv
<1>1. Init => FollowInv
  BY FollowInit
<1>2. Inv /\ FollowInv /\ [Next]_vars => FollowInv'
  BY FollowNext
<1> QED
  BY <1>1, <1>2, Invariant, PTL DEF Spec

\* A store whose informer has no event left shows its kind as the cluster has
\* it, for all the nine kinds: late lists, names used again and deletions in
\* the middle included (the handlers and TypedStore).
THEOREM StoresFollowHolds == Spec => []StoresFollow
<1>1. FollowInv => StoresFollow
  <2> SUFFICES ASSUME FollowInv, NEW k \in Kinds, queue[k] = <<>> PROVE Current(k, store[k])
    BY DEF StoresFollow
  <2>1. \A key : Agree(k, store[k], api[k], key)
    BY DEF FollowInv, StoreTells, Silent
  <2> QED
    BY <2>1 DEF Agree, Current
<1> QED
  BY <1>1, FollowInvariant, PTL

------------------------------------------------------------------------------
(* What Build makes of a cluster it has read as it is: the targets.         *)

AllCurrent(s) == \A k \in Kinds : Current(k, s[k])

\* labelsMatch takes a label with an empty value for a missing one.
LabelsSet == \A x \in AllObjects : \A l \in DOMAIN x.selector : x.selector[l] # ""

\* A Build that has read every store as the cluster is reports exactly the
\* workloads whose pods a Service or a PodDisruptionBudget selects.
TargetsExact ==
    [][FinishBuild /\ AllCurrent(snap) /\ LabelsSet =>
         \A k \in {"Service", "PDB"} :
            /\ DOMAIN snap'[k] = DOMAIN api[k]
            /\ \A key \in DOMAIN api[k] : snap'[k][key].targets = TrueTargets(api[k][key])]_vars

LEMMA ApiObjects ==
    ASSUME Inv, NEW k \in Kinds, NEW key \in DOMAIN api[k]
    PROVE  /\ api[k][key] \in AllObjects /\ api[k][key] \in Objects(k)
           /\ IsObject(api[k][key]) /\ api[k][key].kind = k /\ Key(api[k][key]) = key
           /\ key[1] = api[k][key].ns /\ key[2] = api[k][key].name
<1>1. api[k][key] \in Versions(past) /\ Is(api[k][key], k, key)
  BY DEF Inv, ClusterInv
<1>2. IsObject(api[k][key])
  BY <1>1, VersionFacts DEF Inv, PastInv
<1>3. Key(api[k][key]) = key /\ api[k][key].kind = k
  BY <1>1 DEF Is
<1>4. key[1] = api[k][key].ns /\ key[2] = api[k][key].name
  BY <1>3 DEF Key
<1> QED
  BY <1>2, <1>3, <1>4 DEF AllObjects, Objects

\* The workloads, with what the enrichers leave of them when targets are matched.
LEMMA AggregatedFacts ==
    ASSUME Inv, NEW s, DOMAIN s = Kinds, AllCurrent(s),
           NEW a, a = Aggregate(ResolveOwners(s))
    PROVE  /\ DOMAIN a = Kinds
           /\ \A k \in WorkloadKinds : /\ DOMAIN a[k] = DOMAIN api[k]
                                       /\ \A key \in DOMAIN api[k] : a[k][key].selector = api[k][key].selector
           /\ a["Service"] = s["Service"] /\ a["PDB"] = s["PDB"]
<1> DEFINE r == ResolveOwners(s)
<1>1. DOMAIN r = Kinds /\ \A k \in Kinds : k # "Pod" => r[k] = s[k]
  BY ResolvedPods
<1> HIDE DEF r
<1>2. a = Aggregate(r)
  BY DEF r
<1>3. /\ DOMAIN a = Kinds /\ \A k \in WorkloadKinds : a[k] = Totals(r, k)
      /\ a["Service"] = r["Service"] /\ a["PDB"] = r["PDB"]
  BY <1>1, <1>2 DEF Aggregate, Kinds, WorkloadKinds
<1>4. ASSUME NEW k \in WorkloadKinds
      PROVE  /\ DOMAIN a[k] = DOMAIN api[k]
             /\ \A key \in DOMAIN api[k] : a[k][key].selector = api[k][key].selector
  <2>1. k \in Kinds /\ r[k] = s[k]
    BY <1>1 DEF Kinds, WorkloadKinds
  <2>2. Current(k, s[k])
    BY <2>1 DEF AllCurrent
  <2>3. DOMAIN a[k] = DOMAIN api[k]
    BY <1>3, <2>1, <2>2 DEF Totals, Current
  <2>4. ASSUME NEW key \in DOMAIN api[k] PROVE a[k][key].selector = api[k][key].selector
    <3>1. s[k][key] = [selector |-> api[k][key].selector, total |-> Zero]
      BY <2>2 DEF Current, ToModel, WorkloadKinds, DeploymentToModel, StatefulSetToModel, DaemonSetToModel
    <3>2. a[k][key] = [s[k][key] EXCEPT !.total =
                          sumPodResources(r["Pod"], podsByWorkload(r["Pod"], k, key))]
      <4>1. key \in DOMAIN s[k]
        BY <2>2 DEF Current
      <4>2. a[k] = Totals(r, k)
        BY <1>3
      <4> QED
        BY <2>1, <4>1, <4>2 DEF Totals
    <3> QED
      BY <3>1, <3>2
  <2> QED
    BY <2>3, <2>4
<1> QED
  BY <1>1, <1>3, <1>4 DEF Kinds

LEMMA SelectsFacts ==
    ASSUME NEW o, NEW w, DOMAIN o.selector # {}, \A l \in DOMAIN o.selector : o.selector[l] # ""
    PROVE  Selects(o, w) <=> /\ o.ns = w.ns /\ DOMAIN w.selector # {}
                             /\ labelsMatch(o.selector, w.selector)
BY DEF Selects, labelsMatch, Label

LEMMA MatchedExactly ==
    ASSUME Inv, LabelsSet, NEW a,
           \A k \in WorkloadKinds : /\ DOMAIN a[k] = DOMAIN api[k]
                                    /\ \A key \in DOMAIN api[k] : a[k][key].selector = api[k][key].selector,
           NEW o \in AllObjects, DOMAIN o.selector # {}
    PROVE  matchWorkloads(a, o.ns, o.selector) = TrueTargets(o)
<1>0. WorkloadKinds \subseteq Kinds
  BY DEF WorkloadKinds, Kinds
<1>1. ASSUME NEW w \in matchWorkloads(a, o.ns, o.selector) PROVE w \in TrueTargets(o)
  <2>1. /\ w \in collectWorkloads(a) /\ w.key[1] = o.ns
        /\ labelsMatch(o.selector, a[w.kind][w.key].selector)
    BY <1>1 DEF matchWorkloads
  <2>2. PICK k, key :
           /\ k \in WorkloadKinds /\ key \in DOMAIN a[k] /\ w = [kind |-> k, key |-> key]
           /\ DOMAIN a[k][key].selector # {}
    BY <2>1 DEF collectWorkloads, WorkloadKinds
  <2>3. PICK x : x = api[k][key]
    OBVIOUS
  <2>4. /\ x \in Objects(k) /\ x.kind = k /\ Key(x) = key /\ key[1] = x.ns
        /\ DOMAIN x.selector # {} /\ labelsMatch(o.selector, x.selector) /\ x.ns = o.ns
    BY <1>0, <2>1, <2>2, <2>3, ApiObjects
  <2>5. Selects(o, x)
    BY <2>4, SelectsFacts DEF LabelsSet
  <2>6. x \in UNION {Objects(j) : j \in WorkloadKinds} /\ w = [kind |-> x.kind, key |-> Key(x)]
    BY <2>2, <2>4
  <2> QED
    BY <2>5, <2>6 DEF TrueTargets
<1>2. ASSUME NEW w \in TrueTargets(o) PROVE w \in matchWorkloads(a, o.ns, o.selector)
  <2>1. PICK k, x :
           k \in WorkloadKinds /\ x \in Objects(k) /\ w = [kind |-> x.kind, key |-> Key(x)] /\ Selects(o, x)
    BY <1>2 DEF TrueTargets
  <2>2. PICK key \in DOMAIN api[k] : x = api[k][key]
    BY <2>1 DEF Objects
  <2>3. x.kind = k /\ Key(x) = key /\ key[1] = x.ns
    BY <1>0, <2>1, <2>2, ApiObjects
  <2>4. o.ns = x.ns /\ DOMAIN x.selector # {} /\ labelsMatch(o.selector, x.selector)
    BY <2>1, SelectsFacts DEF LabelsSet
  <2>5. w.kind = k /\ w.key = key /\ key \in DOMAIN a[k] /\ a[k][key].selector = x.selector
    BY <2>1, <2>2, <2>3
  <2>6. w \in collectWorkloads(a)
    BY <2>1, <2>3, <2>4, <2>5 DEF collectWorkloads, WorkloadKinds
  <2> QED
    BY <2>3, <2>4, <2>5, <2>6 DEF matchWorkloads
<1> QED
  BY <1>1, <1>2

LEMMA TargetsStep ==
    ASSUME Inv, FinishBuild, AllCurrent(snap), LabelsSet, NEW k \in {"Service", "PDB"}
    PROVE  /\ DOMAIN snap'[k] = DOMAIN api[k]
           /\ \A key \in DOMAIN api[k] : snap'[k][key].targets = TrueTargets(api[k][key])
<1> DEFINE a == Aggregate(ResolveOwners(snap))
<1>1. snap' = MatchTargets(a)
  BY DEF FinishBuild, Enrich
<1>2. /\ DOMAIN a = Kinds /\ a[k] = snap[k] /\ k \in Kinds
      /\ \A j \in WorkloadKinds : /\ DOMAIN a[j] = DOMAIN api[j]
                                  /\ \A key \in DOMAIN api[j] : a[j][key].selector = api[j][key].selector
  BY AggregatedFacts DEF Inv, StoreInv, Kinds
<1> HIDE DEF a
<1>3. snap'[k] = Targets(a, k)
  BY <1>1, <1>2 DEF MatchTargets, Kinds
<1>4. Current(k, snap[k])
  BY <1>2 DEF AllCurrent
<1>5. DOMAIN snap'[k] = DOMAIN api[k]
  BY <1>2, <1>3, <1>4 DEF Targets, Current
<1>6. ASSUME NEW key \in DOMAIN api[k] PROVE snap'[k][key].targets = TrueTargets(api[k][key])
  <2>1. PICK o : o = api[k][key]
    OBVIOUS
  <2>2. o \in AllObjects /\ key[1] = o.ns
    BY <1>2, <2>1, ApiObjects
  <2>3. snap[k][key] = [selector |-> o.selector, targets |-> {}]
    BY <1>4, <2>1 DEF Current, ToModel, ServiceToModel, PDBToModel
  <2>4. snap'[k][key] = IF DOMAIN o.selector = {} THEN snap[k][key]
                        ELSE [snap[k][key] EXCEPT !.targets = matchWorkloads(a, o.ns, o.selector)]
    BY <1>2, <1>3, <1>4, <2>2, <2>3 DEF Targets, Current
  <2>5. CASE DOMAIN o.selector = {}
    BY <2>1, <2>3, <2>4, <2>5 DEF TrueTargets, Selects
  <2>6. CASE DOMAIN o.selector # {}
    <3>1. matchWorkloads(a, o.ns, o.selector) = TrueTargets(o)
      BY <1>2, <2>2, <2>6, MatchedExactly
    <3> QED
      BY <2>1, <2>3, <2>4, <2>6, <3>1
  <2> QED
    BY <2>5, <2>6
<1> QED
  BY <1>5, <1>6

\* The targets are exact whatever workloads, Services and PodDisruptionBudgets
\* there are, in whatever namespaces (TargetsEnricher, after the sums have been
\* put into the workloads).
THEOREM TargetsExactHolds == Spec => TargetsExact
<1>1. Inv /\ [Next]_vars =>
        [FinishBuild /\ AllCurrent(snap) /\ LabelsSet =>
           \A k \in {"Service", "PDB"} :
              /\ DOMAIN snap'[k] = DOMAIN api[k]
              /\ \A key \in DOMAIN api[k] : snap'[k][key].targets = TrueTargets(api[k][key])]_vars
  BY TargetsStep
<1> QED
  BY <1>1, Invariant, PTL DEF Spec, TargetsExact

------------------------------------------------------------------------------
(* What Build makes of a cluster it has read as it is: the owners, by names *)
(* and by UIDs.                                                             *)

\* The kinds that control a kind, among those here.
OwnerKinds(k) ==
    CASE k = "Pod" -> Kinds \ {"Pod"}
      [] k = "ReplicaSet" -> {"Deployment"}
      [] k = "Job" -> {"CronJob"}
      [] OTHER -> {}

\* A cluster at rest: the garbage collector has no work left, UIDs are unique,
\* and ownership is as the controllers of Kubernetes set it up.
Regular(objects) ==
    /\ OwnersThere(objects)
    /\ \A x, y \in objects : x.uid = y.uid => x = y
    /\ \A x, y \in objects : \A r \in ToSet(x.owners) : r.uid = y.uid => Is(y, r.kind, <<x.ns, r.name>>)
    /\ \A x \in objects : /\ x.name # ""
                          /\ \A r \in Tracked(x) : r.kind \in OwnerKinds(x.kind)
                          /\ x.kind \in {"Pod", "ReplicaSet"} => Tracked(x) \subseteq {FirstOwner(x)}

\* A Build that has read every store as the cluster is, at rest, reports for
\* every workload what the pods below it request, by UIDs; the Jobs of a CronJob,
\* whose pods ownership.go hands to the CronJob, are left out.
TotalsExact ==
    [][FinishBuild /\ AllCurrent(snap) /\ Regular(AllObjects) /\ maxOwnerDepth > 0 =>
         \A k \in WorkloadKinds \cup {"Job"} :
            /\ DOMAIN snap'[k] = DOMAIN api[k]
            /\ \A key \in DOMAIN api[k] :
                  ~OfCronJob(api[k][key]) => snap'[k][key].total = TrueTotal(api[k][key])]_vars

\* The objects of the cluster, and no two of them of one kind and key.
LEMMA ObjectKeys ==
    ASSUME Inv, NEW x \in AllObjects
    PROVE  /\ x.kind \in Kinds /\ Key(x) \in DOMAIN api[x.kind] /\ x = api[x.kind][Key(x)]
           /\ IsObject(x) /\ Key(x) = <<x.ns, x.name>>
<1>1. PICK k \in Kinds : x \in Objects(k)
  BY DEF AllObjects
<1>2. PICK key \in DOMAIN api[k] : x = api[k][key]
  BY <1>1 DEF Objects
<1>3. x.kind = k /\ Key(x) = key /\ IsObject(x)
  BY <1>2, ApiObjects
<1> QED
  BY <1>2, <1>3 DEF Key

LEMMA IsUnique ==
    ASSUME Inv, NEW x \in AllObjects, NEW y \in AllObjects, NEW k, NEW key, Is(x, k, key), Is(y, k, key)
    PROVE  x = y
BY ObjectKeys DEF Is

\* The owners of an object by UIDs are those its references name.
LEMMA DirectRefs ==
    ASSUME Inv, Regular(AllObjects), NEW x \in AllObjects
    PROVE  /\ \A y \in Direct(AllObjects, x) : \E r \in Tracked(x) : Is(y, r.kind, <<x.ns, r.name>>)
           /\ \A r \in Tracked(x) : \E y \in Direct(AllObjects, x) : Is(y, r.kind, <<x.ns, r.name>>)
           /\ Direct(AllObjects, x) \subseteq AllObjects
<1>1. ASSUME NEW y \in Direct(AllObjects, x)
      PROVE  \E r \in Tracked(x) : Is(y, r.kind, <<x.ns, r.name>>)
  <2>1. PICK r \in ToSet(x.owners) : y \in AllObjects /\ r.uid = y.uid
    BY <1>1 DEF Direct
  <2>2. Is(y, r.kind, <<x.ns, r.name>>)
    BY <2>1 DEF Regular
  <2>3. r.kind \in Kinds
    BY <2>1, <2>2, ObjectKeys DEF Is
  <2> QED
    BY <2>1, <2>2, <2>3 DEF Tracked
<1>2. ASSUME NEW r \in Tracked(x)
      PROVE  \E y \in Direct(AllObjects, x) : Is(y, r.kind, <<x.ns, r.name>>)
  <2>1. r \in ToSet(x.owners) /\ r.kind \in Kinds
    BY <1>2 DEF Tracked
  <2>2. PICK i \in DOMAIN x.owners : r = x.owners[i]
    BY <2>1 DEF ToSet
  <2>3. PICK y \in AllObjects : Is(y, r.kind, <<x.ns, r.name>>) /\ y.uid = r.uid
    BY <2>1, <2>2 DEF Regular, OwnersThere, Refers
  <2> QED
    BY <2>1, <2>3 DEF Direct
<1> QED
  BY <1>1, <1>2 DEF Direct

\* The owner of a pod or a ReplicaSet is the one the conversion keeps.
LEMMA DirectFirst ==
    ASSUME Inv, Regular(AllObjects), NEW x \in AllObjects, x.kind \in {"Pod", "ReplicaSet"},
           NEW w \in AllObjects
    PROVE  w \in Direct(AllObjects, x) <=> Is(w, FirstOwner(x).kind, <<x.ns, FirstOwner(x).name>>)
<1>1. PICK f : f = FirstOwner(x)
  OBVIOUS
<1>2. Tracked(x) \subseteq {f}
  BY <1>1 DEF Regular
<1>3. ASSUME w \in Direct(AllObjects, x) PROVE Is(w, f.kind, <<x.ns, f.name>>)
  BY <1>2, <1>3, DirectRefs
<1>4. ASSUME Is(w, f.kind, <<x.ns, f.name>>) PROVE w \in Direct(AllObjects, x)
  <2>1. f.kind \in Kinds /\ f.kind # ""
    BY <1>4, ObjectKeys DEF Is, Kinds
  <2>2. 1 \in DOMAIN x.owners /\ f = x.owners[1]
    BY <1>1, <2>1, ObjectKeys, FirstOwnerFacts
  <2>3. f \in Tracked(x)
    BY <2>1, <2>2 DEF Tracked, ToSet
  <2>4. PICK y \in Direct(AllObjects, x) : Is(y, f.kind, <<x.ns, f.name>>)
    BY <2>3, DirectRefs
  <2>5. y \in AllObjects
    BY <2>4 DEF Direct
  <2>6. PICK k, key : k = f.kind /\ key = <<x.ns, f.name>>
    OBVIOUS
  <2>7. y = w
    BY <1>4, <2>4, <2>5, <2>6, IsUnique
  <2> QED
    BY <2>4, <2>7
<1> QED
  BY <1>1, <1>3, <1>4

\* Above a pod are its owner and the owner of that one.
LEMMA PodAbove ==
    ASSUME Inv, Regular(AllObjects), NEW x \in AllObjects, x.kind = "Pod", NEW w
    PROVE  w \in Above(AllObjects, x) <=>
              \/ w \in Direct(AllObjects, x)
              \/ \E y \in Direct(AllObjects, x) : w \in Direct(AllObjects, y)
<1> DEFINE Up(y) == Direct(AllObjects, y)
           S == Up(x) \cup UNION {Up(y) : y \in Up(x)}
<1>1. ASSUME NEW y \in Up(x) PROVE y \in AllObjects /\ y.kind # "Pod"
  <2>1. PICK r \in Tracked(x) : Is(y, r.kind, <<x.ns, r.name>>)
    BY <1>1, DirectRefs
  <2>2. r.kind \in OwnerKinds("Pod")
    BY <2>1 DEF Regular
  <2>3. y \in AllObjects
    BY <1>1 DEF Direct
  <2> QED
    BY <2>1, <2>2, <2>3 DEF OwnerKinds, Is
<1>2. ASSUME NEW y \in Up(x), NEW z \in Up(y) PROVE z \in AllObjects /\ Up(z) = {}
  <2>1. PICK r \in Tracked(y) : Is(z, r.kind, <<y.ns, r.name>>)
    BY <1>1, <1>2, DirectRefs
  <2>2. r.kind \in OwnerKinds(y.kind) /\ y.kind # "Pod"
    BY <1>1, <2>1 DEF Regular
  <2>3. z.kind \in {"Deployment", "CronJob"}
    BY <2>1, <2>2 DEF OwnerKinds, Is
  <2>4. z \in AllObjects
    BY <1>2 DEF Direct
  <2>5. Tracked(z) = {}
    BY <2>3, <2>4 DEF Regular, OwnerKinds
  <2> QED
    BY <2>4, <2>5, DirectRefs
<1>3. S \in SUBSET AllObjects
  BY <1>1, <1>2
<1>4. Closed(AllObjects, x, S)
  BY <1>2 DEF Closed
<1>5. Above(AllObjects, x) \subseteq S
  BY <1>3, <1>4 DEF Above
<1>6. S \subseteq Above(AllObjects, x)
  BY AboveDirect, AboveAgain
<1> QED
  BY <1>5, <1>6

\* One pass of the loop, taken apart.
ByReplicaSet(s, o, key) ==
    o.kind = "ReplicaSet" /\ key \in DOMAIN s["ReplicaSet"] /\ s["ReplicaSet"][key].owner.kind # ""
ByJob(s, o, key) ==
    o.kind = "Job" /\ key \in DOMAIN s["Job"] /\ s["Job"][key].ownerCronJob # ""

LEMMA HopFacts ==
    ASSUME NEW s, NEW ns, NEW o, NEW key, key = <<ns, o.name>>
    PROVE  /\ ByReplicaSet(s, o, key) => Hop(s, ns, o) = s["ReplicaSet"][key].owner
           /\ ByJob(s, o, key) => Hop(s, ns, o).kind = "CronJob"
           /\ ~ByReplicaSet(s, o, key) /\ ~ByJob(s, o, key) => Hop(s, ns, o) = o
<1>1. CASE ByReplicaSet(s, o, key)
  BY <1>1 DEF Hop, ByReplicaSet, ByJob
<1>2. CASE ByJob(s, o, key)
  <2>2. PICK h : h = Hop(s, ns, o)
    OBVIOUS
  <2>3. ~ByReplicaSet(s, o, key)
    BY <1>2 DEF ByReplicaSet, ByJob
  <2> DEFINE cronJob == <<ns, s["Job"][key].ownerCronJob>>
  <2>4. h = [kind |-> "CronJob", name |-> cronJob[2],
             uid |-> IF cronJob \in DOMAIN s["CronJob"] THEN s["CronJob"][cronJob].uid ELSE o.uid]
    BY <1>2, <2>2 DEF Hop, ByJob
  <2> HIDE DEF cronJob
  <2>5. h.kind = "CronJob"
    BY <2>4
  <2> QED
    BY <1>2, <2>2, <2>3, <2>5
<1>3. CASE ~ByReplicaSet(s, o, key) /\ ~ByJob(s, o, key)
  BY <1>3 DEF Hop, ByReplicaSet, ByJob
<1> QED
  BY <1>1, <1>2, <1>3

\* The loop comes to rest where a pass changes nothing.
LEMMA ResolvedAtRest ==
    ASSUME maxOwnerDepth > 0, NEW s, NEW ns, NEW o, NEW h, h = Hop(s, ns, o), Hop(s, ns, h) = h
    PROVE  resolveOwner(s, ns, o) = h
<1>1. PICK a : /\ Path(a, s, ns, o)
               /\ resolveOwner(s, ns, o) = IF o.kind \in {"", "Node"} THEN o ELSE a[maxOwnerDepth]
  BY ResolvePath
<1>2. CASE o.kind \in {"", "Node"}
  <2>1. PICK key : key = <<ns, o.name>>
    OBVIOUS
  <2>2. ~ByReplicaSet(s, o, key) /\ ~ByJob(s, o, key)
    BY <1>2 DEF ByReplicaSet, ByJob
  <2>3. h = o
    BY <2>1, <2>2, HopFacts
  <2> QED
    BY <1>1, <1>2, <2>3
<1>3. CASE o.kind \notin {"", "Node"}
  <2> DEFINE P == {n \in Nat : n + 1 <= maxOwnerDepth => a[n + 1] = h}
  <2>1. 0 \in P
    BY <1>1, DepthAssumption DEF Path
  <2>2. ASSUME NEW n \in Nat, n \in P PROVE n + 1 \in P
    <3> SUFFICES ASSUME n + 1 + 1 <= maxOwnerDepth PROVE a[n + 1 + 1] = h
      OBVIOUS
    <3>1. n + 1 \in Nat /\ n + 1 < maxOwnerDepth /\ n + 1 <= maxOwnerDepth
      BY DepthAssumption
    <3>2. a[n + 1] = h /\ a[n + 1 + 1] = Hop(s, ns, a[n + 1])
      BY <1>1, <2>2, <3>1 DEF Path
    <3> QED
      BY <3>2
  <2>3. Nat \subseteq P
    <3> HIDE DEF P
    <3> QED BY <2>1, <2>2, NumberInduction
  <2>4. PICK n \in Nat : n + 1 = maxOwnerDepth
    <3>1. maxOwnerDepth - 1 \in Nat /\ (maxOwnerDepth - 1) + 1 = maxOwnerDepth
      BY DepthAssumption
    <3> QED BY <3>1
  <2>5. a[n + 1] = h
    BY <2>3, <2>4
  <2> QED
    BY <1>1, <1>3, <2>4, <2>5
<1> QED
  BY <1>2, <1>3

------------------------------------------------------------------------------
(* The workload a pod is counted for is the one above it.                   *)

\* The owner that the store of ReplicaSets and that of Jobs tell.
LEMMA CurrentOwners ==
    ASSUME NEW s, AllCurrent(s)
    PROVE  /\ DOMAIN s["ReplicaSet"] = DOMAIN api["ReplicaSet"]
           /\ \A key \in DOMAIN api["ReplicaSet"] :
                 s["ReplicaSet"][key].owner = FirstOwner(api["ReplicaSet"][key])
           /\ DOMAIN s["Job"] = DOMAIN api["Job"]
           /\ \A key \in DOMAIN api["Job"] :
                 s["Job"][key].ownerCronJob = JobToModel(api["Job"][key]).ownerCronJob
<1>1. Current("ReplicaSet", s["ReplicaSet"]) /\ Current("Job", s["Job"])
  BY DEF AllCurrent, Kinds
<1>2. ASSUME NEW key \in DOMAIN api["ReplicaSet"]
      PROVE  s["ReplicaSet"][key].owner = FirstOwner(api["ReplicaSet"][key])
  <2>1. s["ReplicaSet"][key] = ReplicaSetToModel(api["ReplicaSet"][key])
    BY <1>1 DEF Current, ToModel
  <2> QED
    BY <2>1 DEF ReplicaSetToModel
<1>3. ASSUME NEW key \in DOMAIN api["Job"]
      PROVE  s["Job"][key].ownerCronJob = JobToModel(api["Job"][key]).ownerCronJob
  <2>1. s["Job"][key] = JobToModel(api["Job"][key])
    BY <1>1 DEF Current, ToModel
  <2> QED
    BY <2>1
<1> QED
  BY <1>1, <1>2, <1>3 DEF Current

\* A Job tells its CronJob exactly when it has one.
LEMMA CronJobKnown ==
    ASSUME Inv, Regular(AllObjects), NEW x \in AllObjects, x.kind = "Job"
    PROVE  OfCronJob(x) <=> JobToModel(x).ownerCronJob # ""
<1>1. IsObject(x)
  BY ObjectKeys
<1>2. CASE /\ JobToModel(x).ownerCronJob = ""
           /\ \A i \in DOMAIN x.owners : x.owners[i].kind # "CronJob"
  BY <1>2 DEF OfCronJob, ToSet
<1>3. ASSUME NEW i \in DOMAIN x.owners, x.owners[i].kind = "CronJob",
             x.owners[i].name = JobToModel(x).ownerCronJob
      PROVE  OfCronJob(x) /\ JobToModel(x).ownerCronJob # ""
  <2>1. PICK r : r = x.owners[i]
    OBVIOUS
  <2>2. r \in ToSet(x.owners) /\ r.kind = "CronJob" /\ r.name = JobToModel(x).ownerCronJob
    BY <1>3, <2>1 DEF ToSet
  <2>3. r \in Tracked(x)
    BY <2>2 DEF Tracked, Kinds
  <2>4. PICK y \in Direct(AllObjects, x) : Is(y, r.kind, <<x.ns, r.name>>)
    BY <2>3, DirectRefs
  <2>5. y \in AllObjects
    BY <2>4 DEF Direct
  <2>6. y.name # "" /\ y.name = r.name
    BY <2>4, <2>5 DEF Regular, Is, Key
  <2> QED
    BY <2>2, <2>6 DEF OfCronJob
<1> QED
  BY <1>1, <1>2, <1>3, OwnerCronJobFacts

\* The one object that the owner kept of a pod names.
LEMMA FirstOwnerObject ==
    ASSUME Inv, Regular(AllObjects), NEW x \in AllObjects, x.kind = "Pod",
           NEW f, f = FirstOwner(x), NEW key, key = <<x.ns, f.name>>,
           f.kind \in Kinds, key \in DOMAIN api[f.kind], NEW y, y = api[f.kind][key]
    PROVE  /\ y \in AllObjects /\ y.kind = f.kind /\ y.ns = x.ns
           /\ Direct(AllObjects, x) = {y}
           /\ \A w : w \in Above(AllObjects, x) <=> w = y \/ w \in Direct(AllObjects, y)
<1>1. y \in AllObjects /\ y.kind = f.kind /\ Key(y) = key
  BY ApiObjects
<1>2. y.ns = x.ns /\ Is(y, f.kind, key)
  BY <1>1 DEF Is, Key
<1>3. y \in Direct(AllObjects, x)
  BY <1>1, <1>2, DirectFirst
<1>4. ASSUME NEW z \in Direct(AllObjects, x) PROVE z = y
  <2>1. z \in AllObjects
    BY <1>4 DEF Direct
  <2>2. Is(z, f.kind, key)
    BY <1>4, <2>1, DirectFirst
  <2>3. PICK k : k = f.kind
    OBVIOUS
  <2> QED
    BY <1>1, <1>2, <2>1, <2>2, <2>3, IsUnique
<1>5. Direct(AllObjects, x) = {y}
  BY <1>3, <1>4
<1>6. \A w : w \in Above(AllObjects, x) <=> w = y \/ w \in Direct(AllObjects, y)
  BY <1>5, PodAbove
<1> QED
  BY <1>1, <1>2, <1>5, <1>6

\* The workloads that are totalled from pods.
Totalled == WorkloadKinds \cup {"Job"}

\* The pod is owned through a ReplicaSet.
LEMMA ResolvedByReplicaSet ==
    ASSUME Inv, Regular(AllObjects), maxOwnerDepth > 0, NEW s, AllCurrent(s),
           NEW x \in AllObjects, x.kind = "Pod", NEW f, f = FirstOwner(x),
           NEW key, key = <<x.ns, f.name>>, ByReplicaSet(s, f, key),
           NEW o, o = resolveOwner(s, x.ns, f), NEW w \in AllObjects, w.kind \in Totalled
    PROVE  Is(w, o.kind, <<x.ns, o.name>>) <=> w \in Above(AllObjects, x) /\ ~OfCronJob(w)
<1>1. f.kind = "ReplicaSet" /\ f.kind \in Kinds /\ key \in DOMAIN api["ReplicaSet"]
  BY CurrentOwners DEF ByReplicaSet, Kinds
<1>2. PICK y : y = api["ReplicaSet"][key]
  OBVIOUS
<1>3. PICK g : g = FirstOwner(y)
  OBVIOUS
<1>4. s["ReplicaSet"][key].owner = g /\ g.kind # ""
  BY <1>1, <1>2, <1>3, CurrentOwners DEF ByReplicaSet
<1>5. /\ y \in AllObjects /\ y.kind = "ReplicaSet" /\ y.ns = x.ns
      /\ w \in Above(AllObjects, x) <=> w = y \/ w \in Direct(AllObjects, y)
  BY <1>1, <1>2, FirstOwnerObject
<1>6. g.kind \in Kinds => g.kind = "Deployment"
  <2>1. 1 \in DOMAIN y.owners /\ g = y.owners[1]
    BY <1>3, <1>4, <1>5, ObjectKeys, FirstOwnerFacts
  <2>2. g.kind \in Kinds => g \in Tracked(y)
    BY <2>1 DEF Tracked, ToSet
  <2> QED
    BY <1>5, <2>2 DEF Regular, OwnerKinds
<1>7. g.kind # "ReplicaSet" /\ g.kind # "Job"
  BY <1>6 DEF Kinds
<1>8. g = Hop(s, x.ns, f)
  <2>1. PICK ns : ns = x.ns
    OBVIOUS
  <2>2. Hop(s, ns, f) = s["ReplicaSet"][key].owner
    BY <2>1, HopFacts
  <2>3. s["ReplicaSet"][key].owner = g
    BY <1>4
  <2> QED
    BY <2>1, <2>2, <2>3
<1>9. Hop(s, x.ns, g) = g
  <2>1. PICK up : up = <<x.ns, g.name>>
    OBVIOUS
  <2>2. ~ByReplicaSet(s, g, up) /\ ~ByJob(s, g, up)
    BY <1>7 DEF ByReplicaSet, ByJob
  <2> QED
    BY <2>1, <2>2, HopFacts
<1>10. o = g
  <2>1. PICK ns : ns = x.ns
    OBVIOUS
  <2> QED
    BY <1>8, <1>9, <2>1, ResolvedAtRest
<1>11. w.kind # "ReplicaSet"
  BY DEF Totalled, WorkloadKinds
<1>12. w \in Above(AllObjects, x) <=> Is(w, g.kind, <<x.ns, g.name>>)
  BY <1>3, <1>5, <1>11, DirectFirst
<1>13. Is(w, g.kind, <<x.ns, g.name>>) => ~OfCronJob(w)
  BY <1>6, ObjectKeys DEF Is, OfCronJob
<1> QED
  BY <1>10, <1>12, <1>13

\* The pod is owned through a Job that has a CronJob.
LEMMA ResolvedByJob ==
    ASSUME Inv, Regular(AllObjects), maxOwnerDepth > 0, NEW s, AllCurrent(s),
           NEW x \in AllObjects, x.kind = "Pod", NEW f, f = FirstOwner(x),
           NEW key, key = <<x.ns, f.name>>, ByJob(s, f, key),
           NEW o, o = resolveOwner(s, x.ns, f), NEW w \in AllObjects, w.kind \in Totalled
    PROVE  Is(w, o.kind, <<x.ns, o.name>>) <=> w \in Above(AllObjects, x) /\ ~OfCronJob(w)
<1>1. f.kind = "Job" /\ f.kind \in Kinds /\ key \in DOMAIN api["Job"]
  BY CurrentOwners DEF ByJob, Kinds
<1>2. PICK y : y = api["Job"][key]
  OBVIOUS
<1>3. /\ y \in AllObjects /\ y.kind = "Job" /\ y.ns = x.ns
      /\ w \in Above(AllObjects, x) <=> w = y \/ w \in Direct(AllObjects, y)
  BY <1>1, <1>2, FirstOwnerObject
<1>4. OfCronJob(y)
  BY <1>1, <1>2, <1>3, CurrentOwners, CronJobKnown DEF ByJob
<1>5. PICK h : h = Hop(s, x.ns, f)
  OBVIOUS
<1>6. h.kind = "CronJob"
  BY <1>5, HopFacts
<1>7. Hop(s, x.ns, h) = h
  <2>1. PICK up : up = <<x.ns, h.name>>
    OBVIOUS
  <2>2. ~ByReplicaSet(s, h, up) /\ ~ByJob(s, h, up)
    BY <1>6 DEF ByReplicaSet, ByJob
  <2> QED
    BY <2>1, <2>2, HopFacts
<1>8. o = h
  <2>1. PICK ns : ns = x.ns
    OBVIOUS
  <2> QED
    BY <1>5, <1>7, <2>1, ResolvedAtRest
<1>9. w.kind # "CronJob"
  BY DEF Totalled, WorkloadKinds
<1>10. w \notin Direct(AllObjects, y)
  <2>1. SUFFICES ASSUME w \in Direct(AllObjects, y) PROVE FALSE
    OBVIOUS
  <2>2. PICK r \in Tracked(y) : Is(w, r.kind, <<y.ns, r.name>>)
    BY <1>3, <2>1, DirectRefs
  <2>3. r.kind \in OwnerKinds("Job")
    BY <1>3, <2>2 DEF Regular
  <2> QED
    BY <1>9, <2>2, <2>3 DEF OwnerKinds, Is
<1>11. ~Is(w, o.kind, <<x.ns, o.name>>)
  BY <1>6, <1>8, <1>9 DEF Is
<1> QED
  BY <1>3, <1>4, <1>10, <1>11

\* The pod is owned by the workload itself, or by nothing that is known.
LEMMA ResolvedDirectly ==
    ASSUME Inv, Regular(AllObjects), maxOwnerDepth > 0, NEW s, AllCurrent(s),
           NEW x \in AllObjects, x.kind = "Pod", NEW f, f = FirstOwner(x),
           NEW key, key = <<x.ns, f.name>>, ~ByReplicaSet(s, f, key), ~ByJob(s, f, key),
           NEW o, o = resolveOwner(s, x.ns, f), NEW w \in AllObjects, w.kind \in Totalled
    PROVE  Is(w, o.kind, <<x.ns, o.name>>) <=> w \in Above(AllObjects, x) /\ ~OfCronJob(w)
<1>1. f = Hop(s, x.ns, f)
  BY HopFacts
<1>2. o = f
  <2>1. PICK ns : ns = x.ns
    OBVIOUS
  <2> QED
    BY <1>1, <2>1, ResolvedAtRest
<1>3. Is(w, o.kind, <<x.ns, o.name>>) <=> w \in Direct(AllObjects, x)
  BY <1>2, DirectFirst
<1>4. ASSUME NEW y \in Direct(AllObjects, x)
      PROVE  /\ y \in AllObjects /\ y.kind \in Kinds /\ y.kind = f.kind
             /\ key \in DOMAIN api[y.kind] /\ y = api[y.kind][key]
  <2>1. y \in AllObjects
    BY <1>4 DEF Direct
  <2>2. Is(y, f.kind, key)
    BY <1>4, <2>1, DirectFirst
  <2> QED
    BY <2>1, <2>2, ObjectKeys DEF Is
<1>5. ASSUME NEW y \in Direct(AllObjects, x) PROVE w \notin Direct(AllObjects, y)
  <2>1. SUFFICES ASSUME w \in Direct(AllObjects, y) PROVE FALSE
    OBVIOUS
  <2>2. y \in AllObjects /\ y.kind = f.kind /\ key \in DOMAIN api[y.kind] /\ y = api[y.kind][key]
    BY <1>4, <1>5
  <2>3. PICK r \in Tracked(y) : Is(w, r.kind, <<y.ns, r.name>>)
    BY <2>1, <2>2, DirectRefs
  <2>4. r.kind \in OwnerKinds(y.kind) /\ w.kind = r.kind
    BY <2>2, <2>3 DEF Regular, Is
  <2>5. y.kind # "Pod"
    <3>1. PICK q \in Tracked(x) : Is(y, q.kind, <<x.ns, q.name>>)
      BY <1>5, DirectRefs
    <3>2. q.kind \in OwnerKinds("Pod")
      BY <3>1 DEF Regular
    <3> QED
      BY <3>1, <3>2 DEF OwnerKinds, Is
  <2>6. y.kind = "ReplicaSet"
    BY <2>4, <2>5 DEF OwnerKinds, Totalled, WorkloadKinds
  <2>7. Is(w, FirstOwner(y).kind, <<y.ns, FirstOwner(y).name>>)
    BY <2>1, <2>2, <2>6, DirectFirst
  <2>8. FirstOwner(y).kind # ""
    BY <2>7, ObjectKeys DEF Is, Kinds
  <2> QED
    BY <2>2, <2>6, <2>8, CurrentOwners DEF ByReplicaSet
<1>6. w \in Above(AllObjects, x) <=> w \in Direct(AllObjects, x)
  BY <1>5, PodAbove
<1>7. w \in Direct(AllObjects, x) => ~OfCronJob(w)
  <2>1. SUFFICES ASSUME w \in Direct(AllObjects, x), OfCronJob(w) PROVE FALSE
    OBVIOUS
  <2>2. w.kind = "Job" /\ f.kind = "Job" /\ key \in DOMAIN api["Job"] /\ w = api["Job"][key]
    BY <1>4, <2>1 DEF OfCronJob
  <2>3. JobToModel(w).ownerCronJob # ""
    BY <2>1, <2>2, CronJobKnown
  <2> QED
    BY <2>2, <2>3, CurrentOwners DEF ByJob
<1> QED
  BY <1>3, <1>6, <1>7

LEMMA ResolvedToAbove ==
    ASSUME Inv, Regular(AllObjects), maxOwnerDepth > 0, NEW s, AllCurrent(s),
           NEW x \in AllObjects, x.kind = "Pod",
           NEW o, o = resolveOwner(s, x.ns, FirstOwner(x)), NEW w \in AllObjects, w.kind \in Totalled
    PROVE  Is(w, o.kind, <<x.ns, o.name>>) <=> w \in Above(AllObjects, x) /\ ~OfCronJob(w)
<1>1. PICK f, key : f = FirstOwner(x) /\ key = <<x.ns, f.name>>
  OBVIOUS
<1>2. CASE ByReplicaSet(s, f, key)
  BY <1>1, <1>2, ResolvedByReplicaSet
<1>3. CASE ByJob(s, f, key)
  BY <1>1, <1>3, ResolvedByJob
<1>4. CASE ~ByReplicaSet(s, f, key) /\ ~ByJob(s, f, key)
  BY <1>1, <1>4, ResolvedDirectly
<1> QED
  BY <1>2, <1>3, <1>4

------------------------------------------------------------------------------
(* What Build makes of a cluster it has read as it is: the totals.          *)

LEMMA CurrentPods ==
    ASSUME Inv, NEW s, DOMAIN s = Kinds, AllCurrent(s), NEW pods, pods = ResolveOwners(s)["Pod"]
    PROVE  /\ DOMAIN pods = DOMAIN api["Pod"]
           /\ \A p \in DOMAIN api["Pod"] :
                 pods[p] = [owner |-> resolveOwner(s, p[1], FirstOwner(api["Pod"][p])),
                            phase |-> api["Pod"][p].phase,
                            containers |-> convertContainers(api["Pod"][p].containers)]
<1>1. Current("Pod", s["Pod"])
  BY DEF AllCurrent, Kinds
<1>2. pods = [p \in DOMAIN s["Pod"] |-> [s["Pod"][p] EXCEPT !.owner = resolveOwner(s, p[1], @)]]
  BY ResolvedPods
<1>3. ASSUME NEW p \in DOMAIN api["Pod"]
      PROVE  pods[p] = [owner |-> resolveOwner(s, p[1], FirstOwner(api["Pod"][p])),
                        phase |-> api["Pod"][p].phase,
                        containers |-> convertContainers(api["Pod"][p].containers)]
  <2>1. p \in DOMAIN s["Pod"] /\ s["Pod"][p] = PodToModel(api["Pod"][p])
    BY <1>1 DEF Current, ToModel
  <2> QED
    BY <1>2, <2>1 DEF PodToModel
<1> QED
  BY <1>1, <1>2, <1>3 DEF Current

\* The pods that are counted for w.
CountedFor(w) ==
    {p \in PodsBelow(w) : /\ ~OfCronJob(w)
                          /\ w.kind = "Job" \/ p.phase \notin {"Succeeded", "Failed"}}

LEMMA PodsCounted ==
    ASSUME Inv, Regular(AllObjects), maxOwnerDepth > 0, NEW s, DOMAIN s = Kinds, AllCurrent(s),
           NEW k \in Totalled, NEW key \in DOMAIN api[k], NEW w, w = api[k][key],
           NEW pods, pods = ResolveOwners(s)["Pod"]
    PROVE  podsByWorkload(pods, k, key) = {p \in DOMAIN api["Pod"] : api["Pod"][p] \in CountedFor(w)}
<1>1. k \in Kinds /\ "Pod" \in Kinds /\ k # ""
  BY DEF Totalled, WorkloadKinds, Kinds
<1>2. w \in AllObjects /\ w.kind = k /\ Key(w) = key /\ key[1] = w.ns /\ key[2] = w.name
  BY <1>1, ApiObjects
<1>3. DOMAIN pods = DOMAIN api["Pod"]
  BY CurrentPods
<1>4. ASSUME NEW p \in DOMAIN api["Pod"]
      PROVE  p \in podsByWorkload(pods, k, key) <=> api["Pod"][p] \in CountedFor(w)
  <2>1. PICK x : x = api["Pod"][p]
    OBVIOUS
  <2>2. x \in AllObjects /\ x \in Objects("Pod") /\ x.kind = "Pod" /\ p[1] = x.ns
    BY <1>1, <2>1, ApiObjects
  <2>3. PICK o : o = resolveOwner(s, x.ns, FirstOwner(x))
    OBVIOUS
  <2>4. pods[p].owner = o /\ pods[p].phase = x.phase
    <3>1. pods[p] = [owner |-> resolveOwner(s, p[1], FirstOwner(api["Pod"][p])),
                     phase |-> api["Pod"][p].phase,
                     containers |-> convertContainers(api["Pod"][p].containers)]
      BY <1>4, CurrentPods
    <3>2. /\ pods[p].owner = resolveOwner(s, p[1], FirstOwner(api["Pod"][p]))
          /\ pods[p].phase = api["Pod"][p].phase
      BY <3>1
    <3> QED
      BY <2>1, <2>2, <2>3, <3>2
  <2>5. Is(w, o.kind, <<x.ns, o.name>>) <=> w \in Above(AllObjects, x) /\ ~OfCronJob(w)
    BY <1>2, <2>2, <2>3, ResolvedToAbove
  <2>6. Is(w, o.kind, <<x.ns, o.name>>) <=> p[1] = key[1] /\ o.kind = k /\ o.name = key[2]
    BY <1>2, <2>2 DEF Is, Key
  <2>7. Counted(pods[p]) /\ o.kind = k
           <=> o.kind = k /\ (k = "Job" \/ x.phase \notin {"Succeeded", "Failed"})
    BY <1>1, <2>4 DEF Counted, isBatchOwnerKind, Totalled, WorkloadKinds
  <2>8. p \in podsByWorkload(pods, k, key) <=>
          Counted(pods[p]) /\ p[1] = key[1] /\ o.kind = k /\ o.name = key[2]
    BY <1>3, <2>4 DEF podsByWorkload
  <2>9. x \in CountedFor(w) <=> /\ w \in Above(AllObjects, x) /\ ~OfCronJob(w)
                                /\ k = "Job" \/ x.phase \notin {"Succeeded", "Failed"}
    BY <1>2, <2>2 DEF CountedFor, PodsBelow
  <2> QED
    BY <2>1, <2>5, <2>6, <2>7, <2>8, <2>9
<1> QED
  BY <1>3, <1>4 DEF podsByWorkload

\* Summed by keys or by pods, it is the same.
LEMMA SummedByKeys ==
    ASSUME Inv, NEW s, DOMAIN s = Kinds, AllCurrent(s), IsFiniteSet(DOMAIN api["Pod"]),
           NEW pods, pods = ResolveOwners(s)["Pod"],
           NEW S \in SUBSET Objects("Pod"), NEW keys, keys = {p \in DOMAIN api["Pod"] : api["Pod"][p] \in S}
    PROVE  sumPodResources(pods, keys) = RequestedBy(S)
<1> DEFINE h == [p \in keys |-> api["Pod"][p]]
<1>1. IsFiniteSet(keys)
  BY FS_Subset
<1>2. \A p, q \in keys : h[p] = h[q] => p = q
  BY ApiObjects DEF Kinds
<1>3. S = {h[p] : p \in keys}
  BY DEF Objects
<1>4. \A p \in keys : sumContainerSpecRequests(pods[p].containers) = Requested(h[p]) /\ IsObject(h[p])
  <2> SUFFICES ASSUME NEW p \in keys
               PROVE  sumContainerSpecRequests(pods[p].containers) = Requested(h[p]) /\ IsObject(h[p])
    OBVIOUS
  <2>1. PICK x : x = api["Pod"][p]
    OBVIOUS
  <2>2. pods[p].containers = convertContainers(x.containers)
    <3>1. pods[p] = [owner |-> resolveOwner(s, p[1], FirstOwner(api["Pod"][p])),
                     phase |-> api["Pod"][p].phase,
                     containers |-> convertContainers(api["Pod"][p].containers)]
      BY CurrentPods
    <3>2. pods[p].containers = convertContainers(api["Pod"][p].containers)
      BY <3>1
    <3> QED
      BY <2>1, <3>2
  <2>3. convertContainers(x.containers) = extractContainerSpecs(x.containers)
    BY DEF convertContainers, extractContainerSpecs
  <2>4. IsObject(x)
    BY <2>1, ApiObjects DEF Kinds
  <2> QED
    BY <2>1, <2>2, <2>3, <2>4 DEF Requested
<1> HIDE DEF h
<1>5. ASSUME NEW r \in Resources
      PROVE  sumPodResources(pods, keys)[r] = RequestedBy(S)[r]
  <2> DEFINE f == [p \in keys |-> sumContainerSpecRequests(pods[p].containers)[r]]
             g == [x \in S |-> Requested(x)[r]]
  <2>1. sumPodResources(pods, keys)[r] = SumFunctionOnSet(f, keys)
    BY DEF sumPodResources, SumRequests, SumFunction
  <2>2. RequestedBy(S)[r] = SumFunctionOnSet(g, S)
    BY DEF RequestedBy, SumRequests, SumFunction
  <2>3. \A p \in keys : g[h[p]] = f[p]
    BY <1>3, <1>4
  <2>4. \A p \in keys : f[p] \in Nat
    <3>1. \A x : convertContainers(x.containers) = extractContainerSpecs(x.containers)
      BY DEF convertContainers, extractContainerSpecs
    <3>2. \A p \in keys : Requested(h[p])[r] \in Nat
      BY <1>4, <3>1, PodRequests DEF Requested
    <3> QED
      BY <1>4, <3>2
  <2> HIDE DEF f, g
  <2>5. SumFunctionOnSet(g, {h[p] : p \in keys}) = SumFunctionOnSet(f, keys)
    BY <1>1, <1>2, <2>3, <2>4, SumImage
  <2> QED
    BY <1>3, <2>1, <2>2, <2>5
<1> QED
  BY <1>5 DEF sumPodResources, RequestedBy, SumRequests

\* The cluster has finitely many pods.
LEMMA FinitePods == Inv => IsFiniteSet(DOMAIN api["Pod"])
<1> SUFFICES ASSUME Inv PROVE IsFiniteSet(DOMAIN api["Pod"])
  OBVIOUS
<1> DEFINE f == [key \in DOMAIN api["Pod"] |-> ToModel("Pod", api["Pod"][key])]
<1>1. ItemsOf(past, f, "Pod")
  BY DEF Inv, ClusterInv, ItemsOf, Kinds
<1>2. World(past) /\ IsFiniteSet(past)
  BY PastWorld DEF Inv, PastInv
<1>3. DOMAIN f = DOMAIN api["Pod"]
  OBVIOUS
<1> HIDE DEF f
<1> QED
  BY <1>1, <1>2, <1>3, ItemKeys

LEMMA NothingRequested ==
    /\ RequestedBy({}) = Zero
    /\ \A w : extractContainerSpecs(w.containers) = <<>> => Requested(w) = Zero
<1>1. ASSUME NEW f, DOMAIN f = {} PROVE SumRequests(f) = Zero
  <2>1. ASSUME NEW r \in Resources PROVE SumFunction([i \in DOMAIN f |-> f[i][r]]) = 0
    <3> DEFINE g == [i \in DOMAIN f |-> f[i][r]]
    <3>1. DOMAIN g = {}
      BY <1>1
    <3>2. SumFunction(g) = SumFunctionOnSet(g, DOMAIN g)
      BY DEF SumFunction
    <3> HIDE DEF g
    <3>3. SumFunction(g) = 0
      BY <3>1, <3>2, SumEmpty
    <3> QED
      BY <3>3 DEF g
  <2> QED
    BY <2>1 DEF SumRequests, Zero
<1>2. RequestedBy({}) = Zero
  BY <1>1 DEF RequestedBy
<1>3. ASSUME NEW w, extractContainerSpecs(w.containers) = <<>> PROVE Requested(w) = Zero
  <2>1. DOMAIN extractContainerSpecs(w.containers) = {}
    BY <1>3
  <2> QED
    BY <1>1, <2>1 DEF Requested, sumContainerSpecRequests
<1> QED
  BY <1>2, <1>3

\* What Build sums up for w.
LEMMA SumForWorkload ==
    ASSUME Inv, Regular(AllObjects), maxOwnerDepth > 0, NEW s, DOMAIN s = Kinds, AllCurrent(s),
           NEW k \in Totalled, NEW key \in DOMAIN api[k], NEW w, w = api[k][key],
           NEW pods, pods = ResolveOwners(s)["Pod"]
    PROVE  sumPodResources(pods, podsByWorkload(pods, k, key)) = RequestedBy(CountedFor(w))
<1>1. PICK S : S = CountedFor(w)
  OBVIOUS
<1>2. S \in SUBSET Objects("Pod")
  BY <1>1 DEF CountedFor, PodsBelow
<1>3. podsByWorkload(pods, k, key) = {p \in DOMAIN api["Pod"] : api["Pod"][p] \in S}
  BY <1>1, PodsCounted
<1>4. IsFiniteSet(DOMAIN api["Pod"])
  BY FinitePods
<1> QED
  BY <1>1, <1>2, <1>3, <1>4, SummedByKeys

LEMMA TotalsStep ==
    ASSUME Inv, FinishBuild, AllCurrent(snap), Regular(AllObjects), maxOwnerDepth > 0,
           NEW k \in WorkloadKinds \cup {"Job"}
    PROVE  /\ DOMAIN snap'[k] = DOMAIN api[k]
           /\ \A key \in DOMAIN api[k] :
                 ~OfCronJob(api[k][key]) => snap'[k][key].total = TrueTotal(api[k][key])
<1> DEFINE r == ResolveOwners(snap)
           a == Aggregate(r)
           pods == r["Pod"]
           sum(key) == sumPodResources(pods, podsByWorkload(pods, k, key))
<1>1. DOMAIN snap = Kinds /\ k \in Kinds /\ k \in Totalled /\ k \notin {"Pod", "PDB", "Service"}
  BY DEF Inv, StoreInv, Kinds, WorkloadKinds, Totalled
<1>2. DOMAIN r = Kinds /\ r[k] = snap[k] /\ r["Job"] = snap["Job"]
  BY <1>1, ResolvedPods DEF Kinds
<1>3. snap' = MatchTargets(a)
  BY DEF FinishBuild, Enrich
<1>4. ASSUME NEW key \in DOMAIN api[k]
      PROVE  sum(key) = RequestedBy(CountedFor(api[k][key]))
  <2>1. PICK s, all, w : s = snap /\ all = pods /\ w = api[k][key]
    OBVIOUS
  <2>2. all = ResolveOwners(s)["Pod"]
    BY <2>1
  <2>3. DOMAIN s = Kinds /\ AllCurrent(s)
    BY <1>1, <2>1
  <2>4. sumPodResources(all, podsByWorkload(all, k, key)) = RequestedBy(CountedFor(w))
    BY <1>1, <1>4, <2>1, <2>2, <2>3, SumForWorkload
  <2> QED
    BY <2>1, <2>4
<1> HIDE DEF r
<1>5. DOMAIN a = Kinds /\ a[k] = IF k = "Job" THEN JobTotals(r) ELSE Totals(r, k)
  BY <1>1, <1>2 DEF Aggregate, Kinds, WorkloadKinds
<1> HIDE DEF a
<1>6. snap'[k] = a[k]
  BY <1>1, <1>3, <1>5 DEF MatchTargets
<1>7. Current(k, snap[k])
  BY <1>1 DEF AllCurrent
<1>8. DOMAIN snap[k] = DOMAIN api[k]
  BY <1>7 DEF Current
<1>9. CASE k # "Job"
  <2>1. DOMAIN snap'[k] = DOMAIN api[k]
    BY <1>2, <1>5, <1>6, <1>8, <1>9 DEF Totals
  <2>2. ASSUME NEW key \in DOMAIN api[k] PROVE snap'[k][key].total = TrueTotal(api[k][key])
    <3>1. PICK w : w = api[k][key]
      OBVIOUS
    <3>2. w.kind = k
      BY <1>1, <3>1, ApiObjects
    <3>3. snap[k][key] = [selector |-> w.selector, total |-> Zero]
      BY <1>7, <1>9, <3>1 DEF Current, ToModel, WorkloadKinds, DeploymentToModel, StatefulSetToModel,
                              DaemonSetToModel
    <3>4. snap'[k][key] = [snap[k][key] EXCEPT !.total = sum(key)]
      BY <1>2, <1>5, <1>6, <1>8, <1>9 DEF Totals
    <3> HIDE DEF sum
    <3>5. snap'[k][key].total = sum(key)
      BY <3>3, <3>4
    <3>6. CountedFor(w) = {p \in PodsBelow(w) : p.phase \notin {"Succeeded", "Failed"}}
      BY <1>9, <3>2 DEF CountedFor, OfCronJob
    <3>7. TrueTotal(w) = RequestedBy({p \in PodsBelow(w) : p.phase \notin {"Succeeded", "Failed"}})
      BY <1>9, <3>2 DEF TrueTotal
    <3> QED
      BY <1>4, <3>1, <3>5, <3>6, <3>7
  <2> QED
    BY <2>1, <2>2
<1>10. CASE k = "Job"
  <2>1. DOMAIN snap'[k] = DOMAIN api[k]
    BY <1>2, <1>5, <1>6, <1>8, <1>10 DEF JobTotals
  <2>2. ASSUME NEW key \in DOMAIN api[k], ~OfCronJob(api[k][key])
        PROVE  snap'[k][key].total = TrueTotal(api[k][key])
    <3>1. PICK w, specs, t : w = api[k][key] /\ specs = extractContainerSpecs(w.containers) /\ t = sum(key)
      OBVIOUS
    <3>2. w.kind = "Job"
      BY <1>1, <1>10, <3>1, ApiObjects
    <3>3. snap[k][key] = JobToModel(w)
      BY <1>7, <1>10, <3>1 DEF Current, ToModel
    <3>4. snap[k][key] = [ownerCronJob |-> JobToModel(w).ownerCronJob, specs |-> specs, total |-> Zero]
      BY <3>1, <3>3 DEF JobToModel
    <3>5. snap'[k][key] = [snap[k][key] EXCEPT !.total =
             IF t = Zero /\ snap[k][key].specs # <<>> THEN sumContainerSpecRequests(snap[k][key].specs) ELSE t]
      BY <1>2, <1>5, <1>6, <1>8, <1>10, <3>1 DEF JobTotals
    <3>6. snap[k][key].specs = specs
      BY <3>4
    <3>7. snap'[k][key].total =
             IF t = Zero /\ specs # <<>> THEN sumContainerSpecRequests(specs) ELSE t
      BY <3>4, <3>5, <3>6
    <3>8. sumContainerSpecRequests(specs) = Requested(w)
      BY <3>1 DEF Requested
    <3>9. specs = <<>> => Requested(w) = Zero
      BY <3>1, NothingRequested
    <3>10. t = RequestedBy(CountedFor(w))
      BY <1>4, <3>1
    <3>11. CountedFor(w) = PodsBelow(w)
      BY <2>2, <3>1, <3>2 DEF CountedFor
    <3>12. TrueTotal(w) = IF t = Zero THEN Requested(w) ELSE t
      BY <3>2, <3>10, <3>11 DEF TrueTotal
    <3> QED
      BY <3>1, <3>7, <3>8, <3>9, <3>12
  <2> QED
    BY <2>1, <2>2
<1> QED
  BY <1>9, <1>10

\* The totals are exact in every cluster at rest, however its workloads are
\* named and nested: what ownership.go and aggregation.go find by namespaces,
\* kinds and names is what the UIDs of the owner references say.  Nothing is said of the
\* total of a CronJob's Job, which is not the sum of its pods (LivePodsTrump).
THEOREM TotalsExactHolds == Spec => TotalsExact
<1>1. Inv /\ [Next]_vars =>
        [FinishBuild /\ AllCurrent(snap) /\ Regular(AllObjects) /\ maxOwnerDepth > 0 =>
           \A k \in WorkloadKinds \cup {"Job"} :
              /\ DOMAIN snap'[k] = DOMAIN api[k]
              /\ \A key \in DOMAIN api[k] :
                    ~OfCronJob(api[k][key]) => snap'[k][key].total = TrueTotal(api[k][key])]_vars
  BY TotalsStep
<1> QED
  BY <1>1, Invariant, PTL DEF Spec, TotalsExact

=============================================================================
