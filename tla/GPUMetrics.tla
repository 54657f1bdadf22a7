----------------------------- MODULE GPUMetrics -----------------------------
(***************************************************************************)
(* internal/collector/gpu and what Build makes of it: one poll scrapes the *)
(* dcgm-exporters one after the other, parses what each of them says, and  *)
(* Build merges the devices into nodes, containers and the summary.        *)
(*                                                                         *)
(* A text is a set of lines, parsed in some order: exporters order their   *)
(* metrics as they like.  A line is a metric, its labels in the order they *)
(* are written, and a value.  Of the labels, "pod" (new style) and         *)
(* "pod_name" (old style) stand for the pod, namespace and container of    *)
(* their style, which the parser treats alike.                             *)
(***************************************************************************)
EXTENDS Integers, Sequences, FiniteSets, SequencesExt

CONSTANTS
    Endpoints,      \* exporters of the poll
    Texts,          \* what they may answer: sets of functions from endpoints to lines
    Nil,            \* no value (a nil pointer)
    NotFinite,      \* a float JSON cannot encode: NaN, or minus infinity
    Blank,          \* DCGM's blank value, and whatever else is above sentinelThreshold
    Snapshots       \* what Build may have read: the nodes, and the pods with the GPU values
                    \* that earlier merges left in their containers

\* A sample is a number, blank, or not finite; a nil pointer is none of these.  (Plus
\* infinity is blank.  NaN and minus infinity are not, and arithmetic does not get rid
\* of them: one value stands for both.)
ASSUME ValueAssumption ==
    /\ Nil \notin Endpoints
    /\ {Nil, NotFinite, Blank} \cap Int = {} /\ Nil # NotFinite /\ Nil # Blank /\ NotFinite # Blank
    /\ \A t \in Texts : \A e \in Endpoints : \A x \in t[e] : x.value \in Int \cup {NotFinite, Blank}

\* Memory is a number of MiB, where it is not blank: what int64 makes of a float that is
\* not finite depends on the machine.
ASSUME MemoryAssumption ==
    \A t \in Texts : \A e \in Endpoints : \A x \in t[e] :
       x.metric \in {"DEV_FB_USED", "DEV_FB_FREE", "DEV_FB_TOTAL"} => x.value \in Nat \cup {Blank}

\* Nodes and pods have names.
ASSUME SnapshotAssumption ==
    \A s \in Snapshots :
       /\ IsFiniteSet(s.nodes) /\ "" \notin s.nodes
       /\ IsFiniteSet(DOMAIN s.containers) /\ "" \notin DOMAIN s.containers
       /\ \A p \in DOMAIN s.containers : /\ s.containers[p].util \in Int \cup {NotFinite, Nil}
                                        /\ s.containers[p].used \in Nat \cup {Nil}

mibToBytes == 1048576

VARIABLES
    text,       \* endpoint -> lines it answers with
    todo,       \* endpoints not scraped yet
    lines,      \* lines of the current endpoint not parsed yet
    current,    \* the endpoint whose lines are parsed, or Nil
    gpus,       \* ParseDCGMMetrics: key -> device
    hasProf,    \* its keys with a profiling metric
    devices,    \* devices of the endpoints parsed so far, by endpoint and key
    report      \* what Build reports once the poll is over, or Nil

vars == <<text, todo, lines, current, gpus, hasProf, devices, report>>

NoLabels == [gpu |-> "", uuid |-> "", hostname |-> "", pod |-> ""]
NoDevices == [key \in {} |-> Nil]
Put(f, key, value) == [x \in DOMAIN f \cup {key} |-> IF x = key THEN value ELSE f[x]]

Init ==
    /\ text \in Texts
    /\ todo = Endpoints
    /\ lines = {} /\ current = Nil
    /\ gpus = NoDevices /\ hasProf = {}
    /\ devices = NoDevices
    /\ report = Nil

------------------------------------------------------------------------------
(* Parsing a line.                                                          *)

isSentinel(v) == v = Blank

\* parseLabels: new-style labels overwrite, old-style ones fill an empty field.
SetLabel(l, label) ==
    CASE label.key = "gpu" -> [l EXCEPT !.gpu = label.value]
      [] label.key \in {"UUID", "uuid"} -> [l EXCEPT !.uuid = label.value]
      [] label.key = "Hostname" -> [l EXCEPT !.hostname = label.value]
      [] label.key = "pod" -> [l EXCEPT !.pod = label.value]
      [] label.key = "pod_name" -> [l EXCEPT !.pod = IF @ = "" THEN label.value ELSE @]
      [] OTHER -> l

parseLabels(labels) == FoldLeft(SetLabel, NoLabels, labels)

\* Mutant: a sample without UUID has no key.
MutKeyUUIDOnly(l) == l.uuid

DeviceKey(l) == IF l.uuid = "" THEN l.gpu ELSE l.uuid

\* The UUID of a GPU is no index: keys of the two kinds do not meet.
ASSUME KeyAssumption ==
    \A t \in Texts : \A e \in Endpoints : \A x, y \in t[e] :
       LET l == parseLabels(x.labels)
           m == parseLabels(y.labels)
       IN  l.uuid # "" /\ m.uuid = "" => l.uuid # m.gpu

getOrCreateGPU(key, l) ==
    IF key \in DOMAIN gpus THEN gpus[key]
    ELSE [labels |-> l, util |-> Nil, used |-> Nil, free |-> Nil, total |-> Nil, temp |-> Nil]

\* A percentage that a profiling metric gives as a ratio; memory in bytes.
Times(v, n) == IF v = NotFinite THEN NotFinite ELSE v * n

\* Mutant: the last utilization wins, whichever metric it is of.
MutRecordLastUtil(gpu, key, metric, v) ==
    CASE metric = "PROF_GR_ENGINE_ACTIVE" -> [gpu EXCEPT !.util = Times(v, 100)]
      [] metric = "DEV_GPU_UTIL" -> [gpu EXCEPT !.util = v]
      [] metric = "DEV_FB_USED" -> [gpu EXCEPT !.used = Times(v, mibToBytes)]
      [] metric = "DEV_FB_FREE" -> [gpu EXCEPT !.free = Times(v, mibToBytes)]
      [] metric = "DEV_FB_TOTAL" -> [gpu EXCEPT !.total = Times(v, mibToBytes)]
      [] metric = "DEV_GPU_TEMP" -> [gpu EXCEPT !.temp = v]
      [] OTHER -> gpu

\* The switch of ParseDCGMMetrics.  Tensor activity, memory utilization and
\* power are recorded like the temperature.
Record(gpu, key, metric, v) ==
    CASE metric = "PROF_GR_ENGINE_ACTIVE" -> [gpu EXCEPT !.util = Times(v, 100)]
      [] metric = "DEV_GPU_UTIL" -> [gpu EXCEPT !.util = IF key \in hasProf THEN @ ELSE v]
      [] metric = "DEV_FB_USED" -> [gpu EXCEPT !.used = Times(v, mibToBytes)]
      [] metric = "DEV_FB_FREE" -> [gpu EXCEPT !.free = Times(v, mibToBytes)]
      [] metric = "DEV_FB_TOTAL" -> [gpu EXCEPT !.total = Times(v, mibToBytes)]
      [] metric = "DEV_GPU_TEMP" -> [gpu EXCEPT !.temp = v]
      [] OTHER -> gpu

\* A line that does not parse is skipped, and one that names no GPU; a blank
\* value creates the device all the same.
ParseLine(line) ==
    /\ line \in lines
    /\ lines' = lines \ {line}
    /\ LET l == parseLabels(line.labels)
           key == DeviceKey(l)
           gpu == getOrCreateGPU(key, l)
       IN IF line.malformed \/ (l.uuid = "" /\ l.gpu = "")
             THEN UNCHANGED <<gpus, hasProf>>
             ELSE /\ gpus' = Put(gpus, key, IF isSentinel(line.value) THEN gpu
                                            ELSE Record(gpu, key, line.metric, line.value))
                  /\ hasProf' = IF line.metric = "PROF_GR_ENGINE_ACTIVE" /\ ~isSentinel(line.value)
                                   THEN hasProf \cup {key} ELSE hasProf
    /\ UNCHANGED <<text, todo, current, devices, report>>

\* Memory that the exporter does not total is what is used and what is free.
WithTotal(gpu) ==
    IF gpu.total = Nil /\ gpu.used # Nil /\ gpu.free # Nil
       THEN [gpu EXCEPT !.total = gpu.used + gpu.free] ELSE gpu

\* The end of ParseDCGMMetrics, and the append of ScrapeGPUMetrics.
FinishEndpoint ==
    /\ current # Nil /\ lines = {}
    /\ devices' = [k \in DOMAIN devices \cup ({current} \X DOMAIN gpus) |->
                      IF k \in DOMAIN devices THEN devices[k] ELSE WithTotal(gpus[k[2]])]
    /\ current' = Nil /\ gpus' = NoDevices /\ hasProf' = {}
    /\ UNCHANGED <<text, todo, lines, report>>

\* scrapeEndpoint answers, or fails: a refused connection, a timeout, a status
\* other than 200 or a body that breaks off loses this endpoint only.
Scrape(e) ==
    /\ current = Nil
    /\ e \in todo
    /\ todo' = todo \ {e}
    /\ \/ current' = e /\ lines' = text[e]
       \/ UNCHANGED <<current, lines>>
    /\ UNCHANGED <<text, gpus, hasProf, devices, report>>

------------------------------------------------------------------------------
(* Merging.  A sum is not finite when one of its floats is not; memory is made     *)
(* an int64 when a line is parsed.                                          *)

Sum(ds, f(_)) == IF \E d \in ds : f(d) = NotFinite THEN NotFinite ELSE SumFunction([d \in ds |-> f(d)])
With(ds, f(_)) == {d \in ds : f(d) # Nil}
Quotient(sum, n) == IF sum = NotFinite \/ n = 0 THEN NotFinite ELSE sum \div n

util(d) == devices[d].util
used(d) == devices[d].used
total(d) == devices[d].total

\* Mutant: no check that there is anything to average.
MutMeanAlways(sum, n) == Quotient(sum, n)

\* An average is reported only when something was counted.
Mean(sum, n) == IF n > 0 THEN Quotient(sum, n) ELSE Nil
Average(ds, f(_)) == Mean(Sum(With(ds, f), f), Cardinality(With(ds, f)))

OfHost(h) == {d \in DOMAIN devices : devices[d].labels.hostname = h}
OfPod(p) == {d \in DOMAIN devices : devices[d].labels.pod = p}

\* A sum of zero bytes is reported as no value.
Positive(n) == IF n > 0 THEN n ELSE Nil

\* Only the nodes of the snapshot, which have no GPU values before.
mergeGPUNodeMetrics(nodes) ==
    [h \in nodes |-> [util |-> Average(OfHost(h), util),
                      used |-> Positive(Sum(With(OfHost(h), used), used)),
                      total |-> Positive(Sum(With(OfHost(h), total), total))]]

\* Mutant: containers take all the devices of the nodes of their own.
MutContainersByNode(containers) ==
    [p \in DOMAIN containers |->
        LET ds == UNION {OfHost(devices[d].labels.hostname) : d \in OfPod(p)} IN
        [util |-> IF With(ds, util) = {} THEN containers[p].util ELSE Average(ds, util),
         used |-> IF With(ds, used) = {} THEN containers[p].used ELSE Sum(With(ds, used), used)]]

\* Only the containers of the snapshot's pods; one that no device has a value for keeps
\* the value it has.
mergeGPUContainerMetrics(containers) ==
    [p \in DOMAIN containers |->
        LET ds == OfPod(p) IN
        [util |-> IF With(ds, util) = {} THEN containers[p].util ELSE Average(ds, util),
         used |-> IF With(ds, used) = {} THEN containers[p].used ELSE Sum(With(ds, used), used)]]

\* The GPU part of ComputeSummary: everything but the averages depends on some
\* node having a utilization.
GPUSummary(nodes) ==
    LET nodeUtil(h) == nodes[h].util
        nodeUsed(h) == nodes[h].used
        available == With(DOMAIN nodes, nodeUtil) # {}
    IN [available |-> available,
        util |-> Average(DOMAIN nodes, nodeUtil),
        used |-> IF available THEN Sum(With(DOMAIN nodes, nodeUsed), nodeUsed) ELSE Nil]

\* poll stores the devices and the next Build merges them into what it has read.
Merge ==
    /\ todo = {} /\ current = Nil /\ report = Nil
    /\ \E s \in Snapshots :
          LET nodes == mergeGPUNodeMetrics(s.nodes) IN
          report' = [read |-> s, nodes |-> nodes, summary |-> GPUSummary(nodes),
                     containers |-> mergeGPUContainerMetrics(s.containers)]
    /\ UNCHANGED <<text, todo, lines, current, gpus, hasProf, devices>>

Next ==
    \/ \E e \in Endpoints : Scrape(e)
    \/ \E line \in lines : ParseLine(line)
    \/ FinishEndpoint
    \/ Merge

Spec == Init /\ [][Next]_vars

------------------------------------------------------------------------------
(* Properties.                                                              *)

Samples(e, key) ==
    {x \in text[e] : /\ ~x.malformed
                     /\ DeviceKey(parseLabels(x.labels)) = key}
Valued(e, key, metric) == {x \in Samples(e, key) : x.metric = metric /\ ~isSentinel(x.value)}

\* One device behind the samples of a key, and one sample of each metric.  It
\* is not so for the instances of a partitioned GPU, which share its UUID, nor
\* for a GPU that several pods share.
Unambiguous(e, key) ==
    /\ \A x, y \in Samples(e, key) : parseLabels(x.labels) = parseLabels(y.labels)
    /\ \A x, y \in Samples(e, key) : x.metric = y.metric => x = y

ValueOf(S) == (CHOOSE x \in S : TRUE).value

\* The utilization a set of samples tells, in no order: the profiling metric
\* when there is one, else the device's own.
TrueUtil(e, key) ==
    LET prof == Valued(e, key, "PROF_GR_ENGINE_ACTIVE")
        dev == Valued(e, key, "DEV_GPU_UTIL")
    IN CASE prof # {} -> Times(ValueOf(prof), 100)
         [] prof = {} /\ dev # {} -> ValueOf(dev)
         [] OTHER -> Nil

TrueTotal(e, key) ==
    LET tot == Valued(e, key, "DEV_FB_TOTAL")
        use == Valued(e, key, "DEV_FB_USED")
        fre == Valued(e, key, "DEV_FB_FREE")
    IN CASE tot # {} -> Times(ValueOf(tot), mibToBytes)
         [] tot = {} /\ use # {} /\ fre # {} ->
               Times(ValueOf(use), mibToBytes) + Times(ValueOf(fre), mibToBytes)
         [] OTHER -> Nil

\* The order of the lines does not matter where a key stands for one device:
\* utilization and memory are those its set of samples tells, and no blank
\* value gets into them.
DevicesOrderFree ==
    \A d \in DOMAIN devices : Unambiguous(d[1], d[2]) =>
        /\ devices[d].util = TrueUtil(d[1], d[2])
        /\ devices[d].total = TrueTotal(d[1], d[2])

\* No key is shared by samples that name different GPUs, and no sample that
\* names a GPU is lost: a device is reported for each of them.
EveryGPUReported ==
    \A e \in Endpoints : \A x \in text[e] :
        LET l == parseLabels(x.labels) IN
        (~x.malformed /\ <<l.uuid, l.gpu>> # <<"", "">> /\ \E d \in DOMAIN devices : d[1] = e) =>
            \E d \in DOMAIN devices : /\ d[1] = e
                                      /\ devices[d].labels.uuid = l.uuid
                                      /\ l.uuid = "" => devices[d].labels.gpu = l.gpu

\* The containers that this poll has a memory value for, and so that this merge writes it
\* into.  What the others show is of an earlier poll.
Charged(c) == {p \in DOMAIN c : With(OfPod(p), used) # {}}

\* What is charged to containers c is no more than what the nodes n report.
NoMore(c, n) ==
    LET cUsed(p) == c[p].used
        nUsed(h) == n[h].used
    IN Sum(Charged(c), cUsed) <= Sum(With(DOMAIN n, nUsed), nUsed)

\* Memory is charged at most once: what a merge charges to the containers is no more than
\* what it reports for the nodes (mergeGPUContainerMetrics and mergeGPUNodeMetrics), as
\* long as the snapshot has the node of every device that a pod of it uses.  Where it does
\* not have it, or where a container keeps the value of an earlier poll, containers may
\* show memory that no node does.
MemoryChargedOnce ==
    (report # Nil /\ \A d \in DOMAIN devices :
        devices[d].labels.pod \in DOMAIN report.read.containers =>
            devices[d].labels.hostname \in report.read.nodes) =>
    NoMore(report.containers, report.nodes)

\* The snapshot can be encoded: unless an exporter sampled a float that is not finite, then
\* or before, no average is one, whatever devices have no value (json.Encode fails on it,
\* and the snapshot would not be sent).
Encodable ==
    (/\ report # Nil
     /\ \A e \in Endpoints : \A x \in text[e] : x.value # NotFinite
     /\ \A p \in DOMAIN report.read.containers : report.read.containers[p].util # NotFinite) =>
        /\ \A h \in DOMAIN report.nodes : report.nodes[h].util # NotFinite
        /\ \A p \in DOMAIN report.containers : report.containers[p].util # NotFinite
        /\ report.summary.util # NotFinite
=============================================================================
