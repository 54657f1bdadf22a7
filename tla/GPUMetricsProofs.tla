-------------------------- MODULE GPUMetricsProofs --------------------------
(***************************************************************************)
(* Proofs about GPUMetrics: the devices ParseDCGMMetrics makes of a text   *)
(* do not depend on the order of its lines, and none of them is lost; the  *)
(* averages that Build makes of them are numbers, and their memory is      *)
(* charged once.  How the labels of a line are read (parseLabels) plays no *)
(* part in it.                                                             *)
(***************************************************************************)
EXTENDS GPUMetrics, SumProofs

\* What a line names: its labels, and the key they give.
LabelsOf(x) == parseLabels(x.labels)
KeyOf(x) == DeviceKey(LabelsOf(x))

\* A line that parses, and one that ParseDCGMMetrics does not skip.
Fine(x) == ~x.malformed
Used(x) == Fine(x) /\ ~(LabelsOf(x).uuid = "" /\ LabelsOf(x).gpu = "")

\* The lines of the current endpoint that have been parsed.
Parsed == text[current] \ lines

Readings == Int \cup {NotFinite}
Values == Readings \cup {Nil}
LineLabels == {LabelsOf(x) : x \in UNION {text[e] : e \in Endpoints}}
GPUs == [labels : LineLabels, util : Values, used : Values, free : Values, total : Values,
         temp : Values]

\* The values that a metric of a key had in the lines parsed so far.
Seen(key, metric) == Valued(current, key, metric) \cap Parsed

SeenValue(key, metric, n) ==
    IF Seen(key, metric) = {} THEN Nil ELSE Times(ValueOf(Seen(key, metric)), n)

\* What a device shows is what the parsed samples of its key tell.
AsSeen(g, key) ==
    /\ g.util = IF key \in hasProf
                   THEN Times(ValueOf(Seen(key, "PROF_GR_ENGINE_ACTIVE")), 100)
                   ELSE IF Seen(key, "DEV_GPU_UTIL") = {} THEN Nil
                   ELSE ValueOf(Seen(key, "DEV_GPU_UTIL"))
    /\ g.used = SeenValue(key, "DEV_FB_USED", mibToBytes)
    /\ g.free = SeenValue(key, "DEV_FB_FREE", mibToBytes)
    /\ g.total = SeenValue(key, "DEV_FB_TOTAL", mibToBytes)

\* The progress of the poll: an endpoint is scraped once.
PollInv ==
    /\ text \in Texts
    /\ todo \subseteq Endpoints
    /\ current \in (Endpoints \ todo) \cup {Nil}
    /\ IF current = Nil THEN lines = {} /\ gpus = NoDevices /\ hasProf = {}
                        ELSE lines \subseteq text[current]
    /\ \A d \in DOMAIN devices :
          d = <<d[1], d[2]>> /\ d[1] \in Endpoints \ todo /\ d[1] # current

\* The devices of the text that is being parsed: one for each key, with the labels of one
\* of its lines, and the keys that have shown a profiling metric.
ParseInv ==
    current # Nil =>
      /\ DOMAIN gpus = {KeyOf(x) : x \in {y \in Parsed : Used(y)}}
      /\ gpus \in [DOMAIN gpus -> GPUs]
      /\ \A key \in DOMAIN gpus :
            \E x \in text[current] : Used(x) /\ KeyOf(x) = key /\ gpus[key].labels = LabelsOf(x)
      /\ hasProf = {key \in DOMAIN gpus : Seen(key, "PROF_GR_ENGINE_ACTIVE") # {}}

\* And their values, where a key stands for one device.
SeenInv ==
    current # Nil => \A key \in DOMAIN gpus : Unambiguous(current, key) => AsSeen(gpus[key], key)

\* The devices of the texts that have been parsed.
DeviceInv ==
    \A e \in {d[1] : d \in DOMAIN devices} : \A x \in text[e] :
        Used(x) => /\ <<e, KeyOf(x)>> \in DOMAIN devices
                   /\ \E y \in text[e] : /\ Used(y) /\ KeyOf(y) = KeyOf(x)
                                         /\ devices[<<e, KeyOf(x)>>].labels = LabelsOf(y)

------------------------------------------------------------------------------
(* Lines and samples.                                                       *)

\* A line is used exactly if it parses and has a key.
LEMMA UsedKey == \A x : Used(x) <=> Fine(x) /\ KeyOf(x) # ""
BY DEF Used, KeyOf, DeviceKey

\* The samples of a key, and those that tell a value of a metric.
LEMMA SampleFacts ==
    \A e, key, x :
       /\ x \in Samples(e, key) <=> x \in text[e] /\ Fine(x) /\ KeyOf(x) = key
       /\ \A metric : x \in Valued(e, key, metric) <=>
             /\ x \in text[e] /\ Fine(x) /\ KeyOf(x) = key
             /\ x.metric = metric /\ ~isSentinel(x.value)
BY Zenon DEF Samples, Valued, Fine, KeyOf, LabelsOf

\* The values of the lines.
LEMMA LineValues ==
    ASSUME PollInv, NEW e \in Endpoints, NEW x \in text[e]
    PROVE  /\ x.value \in Int \cup {NotFinite, Blank}
           /\ ~isSentinel(x.value) => x.value \in Readings
           /\ LabelsOf(x) \in LineLabels
<1>1. x.value \in Int \cup {NotFinite, Blank}
  BY ValueAssumption DEF PollInv
<1>2. ~isSentinel(x.value) => x.value \in Readings
  BY <1>1 DEF isSentinel, Readings
<1>3. LabelsOf(x) \in LineLabels
  BY DEF LineLabels
<1> QED
  BY <1>1, <1>2, <1>3

\* A product is a number or not finite, and so never a nil pointer.
LEMMA TimesValue ==
    ASSUME NEW v \in Readings, NEW n \in Int
    PROVE  Times(v, n) \in Readings /\ Times(v, n) # Nil /\ v # Nil
<1>1. Times(v, n) \in Readings
  BY DEF Times, Readings
<1>2. \A w \in Readings : w # Nil
  BY ValueAssumption DEF Readings
<1> QED
  BY <1>1, <1>2

\* The value of a single sample.
LEMMA OneSample == \A x : ValueOf({x}) = x.value
BY DEF ValueOf

\* What Record leaves alone and what it sets (the switch of ParseDCGMMetrics).
LEMMA RecordFacts ==
    ASSUME NEW g \in GPUs, NEW key, NEW metric, NEW v \in Readings,
           NEW r, r = Record(g, key, metric, v)
    PROVE  /\ r \in GPUs /\ r.labels = g.labels
           /\ r.util = IF metric = "PROF_GR_ENGINE_ACTIVE" THEN Times(v, 100)
                       ELSE IF metric = "DEV_GPU_UTIL" /\ key \notin hasProf THEN v ELSE g.util
           /\ r.used = IF metric = "DEV_FB_USED" THEN Times(v, mibToBytes) ELSE g.used
           /\ r.free = IF metric = "DEV_FB_FREE" THEN Times(v, mibToBytes) ELSE g.free
           /\ r.total = IF metric = "DEV_FB_TOTAL" THEN Times(v, mibToBytes) ELSE g.total
<1>1. PICK m : m = Times(v, mibToBytes)
  OBVIOUS
<1>2. PICK h : h = Times(v, 100)
  OBVIOUS
<1>3. m \in Values /\ h \in Values /\ v \in Values
  BY <1>1, <1>2, TimesValue DEF Values, mibToBytes
<1>4. CASE metric = "PROF_GR_ENGINE_ACTIVE"
  <2>1. r = [g EXCEPT !.util = h]
    BY <1>2, <1>4 DEF Record
  <2> QED
    BY <1>2, <1>3, <1>4, <2>1 DEF GPUs
<1>5. CASE metric = "DEV_GPU_UTIL"
  <2>1. r = [g EXCEPT !.util = IF key \in hasProf THEN g.util ELSE v]
    BY <1>5 DEF Record
  <2> QED
    BY <1>3, <1>5, <2>1 DEF GPUs
<1>6. CASE metric = "DEV_FB_USED"
  <2>1. r = [g EXCEPT !.used = m]
    BY <1>1, <1>6 DEF Record
  <2> QED
    BY <1>1, <1>3, <1>6, <2>1 DEF GPUs
<1>7. CASE metric = "DEV_FB_FREE"
  <2>1. r = [g EXCEPT !.free = m]
    BY <1>1, <1>7 DEF Record
  <2> QED
    BY <1>1, <1>3, <1>7, <2>1 DEF GPUs
<1>8. CASE metric = "DEV_FB_TOTAL"
  <2>1. r = [g EXCEPT !.total = m]
    BY <1>1, <1>8 DEF Record
  <2> QED
    BY <1>1, <1>3, <1>8, <2>1 DEF GPUs
<1>9. CASE metric = "DEV_GPU_TEMP"
  <2>1. r = [g EXCEPT !.temp = v]
    BY <1>9 DEF Record
  <2> QED
    BY <1>3, <1>9, <2>1 DEF GPUs
<1>10. CASE metric \notin {"PROF_GR_ENGINE_ACTIVE", "DEV_GPU_UTIL", "DEV_FB_USED", "DEV_FB_FREE",
                          "DEV_FB_TOTAL", "DEV_GPU_TEMP"}
  <2>1. r = g
    BY <1>10 DEF Record
  <2> QED
    BY <1>10, <2>1
<1> QED
  BY <1>4, <1>5, <1>6, <1>7, <1>8, <1>9, <1>10

------------------------------------------------------------------------------
(* Parsing a line.                                                          *)

\* The device a line is recorded in, and what becomes of it.
Found(x) == getOrCreateGPU(KeyOf(x), LabelsOf(x))
Recorded(x) == IF isSentinel(x.value) THEN Found(x)
               ELSE Record(Found(x), KeyOf(x), x.metric, x.value)

\* ParseLine in these terms.
LEMMA ParseStep ==
    ASSUME PollInv, NEW x, ParseLine(x)
    PROVE  /\ current # Nil /\ current \in Endpoints /\ x \in lines /\ x \in text[current]
           /\ x \notin Parsed /\ Parsed' = Parsed \cup {x}
           /\ lines' = lines \ {x} /\ UNCHANGED <<text, todo, current, devices, report>>
           /\ Used(x) => /\ gpus' = Put(gpus, KeyOf(x), Recorded(x))
                         /\ hasProf' = IF x.metric = "PROF_GR_ENGINE_ACTIVE" /\ ~isSentinel(x.value)
                                          THEN hasProf \cup {KeyOf(x)} ELSE hasProf
           /\ ~Used(x) => UNCHANGED <<gpus, hasProf>>
<1>1. x \in lines /\ lines' = lines \ {x} /\ UNCHANGED <<text, todo, current, devices, report>>
  BY DEF ParseLine
<1>2. current # Nil /\ current \in Endpoints /\ lines \subseteq text[current]
  BY <1>1 DEF PollInv
<1>3. x \in text[current] /\ x \notin Parsed
  BY <1>1, <1>2 DEF Parsed
<1>4. Parsed' = Parsed \cup {x}
  BY <1>1, <1>2 DEF Parsed
<1>5. Used(x) => /\ gpus' = Put(gpus, KeyOf(x), Recorded(x))
                 /\ hasProf' = IF x.metric = "PROF_GR_ENGINE_ACTIVE" /\ ~isSentinel(x.value)
                                  THEN hasProf \cup {KeyOf(x)} ELSE hasProf
  BY Zenon DEF ParseLine, Used, Fine, LabelsOf, KeyOf, Found, Recorded
<1>6. ~Used(x) => UNCHANGED <<gpus, hasProf>>
  BY Zenon DEF ParseLine, Used, Fine, LabelsOf
<1> QED
  BY <1>1, <1>2, <1>3, <1>4, <1>5, <1>6

\* A parsed line adds itself to the samples of its key and metric, and to no others.
LEMMA SeenStep ==
    ASSUME PollInv, NEW x, ParseLine(x), NEW key, NEW metric
    PROVE  /\ Fine(x) /\ KeyOf(x) = key /\ x.metric = metric /\ ~isSentinel(x.value) =>
                 Seen(key, metric)' = Seen(key, metric) \cup {x}
           /\ ~(Fine(x) /\ KeyOf(x) = key /\ x.metric = metric /\ ~isSentinel(x.value)) =>
                 Seen(key, metric)' = Seen(key, metric)
<1>1. /\ x \in text[current] /\ Parsed' = Parsed \cup {x} /\ UNCHANGED <<text, current>>
  BY ParseStep
<1>2. Valued(current, key, metric)' = Valued(current, key, metric)
  BY <1>1 DEF Valued, Samples
<1>3. x \in Valued(current, key, metric) <=>
         Fine(x) /\ KeyOf(x) = key /\ x.metric = metric /\ ~isSentinel(x.value)
  BY <1>1, SampleFacts
<1> QED
  BY <1>1, <1>2, <1>3 DEF Seen

\* The device of a used line has its type, and the labels of a line with the same key; a
\* device that is not there yet has seen nothing.
LEMMA FoundFacts ==
    ASSUME PollInv, ParseInv, NEW x, ParseLine(x), Used(x)
    PROVE  /\ Found(x) \in GPUs
           /\ \E y \in text[current] : Used(y) /\ KeyOf(y) = KeyOf(x) /\ Found(x).labels = LabelsOf(y)
           /\ KeyOf(x) \in DOMAIN gpus => Found(x) = gpus[KeyOf(x)]
           /\ KeyOf(x) \notin DOMAIN gpus =>
                 /\ KeyOf(x) \notin hasProf
                 /\ \A metric : Seen(KeyOf(x), metric) = {}
                 /\ Found(x).util = Nil /\ Found(x).used = Nil
                 /\ Found(x).free = Nil /\ Found(x).total = Nil
<1>1. current # Nil /\ current \in Endpoints /\ x \in text[current]
  BY ParseStep
<1>2. CASE KeyOf(x) \in DOMAIN gpus
  <2>1. Found(x) = gpus[KeyOf(x)]
    BY <1>2 DEF Found, getOrCreateGPU
  <2> QED
    BY <1>1, <1>2, <2>1 DEF ParseInv
<1>3. CASE KeyOf(x) \notin DOMAIN gpus
  <2>1. Found(x) = [labels |-> LabelsOf(x), util |-> Nil, used |-> Nil, free |-> Nil,
                    total |-> Nil, temp |-> Nil]
    BY <1>3 DEF Found, getOrCreateGPU
  <2>2. LabelsOf(x) \in LineLabels /\ Nil \in Values
    BY <1>1, LineValues DEF Values
  <2>3. Found(x) \in GPUs
    BY <2>1, <2>2 DEF GPUs
  <2>4. KeyOf(x) \notin hasProf
    BY <1>1, <1>3 DEF ParseInv
  <2>5. ASSUME NEW metric, NEW y \in Seen(KeyOf(x), metric)
        PROVE  FALSE
    <3>1. y \in Parsed /\ Fine(y) /\ KeyOf(y) = KeyOf(x)
      BY <2>5, SampleFacts DEF Seen
    <3>2. Used(y)
      BY <3>1, UsedKey
    <3>3. KeyOf(y) \in DOMAIN gpus
      BY <1>1, <3>1, <3>2 DEF ParseInv
    <3> QED
      BY <1>3, <3>1, <3>3
  <2> QED
    BY <1>1, <1>3, <2>1, <2>3, <2>4, <2>5
<1> QED
  BY <1>2, <1>3

\* What is recorded keeps the labels and has the type of a device.
LEMMA RecordedFacts ==
    ASSUME PollInv, ParseInv, NEW x, ParseLine(x), Used(x)
    PROVE  Recorded(x) \in GPUs /\ Recorded(x).labels = Found(x).labels
<1>1. Found(x) \in GPUs
  BY FoundFacts
<1>2. ~isSentinel(x.value) => x.value \in Readings
  BY ParseStep, LineValues
<1>3. CASE isSentinel(x.value)
  BY <1>1, <1>3 DEF Recorded
<1>4. CASE ~isSentinel(x.value)
  <2>1. PICK r : r = Record(Found(x), KeyOf(x), x.metric, x.value)
    OBVIOUS
  <2>2. r \in GPUs /\ r.labels = Found(x).labels
    BY <1>1, <1>2, <1>4, <2>1, RecordFacts
  <2> QED
    BY <1>4, <2>1, <2>2 DEF Recorded
<1> QED
  BY <1>3, <1>4

\* A line keeps the devices those of the lines parsed so far.
LEMMA ParseLineInv ==
    ASSUME PollInv, ParseInv, NEW x, ParseLine(x)
    PROVE  ParseInv'
<1>1. /\ current # Nil /\ current \in Endpoints /\ x \in text[current]
      /\ Parsed' = Parsed \cup {x} /\ UNCHANGED <<text, current>>
  BY ParseStep
<1>2. UNCHANGED <<GPUs, LineLabels>>
  BY <1>1 DEF GPUs, LineLabels
<1>3. /\ DOMAIN gpus = {KeyOf(z) : z \in {y \in Parsed : Used(y)}}
      /\ gpus \in [DOMAIN gpus -> GPUs]
      /\ \A key \in DOMAIN gpus :
            \E y \in text[current] : Used(y) /\ KeyOf(y) = key /\ gpus[key].labels = LabelsOf(y)
      /\ hasProf = {key \in DOMAIN gpus : Seen(key, "PROF_GR_ENGINE_ACTIVE") # {}}
  BY <1>1 DEF ParseInv
<1>4. CASE ~Used(x)
  <2>1. UNCHANGED <<gpus, hasProf>>
    BY <1>4, ParseStep
  <2>2. {KeyOf(z) : z \in {y \in Parsed' : Used(y)}} = {KeyOf(z) : z \in {y \in Parsed : Used(y)}}
    BY <1>1, <1>4
  <2>3. ASSUME NEW key \in DOMAIN gpus
        PROVE  Seen(key, "PROF_GR_ENGINE_ACTIVE")' = Seen(key, "PROF_GR_ENGINE_ACTIVE")
    <3>1. key # ""
      BY <1>3, UsedKey
    <3>2. ~(Fine(x) /\ KeyOf(x) = key)
      BY <1>4, <3>1, UsedKey
    <3> QED
      BY <3>2, SeenStep
  <2> QED
    BY <1>1, <1>2, <1>3, <2>1, <2>2, <2>3 DEF ParseInv
<1>5. CASE Used(x)
  <2>1. PICK k : k = KeyOf(x)
    OBVIOUS
  <2>2. PICK r : r = Recorded(x)
    OBVIOUS
  <2>3. /\ gpus' = Put(gpus, k, r)
        /\ hasProf' = IF x.metric = "PROF_GR_ENGINE_ACTIVE" /\ ~isSentinel(x.value)
                         THEN hasProf \cup {k} ELSE hasProf
    BY <1>5, <2>1, <2>2, ParseStep
  <2>4. DOMAIN gpus' = DOMAIN gpus \cup {k}
    BY <2>3 DEF Put
  <2>5. \A key \in DOMAIN gpus' : gpus'[key] = IF key = k THEN r ELSE gpus[key]
    BY <2>3 DEF Put
  <2>6. r \in GPUs
    BY <1>5, <2>2, RecordedFacts
  <2>7. gpus' \in [DOMAIN gpus' -> GPUs]
    BY <1>3, <2>3, <2>6 DEF Put
  <2>8. DOMAIN gpus' = {KeyOf(z) : z \in {y \in Parsed' : Used(y)}}
    BY <1>1, <1>3, <1>5, <2>1, <2>4
  <2>9. ASSUME NEW key \in DOMAIN gpus'
        PROVE  \E y \in text[current] : Used(y) /\ KeyOf(y) = key /\ gpus'[key].labels = LabelsOf(y)
    <3>1. CASE key = k
      BY <1>5, <2>1, <2>2, <2>5, <3>1, FoundFacts, RecordedFacts
    <3>2. CASE key # k
      BY <1>3, <2>4, <2>5, <3>2
    <3> QED
      BY <3>1, <3>2
  <2>10. ASSUME NEW key \in DOMAIN gpus'
         PROVE  key \in hasProf' <=> Seen(key, "PROF_GR_ENGINE_ACTIVE")' # {}
    <3>1. key \in hasProf <=> Seen(key, "PROF_GR_ENGINE_ACTIVE") # {}
      <4>1. CASE key \in DOMAIN gpus
        BY <1>3, <4>1
      <4>2. CASE key \notin DOMAIN gpus
        <5>1. key = k
          BY <2>4, <4>2
        <5> QED
          BY <1>5, <2>1, <4>2, <5>1, FoundFacts
      <4> QED
        BY <4>1, <4>2
    <3>2. Fine(x)
      BY <1>5, UsedKey
    <3>3. CASE key = k /\ x.metric = "PROF_GR_ENGINE_ACTIVE" /\ ~isSentinel(x.value)
      <4>1. Seen(key, "PROF_GR_ENGINE_ACTIVE")' = Seen(key, "PROF_GR_ENGINE_ACTIVE") \cup {x}
        BY <2>1, <3>2, <3>3, SeenStep
      <4> QED
        BY <2>3, <3>3, <4>1
    <3>4. CASE ~(key = k /\ x.metric = "PROF_GR_ENGINE_ACTIVE" /\ ~isSentinel(x.value))
      <4>1. Seen(key, "PROF_GR_ENGINE_ACTIVE")' = Seen(key, "PROF_GR_ENGINE_ACTIVE")
        BY <2>1, <3>4, SeenStep
      <4>2. key \in hasProf' <=> key \in hasProf
        BY <2>3, <3>4
      <4> QED
        BY <3>1, <4>1, <4>2
    <3> QED
      BY <3>3, <3>4
  <2>11. hasProf' \subseteq DOMAIN gpus'
    BY <1>3, <2>3, <2>4
  <2>12. hasProf' = {key \in DOMAIN gpus' : Seen(key, "PROF_GR_ENGINE_ACTIVE")' # {}}
    BY <2>10, <2>11
  <2> QED
    BY <1>1, <1>2, <2>7, <2>8, <2>9, <2>12 DEF ParseInv
<1> QED
  BY <1>4, <1>5

\* Where a key stands for one device, a line that tells a value is the first to tell it.
LEMMA FirstValue ==
    ASSUME PollInv, NEW x, ParseLine(x), Fine(x), ~isSentinel(x.value),
           Unambiguous(current, KeyOf(x))
    PROVE  Seen(KeyOf(x), x.metric) = {} /\ Seen(KeyOf(x), x.metric)' = {x}
<1>1. x \in text[current] /\ x \notin Parsed
  BY ParseStep
<1>2. x \in Samples(current, KeyOf(x))
  BY <1>1, SampleFacts
<1>3. ASSUME NEW y \in Seen(KeyOf(x), x.metric)
      PROVE  FALSE
  <2>1. y \in Parsed /\ y \in Samples(current, KeyOf(x)) /\ y.metric = x.metric
    BY <1>3, SampleFacts DEF Seen
  <2>2. y = x
    BY <1>2, <2>1 DEF Unambiguous
  <2> QED
    BY <1>1, <2>1, <2>2
<1>4. Seen(KeyOf(x), x.metric)' = Seen(KeyOf(x), x.metric) \cup {x}
  BY SeenStep
<1> QED
  BY <1>3, <1>4

\* What one line does to a field: it sets the field of its own metric.
LEMMA FieldStep ==
    ASSUME PollInv, NEW x, ParseLine(x), Fine(x), ~isSentinel(x.value),
           Unambiguous(current, KeyOf(x)), NEW metric
    PROVE  SeenValue(KeyOf(x), metric, mibToBytes)'
               = IF x.metric = metric THEN Times(x.value, mibToBytes)
                                      ELSE SeenValue(KeyOf(x), metric, mibToBytes)
<1>1. CASE x.metric = metric
  <2>1. Seen(KeyOf(x), metric)' = {x}
    BY <1>1, FirstValue
  <2>2. ValueOf({x}) = x.value
    BY OneSample
  <2>3. SeenValue(KeyOf(x), metric, mibToBytes)' = Times(ValueOf({x}), mibToBytes)
    BY <2>1 DEF SeenValue, ValueOf, Times
  <2> QED
    BY <1>1, <2>2, <2>3
<1>2. CASE x.metric # metric
  <2>1. Seen(KeyOf(x), metric)' = Seen(KeyOf(x), metric)
    BY <1>2, SeenStep
  <2> QED
    BY <1>2, <2>1 DEF SeenValue, ValueOf, Times
<1> QED
  BY <1>1, <1>2

\* A device whose samples are not added to shows what it showed.
LEMMA SeenFrame ==
    ASSUME NEW g, NEW key, AsSeen(g, key), gpus'[key] = g, key \in hasProf' <=> key \in hasProf,
           \A metric : Seen(key, metric)' = Seen(key, metric)
    PROVE  AsSeen(gpus[key], key)'
<1>1. ASSUME NEW metric
      PROVE  ValueOf(Seen(key, metric))' = ValueOf(Seen(key, metric))
  <2>1. Seen(key, metric)' = Seen(key, metric)
    OBVIOUS
  <2> QED
    BY <2>1, Zenon DEF ValueOf
<1>2. ASSUME NEW metric
      PROVE  SeenValue(key, metric, mibToBytes)' = SeenValue(key, metric, mibToBytes)
  BY <1>1 DEF SeenValue, Times
<1> QED
  BY <1>1, <1>2 DEF AsSeen, Times

\* A line keeps what the devices show what the parsed samples tell.
LEMMA SeenLineInv ==
    ASSUME PollInv, ParseInv, SeenInv, NEW x, ParseLine(x)
    PROVE  SeenInv'
<1>1. /\ current # Nil /\ x \in text[current] /\ UNCHANGED <<text, current>>
  BY ParseStep
<1>2. \A key : Unambiguous(current, key)' <=> Unambiguous(current, key)
  BY <1>1 DEF Unambiguous, Samples
<1>3. SUFFICES ASSUME NEW key \in DOMAIN gpus', Unambiguous(current, key)
               PROVE  AsSeen(gpus[key], key)'
  BY <1>1, <1>2 DEF SeenInv
<1>4. ASSUME ~(Used(x) /\ KeyOf(x) = key)
      PROVE  AsSeen(gpus[key], key)'
  <2>1. key \in DOMAIN gpus /\ gpus'[key] = gpus[key] /\ (key \in hasProf' <=> key \in hasProf)
    <3>1. CASE ~Used(x)
      BY <1>3, <3>1, ParseStep
    <3>2. CASE Used(x)
      <4>1. gpus' = Put(gpus, KeyOf(x), Recorded(x)) /\ KeyOf(x) # key
        BY <1>4, <3>2, ParseStep
      <4>2. key \in DOMAIN gpus /\ gpus'[key] = gpus[key]
        BY <1>3, <4>1 DEF Put
      <4>3. hasProf' \in {hasProf, hasProf \cup {KeyOf(x)}}
        BY <3>2, ParseStep
      <4> QED
        BY <4>1, <4>2, <4>3
    <3> QED
      BY <3>1, <3>2
  <2>2. key # ""
    BY <1>1, <2>1, UsedKey DEF ParseInv
  <2>3. ~(Fine(x) /\ KeyOf(x) = key)
    BY <1>4, <2>2, UsedKey
  <2>4. \A metric : Seen(key, metric)' = Seen(key, metric)
    BY <2>3, SeenStep
  <2>5. AsSeen(gpus[key], key)
    BY <1>1, <1>3, <2>1 DEF SeenInv
  <2> QED
    BY <2>1, <2>4, <2>5, SeenFrame
<1>5. ASSUME Used(x), KeyOf(x) = key
      PROVE  AsSeen(gpus[key], key)'
  <2>1. PICK g : g = Found(x)
    OBVIOUS
  <2>2. PICK r : r = Recorded(x)
    OBVIOUS
  <2>3. Fine(x)
    BY <1>5, UsedKey
  <2>4. gpus'[key] = r
    BY <1>3, <1>5, <2>2, ParseStep DEF Put
  <2>5. AsSeen(g, key)
    <3>1. CASE key \in DOMAIN gpus
      BY <1>1, <1>3, <1>5, <2>1, <3>1, FoundFacts DEF SeenInv
    <3>2. CASE key \notin DOMAIN gpus
      BY <1>5, <2>1, <3>2, FoundFacts DEF AsSeen, SeenValue
    <3> QED
      BY <3>1, <3>2
  <2>6. CASE isSentinel(x.value)
    <3>1. r = g
      BY <2>1, <2>2, <2>6 DEF Recorded
    <3>2. hasProf' = hasProf
      BY <1>5, <2>6, ParseStep
    <3>3. \A metric : Seen(key, metric)' = Seen(key, metric)
      BY <2>6, SeenStep
    <3> QED
      BY <2>4, <2>5, <3>1, <3>2, <3>3, SeenFrame
  <2>7. CASE ~isSentinel(x.value)
    <3>1. x.value \in Readings
      BY <1>1, <2>7, LineValues, ParseStep
    <3>2. g \in GPUs
      BY <1>5, <2>1, FoundFacts
    <3>3. /\ r.util = IF x.metric = "PROF_GR_ENGINE_ACTIVE" THEN Times(x.value, 100)
                      ELSE IF x.metric = "DEV_GPU_UTIL" /\ key \notin hasProf THEN x.value
                      ELSE g.util
          /\ r.used = IF x.metric = "DEV_FB_USED" THEN Times(x.value, mibToBytes) ELSE g.used
          /\ r.free = IF x.metric = "DEV_FB_FREE" THEN Times(x.value, mibToBytes) ELSE g.free
          /\ r.total = IF x.metric = "DEV_FB_TOTAL" THEN Times(x.value, mibToBytes) ELSE g.total
      <4>1. r = Record(g, key, x.metric, x.value)
        BY <1>5, <2>1, <2>2, <2>7 DEF Recorded
      <4> QED
        BY <3>1, <3>2, <4>1, RecordFacts
    <3>4. \A metric : SeenValue(key, metric, mibToBytes)'
                          = IF x.metric = metric THEN Times(x.value, mibToBytes)
                                                 ELSE SeenValue(key, metric, mibToBytes)
      BY <1>3, <1>5, <2>3, <2>7, FieldStep
    <3>5. /\ r.used = SeenValue(key, "DEV_FB_USED", mibToBytes)'
          /\ r.free = SeenValue(key, "DEV_FB_FREE", mibToBytes)'
          /\ r.total = SeenValue(key, "DEV_FB_TOTAL", mibToBytes)'
      BY <2>5, <3>3, <3>4 DEF AsSeen
    <3>6. r.util = IF key \in hasProf'
                      THEN Times(ValueOf(Seen(key, "PROF_GR_ENGINE_ACTIVE")'), 100)
                      ELSE IF Seen(key, "DEV_GPU_UTIL")' = {} THEN Nil
                      ELSE ValueOf(Seen(key, "DEV_GPU_UTIL")')
      <4>1. CASE x.metric = "PROF_GR_ENGINE_ACTIVE"
        <5>1. key \in hasProf' /\ Seen(key, "PROF_GR_ENGINE_ACTIVE")' = {x}
          BY <1>3, <1>5, <2>3, <2>7, <4>1, ParseStep, FirstValue
        <5> QED
          BY <3>3, <4>1, <5>1, OneSample
      <4>2. CASE x.metric = "DEV_GPU_UTIL"
        <5>1. hasProf' = hasProf
          BY <1>5, <4>2, ParseStep
        <5>2. Seen(key, "DEV_GPU_UTIL")' = {x}
          BY <1>3, <1>5, <2>3, <2>7, <4>2, FirstValue
        <5>3. Seen(key, "PROF_GR_ENGINE_ACTIVE")' = Seen(key, "PROF_GR_ENGINE_ACTIVE")
          BY <4>2, SeenStep
        <5> QED
          BY <2>5, <3>3, <4>2, <5>1, <5>2, <5>3, OneSample DEF AsSeen
      <4>3. CASE x.metric \notin {"PROF_GR_ENGINE_ACTIVE", "DEV_GPU_UTIL"}
        <5>1. hasProf' = hasProf
          BY <1>5, <4>3, ParseStep
        <5>2. /\ Seen(key, "DEV_GPU_UTIL")' = Seen(key, "DEV_GPU_UTIL")
              /\ Seen(key, "PROF_GR_ENGINE_ACTIVE")' = Seen(key, "PROF_GR_ENGINE_ACTIVE")
          BY <4>3, SeenStep
        <5> QED
          BY <2>5, <3>3, <4>3, <5>1, <5>2 DEF AsSeen
      <4> QED
        BY <4>1, <4>2, <4>3
    <3> QED
      BY <2>4, <3>5, <3>6 DEF AsSeen, ValueOf, Times
  <2> QED
    BY <2>6, <2>7
<1> QED
  BY <1>4, <1>5

------------------------------------------------------------------------------
(* The poll.                                                                *)

\* What the end of a text adds: its devices, and nothing of another endpoint.
LEMMA FinishStep ==
    ASSUME PollInv, FinishEndpoint
    PROVE  /\ current # Nil /\ current \in Endpoints \ todo /\ lines = {}
           /\ current' = Nil /\ gpus' = NoDevices /\ hasProf' = {}
           /\ UNCHANGED <<text, todo, lines, report>>
           /\ \A key : <<current, key>> \notin DOMAIN devices
           /\ DOMAIN devices' = DOMAIN devices \cup ({current} \X DOMAIN gpus)
           /\ \A d \in DOMAIN devices : devices'[d] = devices[d]
           /\ \A key \in DOMAIN gpus : devices'[<<current, key>>] = WithTotal(gpus[key])
<1>1. /\ current # Nil /\ lines = {} /\ current' = Nil /\ gpus' = NoDevices /\ hasProf' = {}
      /\ UNCHANGED <<text, todo, lines, report>>
      /\ devices' = [k \in DOMAIN devices \cup ({current} \X DOMAIN gpus) |->
                        IF k \in DOMAIN devices THEN devices[k] ELSE WithTotal(gpus[k[2]])]
  BY DEF FinishEndpoint
<1>2. current \in Endpoints \ todo
  BY <1>1 DEF PollInv
<1>3. ASSUME NEW key, <<current, key>> \in DOMAIN devices
      PROVE  FALSE
  BY <1>3 DEF PollInv
<1>4. ASSUME NEW key \in DOMAIN gpus
      PROVE  devices'[<<current, key>>] = WithTotal(gpus[key])
  <2>1. <<current, key>> \in {current} \X DOMAIN gpus /\ <<current, key>>[2] = key
    OBVIOUS
  <2> QED
    BY <1>1, <1>3, <2>1
<1> QED
  BY <1>1, <1>2, <1>3, <1>4

\* Every step keeps the progress of the poll.
LEMMA PollNext ==
    ASSUME PollInv, [Next]_vars
    PROVE  PollInv'
<1>1. ASSUME NEW e \in Endpoints, Scrape(e) PROVE PollInv'
  <2>1. /\ current = Nil /\ e \in todo /\ todo' = todo \ {e} /\ UNCHANGED <<text, gpus, hasProf, devices>>
        /\ (current' = e /\ lines' = text[e]) \/ UNCHANGED <<current, lines>>
    BY <1>1 DEF Scrape
  <2>2. e # Nil
    BY ValueAssumption
  <2>3. /\ text \in Texts /\ todo \subseteq Endpoints /\ lines = {} /\ gpus = NoDevices /\ hasProf = {}
        /\ \A d \in DOMAIN devices : d = <<d[1], d[2]>> /\ d[1] \in Endpoints \ todo /\ d[1] # Nil
    BY <2>1 DEF PollInv
  <2>4. \A d \in DOMAIN devices :
           d = <<d[1], d[2]>> /\ d[1] \in Endpoints \ todo' /\ d[1] # Nil /\ d[1] # e
    BY <2>1, <2>3
  <2>5. CASE current' = e /\ lines' = text[e]
    BY <2>1, <2>2, <2>3, <2>4, <2>5 DEF PollInv
  <2>6. CASE UNCHANGED <<current, lines>>
    BY <2>1, <2>3, <2>4, <2>6 DEF PollInv
  <2> QED
    BY <2>1, <2>5, <2>6
<1>2. ASSUME NEW x, ParseLine(x) PROVE PollInv'
  BY <1>2, ParseStep DEF PollInv
<1>3. CASE FinishEndpoint
  <2>1. ASSUME NEW d \in DOMAIN devices'
        PROVE  d = <<d[1], d[2]>> /\ d[1] \in Endpoints \ todo /\ d[1] # Nil
    <3>1. d \in DOMAIN devices \/ d \in {current} \X DOMAIN gpus
      BY <1>3, <2>1, FinishStep
    <3>2. CASE d \in DOMAIN devices
      BY <3>2, ValueAssumption DEF PollInv
    <3>3. CASE d \in {current} \X DOMAIN gpus
      <4>1. d = <<d[1], d[2]>> /\ d[1] = current
        BY <3>3
      <4> QED
        BY <1>3, <4>1, FinishStep
    <3> QED
      BY <3>1, <3>2, <3>3
  <2> QED
    BY <1>3, <2>1, FinishStep DEF PollInv
<1>4. CASE Merge
  BY <1>4 DEF Merge, PollInv
<1>5. CASE UNCHANGED vars
  BY <1>5 DEF vars, PollInv
<1> QED
  BY <1>1, <1>2, <1>3, <1>4, <1>5 DEF Next

\* Every step keeps what is known of the text that is being parsed.
LEMMA ParseNext ==
    ASSUME PollInv, ParseInv, SeenInv, [Next]_vars
    PROVE  ParseInv' /\ SeenInv'
<1>1. ASSUME NEW e \in Endpoints, Scrape(e) PROVE ParseInv' /\ SeenInv'
  <2>1. /\ current = Nil /\ UNCHANGED <<text, gpus, hasProf>>
        /\ (current' = e /\ lines' = text[e]) \/ current' = Nil
    BY <1>1 DEF Scrape
  <2>2. gpus = NoDevices /\ hasProf = {} /\ DOMAIN NoDevices = {}
    BY <2>1 DEF PollInv, NoDevices
  <2>3. CASE current' = Nil
    BY <2>3 DEF ParseInv, SeenInv
  <2>4. CASE current' = e /\ lines' = text[e]
    <3>1. Parsed' = {}
      BY <2>1, <2>4 DEF Parsed
    <3>2. DOMAIN gpus' = {} /\ hasProf' = {} /\ gpus' \in [DOMAIN gpus' -> GPUs']
      BY <2>1, <2>2 DEF NoDevices
    <3> QED
      BY <3>1, <3>2 DEF ParseInv, SeenInv
  <2> QED
    BY <2>1, <2>3, <2>4
<1>2. ASSUME NEW x, ParseLine(x) PROVE ParseInv' /\ SeenInv'
  BY <1>2, ParseLineInv, SeenLineInv
<1>3. CASE FinishEndpoint
  BY <1>3, FinishStep DEF ParseInv, SeenInv
<1>4. CASE UNCHANGED <<text, lines, current, gpus, hasProf>>
  <2>1. UNCHANGED <<Parsed, GPUs>>
    BY <1>4 DEF Parsed, GPUs, LineLabels
  <2>2. \A key, metric : Seen(key, metric)' = Seen(key, metric)
    BY <1>4, <2>1 DEF Seen, Valued, Samples
  <2>3. \A key : Unambiguous(current, key)' <=> Unambiguous(current, key)
    BY <1>4 DEF Unambiguous, Samples
  <2>4. ParseInv'
    BY <1>4, <2>1, <2>2 DEF ParseInv
  <2>5. ASSUME current # Nil, NEW key \in DOMAIN gpus, Unambiguous(current, key)
        PROVE  AsSeen(gpus[key], key)'
    <3>1. AsSeen(gpus[key], key)
      BY <2>5 DEF SeenInv
    <3>2. PICK g : g = gpus[key]
      OBVIOUS
    <3>3. AsSeen(g, key) /\ gpus'[key] = g /\ (key \in hasProf' <=> key \in hasProf)
      BY <1>4, <3>1, <3>2
    <3> QED
      BY <2>2, <3>3, SeenFrame
  <2>6. SeenInv'
    BY <1>4, <2>3, <2>5 DEF SeenInv
  <2> QED
    BY <2>4, <2>6
<1>5. Merge \/ UNCHANGED vars => UNCHANGED <<text, lines, current, gpus, hasProf>>
  BY DEF Merge, vars
<1> QED
  BY <1>1, <1>2, <1>3, <1>4, <1>5 DEF Next

\* At the end of a text all its samples have been seen, so a device shows what they tell.
LEMMA FinishedDevice ==
    ASSUME PollInv, ParseInv, SeenInv, FinishEndpoint, NEW key \in DOMAIN gpus,
           Unambiguous(current, key)
    PROVE  /\ WithTotal(gpus[key]).util = TrueUtil(current, key)
           /\ WithTotal(gpus[key]).total = TrueTotal(current, key)
<1>1. current # Nil /\ current \in Endpoints /\ lines = {}
  BY FinishStep
<1>2. ASSUME NEW metric
      PROVE  Seen(key, metric) = Valued(current, key, metric)
  BY <1>1 DEF Seen, Parsed, Valued, Samples
<1>3. PICK g : g = gpus[key]
  OBVIOUS
<1>4. g \in GPUs /\ AsSeen(g, key)
  BY <1>1, <1>3 DEF ParseInv, SeenInv
<1>5. key \in hasProf <=> Valued(current, key, "PROF_GR_ENGINE_ACTIVE") # {}
  BY <1>1, <1>2 DEF ParseInv
<1>6. ASSUME NEW metric, Valued(current, key, metric) # {}
      PROVE  Times(ValueOf(Valued(current, key, metric)), mibToBytes) # Nil
  <2>1. PICK v : v = ValueOf(Valued(current, key, metric))
    OBVIOUS
  <2>2. PICK x \in Valued(current, key, metric) : v = x.value
    BY <1>6, <2>1 DEF ValueOf
  <2>3. x \in text[current] /\ ~isSentinel(x.value)
    BY SampleFacts
  <2>4. v \in Readings
    BY <1>1, <2>2, <2>3, LineValues
  <2>5. mibToBytes \in Int
    BY DEF mibToBytes
  <2> QED
    BY <2>1, <2>4, <2>5, TimesValue
<1>7. WithTotal(g).util = TrueUtil(current, key)
  <2>1. WithTotal(g).util = g.util
    BY <1>4 DEF WithTotal, GPUs
  <2>2. g.util = IF key \in hasProf
                    THEN Times(ValueOf(Valued(current, key, "PROF_GR_ENGINE_ACTIVE")), 100)
                    ELSE IF Valued(current, key, "DEV_GPU_UTIL") = {} THEN Nil
                    ELSE ValueOf(Valued(current, key, "DEV_GPU_UTIL"))
    BY <1>2, <1>4 DEF AsSeen
  <2> QED
    BY <1>5, <2>1, <2>2 DEF TrueUtil
<1>8. ASSUME NEW metric
      PROVE  SeenValue(key, metric, mibToBytes)
                 = IF Valued(current, key, metric) = {} THEN Nil
                   ELSE Times(ValueOf(Valued(current, key, metric)), mibToBytes)
  BY <1>2 DEF SeenValue
<1>9. WithTotal(g).total = TrueTotal(current, key)
  <2>1. WithTotal(g).total = IF g.total = Nil /\ g.used # Nil /\ g.free # Nil
                                THEN g.used + g.free ELSE g.total
    BY <1>4 DEF WithTotal, GPUs
  <2>2. /\ g.used = IF Valued(current, key, "DEV_FB_USED") = {} THEN Nil
                    ELSE Times(ValueOf(Valued(current, key, "DEV_FB_USED")), mibToBytes)
        /\ g.free = IF Valued(current, key, "DEV_FB_FREE") = {} THEN Nil
                    ELSE Times(ValueOf(Valued(current, key, "DEV_FB_FREE")), mibToBytes)
        /\ g.total = IF Valued(current, key, "DEV_FB_TOTAL") = {} THEN Nil
                     ELSE Times(ValueOf(Valued(current, key, "DEV_FB_TOTAL")), mibToBytes)
    BY <1>4, <1>8 DEF AsSeen
  <2> QED
    BY <1>6, <2>1, <2>2 DEF TrueTotal
<1> QED
  BY <1>3, <1>7, <1>9

------------------------------------------------------------------------------
(* The theorems.                                                            *)

\* At first no text has been read.
LEMMA GPUInit == Init => PollInv /\ ParseInv /\ SeenInv /\ DeviceInv /\ DevicesOrderFree
<1> SUFFICES ASSUME Init PROVE PollInv /\ ParseInv /\ SeenInv /\ DeviceInv /\ DevicesOrderFree
  OBVIOUS
<1>1. /\ text \in Texts /\ todo = Endpoints /\ lines = {} /\ current = Nil
      /\ gpus = NoDevices /\ hasProf = {} /\ devices = NoDevices /\ DOMAIN NoDevices = {}
  BY DEF Init, NoDevices
<1>2. DOMAIN devices = {}
  BY <1>1
<1> QED
  BY <1>1, <1>2 DEF PollInv, ParseInv, SeenInv, DeviceInv, DevicesOrderFree

\* The devices of finished texts stay, and a text that ends adds its own.
LEMMA DeviceNext ==
    ASSUME PollInv, ParseInv, DeviceInv, [Next]_vars
    PROVE  DeviceInv'
<1>1. CASE UNCHANGED <<text, devices>>
  BY <1>1 DEF DeviceInv
<1>2. CASE FinishEndpoint
  <2>1. SUFFICES ASSUME NEW d \in DOMAIN devices', NEW x \in text[d[1]], Used(x)
                 PROVE  /\ <<d[1], KeyOf(x)>> \in DOMAIN devices'
                        /\ \E y \in text[d[1]] :
                              /\ Used(y) /\ KeyOf(y) = KeyOf(x)
                              /\ devices'[<<d[1], KeyOf(x)>>].labels = LabelsOf(y)
    BY <1>2, FinishStep DEF DeviceInv
  <2>2. CASE d \in DOMAIN devices
    <3>1. /\ <<d[1], KeyOf(x)>> \in DOMAIN devices
          /\ \E y \in text[d[1]] : /\ Used(y) /\ KeyOf(y) = KeyOf(x)
                                   /\ devices[<<d[1], KeyOf(x)>>].labels = LabelsOf(y)
      BY <2>1, <2>2 DEF DeviceInv
    <3> QED
      BY <1>2, <3>1, FinishStep
  <2>3. CASE d \notin DOMAIN devices
    <3>1. d[1] = current
      BY <1>2, <2>1, <2>3, FinishStep
    <3>2. KeyOf(x) \in DOMAIN gpus
      <4>1. x \in Parsed /\ current # Nil
        BY <1>2, <2>1, <3>1, FinishStep DEF Parsed
      <4> QED
        BY <2>1, <4>1 DEF ParseInv
    <3>3. PICK key : key = KeyOf(x)
      OBVIOUS
    <3>4. /\ <<current, key>> \in DOMAIN devices'
          /\ devices'[<<current, key>>] = WithTotal(gpus[key])
      BY <1>2, <3>2, <3>3, FinishStep
    <3>5. PICK g : g = gpus[key]
      OBVIOUS
    <3>6. /\ g \in GPUs
          /\ \E y \in text[current] : Used(y) /\ KeyOf(y) = key /\ g.labels = LabelsOf(y)
      BY <1>2, <3>2, <3>3, <3>5, FinishStep DEF ParseInv
    <3>7. WithTotal(g).labels = g.labels
      BY <3>6 DEF WithTotal, GPUs
    <3> QED
      BY <3>1, <3>3, <3>4, <3>5, <3>6, <3>7
  <2> QED
    BY <2>2, <2>3
<1>3. Next => FinishEndpoint \/ UNCHANGED <<text, devices>>
  BY DEF Next, Scrape, ParseLine, Merge
<1> QED
  BY <1>1, <1>2, <1>3 DEF vars

\* A text that ends adds devices that show what its samples tell, in whatever order they
\* were parsed.
LEMMA OrderFreeNext ==
    ASSUME PollInv, ParseInv, SeenInv, DevicesOrderFree, [Next]_vars
    PROVE  DevicesOrderFree'
<1>1. CASE UNCHANGED <<text, devices>>
  <2>1. \A e, key : /\ Unambiguous(e, key)' <=> Unambiguous(e, key)
                    /\ TrueUtil(e, key)' = TrueUtil(e, key)
                    /\ TrueTotal(e, key)' = TrueTotal(e, key)
    BY <1>1 DEF Unambiguous, TrueUtil, TrueTotal, Valued, Samples, ValueOf, Times
  <2> QED
    BY <1>1, <2>1 DEF DevicesOrderFree
<1>2. CASE FinishEndpoint
  <2>1. UNCHANGED text
    BY <1>2, FinishStep
  <2>2. \A e, key : /\ Unambiguous(e, key)' <=> Unambiguous(e, key)
                    /\ TrueUtil(e, key)' = TrueUtil(e, key)
                    /\ TrueTotal(e, key)' = TrueTotal(e, key)
    BY <2>1 DEF Unambiguous, TrueUtil, TrueTotal, Valued, Samples, ValueOf, Times
  <2>3. SUFFICES ASSUME NEW d \in DOMAIN devices', Unambiguous(d[1], d[2])
                 PROVE  /\ devices'[d].util = TrueUtil(d[1], d[2])
                        /\ devices'[d].total = TrueTotal(d[1], d[2])
    BY <2>2 DEF DevicesOrderFree
  <2>4. CASE d \in DOMAIN devices
    BY <1>2, <2>3, <2>4, FinishStep DEF DevicesOrderFree
  <2>5. CASE d \notin DOMAIN devices
    <3>1. d \in {current} \X DOMAIN gpus
      BY <1>2, <2>3, <2>5, FinishStep
    <3>2. d = <<d[1], d[2]>> /\ d[1] = current /\ d[2] \in DOMAIN gpus
      BY <3>1
    <3>3. PICK key : key = d[2]
      OBVIOUS
    <3>4. devices'[d] = WithTotal(gpus[key])
      BY <1>2, <3>2, <3>3, FinishStep
    <3>5. /\ WithTotal(gpus[key]).util = TrueUtil(current, key)
          /\ WithTotal(gpus[key]).total = TrueTotal(current, key)
      BY <1>2, <2>3, <3>2, <3>3, FinishedDevice
    <3> QED
      BY <3>2, <3>3, <3>4, <3>5
  <2> QED
    BY <2>4, <2>5
<1>3. Next => FinishEndpoint \/ UNCHANGED <<text, devices>>
  BY DEF Next, Scrape, ParseLine, Merge
<1> QED
  BY <1>1, <1>2, <1>3 DEF vars

\* Whatever the exporters answer, with any number of lines and devices, the order in which
\* ParseDCGMMetrics meets the lines does not show in the devices.
THEOREM DevicesOrderFreeHolds == Spec => []DevicesOrderFree
<1>1. /\ PollInv /\ [Next]_vars => PollInv'
      /\ PollInv /\ ParseInv /\ SeenInv /\ [Next]_vars => ParseInv' /\ SeenInv'
      /\ PollInv /\ ParseInv /\ SeenInv /\ DevicesOrderFree /\ [Next]_vars => DevicesOrderFree'
  BY PollNext, ParseNext, OrderFreeNext
<1> QED
  BY <1>1, GPUInit, PTL DEF Spec

\* No GPU is lost and none takes another's place, as long as no UUID is an index: for every
\* sample that names a GPU, a device of that GPU is reported (ParseDCGMMetrics).
THEOREM EveryGPUReportedHolds == Spec => []EveryGPUReported
<1>1. ASSUME PollInv, DeviceInv
      PROVE  EveryGPUReported
  <2>1. SUFFICES ASSUME NEW e \in Endpoints, NEW x \in text[e], ~x.malformed,
                        <<LabelsOf(x).uuid, LabelsOf(x).gpu>> # <<"", "">>,
                        NEW c \in DOMAIN devices, c[1] = e
                 PROVE  \E d \in DOMAIN devices :
                           /\ d[1] = e /\ devices[d].labels.uuid = LabelsOf(x).uuid
                           /\ LabelsOf(x).uuid = "" => devices[d].labels.gpu = LabelsOf(x).gpu
    BY Zenon DEF EveryGPUReported, LabelsOf
  <2>2. Used(x)
    BY <2>1 DEF Used, Fine
  <2>3. PICK y \in text[e] : /\ Used(y) /\ KeyOf(y) = KeyOf(x)
                             /\ devices[<<e, KeyOf(x)>>].labels = LabelsOf(y)
    BY <1>1, <2>1, <2>2 DEF DeviceInv
  <2>4. <<e, KeyOf(x)>> \in DOMAIN devices
    BY <1>1, <2>1, <2>2 DEF DeviceInv
  <2>5. /\ LabelsOf(x).uuid # "" /\ LabelsOf(y).uuid = "" => LabelsOf(x).uuid # LabelsOf(y).gpu
        /\ LabelsOf(y).uuid # "" /\ LabelsOf(x).uuid = "" => LabelsOf(y).uuid # LabelsOf(x).gpu
    BY <1>1, KeyAssumption DEF PollInv, LabelsOf
  <2>6. /\ LabelsOf(y).uuid = LabelsOf(x).uuid
        /\ LabelsOf(x).uuid = "" => LabelsOf(y).gpu = LabelsOf(x).gpu
    BY <2>3, <2>5 DEF KeyOf, DeviceKey
  <2>7. PICK d : d = <<e, KeyOf(x)>>
    OBVIOUS
  <2>8. d \in DOMAIN devices /\ d[1] = e /\ devices[d].labels = LabelsOf(y)
    BY <2>3, <2>4, <2>7
  <2> QED
    BY <2>6, <2>8
<1>2. /\ PollInv /\ [Next]_vars => PollInv'
      /\ PollInv /\ ParseInv /\ SeenInv /\ [Next]_vars => ParseInv' /\ SeenInv'
      /\ PollInv /\ ParseInv /\ DeviceInv /\ [Next]_vars => DeviceInv'
  BY PollNext, ParseNext, DeviceNext
<1> QED
  BY <1>1, <1>2, GPUInit, PTL DEF Spec

------------------------------------------------------------------------------
(* What Build makes of the devices.                                         *)

AllFinite == \A e \in Endpoints : \A x \in text[e] : x.value # NotFinite

\* The values of a device that are added up.
Sound(g) ==
    /\ AllFinite => g.util \in Int \cup {Nil}
    /\ g.used \in Nat \cup {Nil}

\* There are finitely many devices, with such values, and none comes after the
\* report.
DataInv ==
    /\ IsFiniteSet(DOMAIN gpus) /\ \A key \in DOMAIN gpus : Sound(gpus[key])
    /\ IsFiniteSet(DOMAIN devices) /\ \A d \in DOMAIN devices : Sound(devices[d])
    /\ report # Nil => todo = {} /\ current = Nil

LEMMA RecordedSound ==
    ASSUME PollInv, ParseInv, DataInv, NEW x, ParseLine(x), Used(x)
    PROVE  Sound(Recorded(x))
<1>1. current \in Endpoints /\ x \in text[current]
  BY ParseStep
<1>2. Found(x) \in GPUs
  BY FoundFacts
<1>3. Sound(Found(x))
  BY FoundFacts DEF DataInv, Sound
<1>4. CASE isSentinel(x.value)
  BY <1>3, <1>4 DEF Recorded
<1>5. CASE ~isSentinel(x.value)
  <2>1. PICK r : r = Record(Found(x), KeyOf(x), x.metric, x.value)
    OBVIOUS
  <2>2. x.value \in Readings
    BY <1>1, <1>5, LineValues
  <2>3. /\ r.util = IF x.metric = "PROF_GR_ENGINE_ACTIVE" THEN Times(x.value, 100)
                    ELSE IF x.metric = "DEV_GPU_UTIL" /\ KeyOf(x) \notin hasProf THEN x.value
                    ELSE Found(x).util
        /\ r.used = IF x.metric = "DEV_FB_USED" THEN Times(x.value, mibToBytes) ELSE Found(x).used
    BY <1>2, <2>1, <2>2, RecordFacts
  <2>4. ASSUME AllFinite PROVE r.util \in Int \cup {Nil}
    <3>1. x.value \in Int /\ x.value # NotFinite
      BY <1>1, <2>2, <2>4 DEF AllFinite, Readings
    <3>2. Times(x.value, 100) \in Int
      BY <3>1 DEF Times
    <3> QED
      BY <1>3, <2>3, <2>4, <3>1, <3>2 DEF Sound
  <2>5. r.used \in Nat \cup {Nil}
    <3>1. CASE x.metric = "DEV_FB_USED"
      <4>1. x.value \in Nat
        BY <1>1, <1>5, <3>1, MemoryAssumption DEF PollInv, isSentinel
      <4>2. x.value # NotFinite
        BY <4>1, ValueAssumption
      <4>3. Times(x.value, mibToBytes) \in Nat
        BY <4>1, <4>2 DEF Times, mibToBytes
      <4> QED
        BY <2>3, <3>1, <4>3
    <3>2. CASE x.metric # "DEV_FB_USED"
      BY <1>3, <2>3, <3>2 DEF Sound
    <3> QED
      BY <3>1, <3>2
  <2>6. Sound(r)
    BY <2>4, <2>5 DEF Sound
  <2> QED
    BY <1>5, <2>1, <2>6 DEF Recorded
<1> QED
  BY <1>4, <1>5

LEMMA FinishedData ==
    ASSUME PollInv, ParseInv, DataInv, FinishEndpoint
    PROVE  IsFiniteSet(DOMAIN devices') /\ \A d \in DOMAIN devices' : Sound(devices'[d])
<1> DEFINE pair == [key \in DOMAIN gpus |-> <<current, key>>]
           pairs == {pair[key] : key \in DOMAIN gpus}
<1>1. /\ current # Nil /\ DOMAIN devices' = DOMAIN devices \cup ({current} \X DOMAIN gpus)
      /\ \A d \in DOMAIN devices : devices'[d] = devices[d]
      /\ \A key \in DOMAIN gpus : devices'[<<current, key>>] = WithTotal(gpus[key])
  BY FinishStep
<1>2. {current} \X DOMAIN gpus = pairs
  OBVIOUS
<1>3. IsFiniteSet(pairs)
  <2>1. IsFiniteSet(DOMAIN gpus)
    BY DEF DataInv
  <2> HIDE DEF pair
  <2> QED BY <2>1, FiniteImage
<1> HIDE DEF pairs
<1>4. IsFiniteSet(DOMAIN devices')
  <2>1. IsFiniteSet(DOMAIN devices) /\ DOMAIN devices' = DOMAIN devices \cup pairs
    BY <1>1, <1>2 DEF DataInv
  <2>2. IsFiniteSet(DOMAIN devices \cup pairs)
    BY <1>3, <2>1, FS_Union
  <2> QED
    BY <2>1, <2>2
<1>5. ASSUME NEW d \in DOMAIN devices' PROVE Sound(devices'[d])
  <2>1. CASE d \in DOMAIN devices
    BY <1>1, <2>1 DEF DataInv
  <2>2. CASE d \notin DOMAIN devices
    <3>1. PICK key \in DOMAIN gpus : d = <<current, key>>
      BY <1>1, <1>5, <2>2
    <3>2. PICK g : g = gpus[key]
      OBVIOUS
    <3>3. g \in GPUs /\ Sound(g)
      BY <1>1, <3>2 DEF ParseInv, DataInv
    <3>4. WithTotal(g).util = g.util /\ WithTotal(g).used = g.used
      BY <3>3 DEF WithTotal, GPUs
    <3>5. Sound(WithTotal(g))
      BY <3>3, <3>4 DEF Sound
    <3> QED
      BY <1>1, <3>1, <3>2, <3>5
  <2> QED
    BY <2>1, <2>2
<1> QED
  BY <1>4, <1>5

LEMMA DataNext ==
    ASSUME PollInv, ParseInv, DataInv, [Next]_vars
    PROVE  DataInv'
<1>1. ASSUME NEW e \in Endpoints, Scrape(e) PROVE DataInv'
  <2>1. UNCHANGED <<text, gpus, devices, report>> /\ todo # {}
    BY <1>1 DEF Scrape
  <2> QED
    BY <2>1 DEF DataInv, Sound, AllFinite
<1>2. ASSUME NEW x, ParseLine(x) PROVE DataInv'
  <2>1. UNCHANGED <<text, todo, current, devices, report>> /\ current # Nil
    BY <1>2, ParseStep
  <2>2. \A g : Sound(g)' <=> Sound(g)
    BY <2>1 DEF Sound, AllFinite
  <2>3. IsFiniteSet(DOMAIN gpus') /\ \A key \in DOMAIN gpus' : Sound(gpus'[key])
    <3>1. CASE Used(x)
      <4>1. gpus' = Put(gpus, KeyOf(x), Recorded(x))
        BY <1>2, <3>1, ParseStep
      <4>2. Sound(Recorded(x))
        BY <1>2, <3>1, RecordedSound
      <4>3. DOMAIN gpus' = DOMAIN gpus \cup {KeyOf(x)}
        BY <4>1 DEF Put
      <4>4. IsFiniteSet(DOMAIN gpus')
        BY <4>3, FS_AddElement DEF DataInv
      <4> QED
        BY <4>1, <4>2, <4>3, <4>4 DEF Put, DataInv
    <3>2. CASE ~Used(x)
      BY <1>2, <3>2, ParseStep DEF DataInv
    <3> QED
      BY <3>1, <3>2
  <2> QED
    BY <2>1, <2>2, <2>3 DEF DataInv
<1>3. CASE FinishEndpoint
  <2>1. current # Nil /\ UNCHANGED <<text, report>> /\ DOMAIN gpus' = {}
    BY <1>3, FinishStep DEF NoDevices
  <2>2. \A g : Sound(g)' <=> Sound(g)
    BY <2>1 DEF Sound, AllFinite
  <2>3. IsFiniteSet(DOMAIN devices') /\ \A d \in DOMAIN devices' : Sound(devices'[d])
    BY <1>3, FinishedData
  <2> QED
    BY <2>1, <2>2, <2>3, FS_EmptySet DEF DataInv
<1>4. CASE Merge
  BY <1>4 DEF Merge, DataInv, Sound, AllFinite
<1>5. CASE UNCHANGED vars
  BY <1>5 DEF vars, DataInv, Sound, AllFinite
<1> QED
  BY <1>1, <1>2, <1>3, <1>4, <1>5 DEF Next

\* An average of integers is one, or there is nothing to average.
LEMMA MeanValue ==
    ASSUME NEW S, IsFiniteSet(S), NEW g, DOMAIN g = S, \A x \in S : g[x] \in Int
    PROVE  Mean(SumFunction(g), Cardinality(S)) \in Int \cup {Nil}
<1>1. SumFunctionOnSet(g, S) \in Int /\ Cardinality(S) \in Nat
  BY SumInt, FS_CardinalityType
<1>2. SumFunction(g) = SumFunctionOnSet(g, S)
  BY DEF SumFunction
<1> DEFINE sum == SumFunction(g)
           n == Cardinality(S)
<1>3. sum \in Int /\ n \in Nat /\ sum # NotFinite
  BY <1>1, <1>2, ValueAssumption
<1> HIDE DEF sum, n
<1>4. CASE n > 0
  <2>1. Mean(sum, n) = sum \div n
    BY <1>3, <1>4 DEF Mean, Quotient
  <2> QED
    BY <1>3, <1>4, <2>1 DEF sum, n
<1>5. CASE ~(n > 0)
  BY <1>5 DEF Mean, sum, n
<1> QED
  BY <1>4, <1>5

\* The average of the utilizations of some devices is a number or none.
LEMMA UtilValue ==
    ASSUME DataInv, AllFinite, NEW ds \in SUBSET DOMAIN devices
    PROVE  Average(ds, util) \in Int \cup {Nil}
<1> DEFINE S == {d \in ds : devices[d].util # Nil}
           g == [d \in S |-> devices[d].util]
<1>1. With(ds, util) = S
  BY DEF With, util
<1>2. \A d \in S : devices[d].util \in Int
  BY DEF DataInv, Sound
<1>3. IsFiniteSet(S)
  <2>1. S \in SUBSET DOMAIN devices
    OBVIOUS
  <2> HIDE DEF S
  <2> QED BY <2>1, FS_Subset DEF DataInv
<1>4. Sum(S, util) = SumFunction(g)
  <2>1. \A d \in S : util(d) # NotFinite
    BY <1>2, ValueAssumption DEF util
  <2> QED
    BY <2>1 DEF Sum, util
<1>5. Average(ds, util) = Mean(SumFunction(g), Cardinality(S))
  BY <1>1, <1>4 DEF Average
<1>6. DOMAIN g = S /\ \A d \in S : g[d] \in Int
  BY <1>2
<1> HIDE DEF g, S
<1> QED
  BY <1>3, <1>5, <1>6, MeanValue

\* The averages of a merge into a snapshot that shows none but finite values.
LEMMA EncodableMerged ==
    ASSUME DataInv, AllFinite, NEW s \in Snapshots,
           \A p \in DOMAIN s.containers : s.containers[p].util # NotFinite,
           NEW n, n = mergeGPUNodeMetrics(s.nodes),
           NEW c, c = mergeGPUContainerMetrics(s.containers)
    PROVE  /\ \A h \in DOMAIN n : n[h].util # NotFinite
           /\ \A p \in DOMAIN c : c[p].util # NotFinite
           /\ GPUSummary(n).util # NotFinite
<1>1. \A v \in Int \cup {Nil} : v # NotFinite
  BY ValueAssumption
<1>2. DOMAIN n = s.nodes /\ \A h \in s.nodes : n[h].util \in Int \cup {Nil}
  <2>1. DOMAIN n = s.nodes
    BY DEF mergeGPUNodeMetrics
  <2>2. ASSUME NEW h \in s.nodes PROVE n[h].util \in Int \cup {Nil}
    <3>1. n[h].util = Average(OfHost(h), util)
      BY DEF mergeGPUNodeMetrics
    <3>2. OfHost(h) \in SUBSET DOMAIN devices
      BY DEF OfHost
    <3> QED
      BY <3>1, <3>2, UtilValue
  <2> QED
    BY <2>1, <2>2
<1>3. ASSUME NEW p \in DOMAIN c PROVE c[p].util \in Int \cup {Nil}
  <2>1. /\ p \in DOMAIN s.containers
        /\ c[p].util = IF With(OfPod(p), util) = {} THEN s.containers[p].util
                                                   ELSE Average(OfPod(p), util)
    BY <1>3 DEF mergeGPUContainerMetrics
  <2>2. OfPod(p) \in SUBSET DOMAIN devices
    BY DEF OfPod
  <2>3. Average(OfPod(p), util) \in Int \cup {Nil}
    BY <2>2, UtilValue
  <2>4. s.containers[p].util \in Int \cup {NotFinite, Nil} /\ s.containers[p].util # NotFinite
    BY <2>1, SnapshotAssumption
  <2> QED
    BY <2>1, <2>3, <2>4
<1>4. GPUSummary(n).util \in Int \cup {Nil}
  <2> DEFINE S == {h \in s.nodes : n[h].util # Nil}
             g == [h \in S |-> n[h].util]
  <2>1. \A h \in S : n[h].util \in Int /\ n[h].util # NotFinite
    BY <1>1, <1>2
  <2>2. GPUSummary(n).util = Mean(SumFunction(g), Cardinality(S))
    BY <1>2, <2>1 DEF GPUSummary, Average, Sum, With
  <2>3. IsFiniteSet(S)
    <3>1. S \in SUBSET s.nodes /\ IsFiniteSet(s.nodes)
      BY SnapshotAssumption
    <3> HIDE DEF S
    <3> QED BY <3>1, FS_Subset
  <2>4. DOMAIN g = S /\ \A h \in S : g[h] \in Int
    BY <2>1
  <2> HIDE DEF g, S
  <2> QED
    BY <2>2, <2>3, <2>4, MeanValue
<1> QED
  BY <1>1, <1>2, <1>3, <1>4

\* The snapshot has the node of every device that a pod of it uses.
HostsKnown(s) ==
    \A d \in DOMAIN devices :
       devices[d].labels.pod \in DOMAIN s.containers => devices[d].labels.hostname \in s.nodes

\* The memory of the containers and that of the nodes, each against that of
\* the devices.
LEMMA ChargedMerged ==
    ASSUME DataInv, NEW s \in Snapshots, HostsKnown(s),
           NEW c, c = mergeGPUContainerMetrics(s.containers),
           NEW n, n = mergeGPUNodeMetrics(s.nodes)
    PROVE  NoMore(c, n)
<1> DEFINE A == {d \in DOMAIN devices : devices[d].used # Nil}
           D == {d \in A : devices[d].labels.pod \in DOMAIN s.containers}
           F == [d \in A |-> devices[d].used]
           C == Charged(c)
           cs == [p \in C |-> c[p].used]
           ofPod == [p \in C |-> {d \in D : devices[d].labels.pod = p}]
           N == {h \in DOMAIN n : n[h].used # Nil}
           ns == [h \in N |-> n[h].used]
           allOf == [h \in s.nodes |-> {d \in A : devices[d].labels.hostname = h}]
           ofHost == [h \in s.nodes |-> {d \in D : devices[d].labels.hostname = h}]
<1>0. /\ IsFiniteSet(s.nodes) /\ IsFiniteSet(DOMAIN s.containers)
      /\ DOMAIN c = DOMAIN s.containers
  BY SnapshotAssumption DEF mergeGPUContainerMetrics
<1>1. \A v \in Int : v # NotFinite /\ v # Nil
  BY ValueAssumption
<1>2. /\ IsFiniteSet(A) /\ \A d \in A : F[d] \in Nat /\ F[d] = devices[d].used
      /\ D \in SUBSET A /\ IsFiniteSet(D)
  <2>1. A \in SUBSET DOMAIN devices /\ D \in SUBSET A
    OBVIOUS
  <2>2. IsFiniteSet(A) /\ IsFiniteSet(D)
    <3> HIDE DEF A, D
    <3> QED BY <2>1, FS_Subset DEF DataInv
  <2> QED
    BY <2>1, <2>2 DEF DataInv, Sound
<1>3. ASSUME NEW part \in SUBSET A
      PROVE  /\ Sum(part, used) = SumFunctionOnSet(F, part)
             /\ SumFunctionOnSet(F, part) \in Nat /\ IsFiniteSet(part)
  <2> DEFINE g == [d \in part |-> devices[d].used]
  <2>1. IsFiniteSet(part)
    BY <1>2, FS_Subset
  <2>2. \A d \in part : devices[d].used # NotFinite
    <3> HIDE DEF F, A
    <3> QED BY <1>1, <1>2
  <2>3. Sum(part, used) = SumFunctionOnSet(g, part)
    BY <2>2 DEF Sum, used, SumFunction
  <2>4. \A d \in part : g[d] = F[d]
    OBVIOUS
  <2> HIDE DEF g, F, A, D
  <2>5. SumFunctionOnSet(g, part) = SumFunctionOnSet(F, part)
    BY <2>1, <2>4, SumEqual
  <2>6. SumFunctionOnSet(F, part) \in Nat
    BY <1>2, <2>1, SumNat
  <2> QED
    BY <2>1, <2>3, <2>5, <2>6
<1>4. ASSUME NEW p \in C
      PROVE  ofPod[p] \subseteq D /\ cs[p] = SumFunctionOnSet(F, ofPod[p])
  <2>1. p \in DOMAIN s.containers /\ With(OfPod(p), used) # {}
    BY <1>0 DEF Charged
  <2>2. With(OfPod(p), used) = ofPod[p]
    BY <2>1 DEF With, used, OfPod
  <2>3. c[p].used = Sum(With(OfPod(p), used), used)
    BY <2>1 DEF mergeGPUContainerMetrics
  <2>4. ofPod[p] \in SUBSET D /\ ofPod[p] \in SUBSET A
    OBVIOUS
  <2>5. cs[p] = Sum(ofPod[p], used)
    BY <2>2, <2>3
  <2> HIDE DEF F, ofPod, D, A
  <2> QED
    BY <1>3, <2>4, <2>5
<1>5. \A p \in C : cs[p] \in Nat
  <2> HIDE DEF F, ofPod, D, A, cs, C
  <2> QED BY <1>2, <1>3, <1>4
<1>6. IsFiniteSet(C)
  <2>1. C \in SUBSET DOMAIN s.containers
    BY <1>0 DEF Charged
  <2> HIDE DEF C
  <2> QED
    BY <1>0, <2>1, FS_Subset
<1>7. SumFunctionOnSet(cs, C) <= SumFunctionOnSet(F, D)
  <2>1. \A j, p \in C : j # p => ofPod[j] \cap ofPod[p] = {}
    <3> HIDE DEF C
    <3> QED OBVIOUS
  <2>2. ASSUME NEW p \in C
        PROVE  /\ ofPod[p] \subseteq D /\ cs[p] \in Nat
               /\ cs[p] <= SumFunctionOnSet(F, ofPod[p])
    <3> HIDE DEF F, ofPod, D, cs, C
    <3>1. PICK sum : sum = SumFunctionOnSet(F, ofPod[p])
      OBVIOUS
    <3>2. cs[p] \in Nat /\ ofPod[p] \subseteq D /\ cs[p] = sum
      BY <1>4, <1>5, <2>2, <3>1
    <3>3. cs[p] <= sum
      BY <3>2
    <3> QED BY <3>1, <3>2, <3>3
  <2>3. \A d \in D : F[d] \in Nat
    <3> HIDE DEF F, D, A
    <3> QED BY <1>2
  <2> HIDE DEF F, ofPod, D, A, cs, C
  <2> QED
    BY <1>2, <1>6, <2>1, <2>2, <2>3, SumParts
<1>8. DOMAIN n = s.nodes
  BY DEF mergeGPUNodeMetrics
<1>9. ASSUME NEW h \in s.nodes
      PROVE  /\ allOf[h] \in SUBSET A /\ SumFunctionOnSet(F, allOf[h]) \in Nat
             /\ n[h].used = Positive(SumFunctionOnSet(F, allOf[h]))
  <2>1. With(OfHost(h), used) = allOf[h]
    BY DEF With, used, OfHost
  <2>2. n[h].used = Positive(Sum(With(OfHost(h), used), used))
    BY DEF mergeGPUNodeMetrics
  <2>3. allOf[h] \in SUBSET A
    OBVIOUS
  <2> HIDE DEF F, allOf, A
  <2> QED
    BY <1>3, <2>1, <2>2, <2>3
<1>10. N \subseteq s.nodes /\ IsFiniteSet(N)
  <2>1. N \in SUBSET s.nodes
    BY <1>8
  <2> HIDE DEF N
  <2> QED
    BY <1>0, <2>1, FS_Subset
<1>11. ASSUME NEW h \in N
       PROVE  ofHost[h] \subseteq D /\ ns[h] \in Nat /\ SumFunctionOnSet(F, ofHost[h]) <= ns[h]
  <2>1. h \in s.nodes /\ n[h].used # Nil /\ ns[h] = n[h].used
    BY <1>10
  <2>2. ofHost[h] \subseteq D /\ ofHost[h] \in SUBSET allOf[h]
    BY <2>1
  <2>3. IsFiniteSet(allOf[h]) /\ \A d \in allOf[h] : F[d] \in Nat
    <3> HIDE DEF F, allOf, A, D
    <3> QED BY <1>2, <1>3, <1>9, <2>1
  <2> HIDE DEF F, ofHost, allOf, D, A, ns, N
  <2>4. SumFunctionOnSet(F, ofHost[h]) <= SumFunctionOnSet(F, allOf[h])
    BY <2>2, <2>3, SumPart
  <2>5. ns[h] = SumFunctionOnSet(F, allOf[h])
    BY <1>9, <2>1 DEF Positive
  <2> QED
    BY <1>9, <2>1, <2>2, <2>4, <2>5
<1>12. ASSUME NEW x \in D, F[x] # 0 PROVE \E h \in N : x \in ofHost[h]
  <2> DEFINE h == devices[x].labels.hostname
  <2>1. h \in s.nodes /\ x \in ofHost[h] /\ x \in allOf[h]
    BY DEF HostsKnown
  <2> HIDE DEF h
  <2>2. F[x] <= SumFunctionOnSet(F, allOf[h])
    <3>1. IsFiniteSet(allOf[h]) /\ \A d \in allOf[h] : F[d] \in Nat
      <4> HIDE DEF allOf, F, D, A
      <4> QED BY <1>2, <1>3, <1>9, <2>1
    <3> HIDE DEF allOf, F, D, A
    <3> QED
      BY <2>1, <3>1, SumMember
  <2>3. F[x] \in Nat
    BY <1>2
  <2> DEFINE total1 == SumFunctionOnSet(F, allOf[h])
  <2>4. total1 \in Nat /\ n[h].used = Positive(total1) /\ F[x] <= total1
    BY <1>9, <2>1, <2>2
  <2> HIDE DEF total1, F
  <2>5. total1 > 0 /\ total1 # Nil
    BY <1>1, <1>12, <2>3, <2>4
  <2>6. n[h].used # Nil
    BY <2>4, <2>5 DEF Positive
  <2> HIDE DEF ofHost, allOf
  <2> QED
    BY <1>8, <2>1, <2>6
<1>13. SumFunctionOnSet(F, D) <= SumFunctionOnSet(ns, N)
  <2>1. ASSUME NEW h \in N
        PROVE  /\ ofHost[h] \subseteq D /\ ns[h] \in Nat
               /\ SumFunctionOnSet(F, ofHost[h]) <= ns[h]
    <3> HIDE DEF F, ofHost, allOf, D, A, ns, N
    <3> QED BY <1>11
  <2>2. \A d \in D : F[d] \in Nat
    <3> HIDE DEF F, D, A
    <3> QED BY <1>2
  <2> HIDE DEF F, ofHost, allOf, D, A, ns, N
  <2> QED
    BY <1>2, <1>10, <1>12, <2>1, <2>2, SumCover
<1>14. SumFunctionOnSet(cs, C) <= SumFunctionOnSet(ns, N)
  <2>1. /\ SumFunctionOnSet(cs, C) \in Nat /\ SumFunctionOnSet(F, D) \in Nat
        /\ SumFunctionOnSet(ns, N) \in Nat
    <3> HIDE DEF F, D, A, cs, C, ns, N
    <3>1. \A d \in D : F[d] \in Nat
      BY <1>2
    <3> QED BY <1>2, <1>5, <1>6, <1>10, <1>11, <3>1, SumNat
  <2> HIDE DEF F, D, cs, C, ns, N
  <2>2. PICK x, y, z : /\ x = SumFunctionOnSet(cs, C) /\ y = SumFunctionOnSet(F, D)
                       /\ z = SumFunctionOnSet(ns, N)
    OBVIOUS
  <2>3. x \in Nat /\ y \in Nat /\ z \in Nat /\ x <= y /\ y <= z
    BY <1>7, <1>13, <2>1, <2>2
  <2>4. x <= z
    BY <2>3
  <2> QED
    BY <2>2, <2>4
<1> DEFINE cUsed(p) == c[p].used
           nUsed(h) == n[h].used
<1>15. With(DOMAIN n, nUsed) = N
  BY DEF With
<1>16. ASSUME NEW p \in C PROVE cUsed(p) # NotFinite
  <2>1. cUsed(p) = cs[p]
    OBVIOUS
  <2> HIDE DEF cs, C, cUsed
  <2> QED BY <1>1, <1>5, <1>16, <2>1
<1>17. ASSUME NEW h \in N PROVE nUsed(h) # NotFinite
  <2>1. nUsed(h) = ns[h]
    OBVIOUS
  <2> HIDE DEF F, ofHost, D, ns, N, nUsed
  <2>2. ns[h] \in Nat
    BY <1>11, <1>17
  <2> QED BY <1>1, <2>1, <2>2
<1>18. Sum(C, cUsed) = SumFunctionOnSet(cs, C)
  BY <1>16 DEF Sum, SumFunction
<1>19. Sum(N, nUsed) = SumFunctionOnSet(ns, N)
  BY <1>17 DEF Sum, SumFunction
<1> QED
  BY <1>14, <1>15, <1>18, <1>19 DEF NoMore

LEMMA ReportInit == Init => DataInv /\ MemoryChargedOnce /\ Encodable
<1> SUFFICES ASSUME Init PROVE DataInv /\ MemoryChargedOnce /\ Encodable
  OBVIOUS
<1>1. DOMAIN gpus = {} /\ DOMAIN devices = {} /\ report = Nil
  BY DEF Init, NoDevices
<1> QED
  BY <1>1, FS_EmptySet DEF DataInv, MemoryChargedOnce, Encodable

\* Which containers are charged depends on the devices only.
LEMMA ChargedFrame ==
    ASSUME devices' = devices, NEW c, NEW n
    PROVE  NoMore(c, n)' = NoMore(c, n)
<1>1. Charged(c)' = Charged(c)
  BY DEF Charged, OfPod, With, used
<1> QED
  BY <1>1 DEF NoMore, Sum, With

LEMMA ReportNext ==
    ASSUME PollInv, DataInv, MemoryChargedOnce, Encodable, [Next]_vars
    PROVE  MemoryChargedOnce' /\ Encodable'
<1>1. CASE Merge
  <2>1. PICK s \in Snapshots :
           report' = [read |-> s, nodes |-> mergeGPUNodeMetrics(s.nodes),
                      summary |-> GPUSummary(mergeGPUNodeMetrics(s.nodes)),
                      containers |-> mergeGPUContainerMetrics(s.containers)]
    BY <1>1 DEF Merge
  <2>2. UNCHANGED <<text, devices>>
    BY <1>1 DEF Merge
  <2>3. PICK n, c : n = mergeGPUNodeMetrics(s.nodes) /\ c = mergeGPUContainerMetrics(s.containers)
    OBVIOUS
  <2>4. /\ report'.read = s /\ report'.nodes = n /\ report'.containers = c
        /\ report'.summary = GPUSummary(n)
    BY <2>1, <2>3
  <2>5. MemoryChargedOnce'
    <3>1. HostsKnown(s) => NoMore(c, n)
      BY <2>3, ChargedMerged
    <3>2. NoMore(c, n)' <=> NoMore(c, n)
      BY <2>2, ChargedFrame
    <3>3. ASSUME NoMore(c, n)' PROVE NoMore(report.containers, report.nodes)'
      BY <2>4, <3>3
    <3> QED
      BY <2>2, <2>4, <3>1, <3>2, <3>3 DEF MemoryChargedOnce, HostsKnown
  <2>6. Encodable'
    <3>1. AllFinite /\ (\A p \in DOMAIN s.containers : s.containers[p].util # NotFinite) =>
             /\ \A h \in DOMAIN n : n[h].util # NotFinite
             /\ \A p \in DOMAIN c : c[p].util # NotFinite
             /\ GPUSummary(n).util # NotFinite
      BY <2>3, EncodableMerged
    <3> QED
      BY <2>2, <2>4, <3>1 DEF Encodable, AllFinite
  <2> QED
    BY <2>5, <2>6
<1>2. CASE UNCHANGED <<text, devices, report>>
  <2>1. PICK n, c : report # Nil => n = report.nodes /\ c = report.containers
    OBVIOUS
  <2>2. NoMore(c, n)' = NoMore(c, n)
    BY <1>2, ChargedFrame
  <2>3. ASSUME report # Nil
        PROVE  NoMore(report.containers, report.nodes)' = NoMore(report.containers, report.nodes)
    BY <1>2, <2>1, <2>2, <2>3
  <2> QED
    BY <1>2, <2>3 DEF MemoryChargedOnce, Encodable
<1>3. CASE FinishEndpoint
  <2>1. report' = Nil
    BY <1>3, FinishStep DEF DataInv
  <2> QED
    BY <2>1 DEF MemoryChargedOnce, Encodable
<1>4. Next => Merge \/ FinishEndpoint \/ UNCHANGED <<text, devices, report>>
  BY DEF Next, Scrape, ParseLine
<1> QED
  BY <1>1, <1>2, <1>3, <1>4 DEF vars

\* Whatever the exporters answer and whatever Build has read, a merge charges no more GPU
\* memory to containers than it reports for the nodes, when the snapshot has the nodes of
\* the devices its pods use: a device is one container's, and its node's, in the sums of
\* mergeGPUContainerMetrics and mergeGPUNodeMetrics, where a node with nothing in use
\* reports no memory.
THEOREM MemoryChargedOnceHolds == Spec => []MemoryChargedOnce
<1>1. /\ PollInv /\ [Next]_vars => PollInv'
      /\ PollInv /\ ParseInv /\ SeenInv /\ [Next]_vars => ParseInv' /\ SeenInv'
      /\ PollInv /\ ParseInv /\ DataInv /\ [Next]_vars => DataInv'
      /\ PollInv /\ DataInv /\ MemoryChargedOnce /\ Encodable /\ [Next]_vars
            => MemoryChargedOnce' /\ Encodable'
  BY PollNext, ParseNext, DataNext, ReportNext
<1> QED
  BY <1>1, GPUInit, ReportInit, PTL DEF Spec

\* Unless an exporter sampled a float that is not finite, then or before, no average of the
\* report is one, so that the snapshot can be encoded: every division is by a count that is
\* not zero.
THEOREM EncodableHolds == Spec => []Encodable
<1>1. /\ PollInv /\ [Next]_vars => PollInv'
      /\ PollInv /\ ParseInv /\ SeenInv /\ [Next]_vars => ParseInv' /\ SeenInv'
      /\ PollInv /\ ParseInv /\ DataInv /\ [Next]_vars => DataInv'
      /\ PollInv /\ DataInv /\ MemoryChargedOnce /\ Encodable /\ [Next]_vars
            => MemoryChargedOnce' /\ Encodable'
  BY PollNext, ParseNext, DataNext, ReportNext
<1> QED
  BY <1>1, GPUInit, ReportInit, PTL DEF Spec

=============================================================================
