--------------------------- MODULE MCGPUMetrics ---------------------------
(***************************************************************************)
(* One exporter with every small selection of lines below, in every order, *)
(* beside another one that answers with a single device.                   *)
(***************************************************************************)
EXTENDS GPUMetrics, FiniteSetsExt

CONSTANT MaxLines       \* bound: lines of the first exporter

L(key, value) == [key |-> key, value |-> value]
Line(metric, labels, value) ==
    [metric |-> metric, labels |-> labels, value |-> value, malformed |-> FALSE]

\* GPU 0 in use by pod a, a second instance of it by pod b; GPU 1 of an older
\* exporter, without a UUID, used by pod b; GPU 2 is not in use.
Gpu0 == <<L("gpu", "0"), L("UUID", "u0"), L("Hostname", "h1"), L("pod", "a")>>
Mig0 == <<L("gpu", "0"), L("uuid", "u0"), L("Hostname", "h1"), L("pod", "b")>>
Gpu1 == <<L("pod_name", "b"), L("gpu", "1"), L("Hostname", "h1")>>
Gpu2 == <<L("pod_name", ""), L("gpu", "2"), L("Hostname", "h1")>>
None == <<L("Hostname", "h1")>>

Pool == {Line("PROF_GR_ENGINE_ACTIVE", Gpu0, 1),
         Line("PROF_GR_ENGINE_ACTIVE", Gpu0, Blank),
         Line("DEV_GPU_UTIL", Gpu0, 40),
         Line("DEV_GPU_UTIL", Mig0, 70),
         Line("DEV_GPU_UTIL", Gpu1, NotFinite),
         Line("DEV_FB_USED", Gpu0, 3),
         Line("DEV_FB_FREE", Gpu0, 5),
         Line("DEV_FB_TOTAL", Gpu0, 9),
         Line("DEV_FB_USED", Gpu1, 2),
         Line("DEV_FB_USED", Gpu2, 6),
         Line("DEV_GPU_TEMP", Gpu1, Blank),
         Line("DEV_XID_ERRORS", Gpu1, 1),
         Line("DEV_GPU_UTIL", None, 50),
         [Line("DEV_FB_USED", Mig0, 7) EXCEPT !.malformed = TRUE]}

Other == {Line("DEV_FB_USED", <<L("gpu", "0"), L("UUID", "u2"), L("Hostname", "h2"), L("pod", "c")>>, 4)}

MCTexts == {"e1" :> t @@ "e2" :> Other : t \in UNION {kSubset(n, Pool) : n \in 0 .. MaxLines}}

\* All nodes and pods are there; a node is not, or not yet; a pod is not.  A container shows
\* what an earlier poll said of it.
Showing(percent, bytes) == [util |-> percent, used |-> bytes]
MCSnapshots ==
    {[nodes |-> {"h1", "h2"},
      containers |-> ("a" :> Showing(Nil, Nil) @@ "b" :> Showing(Nil, Nil) @@ "c" :> Showing(Nil, Nil))],
     [nodes |-> {"h1"},
      containers |-> ("a" :> Showing(10, 8 * mibToBytes) @@ "b" :> Showing(NotFinite, Nil))],
     [nodes |-> {"h2", "h3"},
      containers |-> ("b" :> Showing(Nil, Nil) @@ "c" :> Showing(20, 90 * mibToBytes))]}
=============================================================================
