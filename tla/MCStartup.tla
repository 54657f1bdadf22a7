------------------------------ MODULE MCStartup ------------------------------
(***************************************************************************)
(* The documented environment with some of its variables changed to values  *)
(* around what Validate and the parsers tell apart.                        *)
(***************************************************************************)
EXTENDS Startup, TLC

Unset == [form |-> "unset", n |-> 0]
Garbage == [form |-> "garbage", n |-> 0]
Dur(n) == [form |-> "duration", n |-> n]
Whole(n) == [form |-> "integer", n |-> n]

Documented ==
    [apiKey |-> "key", agentToken |-> "", backendURL |-> "https", backendEndpoint |-> "",
     allowInsecure |-> Unset, snapshotInterval |-> Dur(60000), metricsInterval |-> Unset,
     gpuInterval |-> Unset, gpuEnabled |-> Unset, endpoints |-> <<>>,
     compressionLevel |-> Whole(3), maxRetries |-> Unset, healthPort |-> Whole(8080)]

Changes ==
    {[apiKey |-> ""],
     [apiKey |-> "", agentToken |-> "key", backendURL |-> "http", allowInsecure |-> Whole(1),
      snapshotInterval |-> Garbage, gpuEnabled |-> Whole(2), endpoints |-> <<"", "">>],
     [backendURL |-> "http"],
     [backendURL |-> "", backendEndpoint |-> "http", allowInsecure |-> Garbage],
     [snapshotInterval |-> Whole(0)],
     [metricsInterval |-> Whole(0)],
     [metricsInterval |-> Dur(9999), gpuInterval |-> Whole(30)],
     [gpuInterval |-> Dur(0)],
     [gpuInterval |-> Whole(-1), endpoints |-> <<"static">>],
     [gpuInterval |-> Whole(-1), gpuEnabled |-> Whole(0)],
     [gpuInterval |-> Dur(1), endpoints |-> <<"", "static">>],
     [compressionLevel |-> Whole(5)],
     [maxRetries |-> Whole(-1)],
     [healthPort |-> Whole(0)]}

MCEnvironments == {change @@ Documented : change \in Changes}

MCClusters == {[groups |-> {}, gpu |-> FALSE],
               [groups |-> {"vpa", "nodepools", "metrics"}, gpu |-> TRUE]}

MCPodSets == LET First(ip) == [selector |-> 1, ip |-> ip]
                 Second == [selector |-> 2, ip |-> "b"]
             IN  {{}, {First("a")}, {First(""), Second}, {First("a"), Second}}
=============================================================================
