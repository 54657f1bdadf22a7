SPECIFICATION MCSpec
CONSTANTS
    None = None
    Nodes = {"n1"}
    Pods = {"p1", "p2"}
    MaxEvents = 3
    MaxPolls = 2
INVARIANTS
    UniqueNodes
    StoresAgree
PROPERTIES
    OrphansExplained
    SnapshotsCatchUp
    UsageCatchesUp
    NodeGPUCatchesUp
