SPECIFICATION Spec
CONSTANTS
    Environments <- MCEnvironments
    Clusters <- MCClusters
    PodSets <- MCPodSets
    MaxChanges = 1
    MaxFaults = 1
INVARIANTS
    PanicExplained
    MetadataOfOneProvider
PROPERTIES
    SignalEndsProcess
    ReturnEndsProcess
    PollsFollowExporters
CHECK_DEADLOCK FALSE
