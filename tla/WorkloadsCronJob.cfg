SPECIFICATION Spec
CONSTANTS
    Scenarios <- MCBatch
    maxOwnerDepth = 10
    MaxEvents = 2
PROPERTY LivePodsTrump
