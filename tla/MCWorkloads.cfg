SPECIFICATION Spec
CONSTANTS
    Scenarios <- MCScenarios
    maxOwnerDepth = 10
    MaxEvents = 2
INVARIANTS
    OwnersReal
    OwnerUIDsReal
    CountedOnce
PROPERTIES
    TotalsCatchUp
    TargetsCatchUp
