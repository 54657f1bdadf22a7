SPECIFICATION Spec
CONSTANTS
    Informers = {"nodes", "pods"}
    Pollers = {"metrics"}
    Order <- MCOrder
    StartFailures = {"pods"}
    InformerMaxRetries = 2
    Stoppers = {"run", "other"}
    MaxPolls = 2
INVARIANTS
    StopAllTimeBound
    SyncOkMeansAllSynced
    StaleExplained
    NoDoubleClose
    StopAllLeavesNothingRunning
PROPERTIES
    StopAllReturns
CHECK_DEADLOCK FALSE
