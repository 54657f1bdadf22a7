SPECIFICATION Spec
CONSTANTS
    DefaultTTL = 1
    MaxSends = 3
    MaxRetries = 1
    RequestTimeout = 1
    BackendStatuses = {200}
    QuotaBackoff = 2
    RateBackoff = 1
    SnapshotInterval = 1
    MaxStopTime = 2
    ExternalStatuses = {}
    MaxExternal = 0
INVARIANTS
    HealthCountsCompletedSends
    CountersAgree
    PromptShutdown
PROPERTIES
    HealthTellsRecentFailures
    KeepsSending
    ShutdownReturns
CHECK_DEADLOCK FALSE
