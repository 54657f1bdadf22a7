SPECIFICATION Spec
CONSTANTS
    DefaultTTL = 0
    MaxSends = 2
    MaxRetries = 0
    RequestTimeout = 1
    BackendStatuses = {200}
    QuotaBackoff = 1
    RateBackoff = 0
    SnapshotInterval = 1
    MaxStopTime = 0
    ExternalStatuses = {200, 401, 402, 410, 429, 500}
    MaxExternal = 2
INVARIANTS
    AtMostOneSnapshotAfterStop
PROPERTIES
    StopHonoured
    BackoffEnds
CHECK_DEADLOCK FALSE
