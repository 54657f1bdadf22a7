SPECIFICATION Spec
CONSTANTS
    DefaultTTL = 0
    MaxSends = 2
    MaxRetries = 0
    RequestTimeout = 1
    BackendStatuses = {200, 401, 500}
    QuotaBackoff = 2
    RateBackoff = 1
    SnapshotInterval = 2
    MaxStopTime = 0
    ExternalStatuses = {}
    MaxExternal = 0
INVARIANTS
    AuthFailureIsFinal
CHECK_DEADLOCK FALSE
