SPECIFICATION TransportSpec
CONSTANTS
    DefaultTTL = 0
    MaxSends = 2
    MaxRetries = 2
    RequestTimeout = 1
    BackendStatuses = {200, 401, 500}
INVARIANTS
    StoredExactlyOnce
    SendTimeBound
    ShutdownDelayBound
PROPERTIES
    NoRequestAfterRefusal
    ImplementsDelivery
