SPECIFICATION Spec
CONSTANTS
    Informers = {"nodes"}
    Pollers = {"metrics"}
    Order <- MCOrderPair
    StartFailures = {"nodes"}
    InformerMaxRetries = 1
    Stoppers = {"run"}
    MaxPolls = 2
PROPERTIES
    PartialStartStops
CHECK_DEADLOCK FALSE
