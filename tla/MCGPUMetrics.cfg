SPECIFICATION Spec
CONSTANTS
    Endpoints = {"e1", "e2"}
    Texts <- MCTexts
    Nil = Nil
    NotFinite = NotFinite
    Blank = Blank
    Snapshots <- MCSnapshots
    MaxLines = 4
INVARIANTS
    DevicesOrderFree
    EveryGPUReported
    MemoryChargedOnce
    Encodable
CHECK_DEADLOCK FALSE
