SPECIFICATION Spec
CONSTANTS
    TotalTimeout = 4
    IdleTimeout = 2
    ReadTimeout = 1
    READ_SIZE = 3
    MaxResponseSize = 3
    RequestSize = 2
    MaxBytes = 5
INVARIANTS
    ResponseIsTheStream
    SizeLimitIsExact
    ChunksAreNotEarly
    StopsOnTime
PROPERTIES
    EveryCallEnds
