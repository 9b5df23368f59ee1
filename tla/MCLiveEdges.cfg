SPECIFICATION MCSpec
CONSTANTS
    Streams = {s1, s2, s3}
    NoStream = none
    Stoppers = {guard, run}
    Sends = {a, b}
    Inserts = {a, b}
    Interval = 3
    MinMargin = 1
    MaxMargin = 2
    MarginDivisor = 3
    HttpTimeout = 1
    Lives = {3, 8}
    MaxClock = 11
    MaxLines = 3
    QueueLimit = 1
    SampleInterval = 2
    MaxFrames = 4
INVARIANTS
    NeverStranded
    NoConnectionLeaks
    DeadlinesAreSafe
    ExposureIsBounded
    CapabilityIsHonest
    ReadersLeaveNothing
PROPERTIES
    MovesOn
    ReadersEnd
CHECK_DEADLOCK FALSE
