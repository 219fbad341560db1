SPECIFICATION FairBenchSpec
CONSTANTS
    MEMLEN = 16
    MAXHOLDOFF = 15
    DEFAULT_HOLDOFF = 3
    STEPS = 8
    MAX_STEP = 3
    MAXHISTORY = 1
    COUNTS = 64
    SEL = TRUE
    BOMBCOUNT = 4
    RANDOM_STROBE = FALSE
    NoWord = NoWord
    Unknown = Unknown
    SAMPLES <- MCSamples
    Stream <- MCStream
    Pattern <- MCPattern
    WARMUPS <- MCWarmups
    Enables = {TRUE}
    Requests <- MCRequests
INVARIANTS
    BenchTypeOK
    NoFailure
PROPERTIES
    Ends
CHECK_DEADLOCK FALSE
