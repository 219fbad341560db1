SPECIFICATION FairHostSpec
CONSTANTS
    MEMLEN = 8
    MAXHOLDOFF = 3
    NSAMPLES = 9
    HOLDOFFS = {0, 2}
    DEFAULT_HOLDOFF = 1
    Unknown = Unknown
    SAMPLES <- MCSamples
    Stream <- MCStream
    Enables = {TRUE}
    Requests <- MCRequests
    BOMBCOUNT = 4
    NoWord = NoWord
    RANDOM_STROBE = FALSE
    Settings <- MCSettings
    VECTOR_READS = {TRUE, FALSE}
    Length <- MCLength
    Unread <- MCUnread
INVARIANTS
    HostTypeOK
    ReadsOldestFirst
    TriggerMarked
    EveryCallAnswered
PROPERTIES
    ReadsAnswered
    WaitReturns
