SPECIFICATION FairSpec
CONSTANTS
    MEMLEN = 2
    MAXHOLDOFF = 3
    NSAMPLES = 1
    HOLDOFFS = {0}
    DEFAULT_HOLDOFF = 0
    Unknown = Unknown
    SAMPLES <- MCSamples
    Stream <- MCStream
    Enables = {TRUE}
    Requests <- Triggering
INVARIANTS
    TypeOK
    Handshake
    FlagsCoherent
    InterruptOnce
PROPERTIES
    ReadableWhenStopped
    ResetCompletes
    ManualTriggerStops
