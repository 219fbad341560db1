SPECIFICATION FairSpec
CONSTANTS
    MEMLEN = 2
    MAXHOLDOFF = 3
    NSAMPLES = 4
    HOLDOFFS = {0}
    DEFAULT_HOLDOFF = 3
    Unknown = Unknown
    SAMPLES <- MCSamples
    Stream <- MCStream
    Enables = {TRUE, FALSE}
    Requests <- Configuring
INVARIANTS
    TypeOK
    TriggerInPlace
    InterruptOnce
PROPERTIES
    Captures
    HoldoffNeedsReset
    ManualTriggerStops
    TriggeredStops
