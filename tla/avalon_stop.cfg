SPECIFICATION Spec
CONSTANTS
    MEMLEN = 2
    MAXHOLDOFF = 3
    NSAMPLES = 4
    HOLDOFFS = {3}
    DEFAULT_HOLDOFF = 0
    Unknown = Unknown
    SAMPLES <- MCSamples
    Stream <- MCStream
    Enables = {TRUE}
    Requests <- Restarting
PROPERTIES
    StaysStopped
