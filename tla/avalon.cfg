SPECIFICATION Spec
CONSTANTS
    MEMLEN = 2
    MAXHOLDOFF = 3
    NSAMPLES = 4
    HOLDOFFS = {0, 2}
    DEFAULT_HOLDOFF = 2
    Unknown = Unknown
    SAMPLES <- MCSamples
    Stream <- MCStream
    Enables = {TRUE, FALSE}
    Requests <- Restarting
PROPERTIES
    Captures
