SPECIFICATION Spec
CONSTANTS
    MEMLEN = 2
    MAXHOLDOFF = 3
    NSAMPLES = 4
    HOLDOFFS = {1}
    DEFAULT_HOLDOFF = 0
    Unknown = Unknown
    SAMPLES <- MCSamples
    Stream <- MCStream
    Enables = {TRUE, FALSE}
    Requests <- Restarting
PROPERTIES
    Captures
