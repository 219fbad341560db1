SPECIFICATION Spec
CONSTANTS
    MEMLEN = 4
    MAXHOLDOFF = 3
    HOLDOFFS = {1}
    DEFAULT_HOLDOFF = 1
    STEPS = 4
    MAX_STEP = 3
    MAXHISTORY = 7
    Unknown = Unknown
    SAMPLES = {s1, s2}
    Stream <- MCStream
    Enables = {TRUE}
    Requests <- Restarting
SYMMETRY Exchanged
INVARIANTS
    VcdShowsTrigger
