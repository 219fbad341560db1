SPECIFICATION Spec
CONSTANTS
    MEMLEN = 4
    MAXHOLDOFF = 3
    HOLDOFFS = {1}
    DEFAULT_HOLDOFF = 1
    STEPS = 3
    MAX_STEP = 2
    MAXHISTORY = 6
    Unknown = Unknown
    SAMPLES = {s1, s2}
    Stream <- MCStream
    Enables = {TRUE, FALSE}
    Requests <- Restarting
SYMMETRY Exchanged
INVARIANTS
    TypeOK
    DecodesToSamples
    EndsWithValue
    TriggerRecorded
    PrintMarksTrigger
