SPECIFICATION FairSpec
CONSTANTS
    MAXRUN = 3
    NSAMPLES = 2
    SAMPLES <- MCSamples
    Controls <- MCControls
    NoSample = 0
INVARIANTS
    TypeOK
    Conserved
    Lossless
    TriggerOnce
    Compresses
PROPERTIES
    EveryTaken
