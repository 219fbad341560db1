SPECIFICATION Spec
CONSTANTS
    BOMBCOUNT = 3
    LENGTH = 2
    NoCall = NoCall
    NoWord = NoWord
    RANDOM_STROBE = TRUE
    Words <- MCWords
    Calls <- MCBlocks
PROPERTIES
    ImplementsDevBus
