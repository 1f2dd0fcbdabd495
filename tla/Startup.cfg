CONSTANTS
    NB_ANALOG_CHANNELS = 3
    OS_MAX_EVENTS = 32
    MaxCount = 2
SPECIFICATION FairSpec
INVARIANTS
    TypeOK
    ThreadsFindSemaphores
    InterruptsFindSemaphores
PROPERTIES
    ThreadsStart
