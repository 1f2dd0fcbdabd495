CONSTANTS
    Thread <- MCThread
    Semaphore <- MCSemaphore
    MaxCount = 2
    InitialCount <- MCInitialCount
SPECIFICATION Spec
INVARIANTS
    TypeOK
    NoSignalLost
    OneHome
PROPERTIES
    ImplementsCountingSemaphore
