CONSTANTS
    NB_ANALOG_CHANNELS = 1
    MAX_SAMPLE_SIZE = 2
    Readings = {6553, 7000, 8192, 9832}
    MaxCount = 1
    Load = "normal"
SPECIFICATION FairSpec
INVARIANTS
    TypeOK
PROPERTIES
    RecoveryClears
    RequestIsMade
