CONSTANTS
    NB_ANALOG_CHANNELS = 2
    MAX_SAMPLE_SIZE = 1
    Readings = {8192, 9832}
    MaxCount = 1
    Load = "normal"
SPECIFICATION Spec
INVARIANTS
    AlarmOnlyWhenOut
    RestingOutputsShowFlags
    ChecksAreAnswered
