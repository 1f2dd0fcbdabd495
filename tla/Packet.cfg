CONSTANTS
    Commands = {{4}, {4, 7}, {0, 4}, {1, 4, 7}, {3, 4, 7}, {5, 7}}
    Parameters1 = {{}, {0}, {1}}
    Parameters2 = {{}, {0}}
    Parameters3 = {{}}
    NoiseBytes = {{}, {4}}
    MaxNoise = 1
SPECIFICATION Spec
INVARIANTS
    TypeOK
    PacketsAreWindows
    HandlesWhatWasSent
    ModeIsAsWanted
PROPERTIES
    ValidNeverRejected
    RequestIsAnswered
