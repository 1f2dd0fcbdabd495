CONSTANTS
    FLASH_SIZE_BYTES = 4
    CountLimit = 5
SPECIFICATION FairSpec
INVARIANTS
    TypeOK
    OutputCommandsAreWhole
    BlockHoldsStored
    RaisesKnownToWithinOne
PROPERTIES
    RegistersAreFree
    WritesReturn
