CONSTANTS
    FIFO_SIZE = 4
    Data = {"a", "b", "c"}
    Zero = "a"
SPECIFICATION FairSpec
INVARIANTS
    TypeOK
    Accounting
PROPERTIES
    ImplementsByteQueue
    BlockedPutReturns
