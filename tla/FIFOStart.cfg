CONSTANTS
    FIFO_SIZE = 4
    Data = {"a", "b", "c"}
    Zero = "a"
SPECIFICATION Spec
INVARIANTS
    StartIsOldest
