CONSTANTS
    FIFO_SIZE = 3
    Data = {"a"}
    Zero = "a"
    PACKET_SIZE_BYTES = 2
    MaxAnswers = 2
    MaxCount = 3
SPECIFICATION FairSpec
INVARIANTS
    TypeOK
    NoTransmitOverrun
    NoTransmitStall
PROPERTIES
    TxImplementsFIFO
    HeadIsSent
