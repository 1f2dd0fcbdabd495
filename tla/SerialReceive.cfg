CONSTANTS
    FIFO_SIZE = 4
    Data = {"a", "b"}
    Zero = "a"
    PACKET_SIZE_BYTES = 2
    MaxAnswers = 0
    MaxCount = 4
SPECIFICATION Spec
PROPERTIES
    ReceivesInOrder
    RxImplementsFIFO
