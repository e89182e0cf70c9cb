SPECIFICATION BSpec
CONSTANTS
    NSectors = 3
    Values = {v0, v1}
    WORDS = 3
    SPAN = 2
    FIFO_DEPTH = 2
    WATERMARK = 2
    Faults = {"data", "response"}
    NCells = 6
    SECTOR = 2
    BLOCK = 4
    Cell = {0, 1}
    MaxData = 4
    RETRIES = 2
INVARIANTS
    ReadExact
    WriteExact
    PanicsOnlyOnFault
    WritePrefix
PROPERTY
    CallEnds
CHECK_DEADLOCK FALSE
