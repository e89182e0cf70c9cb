SPECIFICATION FairSpec
CONSTANTS
    RING_BUFFER_SIZE = 2
    Modulus = 3
    Byte <- MCByte
    MaxProc = 2
    MaxFd = 2
    MaxIov = 2
    Lengths = {0, 3}
    SENDFILE = 3
    None = None
INVARIANTS
    StatusExact
    DeliveredInOrder
PROPERTIES
    ImplementsFifo
    StoredAtHome
    
    ReadersSeeTheEnd
