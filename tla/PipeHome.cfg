SPECIFICATION Spec
CONSTANTS
    RING_BUFFER_SIZE = 2
    Modulus = 3
    Byte <- MCByte
    MaxProc = 2
    MaxFd = 1
    MaxIov = 1
    Lengths = {3}
    SENDFILE = 3
    None = None
INVARIANT WrittenFromHome
