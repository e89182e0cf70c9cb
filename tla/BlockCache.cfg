SPECIFICATION Spec
CONSTANTS
    Block = {b1, b2, b3}
    Data = {d1, d2}
    Client = {c1, c2}
    BLOCK_CACHE_SIZE = 2
INVARIANTS
    Coherent
PROPERTY
    ImplementsDisk
