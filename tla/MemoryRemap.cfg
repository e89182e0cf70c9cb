CONSTANTS
    PAGE_SIZE = 2
    Top = 4
    HEAP_BASE = 1
    MMAP_BASE = 3
    MaxLen = 1
    MaxFrame = 13
    MaxProc = 2
    None = None
SPECIFICATION Spec
INVARIANT
    NeverRemapped
