CONSTANTS
    MaxId = 5
    KERNEL_STACK_SIZE = 8
    PAGE_SIZE = 1
    MEMORY_END = 100
SPECIFICATION Spec
INVARIANTS
    ExactlyOnce
PROPERTY ImplementsPool
