CONSTANTS
    Names = {usr, bin}
    Paths <- SomePaths
    Longer <- PrefixFree
    RecLen = 1
    Slack = 2
    DirLen = 6
    IPG = 3
    NGroups = 2
    Reserved = 3
    NBlocks = 6
    FirstFree = 2
    OtherFree = 3
    CELLS = 2
    ReadLengths = {3}
    MaxFileBlocks = 2
    usr = usr
    bin = bin
SPECIFICATION Spec
INVARIANTS
    DirTiled
    NamesExact
    
    
    
CHECK_DEADLOCK FALSE
