CONSTANTS
    Names = {usr, bin}
    Paths <- SomePaths
    Longer <- PrefixFree
    RecLen = 1
    Slack = 2
    DirLen = 6
    IPG = 3
    NGroups = 2
    Reserved = 2
    NBlocks = 5
    FirstFree = 2
    OtherFree = 3
    CELLS = 2
    ReadLengths = {3}
    MaxFileBlocks = 2
    usr = usr
    bin = bin
SPECIFICATION Spec
INVARIANT
    LiveInodeMarked
CHECK_DEADLOCK FALSE
