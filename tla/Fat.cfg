SPECIFICATION Spec
CONSTANTS
    CLUSTER_SIZE = 2
    BUFFER = 2
    LastCluster = 6
    Names <- MCNames
    ImageName <- MCImageName
    a = a
    b = b
    Data = {x, y}
    Stale = Stale
    MaxSlots = 7
    Offsets = {0, 1}
    Lengths = {0, 2}
SYMMETRY MCSymmetry
INVARIANTS
    OneOwner
    ContentKept
    ReadAllWhole
    FoundIffPresent
