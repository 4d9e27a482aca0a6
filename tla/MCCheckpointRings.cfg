SPECIFICATION Spec
CONSTANTS
    DescCount = 5
    DataCount = 4
    OwnedBlocks = {b1}
    MaxOid = 2
    ObjectSizes = {1}
    MapCapacity = 1
    MaxXid = 4
    MaxAttempt = 3
    MaxTorn = 1
INVARIANTS
    PinnedLoadable
    PublishedIsSelected
