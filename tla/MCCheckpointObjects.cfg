SPECIFICATION Spec
CONSTANTS
    DescCount = 5
    DataCount = 3
    OwnedBlocks = {b1, b2}
    MaxOid = 1
    ObjectSizes = {1, 2}
    MapCapacity = 1
    MaxXid = 4
    MaxAttempt = 2
    MaxTorn = 1
INVARIANTS
    TypeOK
    CurrentIntact
    SelectionOldOrNew
PROPERTY SelectionNeverRegresses
SYMMETRY Symmetry
