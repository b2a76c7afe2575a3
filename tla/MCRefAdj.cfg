SPECIFICATION Spec
CONSTANTS
    InitNode = 1
    InitItem = 1
    GrowNode = 1
    GrowItem = 1
    MaxInt = 5
    NNode = 3
    NRef = 2
INVARIANTS
    PoolExact
PROPERTIES
    ListsSpec
