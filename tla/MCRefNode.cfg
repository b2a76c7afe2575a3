SPECIFICATION Spec
CONSTANTS
    InitMax = 1
    GrowMin = 1
    NOld = 3
    NGlob = 4
    MaxUnused = 2
    MaxMany = 2
INVARIANTS
    FreeListExact
    IndexExact
PROPERTIES
    OwnerFollows
    TableSpec
