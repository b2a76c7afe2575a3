CONSTANTS
    NRank = 3
    NVert = 3
    NInit = 2
    ChunkMin = 1
    MaxNew = 1
    MaxUnused = 2
    MaxSync = 1
SPECIFICATION Spec
INVARIANTS
    LocalIdsUnique
    GhostAgrees
    OldIdsUnique
    SyncCompacts
PROPERTIES
    OrderKept
