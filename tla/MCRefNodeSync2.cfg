CONSTANTS
    NRank = 2
    NVert = 3
    NInit = 2
    ChunkMin = 1
    MaxNew = 2
    MaxUnused = 1
    MaxSync = 2
SPECIFICATION FairSpec
INVARIANTS
    SyncCompacts
PROPERTIES
    SyncCompletes
