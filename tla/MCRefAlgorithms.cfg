SPECIFICATION Spec
CONSTANTS
    MaxLen = 6
    MaxEntry = 6
    MaxBall = 4
    Place = {0, 2, 5, 8}
    Radius = {0, 2}
    MaxItem = 4
    NProc = 3
    MaxCell = 3
    FileVertices = {5, 6, 7}
    FileRanks = {1, 2, 3, 4, 6}
    FileChunks = {1, 2}
INVARIANTS
    SortSearch
    CutConforms
    SplitConforms
    TreeFinds
    ExchangeDelivers
    FileRoundTrip
\* every behaviour ends with a complete input
CHECK_DEADLOCK FALSE
