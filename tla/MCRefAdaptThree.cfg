SPECIFICATION Spec
CONSTANTS
    NRank = 3
    InitCell <- SheetCell
    InitGeom <- SheetGeom
    MaxNode = 6
    MaxOp = 1
    MaxMove = 1
INVARIANTS HaloExact GhostsFresh
