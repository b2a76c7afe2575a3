SPECIFICATION Spec
CONSTANTS
    NRank = 2
    InitCell <- SheetCell
    InitGeom <- SheetGeom
    MaxNode = 7
    MaxOp = 2
    MaxMove = 1
INVARIANTS HaloExact TopoVerified MeshConforms
