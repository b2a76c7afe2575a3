SPECIFICATION Spec
CONSTANTS
    Place <- SheetPlace
    InitCell <- SheetCell
    InitGeom <- SheetGeom
    Ghost = {7}
    MaxNode = 12
    MaxOp = 2
INVARIANTS CavityConforms SegsBound
\* a behaviour ends at its bound on replacements
CHECK_DEADLOCK FALSE
