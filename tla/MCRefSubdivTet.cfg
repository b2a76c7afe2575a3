SPECIFICATION Spec
CONSTANTS
  Rank = {"a", "b"}
  Mesh <- TetMesh
  Part <- TetPart
  Orders <- TetOrders
  Asked <- TetAsked
  Inversions <- TetInversions
  Supports <- TetSupports
  SweepLimit = 200
INVARIANTS RelaxLeastClosure SplitReady SplitProgress
CHECK_DEADLOCK FALSE
