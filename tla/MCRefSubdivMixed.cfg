SPECIFICATION Spec
CONSTANTS
  Rank = {"a", "b"}
  Mesh <- MixedMesh
  Part <- MixedPart
  Orders <- MixedOrders
  Asked <- MixedAsked
  Inversions <- MixedInversions
  Supports <- NoSupports
  SweepLimit = 200
INVARIANTS HaloComplete
PROPERTIES Terminates
CHECK_DEADLOCK FALSE
