CONSTANTS
  kFOVRadius = 3
  kVisionRadius = 3
  Size <- SmallBoard
  Maps <- SmallMaps
  Viewers <- CentreAndCorner
SPECIFICATION Spec
INVARIANTS TypeOK ComputesTheView NotThroughTrees
PROPERTY ReadsAreSettled
