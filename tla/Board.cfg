CONSTANTS
  kFOVRadius = 2
  kVisionRadius = 2
  e1 = e1
  e2 = e2
  NoEntity = NoEntity
  Entity <- TwoEntities
  Size <- BoardSize
  Charge <- Charges
  View <- LayeredView
SPECIFICATION Spec
INVARIANTS TypeOK OwnersMatchPositions QueueInOrder CleanVisionIsCurrent
CONSTRAINT MapBound
VIEW LiveState
