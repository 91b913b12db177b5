CONSTANTS
  kFOVRadius = 1
  kVisionRadius = 1
  Size <- Side
  Fills <- AllFills
  GoodFills <- Nothing
SPECIFICATION FairSpec
INVARIANTS TypeOK WorldIsFresh
PROPERTIES PassIsSynchronous GetsAWorld
