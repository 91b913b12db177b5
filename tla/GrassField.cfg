CONSTANTS
  kFOVRadius = 15
  kVisionRadius = 3
  Size <- GameBoard
  Maps <- GrassFields
  Viewers <- StartAndBorder
SPECIFICATION Spec
INVARIANTS GrassLimitsSight
