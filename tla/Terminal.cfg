CONSTANTS
  BoardSize <- Small
  Sizes <- Windows
  Pictures <- TwoRows
  StatusSize = 4
SPECIFICATION Spec
INVARIANTS TypeOK ShowsLastFrame ScreenShowsFrame
