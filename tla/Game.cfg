CONSTANTS
  kFOVRadius = 1
  kVisionRadius = 3
  kTurnTimer = 120
  kPokemon = 2
  MaxInputs = 1
  hero = hero
  p1 = p1
  p2 = p2
  NoEntity = NoEntity
  NoAction = NoAction
  player <- hero
  Entity <- Two
  Size <- BoardSize
  Charge <- Charges
  Key <- Keys
  Dir <- KeySteps
  Worlds <- SmallWorlds
  View <- LayeredView
SPECIFICATION GameSpec
INVARIANTS GameTypeOK TickEndsWithPlayer TimersBounded EntitiesStandFree SpeedBoundsTurns FrameIsCurrent
