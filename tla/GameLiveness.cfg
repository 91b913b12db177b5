CONSTANTS
  kFOVRadius = 1
  kVisionRadius = 3
  kTurnTimer = 120
  kPokemon = 1
  MaxInputs = 2
  hero = hero
  p1 = p1
  p2 = p2
  NoEntity = NoEntity
  NoAction = NoAction
  player <- hero
  Entity <- One
  Size <- BoardSize
  Charge <- Charges
  Key <- Keys
  Dir <- KeySteps
  Worlds <- TreeWorld
  View <- LayeredView
SPECIFICATION FairGameSpec
PROPERTIES ObeysCommands TickEnds NoPokemonStarves
