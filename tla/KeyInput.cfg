CONSTANTS
  Key <- Keys
  Bytes <- KeyBytes
  MaxBytes = 7
SPECIFICATION FairSpec
INVARIANTS TypeOK NeverBlocks PollDecodesKeys PollsDrain
PROPERTY PollReturns
