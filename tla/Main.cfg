CONSTANTS
  kFPS = 3
  kNanosPerSecond = 30
  Word = 65536
  Born = 5
  Late <- Delays
  Work <- Ticks
  MaxFrames = 6
SPECIFICATION FairSpec
INVARIANTS UsedMatchesRing LoadIsAtMostFull GivesTheTtyBack StopsPromptly
PROPERTIES FramesSpaced InterruptEnds
