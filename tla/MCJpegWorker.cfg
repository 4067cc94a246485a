\* One channel that sleeps when nobody asks; two clients, a restart, and a
\* change of the idle rate or a spurious wakeup.
CONSTANTS
  LastChannel = 0
  Clients = {k1, k2}
  SourceActive = {0}
  MaxRestarts = 1
  MaxSurprises = 1
  MaxTokens = 1
SPECIFICATION JpegFairSpec
CHECK_DEADLOCK FALSE
INVARIANTS
  FileIsWhole
PROPERTIES
  StopCompletes
  PictureIsTaken
