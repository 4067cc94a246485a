\* Two channels, and a client that asks for pictures of both.
CONSTANTS
  LastChannel = 1
  Clients = {k1}
  SourceActive = {0, 1}
  MaxRestarts = 0
  MaxSurprises = 0
  MaxTokens = 1
SPECIFICATION JpegSpec
CHECK_DEADLOCK FALSE
INVARIANTS
  FileIsWhole
