\* One stream in H265, which needs all three sets, and up to two restarts of
\* the server, of the worker or of both.
CONSTANTS
  LastStream = 0
  H265 = {0}
  MaxRestarts = 2
SPECIFICATION BootFairSpec
INVARIANTS
  SetsOfOneRun
  AskedWhileWaiting
PROPERTIES
  ServerComesUp
  ViewersSeeKeyframe
