\* Two viewers that come and go, worker restarts, lost and withheld units.
CONSTANTS
  Viewers = {v1, v2}
  Expected = 2
  Steps <- AllSteps
  QueueSize = 2
  MaxFrames = 4
  MaxResets = 2
SYMMETRY ViewerSymmetry
SPECIFICATION Spec
CHECK_DEADLOCK FALSE
PROPERTIES
  NeverBackwards
  FirstLandsAtDuration
  NeverLeaps
