\* Two subscribers, every format in mono and stereo, one restart.
CONSTANTS
  Stray = stray
  Subscribers = {a1, a2}
  Setups <- EverySetup
  DeviceFrames <- Lengths
  AacInput = 5
  AacOutput = 8
  OpusTarget = 2
  CapFrames = 3
  SampleRate = 7
  Second = 10
  VideoTimes = {0, 20}
  MaxCaptured = 25
  MaxJoins = 3
  MaxRestarts = 1
SYMMETRY SubscriberSymmetry
SPECIFICATION Spec
CHECK_DEADLOCK FALSE
INVARIANTS
  BacklogBelowOneFrame
  SamplesInOrder
  PaceOfMono
PROPERTIES
  NeverBackInTime
