\* A ring of two frames that wraps around, two subscribers that come and go.
CONSTANTS
  Subscribers = {v1, v2}
  Frames = {key, delta}
  Keyframes = {key}
  NoFrame = none
  Capacity = 2
  MaxPublished = 4
  MaxJoins = 2
SPECIFICATION FairSpec
CHECK_DEADLOCK FALSE
INVARIANTS
  TypeOK
  RingIsSuffixOfLog
  NoLostWakeup
PROPERTIES
  ImplementsLiveFeed
  CatchesUp
