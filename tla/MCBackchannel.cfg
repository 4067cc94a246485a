\* Two sessions, a queue that overflows or does not, one restart of the worker.
CONSTANTS
  Sessions = {s1, s2}
  NoSession = nobody
  QueueSize = 3
  MaxFrames = 3
  MaxRestarts = 1
SPECIFICATION FairSpec
CHECK_DEADLOCK FALSE
INVARIANTS
  TypeOK
  PipeFollowsSession
  StopIsOnItsWay
  SleepIsExplained
PROPERTIES
  SendersAreServed
