\* Two sessions, one of them with sound, that play, pause and leave.
CONSTANTS
  Sessions = {s1, s2}
  listener = s1
  Tracks <- SomeTracks
  Capacity <- Small
  MaxPublished <- Short
  MaxPlays = 2
SPECIFICATION FairSpec
CHECK_DEADLOCK FALSE
INVARIANTS
  AwaitingIsWoken
PROPERTIES
  StartsOnFreshKeyframe
  AudioFollowsVideo
  AudioIsDelivered
