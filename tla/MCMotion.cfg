\* Two regions, of which it takes three in a row; times that differ from each
\* other; the thread is started twice, and may be off in the end.
CONSTANTS
  Regions = 2
  debounce_time = 3
  min_time = 1
  post_time = 2
  cooldown_time = 2
  init_time = 1
  MaxStarts = 2
  MaxHeld = 2
SPECIFICATION FairSpec
CHECK_DEADLOCK FALSE
INVARIANTS
  ScriptFollowsMotion
PROPERTIES
  MotionEnds
