SPECIFICATION Spec
CONSTANTS
  Common = Common
  None = None
  c1 = c1  f1 = f1  f2 = f2  a1 = a1  a2 = a2
  Channels = {c1}
  Log <- LogChannel
  MaxPts = 5
  Count <- CountOf
  Start <- StartUnfollowed
  Own = {}
  Feeds = {f1}
  Attempts = {a1}
  MaxBatch = 1
  Containers <- Single
  MaxPages = 3
  Stalling = FALSE
  MaxWatchers = 2
  Causes = {}
  Watchable = {c1}
  Leavable = {c1}
SYMMETRY Interchangeable
INVARIANTS TypeOK FollowedIsAsked
CHECK_DEADLOCK FALSE
