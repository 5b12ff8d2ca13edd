SPECIFICATION FairSpec
CONSTANTS
  Common = Common
  None = None
  c1 = c1  f1 = f1  f2 = f2  a1 = a1  a2 = a2
  Channels = {c1}
  Log <- LogChannel
  MaxPts = 5
  Count <- CountOf
  Start <- StartAtOrigin
  Own = {}
  Feeds = {f1, f2}
  Attempts = {a1}
  MaxBatch = 2
  Containers <- Numbered
  MaxPages = 1
  Stalling = FALSE
  MaxWatchers = 0
  Causes = {}
  Watchable = {}
  Leavable = {}
INVARIANTS NothingSteppedOver
PROPERTIES NeverBack HeldIsResolved
CHECK_DEADLOCK FALSE
