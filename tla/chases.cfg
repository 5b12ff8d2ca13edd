SPECIFICATION Spec
CONSTANTS
  Common = Common
  None = None
  c1 = c1  f1 = f1  f2 = f2  a1 = a1  a2 = a2
  Channels = {c1}
  Log <- LogShort
  MaxPts = 5
  Count <- CountOf
  Start <- StartAtOrigin
  Own <- OwnShort
  Feeds = {f1}
  Attempts = {a1, a2}
  MaxBatch = 1
  Containers <- Single
  MaxPages = 1
  Stalling = FALSE
  MaxWatchers = 0
  Causes = {"overflow", "new-session"}
  Watchable = {}
  Leavable = {}
SYMMETRY Interchangeable
INVARIANTS NothingSteppedOver
PROPERTIES KeepsThePromise
CHECK_DEADLOCK FALSE
