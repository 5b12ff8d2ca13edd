SPECIFICATION Spec
CONSTANTS
  Common = Common
  None = None
  c1 = c1  f1 = f1  f2 = f2  a1 = a1  a2 = a2
  Channels = {c1}
  Log <- LogLong
  MaxPts = 5
  Count <- CountOf
  Start <- StartAtOrigin
  Own = {}
  Feeds = {f1}
  Attempts = {a1, a2}
  MaxBatch = 2
  Containers <- Single
  MaxPages = 2
  Stalling = TRUE
  MaxWatchers = 0
  Causes = {}
  Watchable = {}
  Leavable = {}
SYMMETRY Interchangeable
INVARIANTS NothingSteppedOver OneChase
PROPERTIES NoHoleBehind NeverBack
CHECK_DEADLOCK FALSE
