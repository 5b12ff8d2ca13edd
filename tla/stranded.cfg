SPECIFICATION FairSpec
CONSTANTS
    MaxPts = 3
    Numbered = {3}
    MaxEarly = 1
    MaxRuns = 1
    MaxWrites = 0
    None = None
PROPERTIES EarlyIsHandedOut
\* A run may end, and the last of them does not start again.
CHECK_DEADLOCK FALSE
