SPECIFICATION Spec
CONSTANTS
    MaxPts = 3
    Numbered = {3}
    MaxEarly = 1
    MaxRuns = 2
    MaxWrites = 3
    None = None
INVARIANTS StoredIsSafe Kept AsksForAReason
\* A run may end, and the last of them does not start again.
CHECK_DEADLOCK FALSE
