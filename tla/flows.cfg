SPECIFICATION FairSpec
CONSTANTS
    None = None
    u1 = u1  u2 = u2  u3 = u3
    Updates = {u1, u2, u3}
    Histories <- Short
    Program <- Code
    Return = "return"
    Effects = {"order", "apologise"}
    Repeatable = {"apologise"}
    Timed = {"size", "address", "contact"}
    MaxRuns = 2
    MaxStops = 2
    MaxFails = 2
INVARIANTS AtMostOnce NeverDiverges AnswersOnce
PROPERTIES JournalGrows DeadlineIsKept
CHECK_DEADLOCK FALSE
