SPECIFICATION FairSpec
CONSTANTS
    None = None
    Updates <- ThreeUpdates
    Waits <- ThreeWaits
    AtOnce = 1
    InTurn = FALSE
INVARIANTS RunsAlone NoneOvertakes NoLockLeaked NoWaitWhileClosed
PROPERTIES EveryoneIsLetIn WaitComesBack
CHECK_DEADLOCK FALSE
