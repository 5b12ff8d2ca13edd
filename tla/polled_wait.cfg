SPECIFICATION FairSpec
CONSTANTS
    None = None
    Updates <- ThreeUpdates
    Waits <- ThreeWaits
    AtOnce = 1
    InTurn = TRUE
PROPERTIES EveryoneIsLetIn
CHECK_DEADLOCK FALSE
