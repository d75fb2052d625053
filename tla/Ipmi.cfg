SPECIFICATION FairSpec
CONSTANTS
    a = a
    b = b
    c = c
    Caller <- ThreeCallers
    World <- Worlds
INVARIANTS
    TypeOK
    WaitersAnswered
    LoneWriteHolds
    DetectedIsDriven
PROPERTY
    EveryCallReturns
