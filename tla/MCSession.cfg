SPECIFICATION FairSpec
CONSTANTS
    Contents = {c1, c2}
    None = None
    MaxGeneration = 4
INVARIANTS
    TypeOK
    NoLostWakeup
    OfferedWhenFree
    TransferUsesOneTest
    StartIsBacked
    WindowOutlivesWorker
PROPERTIES
    TestEnds
    AbortEnds
    CloseEnds
CHECK_DEADLOCK FALSE
