SPECIFICATION FairSpec
CONSTANTS
    Outbox = 5
    Bad = {1, 3, 4}
    Burst = 3
    MaxBacklog = 2
    MaxViolations = 2
    MaxRejected = 2
    MaxDrops = 2
INVARIANTS
    TypeOK
    NothingStranded
    HandledInOrder
    ToldBeforeClosed
    ForgivenOnce
PROPERTIES
    ProgressPerConnection
    OutboxDrains
CHECK_DEADLOCK FALSE
