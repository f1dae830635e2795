SPECIFICATION FairSpec
CONSTANTS
    Tab <- TwoTabs
    MaxRows = 1
    MaxSends = 2
    Untracked = {1}
    Scenarios <- Several
INVARIANTS
    TypeOK
    OneSender
    OrderKeptOtherwise
PROPERTIES
    NothingLost
    StoreDrains
CHECK_DEADLOCK FALSE
