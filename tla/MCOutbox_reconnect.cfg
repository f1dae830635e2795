SPECIFICATION Spec
CONSTANTS
    Tab <- TwoTabs
    MaxRows = 1
    MaxSends = 2
    Untracked = {}
    Scenarios <- OneReconnect
INVARIANTS
    OrderKept
CHECK_DEADLOCK FALSE
