SPECIFICATION Spec
CONSTANTS
    x = x
    ClientId <- TwoClients
    Card = {x}
    Field = {title}
    Scenarios <- Several
    MaxLamport = 2
    MaxCloses = 2
INVARIANTS
    TypeOK
    Converged
    ClockAhead
    QueuedEditsShown
PROPERTIES
    NothingQueuedIsLost
CHECK_DEADLOCK FALSE
