SPECIFICATION FairSpec
CONSTANTS
    ClientId <- TwoClients
    Card = {c1}
    Other = {}
    Seeded = {}
    Field = {title}
    MaxQueue = 4
    Scenarios <- Several
INVARIANTS
    TypeOK
    WritesInClockOrder
    DrainedMeansEqual
    AckedIsDurable
    AckedIsServed
PROPERTIES
    DbClocksOnlyAdvance
    OldEditsStayLost
    QueuedAcksArrive
    KeepsPromise
