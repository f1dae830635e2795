SPECIFICATION Spec
CONSTANTS
    ClientId <- TwoClients
    Column = {a, b}
    Card = {x}
    InitCards = {}
    InitColumn <- TogetherAtStart
    MaxLamport = 2
    MaxInserts = 3
    MaxCloses = 1
INVARIANTS
    TypeOK
    OneEntry
    ListsConverge
    NoCardLost
CHECK_DEADLOCK FALSE
