SPECIFICATION Spec
CONSTANTS
    ClientId <- TwoClients
    Column = {a, b}
    Card = {x}
    InitCards = {x}
    InitColumn <- TogetherAtStart
    MaxLamport = 2
    MaxInserts = 3
    MaxCloses = 0
INVARIANTS
    ListedAtHome
CHECK_DEADLOCK FALSE
