SPECIFICATION Spec
CONSTANTS
    ClientId <- OneClient
    Column = {a, b}
    Card = {x}
    InitCards = {x}
    InitColumn <- TogetherAtStart
    MaxLamport = 2
    MaxInserts = 2
    MaxCloses = 1
PROPERTIES
    AckedIsApplied
CHECK_DEADLOCK FALSE
