SPECIFICATION FairSpec
CONSTANTS
    a = a
    b = b
    x = x
    t = t
    ClientId <- TwoClients
    Column = {a, b}
    Card <- Cards
    Server = {"s", "u"}
    Script <- OneScript
    Title = {t}
    TitleColumn <- AllInA
    Scenarios <- Several
INVARIANTS
    TypeOK
    OneBoard
    OneEntryServed
    AckedIsStored
PROPERTIES
    DocsOnlyGrow
    EndsListed
CHECK_DEADLOCK FALSE
