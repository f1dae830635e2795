SPECIFICATION FairSpec
CONSTANTS
    ClientId <- TwoClients
    Card = {c1}
    Other = {}
    Seeded = {c1}
    Field = {title}
    MaxQueue = 3
    Scenarios <- OneCrash
PROPERTIES
    NoOldEditResurrects
