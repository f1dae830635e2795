SPECIFICATION Spec
CONSTANTS
    ClientId <- TwoClients
    Card = {x}
    Text = {old, new}
    InitTitle = old
    MaxSockets = 2
    MaxMoves = 1
    Scenarios <- Several
INVARIANTS
    TypeOK
    NoGhosts
    BadgesTrue
    EveryoneSeen
CHECK_DEADLOCK FALSE
