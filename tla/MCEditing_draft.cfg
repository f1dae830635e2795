SPECIFICATION Spec
CONSTANTS
    ClientId <- TwoClients
    Card = {x}
    Text = {old, new}
    InitTitle = old
    MaxSockets = 2
    MaxMoves = 1
    Scenarios <- TwoEditors
PROPERTIES
    UntouchedDraft
CHECK_DEADLOCK FALSE
