CONSTANTS
    a = a
    b = b
    card = card
    deck = deck
    Clients = {a, b}
    Cards = {card}
    Notes = {}
    Revlog = {}
    Decks = {deck}
    Known = {deck}
    MaxEdits = 3
    MaxClock = 4
    Stamp <- SyncedClocks
SPECIFICATION Spec
SYMMETRY Symmetry
CONSTRAINT OneUpload
INVARIANTS
    NoMissedUpdate
    NoChangesMeansInSync
    LaterEditSurvives
    IInv
CHECK_DEADLOCK FALSE
