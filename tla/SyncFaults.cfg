CONSTANTS
    a = a
    b = b
    card = card
    card2 = card2
    deck = deck
    log = log
    Clients = {a, b}
    Cards = {card}
    Notes = {}
    Revlog = {}
    Decks = {}
    ChunkSize = 1
    MaxEdits = 2
    MaxClock = 2
    MaxSyncs = 2
    MaxFaults = 1
    Known = {}
    Reimportable = {card}
    Stamp <- SyncedClocks
SPECIFICATION FairSpec
INVARIANT ClosedNeverReopened

PROPERTIES PendingUntilStored SyncEnds
CHECK_DEADLOCK FALSE
