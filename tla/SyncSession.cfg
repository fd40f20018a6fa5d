CONSTANTS
    a = a
    b = b
    card = card
    card2 = card2
    deck = deck
    log = log
    Clients = {a, b}
    Cards = {card}
    Notes = {}
    Revlog = {log}
    Decks = {deck}
    ChunkSize = 1
    MaxEdits = 3
    MaxClock = 2
    MaxSyncs = 2
    MaxFaults = 1
    Known = {card, deck}
    Reimportable = {}
    Stamp <- SkewedClocks
SPECIFICATION SerialSpec
SYMMETRY Symmetry
INVARIANTS TypeOK SanityAgrees
PROPERTIES ChunkedAgree AtomicSpec
CHECK_DEADLOCK FALSE
