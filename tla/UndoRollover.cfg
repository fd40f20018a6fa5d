CONSTANTS
    n1 = n1
    n2 = n2
    Notes = {n1}
    Card = Card
    Deck = Deck
    UNDO_LIMIT = 2
    MaxClock = 4
    MaxMinutes = 0
    MaxDay = 2
    MaxSyncs = 0
SPECIFICATION Spec
INVARIANT NoPanic
CHECK_DEADLOCK FALSE
