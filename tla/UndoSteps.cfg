CONSTANTS
    n1 = n1
    n2 = n2
    Notes = {n1}
    Card = Card
    Deck = Deck
    UNDO_LIMIT = 2
    MaxClock = 6
    MaxMinutes = 1
    MaxDay = 2
    MaxSyncs = 1
SPECIFICATION Spec
CONSTRAINT OnePause
INVARIANTS
    TypeOK
    UndoRestores
    RedoRestores
    CountersIdentifySteps
    NoEditUnreported
CHECK_DEADLOCK FALSE
