CONSTANTS
    r = r  n = n  p = p  q = q
    Cards = {r, n, p, q}
    NoCard = NoCard
    NoteOf <- Notes
    FirstQueue <- InEachQueue
    Previewed = {p}
    Bury <- BuryNew
    Ahead = 4
    Steps = {1, 5}
    Tomorrow = 7
    MaxTime = 2
    MaxOps = 4
SPECIFICATION Spec
INVARIANTS TypeOK CountsAgree QueueMatchesCards UndoGivesBack CardIsAtTop
PROPERTIES NeverShownAgain
CHECK_DEADLOCK FALSE
