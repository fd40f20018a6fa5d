CONSTANTS
    r = r  n = n  p = p  q = q
    Cards = {r, n, p, q}
    NoCard = NoCard
    NoteOf <- Notes
    FirstQueue <- ReviewAndNew
    Previewed = {}
    Bury <- BuryReviews
    Ahead = 4
    Steps = {1, 5}
    Tomorrow = 7
    MaxTime = 3
    MaxOps = 3
SPECIFICATION Spec
INVARIANT NoStaleEntry
CHECK_DEADLOCK FALSE
