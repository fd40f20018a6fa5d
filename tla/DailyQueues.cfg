CONSTANTS
    p = p  a = a  b = b  x = x  f = f
    c1 = c1  c2 = c2  c3 = c3  c4 = c4  o1 = o1  o2 = o2
    Cards = {c1, c2, c3, c4}
    NoteOf <- Notes
    NameOrder <- InOrder
    DeckSets <- SomeDecks
    Name <- Names
    FilteredDecks = {f}
    Rows <- SomeRows
    Configs <- SomeConfigs
    Options <- SomeOptions
    DefaultLimit = 9999
    Idle = Idle
    Pool = {c1, c2, c3, c4, o1, o2}
    Topics = {0, 1, 2}
    Untagged = 0
    Before <- KeyBefore
    TopicOf <- TopicsOfNotes
    ByDue <- InDueOrder
    Weightings <- SomeWeights
    DefaultWeight = 2
    Weaknesses <- SomeWeaknesses
    Scale = 2
    Huge = 1000
    Window = 3
    FetchLimits = {0, 1, 2}
SPECIFICATION ExamSpec
CONSTRAINT SomeOrdered
INVARIANTS
    WithinLimits
    RightlyGathered
    CountsMatchDeckList
    MixedEvenly
    ServedInProportion
    MostUrgentShown
CHECK_DEADLOCK FALSE
