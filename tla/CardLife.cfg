CONSTANTS
    c1 = c1
    c2 = c2
    d1 = d1
    d2 = d2
    f = f
    Cards = {c1, c2}
    Decks = {d1, d2}
    Home = d1
    FilteredDecks = {f}
    LearnSteps <- TwoDecksLearn
    RelearnSteps <- TwoDecksRelearn
    BuryQueues = {"New", "DayLearn"}
    Positions = {1}
    FirstDay = 1
    LastDay = 2
    Intervals = {1}
    DueDays = {0}
    ByUser = {"Suspended", "UserBuried"}
    ShortTerm = TRUE
    Finishing = {"Good", "Easy"}
    MaxPosition = 2
    MaxOvernight = 1
SPECIFICATION HomeShiftsSpec
SYMMETRY Symmetry
INVARIANTS HasAHome ColumnsAgree PositionKept StepsInRange
PROPERTY ReturnedAsStarted
CHECK_DEADLOCK FALSE
