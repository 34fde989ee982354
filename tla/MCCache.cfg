SPECIFICATION Spec
CONSTANTS
    Procs = {p1, p2}
    Files = {f1, f2}
    f1 = f1
    f2 = f2
    q1 = q1
    q2 = q2
    Patterns = {q1, q2}
    Mismatches <- OnePatternEach
    FirstIsVersion = {f2}
    Commands = {"check", "apply"}
    Starts = {"missing", "old", "versioned"}
    Capacity <- OneKeyAndABit
    MayRefresh = TRUE
    MayCrash = TRUE
    MaxTears = 2
    MaxPuts = 3
    MaxOpens = 3
INVARIANTS
    TypeOK
    HitsWerePut
    WholeKeys
    CloseKeepsAll
    RefreshForgets
PROPERTIES
    CloseReturns
