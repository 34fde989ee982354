SPECIFICATION Spec
CONSTANTS
    Procs = {p1}
    Files = {f1, f2}
    f1 = f1
    f2 = f2
    q1 = q1
    q2 = q2
    Patterns = {q1, q2}
    Mismatches <- OnePatternEach
    FirstIsVersion = {f2}
    Commands = {"check"}
    Starts = {"missing"}
    Capacity <- TwoKeys
    MayRefresh = FALSE
    MayCrash = FALSE
    MaxTears = 0
    MaxPuts = 2
    MaxOpens = 2
INVARIANTS
    MarkedIsFound
