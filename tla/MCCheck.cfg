SPECIFICATION Spec
CONSTANTS
    Files <- TwoFiles
    Patterns = {"p", "q"}
    Texts = {"a", "b", "c"}
    Suites <- Chosen
    MaxRuns = 2
    MaxEdits = 1
INVARIANTS
    TypeOK
    NothingHidden
    FixedInTurn
