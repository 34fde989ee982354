SPECIFICATION Spec
CONSTANTS
    Tasks <- TwoFiles
    Paths = {"a.js", "b.js"}
    PathOf <- PathsOfTwo
    Outcomes = {"error", "parse_errors", "clean", "logs", "match", "rewrite", "create"}
    Modes = {FALSE, TRUE}
    Answers = {"y", "n", "s", "a", "q", "word"}
    Pool = 3
    IoMayFail = TRUE
    MaxRuns = 2
INVARIANTS
    TypeOK
    CountsAddUp
    ReportComplete
    TotalMeansHandled
PROPERTIES
    QuitIsFinal
    ApplyEnds
