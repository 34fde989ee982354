SPECIFICATION Spec
CONSTANTS
    Kind <- AssignKind
    Text <- AssignText
    Kids <- AssignKids
    FieldOrder <- Fields
    ListFields = {"args"}
    Defs <- SomeDefs
    MainVars = 3
    Patterns <- PredicateCalls
INVARIANT OneText
CHECK_DEADLOCK FALSE
