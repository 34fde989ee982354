SPECIFICATION Spec
CONSTANTS
    Kind <- AssignKind
    Text <- AssignText
    Kids <- AssignKids
    FieldOrder <- Fields
    ListFields = {"args"}
    Defs <- SomeDefs
    MainVars = 3
    Patterns <- AllLists
INVARIANT AsMeant
CHECK_DEADLOCK FALSE
