SPECIFICATION Spec
CONSTANTS
    Kind <- AssignKind
    Text <- AssignText
    Kids <- AssignKids
    FieldOrder <- Fields
    ListFields = {"args"}
    Defs <- SomeDefs
    MainVars = 3
    Patterns <- ThreeLevels
INVARIANTS
    TypeOK
    AsMeant
    OneText
CHECK_DEADLOCK FALSE
