SPECIFICATION Spec
CONSTANTS
    Calls = {c1, c2, c3, c4}
    limit <- MCLimitOfTwo
INVARIANTS
    TypeOK
    SlotsExact
    RefusedOnlyWhenSpent
PROPERTIES
    EveryCallReturns
    ImplementsBudget
