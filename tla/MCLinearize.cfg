SPECIFICATION Spec
CONSTANTS
    source <- FiveTokens
    left = 1
    right = 4
    Inputs <- MixedLists
INVARIANTS
    TypeOK
    OnlyCrossingRejected
    
    EditsDisjoint
    OutermostChosen
    RangesShowEdits
    ResultAsIntended
