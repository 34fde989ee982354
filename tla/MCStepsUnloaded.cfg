SPECIFICATION Spec
CONSTANTS
    Found <- OneOrTwo
    MaxDepth = 2
    MaxEffects <- ThreeSteps
    MaxNew = 1
    MaxOwners = 2
INVARIANT PointersAvailable
