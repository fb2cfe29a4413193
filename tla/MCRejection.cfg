SPECIFICATION Spec
CONSTANTS
    starter = starter
    c1 = c1
    c2 = c2
    NumSteps = 6
    Kind <- MCKind
    Gated <- MCGated
    Conditional = {2}
    Needs <- MCNeeds
    UsesItem = {}
    OnSuccess <- MCOnSuccess
    OnFailure <- MCOnFailure
    StepLimit = 6
    Starter = starter
    Calls = {c1, c2}
    MaxFaults = 0
    MayCrash = FALSE
INVARIANT RejectionIsNotMalformed
