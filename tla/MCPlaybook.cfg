SPECIFICATION FairSpec
CONSTANTS
    starter = starter
    c1 = c1
    c2 = c2
    NumSteps = 6
    Kind <- MCKind
    Gated <- MCGated
    Conditional = {2}
    Needs <- MCNeeds
    UsesItem = {5}
    OnSuccess <- MCOnSuccess
    OnFailure <- MCOnFailure
    StepLimit = 6
    Starter = starter
    Calls = {c1, c2}
    MaxFaults = 2
    MayCrash = TRUE
INVARIANTS TypeOK WaitingIsResumable GatedRunsAudited ActiveIsAlive
PROPERTY EveryRunEnds
