SPECIFICATION FairSpec
CONSTANTS
    t1 = t1
    t2 = t2
    Targets = {t1, t2}
    Weight <- FirstWeighted
    Conditions <- FirstFails
    Checks <- FirstChecked
    Edits <- KeptOrEnded
    MaxEntries = 1
    Sticky = TRUE
    DisableAutoFallback = FALSE
    None = none
INVARIANTS
    TypeOK
    EveryTargetListed
PROPERTIES
    DeadUpstreamIsLeft
    FailureIsWatched
    LiveUpstreamServes
