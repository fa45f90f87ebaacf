SPECIFICATION FairSpec
CONSTANTS
    First = 1
    Last = 8
    Chains <- MCFullChains
    Targets <- MCTargets
    MayFail = FALSE
PROPERTY SearchEnds
CHECK_DEADLOCK FALSE
