SPECIFICATION FairSpec
CONSTANTS
    First = 1
    Last = 7
    Chains <- MCChains
    Targets <- MCTargets
    MayFail = TRUE
INVARIANTS
    ResultIsFirst
    NeverTooEarly
PROPERTY EndsUnlessAfterEvenGap
CHECK_DEADLOCK FALSE
