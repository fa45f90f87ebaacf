SPECIFICATION Spec
CONSTANTS
    Token = gold
    Default = default
    User = user
    RewardAccounts = {first, second}
    Tokens <- MCTokens
    Decimals <- MCDecimals
    FullDecimals <- MCFullDecimals
    InitialLimits <- MCInitialLimits
    LimitValues <- MCLimitValues
    FeeRates <- MCFeeRates
    InitialRates <- MCInitialRates
    InitialRewards <- MCInitialRewards
    MaxFee <- MCMaxFee
    MaxRewardAccounts <- MCMaxRewardAccounts
    Values <- MCValues
    MinCashes <- MCMinCashes
    FixCashes = {0}
    MaxOwed = 2
    MaxBalance = 2
    MaxPerDay = 3
    MaxSettings = 2
SYMMETRY Symmetry
INVARIANTS
    BooksBalance
    RelayCountsArrivals
    FeesArePaidOut
    LockedIsPayable
    LimitsOrdered
    NewTokensGetLimits
CHECK_DEADLOCK FALSE
