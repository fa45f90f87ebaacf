SPECIFICATION FairSpec
CONSTANTS
    Chains <- MCChains
    Other <- MCOther
    HomeChain = "home"
    Tokens = {"gold"}
    Home <- MCHome
    NoToken = "0x0"
    Values = {1, 2}
    Fees = {1}
    MayRevert <- TransferKinds
    StrangerCalls <- MCStrangerCalls
    MaxMessages = 5
    MaxRelays <- MCMaxRelays
    MaxStrangers <- MCMaxStrangers
    MaxFixRequests <- MCMaxFixRequests
    MaxFixesOfFixes = 1
    MaxForced = 1
INVARIANTS
    TypeOK
    LockedCoversBridged
    LockedIsHeld
    AcknowledgedIsDeployed
PROPERTIES
    ImplementsTokenTransfer
    TransferCompletes
CHECK_DEADLOCK FALSE
