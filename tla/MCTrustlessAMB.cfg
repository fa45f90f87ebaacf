SPECIFICATION Spec
CONSTANTS
    Chains <- MCChains
    Other <- MCOther
    MaxMessages <- MCMaxMessages
    MaxSlot <- MCMaxSlot
    Senders = {"app"}
    Receivers = {"mediator"}
    GasLimits = {1, 2}
    Payloads = {"x", "y"}
    MaxGasPerTx = 1
    TxIndexes = {0}
    SlotsPerHistoricalRoot = 2
    MaxCallDepth = 2
    Zero = Zero
    Empty = Empty
INVARIANTS
    DeliveredOnce
    OnlySentExecuted
    ContextIsCurrent
    CachedRootsVerified
    SentMessagesStay
PROPERTIES
    ImplementsMessageChannel
CHECK_DEADLOCK FALSE
