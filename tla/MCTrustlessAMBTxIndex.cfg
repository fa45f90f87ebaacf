SPECIFICATION Spec
CONSTANTS
    Chains <- MCChains
    Other <- MCOther
    MaxMessages <- MCMaxMessagesOneWay
    MaxSlot <- MCMaxSlotOneWay
    Senders = {"app"}
    Receivers = {"mediator"}
    GasLimits = {1, 2}
    Payloads = {"x"}
    MaxGasPerTx = 1
    TxIndexes = {0, 1}
    SlotsPerHistoricalRoot = 2
    MaxCallDepth = 2
    Zero = Zero
    Empty = Empty
INVARIANTS
    LogExecutorCanProve
CHECK_DEADLOCK FALSE
