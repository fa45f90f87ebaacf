SPECIFICATION FairExecutorsSpec
CONSTANTS
    Chains <- MCChains
    Other <- MCOther
    MaxMessages <- MCMaxMessages
    MaxSlot <- MCMaxSlot
    Senders = {"app"}
    Receivers = {"mediator"}
    GasLimits = {1}
    Payloads = {"x"}
    MaxGasPerTx = 1
    TxIndexes = {200}
    SlotsPerHistoricalRoot = 2
    MaxCallDepth = 1
    Zero = Zero
    Empty = Empty
    Executors <- MCExecutors
    MaxFailures = 1
    None = None
INVARIANTS
    LogsStayProvable
    SentCallsHold
PROPERTY SentIsExecuted
CHECK_DEADLOCK FALSE
