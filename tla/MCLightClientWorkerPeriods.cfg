SPECIFICATION WorkerSpec
CONSTANTS
    MaxSlot = 8
    Headers <- MCHeaders
    NoHeader <- MCNoHeader
    StartHeader <- MCStartHeader
    Committee <- MCCommittee
    Committees <- MCCommittees
    FinalizedCheckpoint <- MCFinalizedFromGenesis
    Aggregates <- MCAggregates
    SlotsPerPeriod = 8
    SecondsPerSlot = 1
    CommitteeSize = 4
    MinParticipants = 2
    UpdateTimeout = 1
    MaxTime = 17
    Blocks <- MCHeaders
    Signers <- MCSigners
    NoUpdate <- MCNoUpdate
    OtherUpdates = {}
    ClockLead = 1
    MayRestart = FALSE
INVARIANT KeepsRunning
