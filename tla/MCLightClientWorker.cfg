SPECIFICATION FairWorkerSpec
CONSTANTS
    MaxSlot = 8
    Headers <- MCHeaders
    NoHeader <- MCNoHeader
    StartHeader <- MCStartHeader
    Committee <- MCCommittee
    Committees <- MCCommittees
    FinalizedCheckpoint <- MCFinalizedCheckpoint
    Aggregates <- MCAggregates
    SlotsPerPeriod = 9
    SecondsPerSlot = 1
    CommitteeSize = 4
    MinParticipants = 2
    UpdateTimeout = 1
    MaxTime = 18
    Blocks <- MCHeaders
    Signers <- MCSigners
    NoUpdate <- MCNoUpdate
    OtherUpdates <- MCOtherUpdates
    ClockLead = 1
    MayRestart = TRUE
INVARIANTS
    BeliefNotAhead
    UpdateIsAcceptable
PROPERTY WorkerCatchesUp
