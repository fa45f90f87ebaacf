SPECIFICATION FairHistorySpec
CONSTANTS
    MaxSlot = 7
    SecondsPerSlot = 2
    CommitteeSize = 4
    MinParticipants = 2
    UpdateTimeout = 3
    MaxTime = 22
    Headers <- MCHeaders
    NoHeader <- MCNoHeader
    StartHeader <- MCStartHeader
    Committee <- MCCommittee
    Committees <- MCCommittees
    FinalizedCheckpoint <- MCFinalizedCheckpoint
    Aggregates <- MCAggregates
    SlotsPerPeriod <- MCSlotsPerPeriod
    Canonical <- MCCanonical
    Honest <- MCHonest
    HonestCommittee <- MCHonestCommittee
INVARIANTS
    HeadersUpToHead
    NothingFromFuture
PROPERTIES
    OnlyForcedUpdateSkips
    ImplementsHeaderStore
    StepInstallsFinalOnly
    ForcedUpdateHasStood
    ForcedUpdateIsBest
    CandidateResolved
    CatchesUp
