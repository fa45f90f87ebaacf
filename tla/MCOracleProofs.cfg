SPECIFICATION OracleSpec
CONSTANTS
    Size = 8
    WordBits = 4
    ByteBits = 2
    MinParticipants = 2
    SlotsPerHistoricalRoot = 4
    HistoricalRootsLimit = 4
    LastSlot = 11
    Headers <- MCHeaders
    Committees <- MCCommittees
    Signers <- MCSigners
    Mixes <- MCMixes
    Shapes <- MCShapes
    Lists <- MCLists
INVARIANTS
    HonestProofsAccepted
    SignersAreMembers
    AcceptedIsTrue
PROPERTIES
    ImplementsHashQueue
