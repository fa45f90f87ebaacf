-------------------------- MODULE BeaconStateTree --------------------------
(***************************************************************************)
(* Proofs against the root of a beacon state: what the oracle builds from  *)
(* states it downloads (oracle/lightclient) and the generalized indices at *)
(* which the contracts look.  A state knows the roots of the last          *)
(* SLOTS_PER_HISTORICAL_ROOT states before it, and one digest for every    *)
(* full batch of as many.  The roots of all states are built with a set of *)
(* opened slots: a state of any other slot is an opaque digest.            *)
(***************************************************************************)
EXTENDS MerkleTree

CONSTANTS
    SlotsPerHistoricalRoot,    \* SLOTS_PER_HISTORICAL_ROOT
    HistoricalRootsLimit,      \* HISTORICAL_ROOTS_LIMIT
    LastSlot,                  \* bound on slots
    Headers                    \* headers: records of a slot and a state root

ASSUME BeaconStateAssumption ==
    /\ SlotsPerHistoricalRoot \in {TwoTo[k] : k \in 0..SlotsPerHistoricalRoot}
    /\ HistoricalRootsLimit \in {TwoTo[k] : k \in 0..HistoricalRootsLimit}
    /\ LastSlot \in 1..(SlotsPerHistoricalRoot * HistoricalRootsLimit)

Slots == 1..LastSlot

(* Places of fields, and how many there are.                                *)
StateRootsField == 6
HistoricalRootsField == 7
FinalizedCheckpointField == 20
CurrentSyncCommitteeField == 22
NextSyncCommitteeField == 23
PayloadHeaderField == 24
StateFields == 25

PayloadStateRootField == 2
PayloadReceiptsRootField == 3
PayloadFields == 14

-----------------------------------------------------------------------------
(* The beacon chain.                                                        *)
ExecutionStateRoot(slot) == DigestOf(StateRootKind, slot)
ReceiptsRoot(slot) == DigestOf(ReceiptsRootKind, slot)

(* makeExecutionPayloadTree.                                                *)
PayloadTree(slot) ==
    NewVectorMerkleTree(
        [f \in 1..PayloadFields |->
            CASE f - 1 = PayloadStateRootField    -> ExecutionStateRoot(slot)
              [] f - 1 = PayloadReceiptsRootField -> ReceiptsRoot(slot)
              [] OTHER                            -> DigestOf(PayloadKind, f)])

(* A state's tree (GetBeaconState), from the digests of some of its fields. *)
StateTree(fields) ==
    NewVectorMerkleTree(
        [f \in 1..StateFields |->
            IF f - 1 \in DOMAIN fields THEN fields[f - 1] ELSE DigestOf(FieldKind, f)])

(* The roots that a state at this slot has of the states before it.         *)
RootsOfStates(slot, roots) ==
    [j \in 1..SlotsPerHistoricalRoot |->
        LET before == {q \in 0..(slot - 1) : q % SlotsPerHistoricalRoot = j - 1}
        IN  IF before = {} THEN ZeroHash[0] ELSE roots[Max(before)]]

BlockRoots(batch) == DigestOf(BatchKind, batch)

(* The digest of a batch is made at the slot after its last one.            *)
BatchEnd(batch) == (batch + 1) * SlotsPerHistoricalRoot
HistoricalRoots(slot, roots) ==
    [b \in 1..(slot \div SlotsPerHistoricalRoot) |->
        HashPair(BlockRoots(b - 1),
                 TreeHash(NewVectorMerkleTree(RootsOfStates(BatchEnd(b - 1), roots))))]

BeaconState(slot, roots) ==
    StateTree(
        [f \in {StateRootsField, HistoricalRootsField, PayloadHeaderField} |->
            CASE f = StateRootsField ->
                    TreeHash(NewVectorMerkleTree(RootsOfStates(slot, roots)))
              [] f = HistoricalRootsField ->
                    TreeHash(NewListMerkleTree(HistoricalRoots(slot, roots), HistoricalRootsLimit))
              [] OTHER -> TreeHash(PayloadTree(slot))])

StateRoots(open) ==
    LET roots[slot \in 0..LastSlot] ==
            IF slot \in open THEN TreeHash(BeaconState(slot, roots))
            ELSE DigestOf(BeaconStateKind, slot)
    IN  roots

-----------------------------------------------------------------------------
(* The oracle's proofs.                                                     *)
MakeExecutionPayloadStateRootProof(slot, roots) ==
    MakeProof(PayloadTree(slot), PayloadStateRootField).path
        \o MakeProof(BeaconState(slot, roots), PayloadHeaderField).path

InWindow(source, target) == target + SlotsPerHistoricalRoot > source

(* From the root of the target's state to that of the source's: within the  *)
(* window of known roots, or through the batch that the target is in.       *)
ProofOfState(source, target, roots) ==
    LET place == target % SlotsPerHistoricalRoot
        batch == target \div SlotsPerHistoricalRoot
        rootsTree(slot) == NewVectorMerkleTree(RootsOfStates(slot, roots))
        field(f) == MakeProof(BeaconState(source, roots), f).path
    IN  IF source = target THEN <<>>
        ELSE IF InWindow(source, target)
        THEN MakeProof(rootsTree(source), place).path \o field(StateRootsField)
        ELSE MakeProof(rootsTree(BatchEnd(batch)), place).path
                \o <<BlockRoots(batch)>>
                \o MakeProof(NewListMerkleTree(HistoricalRoots(source, roots),
                                               HistoricalRootsLimit), batch).path
                \o field(HistoricalRootsField)

MakeExecutionPayloadReceiptsRootProof(source, target, roots) ==
    MakeProof(PayloadTree(target), PayloadReceiptsRootField).path
        \o MakeProof(BeaconState(target, roots), PayloadHeaderField).path
        \o ProofOfState(source, target, roots)

(* The finalized checkpoint is an epoch and the root of a block's header;   *)
(* the branch starts with the epoch, the header's sibling.                  *)
HeaderFields(header) ==
    <<UintToHash(header.slot), DigestOf(HeaderKind, 2), DigestOf(HeaderKind, 3),
      DigestOf(BeaconStateKind, header.stateRoot), DigestOf(HeaderKind, 5)>>

FinalizedState(epoch, header) ==
    StateTree([f \in {FinalizedCheckpointField} |->
                  HashPair(UintToHash(epoch),
                           TreeHash(NewVectorMerkleTree(HeaderFields(header))))])

MakeFinalityBranch(epoch, header) ==
    <<UintToHash(epoch)>>
        \o MakeProof(FinalizedState(epoch, header), FinalizedCheckpointField).path

(* The committees in a state, and the branch to one of them.                *)
CommitteeState(current, next_) ==
    StateTree([f \in {CurrentSyncCommitteeField, NextSyncCommitteeField} |->
                  IF f = CurrentSyncCommitteeField THEN current ELSE next_])

-----------------------------------------------------------------------------
(* The contracts.                                                           *)
(* restoreMerkleRoot, with a proof of the right length.                     *)
restoreMerkleRoot(leaf, genIndex, path) ==
    LET hash[i \in 0..Len(path)] ==
            IF i = 0 THEN leaf
            ELSE IF (genIndex \div TwoTo[i - 1]) % 2 = 0 THEN HashPair(hash[i - 1], path[i])
            ELSE HashPair(path[i], hash[i - 1])
    IN  hash[Len(path)]

Leads(leaf, genIndex, path, root) ==
    IsProofLength(genIndex, path) /\ restoreMerkleRoot(leaf, genIndex, path) = root

FINALIZED_ROOT_INDEX == 105
CURRENT_SYNC_COMMITTEE_INDEX == 54
NEXT_SYNC_COMMITTEE_INDEX == 55

(* _headerRoot: the header's tree by hand, with the digest of two zeros.    *)
headerRoot(header) ==
    LET h == HeaderFields(header)
        zeros == HashPair(UintToHash(0), UintToHash(0))
    IN  HashPair(HashPair(HashPair(h[1], h[2]), HashPair(h[3], h[4])),
                 HashPair(HashPair(h[5], UintToHash(0)), zeros))

(* Leaf i of the tree with so many leaves below the node of an index.       *)
Below(index, leaves, i) == index * leaves + i
InPayload(index, field) == Below(Below(index, 32, PayloadHeaderField), 16, field)

StateRootIndex == InPayload(1, PayloadStateRootField)

InRootsOfStates(index, target) ==
    Below(index, SlotsPerHistoricalRoot, target % SlotsPerHistoricalRoot)

InBatch(target) ==
    LET list == Below(Below(1, 32, HistoricalRootsField), 2, 0)
        batch == Below(list, HistoricalRootsLimit, target \div SlotsPerHistoricalRoot)
    IN  InRootsOfStates(Below(batch, 2, 1), target)

IsAncient(source, target) == target + SlotsPerHistoricalRoot <= source

TargetIndex(source, target) ==
    IF target = source THEN 1
    ELSE IF IsAncient(source, target) THEN InBatch(target)
    ELSE InRootsOfStates(Below(1, 32, StateRootsField), target)

ReceiptsRootIndex(source, target) ==
    InPayload(TargetIndex(source, target), PayloadReceiptsRootField)

(* Of the state of a header that the light client knows.                    *)
AcceptsStateRoot(stateRoot, leaf, path) == Leads(leaf, StateRootIndex, path, stateRoot)

AcceptsReceiptsRoot(stateRoot, source, target, leaf, path) ==
    /\ target <= source
    /\ Leads(leaf, ReceiptsRootIndex(source, target), path, stateRoot)

AcceptsFinality(root, header, branch) ==
    Leads(headerRoot(header), FINALIZED_ROOT_INDEX, branch, root)

AcceptsCommittee(root, next_, committee, branch) ==
    Leads(committee,
          IF next_ THEN NEXT_SYNC_COMMITTEE_INDEX ELSE CURRENT_SYNC_COMMITTEE_INDEX,
          branch, root)
=============================================================================
