---------------------------- MODULE OracleProofs ----------------------------
(***************************************************************************)
(* Provers and the contracts that check them.  A prover makes a claim with *)
(* a proof: the oracle's, or one put together from two of the oracle's     *)
(* proofs for different things.  The contracts accept or reject it.  The   *)
(* check of a sync committee runs the loop of the multiproof.              *)
(***************************************************************************)
EXTENDS MultiProof, SyncCommittee, BeaconStateTree, G1Point

CONSTANTS
    Committees,     \* pairs of committees, this period's and the next one's
    Signers,        \* sets of members that sign a block
    Mixes,          \* pairs of such sets
    Shapes,         \* trees
    Lists           \* lists of numbers below Base

ASSUME OracleAssumption ==
    /\ \A c \in Committees : \A keys \in {c.current, c.next} :
          keys \in Seq(Int) /\ Len(keys) = Size
    /\ Signers \subseteq SUBSET Members
    /\ Mixes \subseteq (SUBSET Members) \X (SUBSET Members)
    /\ \A t \in Shapes : /\ t.leaves \in Seq(Hashes) /\ Len(t.leaves) \in 1..t.limit
                         /\ t.limit \in {TwoTo[k] : k \in 0..t.limit}
                         /\ t.isList \in BOOLEAN /\ t.length \in Nat
    /\ Headers \subseteq [slot : Nat, stateRoot : Nat]
    /\ Lists \subseteq Seq(0..(Base - 1)) /\ \A list \in Lists : Len(list) <= 8

VARIABLES
    claim,      \* what the prover claims and sends
    verdict     \* "none", "checking", "accepted" or "rejected"

oracleVars == <<claim, verdict, vars>>

NoClaim == [kind |-> "none"]

OracleInit ==
    /\ Init
    /\ claim = NoClaim
    /\ verdict = "none"

Ready == verdict = "none"

Done ==
    /\ verdict \in {"accepted", "rejected"}
    /\ claim' = NoClaim
    /\ verdict' = "none"
    /\ UNCHANGED vars

(* A claim that is checked without a loop.                                  *)
Check(c, accepted) ==
    /\ claim' = c
    /\ verdict' = IF accepted THEN "accepted" ELSE "rejected"
    /\ UNCHANGED vars

Submit(c) ==
    /\ claim' = c
    /\ verdict' = "checking"
    /\ UNCHANGED vars

-----------------------------------------------------------------------------
(* Any leaf of any tree, checked by the oracle itself.                      *)
ProveLeaf ==
    /\ Ready
    /\ \E t \in Shapes : \E idx \in 0..(Len(t.leaves) - 1) :
           LET proof == MakeProof(t, idx)
           IN  Check([kind |-> "leaf", tree |-> t, idx |-> idx, honest |-> TRUE],
                     /\ IsProofLength(proof.genIndex, proof.path)
                     /\ ReconstructRoot(proof.genIndex, proof.path, t.leaves[idx + 1])
                           = TreeHash(t))

(* The state root of a block, for another block's, or for a receipts root.  *)
ProveExecutionStateRoot ==
    /\ Ready
    /\ \E source, slot \in Slots : \E leaf \in {ExecutionStateRoot(slot), ReceiptsRoot(slot)} :
           LET roots == StateRoots({source, slot})
           IN  Check([kind |-> "stateRoot", source |-> source, leaf |-> leaf,
                      honest |-> leaf = ExecutionStateRoot(source)],
                     AcceptsStateRoot(roots[source], leaf,
                                      MakeExecutionPayloadStateRootProof(slot, roots)))

(* The receipts root of a target, with a proof made for another one.        *)
ProveReceiptsRoot ==
    /\ Ready
    /\ \E source, target, slot \in Slots :
           LET roots == StateRoots({source, target, slot})
           IN  /\ slot <= source
               /\ Check([kind |-> "receiptsRoot", source |-> source, target |-> target,
                         leaf |-> ReceiptsRoot(slot), honest |-> slot = target],
                        AcceptsReceiptsRoot(roots[source], source, target, ReceiptsRoot(slot),
                            MakeExecutionPayloadReceiptsRootProof(source, slot, roots)))

(* The finalized header of a state, or another one.                         *)
ProveFinality ==
    /\ Ready
    /\ \E finalized, header \in Headers : \E epoch \in Slots :
           Check([kind |-> "finality", finalized |-> finalized, header |-> header,
                  honest |-> finalized = header],
                 AcceptsFinality(TreeHash(FinalizedState(epoch, finalized)), header,
                                 MakeFinalityBranch(epoch, finalized)))

(* A list in a state, or another one: HashUint64List.                       *)
HashPackedList(list) == TreeHash(NewPackedListMerkleTree(list, 2, 8))

ProveList ==
    /\ Ready
    /\ \E list, other \in Lists :
           Check([kind |-> "list", list |-> list, other |-> other, honest |-> list = other],
                 HashPackedList(list) = HashPackedList(other))

(* A key or the one of the opposite sign, in either form.                   *)
ProveKey ==
    /\ Ready
    /\ \E p \in Points : \E sent \in {p, [p EXCEPT !.y = P - p.y]} :
           Check([kind |-> "key", key |-> p, sent |-> sent, honest |-> p = sent],
                 /\ hashG1(PkToG1(sent)) = Marshal(p)
                 /\ hashG1Compressed(PkToG1Compressed(sent)) = Marshal(p))

-----------------------------------------------------------------------------
(* A state with two committees.                                             *)
StateOf(c) == CommitteeState(CommitteeRoot(c.current), CommitteeRoot(c.next))

(* proveNewSyncCommittee.                                                   *)
Branch(c, next_) ==
    MakeProof(StateOf(c), IF next_ THEN NextSyncCommitteeField
                                   ELSE CurrentSyncCommitteeField).path

KeysOf(c, next_) == IF next_ THEN c.next ELSE c.current

(* The oracle's update for the signers of a block ...                       *)
Update(c, next_, signers) ==
    MakeUpdate(KeysOf(c, next_), SyncCommitteeBits(signers))

Claim(c, made, checked, update, honest) ==
    [kind |-> "committee", state |-> c, stateRoot |-> TreeHash(StateOf(c)),
     next |-> checked, branch |-> Branch(c, made), update |-> update, honest |-> honest]

(* It is checked against the committee of the period it was made for, or    *)
(* the other one.                                                           *)
ProveSyncCommittee ==
    /\ Ready
    /\ \E c \in Committees, signers \in Signers, made, checked \in BOOLEAN :
           Submit(Claim(c, made, checked, Update(c, made, signers), made = checked))

(* An update some parts of which are from the update for other signers.     *)
Parts == {"pubkey", "missing", "decommitments", "bitList"}

MixSyncCommittee ==
    /\ Ready
    /\ \E c \in Committees, mix \in Mixes, parts \in SUBSET Parts :
           LET mine == Update(c, FALSE, mix[1])
               other == Update(c, FALSE, mix[2])
               update == [p \in Parts |-> IF p \in parts THEN other[p] ELSE mine[p]]
           IN  Submit(Claim(c, FALSE, FALSE, update, FALSE))

IsCommittee == verdict = "checking" /\ claim.kind = "committee"

RequireSignatures ==
    /\ IsCommittee /\ phase = "idle"
    /\ IF EnoughSignatures(claim.update) /\ MissedAreSent(claim.update)
       THEN /\ Call(Missed(claim.update.bitList), LeafHashes(claim.update),
                    claim.update.decommitments)
            /\ UNCHANGED verdict
       ELSE verdict' = "rejected" /\ UNCHANGED vars
    /\ UNCHANGED claim

RestoreKeysRoot ==
    /\ IsCommittee
    /\ Loop
    /\ UNCHANGED <<claim, verdict>>

(* The root of the keys is hashed with the aggregate key of the committee.  *)
Committee == HashPair(root, HashG1(AggregatedPK(claim.update)))

RequireCommittee ==
    /\ IsCommittee
    /\ Take
    /\ verdict' = IF /\ phase = "restored"
                     /\ AcceptsCommittee(claim.stateRoot, claim.next, Committee,
                                         claim.branch)
                  THEN "accepted" ELSE "rejected"
    /\ UNCHANGED claim

OracleNext ==
    \/ ProveLeaf \/ ProveExecutionStateRoot \/ ProveReceiptsRoot \/ ProveFinality
    \/ ProveList \/ ProveKey
    \/ ProveSyncCommittee \/ MixSyncCommittee
    \/ RequireSignatures \/ RestoreKeysRoot \/ RequireCommittee
    \/ Done

OracleSpec == OracleInit /\ [][OracleNext]_oracleVars

-----------------------------------------------------------------------------
(* A proof that the oracle makes is accepted by whom it is made for: keys   *)
(* in any form, leaves of trees that are not full, signers whose bits go    *)
(* through two reversals, targets on either side of the window of roots.    *)
HonestProofsAccepted ==
    verdict = "rejected" =>
        \/ ~claim.honest
        \/ claim.kind = "committee" /\ ~EnoughSignatures(claim.update)

(* What the contract aggregates is the committee's: whatever an update is   *)
(* put together from, when it is accepted its public key is the sum of the  *)
(* keys of the members whose bits are set, and the others are as many as    *)
(* the keys that were sent.                                                 *)
Marked(bitList) ==
    {i \in Members : i % WordBits \in bitList[i \div WordBits + 1]}

SignersAreMembers ==
    verdict = "accepted" /\ claim.kind = "committee" =>
        LET marked == Marked(claim.update.bitList)
            keys == KeysOf(claim.state, claim.next)
        IN  /\ claim.update.pubkey = SumOfSome(keys, marked)
            /\ Len(claim.update.missing) + Cardinality(marked) = Size
            /\ Cardinality(marked) >= MinParticipants

(* A proof for one thing is not accepted as a proof of another: the         *)
(* receipts root of another slot, a state root in its place, another        *)
(* header, a list with zeros appended, a key of the opposite sign.          *)
AcceptedIsTrue ==
    verdict = "accepted" =>
        CASE claim.kind = "receiptsRoot" -> claim.leaf = ReceiptsRoot(claim.target)
          [] claim.kind = "stateRoot"    -> claim.leaf = ExecutionStateRoot(claim.source)
          [] claim.kind = "finality"     -> claim.header = claim.finalized
          [] claim.kind = "list"         -> claim.list = claim.other
          [] claim.kind = "key"          -> claim.key = claim.sent
          [] OTHER                       -> TRUE
=============================================================================
