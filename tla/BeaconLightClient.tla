------------------------- MODULE BeaconLightClient -------------------------
(***************************************************************************)
(* The on-chain light client, contracts/light_client/BeaconLightClient.sol: *)
(* a contract on one chain that follows the beacon headers of the other    *)
(* one.  Anybody may call step(update) and applyCandidate().               *)
(*                                                                         *)
(* Headers, sync committees and aggregate signatures are opaque.  A header *)
(* stands for the root of everything it commits to, so a Merkle proof      *)
(* against its stateRoot is a look-up of what its state contains:          *)
(* FinalizedCheckpoint and Committees.  A BLS signature check is a look-up *)
(* in Aggregates, the set of signatures the validators ever produce.       *)
(***************************************************************************)
EXTENDS Integers

CONSTANTS
    MaxSlot,             \* bound: the last slot that has a header
    Headers,             \* every header that is ever signed; fields slot, branch
    NoHeader,            \* bytes32(0), the absent header
    StartHeader,         \* constructor argument
    Committee,           \* sync committees
    Committees,          \* Committees[h] = <<current, next>> in the state of h
    FinalizedCheckpoint, \* the header finalized in the state of h, or NoHeader
    Aggregates,          \* [attested, committee, count]: signatures that exist
    SlotsPerPeriod,      \* SLOTS_PER_SYNC_COMMITTEE_PERIOD
    SecondsPerSlot,      \* SECONDS_PER_SLOT
    CommitteeSize,       \* SYNC_COMMITTEE_SIZE
    MinParticipants,     \* MIN_SYNC_COMMITTEE_PARTICIPANTS
    UpdateTimeout,       \* UPDATE_TIMEOUT, seconds
    MaxTime              \* bound: the clock stops here (see ClockAssumption)

Slots == 0..MaxSlot

ASSUME SlotAssumption ==
    /\ MaxSlot \in Nat
    /\ SlotsPerPeriod \in Nat \ {0}
    /\ SecondsPerSlot \in Nat \ {0}
    /\ UpdateTimeout \in Nat

ASSUME HeaderAssumption ==
    /\ NoHeader \notin Headers
    /\ StartHeader \in Headers
    /\ \A h \in Headers : h.slot \in Slots
    /\ Committees \in [Headers -> Committee \X Committee]
    /\ FinalizedCheckpoint \in [Headers -> Headers \cup {NoHeader}]

ASSUME CommitteeAssumption ==
    /\ CommitteeSize \in Nat \ {0}
    /\ MinParticipants \in 1..CommitteeSize
    /\ Aggregates \subseteq
         [attested: Headers, committee: Committee, count: 1..CommitteeSize]

(* No guard can tell a later time from MaxTime: every slot that is compared *)
(* with the clock is at most MaxSlot + SlotsPerPeriod.                      *)
ASSUME ClockAssumption ==
    /\ MaxTime \in Nat
    /\ MaxTime >= SecondsPerSlot * (MaxSlot + SlotsPerPeriod + 1)

VARIABLES
    head,             \* slot of the latest known block
    headers,          \* slot |-> stored header
    bestValidUpdate,  \* the candidate; timeout is in seconds from now, -1 once over
    now               \* block.timestamp - GENESIS_TIME

vars == <<head, headers, bestValidUpdate, now>>

Signatures == {0} \cup MinParticipants..CommitteeSize

TypeOK ==
    /\ head \in Slots
    /\ headers \in [Slots -> Headers \cup {NoHeader}]
    /\ bestValidUpdate \in [slot: Slots, signatures: Signatures,
                            timeout: -1..UpdateTimeout,
                            header: Headers \cup {NoHeader}]
    /\ now \in 0..MaxTime

CurSlot == now \div SecondsPerSlot
SyncCommitteePeriod(slot) == slot \div SlotsPerPeriod

Init ==
    /\ head = StartHeader.slot
    /\ headers = [s \in Slots |-> IF s = StartHeader.slot THEN StartHeader
                                                          ELSE NoHeader]
    /\ bestValidUpdate = [slot |-> 0, signatures |-> 0, timeout |-> -1,
                          header |-> NoHeader]
    /\ now \in SecondsPerSlot * StartHeader.slot .. MaxTime

-----------------------------------------------------------------------------
(* The arguments of step: an existing signature with any claimed finalized *)
(* header and any claimed signature slot (it is not covered by the         *)
(* signature).                                                             *)
Updates ==
    {[attested |-> a.attested, committee |-> a.committee, count |-> a.count,
      finalized |-> f, signatureSlot |-> s] :
        a \in Aggregates, f \in Headers \cup {NoHeader}, s \in 0..(MaxSlot + 1)}

HasFinalityProof(u) == u.finalized # NoHeader
ActiveHeader(u) == IF HasFinalityProof(u) THEN u.finalized ELSE u.attested

NewerThanHead_OrEqual(u) == ActiveHeader(u).slot >= head          \* mutant
NewerThanHead(u) == ActiveHeader(u).slot > head
NotFromFuture_SamePeriod(u) ==                                    \* mutant
    SyncCommitteePeriod(ActiveHeader(u).slot) <= SyncCommitteePeriod(CurSlot)
NotFromFuture(u) == ActiveHeader(u).slot <= CurSlot

(* 0 selects current_sync_committee, 1 next_sync_committee; anything else  *)
(* is rejected.  The period of the headers does not come into it.          *)
CommitteeIndex(u) == SyncCommitteePeriod(u.signatureSlot) - SyncCommitteePeriod(head)

SignaturePeriodKnown(u) == CommitteeIndex(u) \in {0, 1}

(* The finality branch leads from the finalized header to the state of the *)
(* attested one.                                                           *)
FinalityProven(u) ==
    HasFinalityProof(u) => FinalizedCheckpoint[u.attested] = u.finalized

EnoughSignatures_TwoThirds(u) == 3 * u.count >= 2 * CommitteeSize \* mutant
EnoughSignatures(u) == u.count >= MinParticipants

(* The committee that signed is in the state of the head.                  *)
CommitteeProven(u) == u.committee = Committees[headers[head]][CommitteeIndex(u) + 1]

SupermajorityFinal_Unfinalized(u) == 3 * u.count >= 2 * CommitteeSize \* mutant
SupermajorityFinal_Minority(u) == HasFinalityProof(u)             \* mutant
SupermajorityFinal(u) == 3 * u.count >= 2 * CommitteeSize /\ HasFinalityProof(u)

BeatsCandidate_Skipped(u) == TRUE                                 \* mutant
BeatsCandidate_OrEqual(u) ==                                      \* mutant
    bestValidUpdate.slot > head => u.count >= bestValidUpdate.signatures
BeatsCandidate(u) ==
    bestValidUpdate.slot > head => u.count > bestValidUpdate.signatures

-----------------------------------------------------------------------------
SetHead(slot, h) ==
    /\ head' = slot
    /\ headers' = [headers EXCEPT ![slot] = h]

SetCandidate_KeepTimeout(h, count) ==                             \* mutant
    bestValidUpdate' = [slot |-> h.slot, signatures |-> count,
                        timeout |-> IF bestValidUpdate.slot > head
                                    THEN bestValidUpdate.timeout ELSE UpdateTimeout,
                        header |-> h]
SetCandidate(h, count) ==
    bestValidUpdate' = [slot |-> h.slot, signatures |-> count,
                        timeout |-> UpdateTimeout, header |-> h]

Step(u) ==
    /\ NewerThanHead(u)
    /\ NotFromFuture(u)
    /\ SignaturePeriodKnown(u)
    /\ FinalityProven(u)
    /\ EnoughSignatures(u)
    /\ CommitteeProven(u)
    /\ \/ /\ SupermajorityFinal(u)
          /\ SetHead(ActiveHeader(u).slot, ActiveHeader(u))
          /\ UNCHANGED bestValidUpdate
       \/ /\ ~SupermajorityFinal(u)
          /\ BeatsCandidate(u)
          /\ SetCandidate(ActiveHeader(u), u.count)
          /\ UNCHANGED <<head, headers>>
    /\ UNCHANGED now

CandidateAhead_Skipped == TRUE                                    \* mutant
CandidateAhead == bestValidUpdate.slot > head
CandidatePeriodOver == CurSlot > bestValidUpdate.slot + SlotsPerPeriod
CandidateTimedOut == bestValidUpdate.timeout < 0

ApplyCandidate ==
    /\ CandidateAhead
    /\ bestValidUpdate.header # NoHeader
    /\ CandidatePeriodOver
    /\ CandidateTimedOut
    /\ SetHead(bestValidUpdate.slot, bestValidUpdate.header)
    /\ UNCHANGED <<bestValidUpdate, now>>

(* One second passes on the chain of the contract.                         *)
Tick ==
    /\ now' = IF now < MaxTime THEN now + 1 ELSE now
    /\ bestValidUpdate' =
         [bestValidUpdate EXCEPT !.timeout = IF @ >= 0 THEN @ - 1 ELSE @]
    /\ UNCHANGED <<head, headers>>

Next ==
    \/ \E u \in Updates : Step(u)
    \/ ApplyCandidate
    \/ Tick

Spec == Init /\ [][Next]_vars

(* Time passes; somebody submits what updates can be submitted (the oracle *)
(* worker is a loop that does) and calls applyCandidate when it is due.    *)
Fairness ==
    /\ WF_vars(Tick)
    /\ WF_vars(\E u \in Updates : Step(u))
    /\ WF_vars(ApplyCandidate)

FairSpec == Spec /\ Fairness

-----------------------------------------------------------------------------
(* Nothing is stored above the head, and the entry at the head is a header *)
(* of that very slot: step reads the committees of the next update from it *)
(* and decides current or next by the slot number alone.                   *)
HeadersUpToHead ==
    /\ headers[head] # NoHeader
    /\ \A s \in Slots : headers[s] # NoHeader => s <= head /\ headers[s].slot = s

(* A pending candidate always names the header it was created for.         *)
CandidateConsistent ==
    bestValidUpdate.header # NoHeader =>
        bestValidUpdate.slot = bestValidUpdate.header.slot

(* No header is believed, or kept as candidate, before its slot has begun. *)
NothingFromFuture ==
    head <= CurSlot /\ bestValidUpdate.slot <= CurSlot

(* The store of headers the rest of the bridge relies on.                  *)
Store == INSTANCE HeaderStore
ImplementsHeaderStore == Store!Spec
=============================================================================
