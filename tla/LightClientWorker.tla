------------------------- MODULE LightClientWorker -------------------------
(***************************************************************************)
(* The worker that keeps a light client up to date, oracle/cmd/            *)
(* light_client/worker with MakeUpdate of oracle/lightclient, together     *)
(* with the contract, other senders, and the operator who restarts it.     *)
(*                                                                         *)
(* The beacon node serves the canonical blocks up to the worker's clock,   *)
(* which may be ahead of block.timestamp on the chain of the contract.     *)
(* The sync aggregate of a block is a signature over its parent by the     *)
(* current committee of its own state.                                     *)
(***************************************************************************)
EXTENDS BeaconLightClient, FiniteSets

CONSTANTS
    Blocks,       \* the headers of canonical blocks
    Signers,      \* Signers[b]: the bits set in the sync aggregate of block b
    NoUpdate,     \* no transaction, no update
    OtherUpdates, \* the updates that others send
    ClockLead,    \* bound: slots by which the worker's clock is ahead
    MayRestart    \* whether the operator restarts the worker

Parents(b) == {p \in Blocks : p.slot < b.slot}
Parent(b) == CHOOSE p \in Parents(b) : \A q \in Parents(b) : q.slot <= p.slot
BlockAt(s) == {b \in Blocks : b.slot = s}

(* Mutant: as many signatures as make a candidate.                          *)
EnoughBits_Minimum(b) == Signers[b] >= MinParticipants
EnoughBits(b) == Signers[b] >= MinParticipants /\ 3 * Signers[b] >= 2 * CommitteeSize

ASSUME BlocksAssumption ==
    /\ Blocks \subseteq Headers
    /\ \A b, c \in Blocks : b.slot = c.slot => b = c
    /\ Signers \in [Blocks -> 0..CommitteeSize]
    /\ \A b \in Blocks : Signers[b] > 0 =>
          /\ Parents(b) # {}
          /\ [attested |-> Parent(b), committee |-> Committees[b][1],
              count |-> Signers[b]] \in Aggregates

(* The chain does not fork for longer than a period, so that the states of  *)
(* a period name the same committees and hand over the next one; a header   *)
(* that the state of a block calls finalized is not above the block, and is *)
(* behind it by more than the clocks may differ.                            *)
ASSUME ChainAssumption ==
    /\ \A h, k \in Headers :
          LET hPeriod == SyncCommitteePeriod(h.slot)
              kPeriod == SyncCommitteePeriod(k.slot)
          IN  /\ kPeriod = hPeriod => Committees[k] = Committees[h]
              /\ kPeriod = hPeriod + 1 => Committees[k][1] = Committees[h][2]
    /\ \A b \in Blocks : FinalizedCheckpoint[b] # NoHeader =>
          /\ FinalizedCheckpoint[b].slot <= b.slot
          /\ FinalizedCheckpoint[b].slot + ClockLead <= b.slot + 1

(* The contract was deployed with a header of a chain that was well signed. *)
ASSUME StartAssumption ==
    \E b \in Blocks : b.slot <= StartHeader.slot /\ EnoughBits(b)

ASSUME EnvironmentAssumption ==
    /\ OtherUpdates \subseteq Updates /\ NoUpdate \notin Updates
    /\ ClockLead \in Nat /\ MayRestart \in BOOLEAN

VARIABLES
    pc,         \* "search", "send", "wait" or "stopped"
    slot,       \* the slot that the worker takes for head
    update,     \* the update it is about to send, or has sent
    inFlight,   \* the update whose transaction is not in a block yet
    staleNonce  \* its transactions were counted while one was in flight

workerVars == <<pc, slot, update, inFlight, staleNonce>>
contractVars == <<head, headers, bestValidUpdate, now>>
allVars == <<contractVars, workerVars>>

WorkerInit ==
    /\ Init
    /\ pc = "search"
    /\ slot = head
    /\ update = NoUpdate
    /\ inFlight = NoUpdate
    /\ staleNonce = FALSE

-----------------------------------------------------------------------------
(* MakeUpdate(slot, 0).                                                     *)

NextPeriodEnd(s) == (s - (s % SlotsPerPeriod)) + 2 * SlotsPerPeriod - 1
SearchFrom(s, clock) == IF clock < NextPeriodEnd(s) THEN clock ELSE NextPeriodEnd(s)

(* Mutant: one attempt, without stepping back over missed slots and weak    *)
(* participation.                                                           *)
SignatureBlocks_OneAttempt(s, clock) ==
    {b \in Blocks : b.slot = SearchFrom(s, clock) /\ EnoughBits(b)}
(* The latest block with enough signatures, going back from SearchFrom.     *)
SignatureBlocks(s, clock) ==
    LET found == {b \in Blocks : b.slot <= SearchFrom(s, clock) /\ EnoughBits(b)}
    IN  {b \in found : \A c \in found : c.slot <= b.slot}

(* Which committee of the state at slot s is proved to the contract; the    *)
(* quotient is compared with itself.                                        *)
IsNext(s) == s \div SlotsPerPeriod # s \div SlotsPerPeriod
ProvenCommittee(b) == Committees[b][IF IsNext(b.slot) THEN 2 ELSE 1]

(* What stops the worker before it has an update: no block at its slot, a   *)
(* signature that is not of the proven committee, no finalized block.       *)
UpdateFails(s, b) ==
    \/ BlockAt(s) = {}
    \/ \E cur \in BlockAt(s) : ProvenCommittee(cur) # Committees[b][1]
    \/ FinalizedCheckpoint[Parent(b)] = NoHeader

(* Mutant: an update to the very slot is worth sending.                     *)
NothingNew_Below(s, b) == FinalizedCheckpoint[Parent(b)].slot < s
NothingNew(s, b) == FinalizedCheckpoint[Parent(b)].slot <= s

UpdateFrom(b) ==
    [attested |-> Parent(b), committee |-> Committees[b][1], count |-> Signers[b],
     finalized |-> FinalizedCheckpoint[Parent(b)], signatureSlot |-> b.slot]

(* Nothing to update is no step: the loop goes on with the next tick.       *)
MakeUpdate(clock) ==
    /\ pc = "search"
    /\ \E b \in SignatureBlocks(slot, clock) :
          \/ /\ UpdateFails(slot, b)
             /\ pc' = "stopped"
             /\ UNCHANGED update
          \/ /\ ~UpdateFails(slot, b) /\ ~NothingNew(slot, b)
             /\ update' = UpdateFrom(b)
             /\ pc' = "send"
    /\ UNCHANGED <<contractVars, slot, inFlight, staleNonce>>

-----------------------------------------------------------------------------
(* The contract would take update u now.                                    *)
Accepted(u) ==
    /\ NewerThanHead(u)
    /\ NotFromFuture(u)
    /\ SignaturePeriodKnown(u)
    /\ FinalityProven(u)
    /\ EnoughSignatures(u)
    /\ CommitteeProven(u)
    /\ SupermajorityFinal(u) \/ BeatsCandidate(u)

(* The estimation of gas runs the transaction; the node refuses one with a  *)
(* nonce that is used or taken.                                             *)
SendTx ==
    /\ pc = "send"
    /\ IF Accepted(update) /\ ~staleNonce
       THEN pc' = "wait" /\ inFlight' = update
       ELSE pc' = "stopped" /\ UNCHANGED inFlight
    /\ UNCHANGED <<contractVars, slot, update, staleNonce>>

(* The transaction gets into a block, where it may revert after all.        *)
Include ==
    /\ inFlight # NoUpdate
    /\ Step(inFlight) \/ (~Accepted(inFlight) /\ UNCHANGED contractVars)
    /\ inFlight' = NoUpdate
    /\ UNCHANGED <<pc, slot, update, staleNonce>>

UpdateTargetSlot(u) == ActiveHeader(u).slot

(* The receipt is printed, whatever it says.                                *)
WaitReceipt ==
    /\ pc = "wait"
    /\ inFlight = NoUpdate
    /\ slot' = UpdateTargetSlot(update)
    /\ update' = NoUpdate
    /\ pc' = "search"
    /\ UNCHANGED <<contractVars, inFlight, staleNonce>>

(* The operator starts a new worker in place of the old one.                *)
Restart ==
    /\ MayRestart
    /\ pc' = "search"
    /\ slot' = head
    /\ update' = NoUpdate
    /\ staleNonce' = (inFlight # NoUpdate)
    /\ UNCHANGED <<contractVars, inFlight>>

Contract ==
    /\ \/ \E u \in OtherUpdates : Step(u)
       \/ ApplyCandidate
       \/ Tick
    /\ UNCHANGED workerVars

WorkerNext ==
    \/ \E clock \in CurSlot..(CurSlot + ClockLead) : MakeUpdate(clock)
    \/ SendTx
    \/ Include
    \/ WaitReceipt
    \/ Restart
    \/ Contract

WorkerSpec == WorkerInit /\ [][WorkerNext]_allVars

(* The ticker of the worker, the blocks of the contract's chain, and time.  *)
WorkerFairness ==
    /\ WF_allVars(MakeUpdate(CurSlot))
    /\ WF_allVars(SendTx)
    /\ WF_allVars(Include)
    /\ WF_allVars(WaitReceipt)
    /\ WF_allVars(Tick /\ UNCHANGED workerVars)

FairWorkerSpec == WorkerSpec /\ WorkerFairness

-----------------------------------------------------------------------------
WorkerTypeOK ==
    /\ TypeOK
    /\ pc \in {"search", "send", "wait", "stopped"}
    /\ slot \in Slots
    /\ update \in Updates \cup {NoUpdate}
    /\ pc \in {"send", "wait"} => update # NoUpdate
    /\ pc = "search" => update = NoUpdate
    /\ inFlight \in Updates \cup {NoUpdate}
    /\ staleNonce \in BOOLEAN

(* The worker never takes for head a slot that the contract has not reached *)
(* yet, though it believes its own transactions unseen: when one reverts,   *)
(* it is because somebody else has brought head at least as far.            *)
BeliefNotAhead == slot <= head

(* An update that was made from the true head is one the contract accepts.  *)
UpdateIsAcceptable == pc = "send" /\ slot = head => Accepted(update)

(* A worker that goes on brings head to the last slot that can be           *)
(* finalized, as long as no sync committee period ends.                     *)
WorkerGoesOn == <>[][~Restart]_allVars /\ []<>(pc # "stopped")
CaughtUp ==
    \A b \in Blocks : EnoughBits(b) /\ FinalizedCheckpoint[Parent(b)] # NoHeader =>
        head >= FinalizedCheckpoint[Parent(b)].slot
WorkerCatchesUp == WorkerGoesOn => <>[]CaughtUp

(* The worker periodically makes and sends updates and does not end by      *)
(* itself.                                                                  *)
KeepsRunning == pc # "stopped"
=============================================================================
