----------------------- MODULE LightClientWorkerProofs -----------------------
(***************************************************************************)
(* Proofs about the worker, for every chain, every set of updates that     *)
(* others send, and every clock that is ahead by less than finality lags.  *)
(***************************************************************************)
EXTENDS LightClientWorker, BeaconLightClientProofs, ArithmeticProofs

(* The updates that the worker makes: final whoever else sends what, and    *)
(* of a signature slot above what they finalize.                            *)
MadeOf(u, b) ==
    /\ b \in Blocks /\ EnoughBits(b)
    /\ u = UpdateFrom(b)
    /\ FinalizedCheckpoint[Parent(b)] # NoHeader

(* What the worker has in hand was made for the slot that it takes for      *)
(* head, and its transaction is good until head has reached its target.     *)
MadeFrom(b) ==
    /\ MadeOf(update, b)
    /\ ~NothingNew(slot, b)
    /\ b.slot <= NextPeriodEnd(slot)
    /\ b.slot <= CurSlot + ClockLead

SendsWhatItMade == pc \in {"send", "wait"} => \E b \in Blocks : MadeFrom(b)

Reached == UpdateTargetSlot(update) <= head
StillGood == Reached \/ Accepted(update)

WaitsForItsOwn ==
    pc = "wait" => /\ inFlight \in {update, NoUpdate}
                   /\ IF inFlight = NoUpdate THEN Reached ELSE StillGood

WorkerInv == WorkerTypeOK /\ SendsWhatItMade /\ WaitsForItsOwn /\ BeliefNotAhead

(* The update in hand is signed by the committee of the slot that it        *)
(* starts from.                                                             *)
SignedByCurrent ==
    pc = "send" => \A cur \in BlockAt(slot) : update.committee = Committees[cur][1]

-----------------------------------------------------------------------------
LEMMA QuotientsOfTwoPeriods ==
    ASSUME NEW p \in Nat \ {0}, NEW s \in Nat, NEW t \in Nat,
           s <= t, t <= (s - (s % p)) + 2 * p - 1
    PROVE  t \div p - s \div p \in {0, 1}
<1> DEFINE q == s \div p
           r == t \div p
<1>1. q \in Nat /\ r \in Nat /\ q <= r
  <2>1. q \in Nat /\ r \in Nat
    OBVIOUS
  <2> QED BY <2>1, DivMonotone
<1>2. s % p = s - p * q
  OBVIOUS
<1>3. p * r <= t
  OBVIOUS
<1> HIDE DEF q, r
<1>4. p * q \in Nat /\ p * r \in Nat
  BY <1>1
<1>5. p * r < p * q + 2 * p
  BY <1>2, <1>3, <1>4
<1>6. p * (q + 2) = p * q + 2 * p
  BY <1>1
<1>7. r < q + 2
  <2> SUFFICES ASSUME q + 2 <= r PROVE FALSE
    BY <1>1
  <2>1. p * (q + 2) <= p * r
    BY <1>1
  <2> QED BY <1>4, <1>5, <1>6, <2>1
<1>8. r - q \in {0, 1}
  BY <1>1, <1>7
<1> QED BY <1>8 DEF q, r

USE SlotAssumption, HeaderAssumption, CommitteeAssumption, BlocksAssumption,
    ChainAssumption, EnvironmentAssumption

(* The block that a signature is over is a block of a lower slot.           *)
LEMMA ParentIsBlock ==
    ASSUME NEW b \in Blocks, Parents(b) # {}
    PROVE  Parent(b) \in Blocks /\ Parent(b).slot < b.slot
<1> DEFINE T == {p.slot : p \in Parents(b)}
<1>1. T \in SUBSET (0..MaxSlot) /\ T # {}
  BY DEF Parents, Slots
<1>2. PICK t \in T : \A y \in T : y <= t
  BY <1>1, GreatestNat
<1>3. \E p \in Parents(b) : \A q \in Parents(b) : q.slot <= p.slot
  BY <1>2
<1>4. Parent(b) \in Parents(b)
  BY <1>3 DEF Parent
<1> QED BY <1>4 DEF Parents

(* What the worker makes is an update that nothing about the chain refuses: *)
(* it is final, and its signature slot leaves the clocks room.              *)
LEMMA MadeIsFinal ==
    ASSUME NEW u, NEW b \in Blocks, MadeOf(u, b)
    PROVE  /\ u \in Updates
           /\ SupermajorityFinal(u) /\ EnoughSignatures(u) /\ FinalityProven(u)
           /\ u.committee = Committees[b][1] /\ u.signatureSlot = b.slot
           /\ UpdateTargetSlot(u) = FinalizedCheckpoint[Parent(b)].slot
           /\ UpdateTargetSlot(u) < b.slot
           /\ UpdateTargetSlot(u) + ClockLead <= b.slot
<1> DEFINE p == Parent(b)
           f == FinalizedCheckpoint[p]
           a == [attested |-> p, committee |-> Committees[b][1], count |-> Signers[b]]
<1>1. Signers[b] \in 1..CommitteeSize /\ Signers[b] >= MinParticipants
      /\ 3 * Signers[b] >= 2 * CommitteeSize
  BY DEF MadeOf, EnoughBits
<1>2. Parents(b) # {} /\ a \in Aggregates
  BY <1>1
<1>3. p \in Blocks /\ p.slot < b.slot
  BY <1>2, ParentIsBlock
<1>4. p \in Headers /\ b \in Headers /\ p.slot \in Slots /\ b.slot \in 0..(MaxSlot + 1)
  BY <1>3 DEF Slots
<1>5. f \in Headers /\ f # NoHeader
  BY <1>4 DEF MadeOf
<1>6. f.slot \in Slots /\ f.slot <= p.slot /\ f.slot + ClockLead <= p.slot + 1
  BY <1>3, <1>5
<1>7. u = [attested |-> p, committee |-> Committees[b][1], count |-> Signers[b],
           finalized |-> f, signatureSlot |-> b.slot]
  BY DEF MadeOf, UpdateFrom
<1> HIDE DEF p, f
<1>8. u \in Updates
  <2>1. u = [attested |-> a.attested, committee |-> a.committee, count |-> a.count,
             finalized |-> f, signatureSlot |-> b.slot]
    BY <1>7
  <2> QED BY <1>2, <1>4, <1>5, <2>1 DEF Updates
<1>9. UpdateTargetSlot(u) = f.slot /\ HasFinalityProof(u)
  BY <1>5, <1>7 DEF UpdateTargetSlot, ActiveHeader, HasFinalityProof
<1>10. SupermajorityFinal(u) /\ EnoughSignatures(u) /\ FinalityProven(u)
  BY <1>1, <1>7, <1>9 DEF SupermajorityFinal, EnoughSignatures, FinalityProven, f
<1>11. f.slot < b.slot /\ f.slot + ClockLead <= b.slot
  BY <1>3, <1>4, <1>6 DEF Slots
<1> QED BY <1>7, <1>8, <1>9, <1>10, <1>11 DEF f, p

(* The slots up to the end of the next period are in this one or the next.  *)
LEMMA WithinTwoPeriods ==
    ASSUME NEW s \in Nat, NEW t \in Nat, s <= t, t <= NextPeriodEnd(s)
    PROVE  SyncCommitteePeriod(t) - SyncCommitteePeriod(s) \in {0, 1}
<1>1. t <= (s - (s % SlotsPerPeriod)) + 2 * SlotsPerPeriod - 1
  BY DEF NextPeriodEnd
<1>2. t \div SlotsPerPeriod - s \div SlotsPerPeriod \in {0, 1}
  BY ONLY SlotAssumption, <1>1, s \in Nat, t \in Nat, s <= t, QuotientsOfTwoPeriods
<1> QED BY <1>2 DEF SyncCommitteePeriod

(* A header knows the committee of its own period and of the next.          *)
LEMMA CommitteeIsKnown ==
    ASSUME NEW h \in Headers, NEW k \in Headers, NEW i \in {0, 1},
           SyncCommitteePeriod(k.slot) - SyncCommitteePeriod(h.slot) = i
    PROVE  Committees[k][1] = Committees[h][i + 1]
<1>1. SyncCommitteePeriod(k.slot) \in Int /\ SyncCommitteePeriod(h.slot) \in Int
  <2>1. k.slot \in Nat /\ h.slot \in Nat
    BY DEF Slots
  <2> QED BY <2>1, PeriodsAreOrdered
<1> DEFINE d == SyncCommitteePeriod(k.slot) - SyncCommitteePeriod(h.slot)
<1>2. d = i
  OBVIOUS
<1>3. CASE i = 0
  <2>1. SyncCommitteePeriod(k.slot) = SyncCommitteePeriod(h.slot)
    BY ONLY <1>1, <1>3, <1>2
  <2>2. Committees[k] = Committees[h]
    BY <2>1
  <2> QED BY <1>3, <2>2
<1>4. CASE i = 1
  <2>1. SyncCommitteePeriod(k.slot) = SyncCommitteePeriod(h.slot) + 1
    BY ONLY <1>1, <1>4, <1>2
  <2>2. Committees[k][1] = Committees[h][2]
    BY <2>1
  <2> QED BY <1>4, <2>2
<1> QED BY <1>3, <1>4

(* What the worker made stays acceptable until head has reached its target: *)
(* whatever others do, the head moves within the periods up to its own.     *)
LEMMA StillAccepted ==
    ASSUME NEW u, NEW b \in Blocks, MadeOf(u, b), IInv, [Next]_vars,
           UpdateTargetSlot(u) <= head \/ Accepted(u)
    PROVE  UpdateTargetSlot(u) <= head' \/ Accepted(u)'
<1>1. head \in Slots /\ head' \in Slots /\ now \in Nat /\ now' \in Nat
      /\ headers'[head'] \in Headers /\ headers'[head'].slot = head'
  <2>1. TypeOK /\ TypeOK' /\ HeadersUpToHead'
    BY NextKeepsStore DEF IInv
  <2>2. head \in Slots /\ head' \in Slots /\ now \in Nat /\ now' \in Nat
    BY <2>1 DEF TypeOK
  <2>3. headers'[head'] \in Headers /\ headers'[head'].slot = head'
    BY <2>1, <2>2 DEF TypeOK, HeadersUpToHead
  <2> QED BY <2>2, <2>3
<1>2. head <= head' /\ CurSlot <= CurSlot' /\ CurSlot \in Nat /\ CurSlot' \in Nat
  BY NextGoesForward DEF IInv
<1> DEFINE t == UpdateTargetSlot(u)
<1>3. /\ t \in Slots /\ t < b.slot /\ b \in Headers /\ b.slot \in Slots
      /\ SupermajorityFinal(u) /\ EnoughSignatures(u) /\ FinalityProven(u)
      /\ u.committee = Committees[b][1] /\ u.signatureSlot = b.slot
  BY MadeIsFinal, ActiveHeaderType DEF UpdateTargetSlot
<1> SUFFICES ASSUME head' < t PROVE Accepted(u)'
  BY <1>1, <1>3 DEF Slots
<1>4. Accepted(u)
  BY <1>1, <1>2, <1>3 DEF Slots
<1>5. NewerThanHead(u)'
  BY DEF NewerThanHead, UpdateTargetSlot
<1>6. NotFromFuture(u)'
  <2>1. t <= CurSlot
    BY <1>4 DEF Accepted, NotFromFuture, UpdateTargetSlot
  <2>2. t <= CurSlot'
    <3> HIDE DEF t, CurSlot
    <3> QED BY <1>2, <1>3, <2>1 DEF Slots
  <2> QED BY <2>2 DEF NotFromFuture, UpdateTargetSlot
<1>7. SignaturePeriodKnown(u)'
  <2> DEFINE p(s) == SyncCommitteePeriod(s)
  <2>1. head \in Nat /\ head' \in Nat /\ b.slot \in Nat
        /\ head <= head' /\ head' <= b.slot
    BY <1>1, <1>2, <1>3 DEF Slots
  <2>2. /\ p(head) <= p(head') /\ p(head') <= p(b.slot)
        /\ p(head) \in Int /\ p(head') \in Int /\ p(b.slot) \in Int
    BY <2>1, PeriodsAreOrdered
  <2>3. p(b.slot) - p(head) \in {0, 1}
    BY <1>3, <1>4 DEF Accepted, SignaturePeriodKnown, CommitteeIndex
  <2>4. p(b.slot) - p(head') \in {0, 1}
    <3> HIDE DEF p
    <3> QED BY ONLY <2>2, <2>3
  <2> QED BY <1>3, <2>4 DEF SignaturePeriodKnown, CommitteeIndex
<1>8. CommitteeProven(u)'
  <2>1. u.committee = Committees[headers'[head']][CommitteeIndex(u)' + 1]
    BY <1>1, <1>3, <1>7, CommitteeIsKnown DEF SignaturePeriodKnown, CommitteeIndex
  <2> QED BY <2>1 DEF CommitteeProven
<1> QED BY <1>3, <1>5, <1>6, <1>7, <1>8
        DEF Accepted, SupermajorityFinal, EnoughSignatures, FinalityProven

-----------------------------------------------------------------------------
LEMMA CurSlotType == TypeOK => CurSlot \in Nat
<1> SUFFICES ASSUME TypeOK PROVE CurSlot \in Nat
  OBVIOUS
<1>1. now \in Nat
  BY ONLY TypeOK, ClockAssumption DEF TypeOK
<1>2. now \div SecondsPerSlot \in Nat
  BY ONLY <1>1, SlotAssumption, SMTT(30)
<1> QED BY <1>2 DEF CurSlot

(* What MakeUpdate makes.                                                   *)
LEMMA MakeUpdateMakes ==
    ASSUME WorkerTypeOK, NEW clock \in CurSlot..(CurSlot + ClockLead), MakeUpdate(clock)
    PROVE  \/ pc' = "stopped" /\ update' = update
           \/ pc' = "send" /\ \E b \in Blocks : MadeFrom(b)' /\ ~UpdateFails(slot, b)
<1>1. slot \in Nat /\ NextPeriodEnd(slot) \in Int
  <2>1. slot \in Nat
    BY DEF WorkerTypeOK, Slots
  <2> QED BY ONLY <2>1, SlotAssumption DEF NextPeriodEnd
<1>2. CurSlot \in Nat
  BY CurSlotType DEF WorkerTypeOK
<1>3. PICK b \in SignatureBlocks(slot, clock) :
          \/ pc' = "stopped" /\ update' = update
          \/ /\ ~UpdateFails(slot, b) /\ ~NothingNew(slot, b)
             /\ update' = UpdateFrom(b) /\ pc' = "send"
  BY DEF MakeUpdate
<1>4. b \in Blocks /\ EnoughBits(b) /\ b.slot <= SearchFrom(slot, clock)
  BY DEF SignatureBlocks
<1>5. b.slot <= NextPeriodEnd(slot) /\ b.slot <= CurSlot + ClockLead
  <2>1. b.slot \in Int /\ clock \in Int /\ clock <= CurSlot + ClockLead
    BY <1>2, <1>4 DEF Slots
  <2> HIDE DEF CurSlot
  <2> QED BY ONLY <1>1, <1>2, <1>4, <2>1, EnvironmentAssumption DEF SearchFrom
<1>6. slot' = slot /\ CurSlot' = CurSlot
  BY DEF MakeUpdate, contractVars, CurSlot
<1>7. CASE ~(pc' = "stopped" /\ update' = update)
  <2>1. ~UpdateFails(slot, b) /\ ~NothingNew(slot, b) /\ update' = UpdateFrom(b)
        /\ pc' = "send"
    BY <1>3, <1>7
  <2>2. MadeOf(update', b)
    BY <1>4, <2>1 DEF MadeOf, UpdateFails
  <2>3. MadeFrom(b)'
    BY <1>5, <1>6, <2>1, <2>2 DEF MadeFrom
  <2> QED BY <1>4, <2>1, <2>3
<1> QED BY <1>7

(* The worker acts on the contract by step(update) only.                    *)
LEMMA WorkerStepOnContract ==
    ASSUME WorkerTypeOK, [WorkerNext]_allVars
    PROVE  [Next]_vars
<1>1. CASE Include
  BY <1>1 DEF Include, WorkerTypeOK, Next, contractVars, vars
<1>2. CASE Contract
  BY <1>2 DEF Contract, Next
<1>3. CASE UNCHANGED contractVars
  BY <1>3 DEF contractVars, vars
<1> QED BY <1>1, <1>2, <1>3
        DEF WorkerNext, MakeUpdate, SendTx, WaitReceipt, Restart, allVars

LEMMA WorkerNextKeepsTypes ==
    ASSUME WorkerTypeOK, [WorkerNext]_allVars
    PROVE  WorkerTypeOK'
<1>1. TypeOK'
  BY WorkerStepOnContract, NextKeepsTypes DEF WorkerTypeOK
<1>2. ASSUME NEW clock \in CurSlot..(CurSlot + ClockLead), MakeUpdate(clock)
      PROVE  WorkerTypeOK'
  <2>1. slot' = slot /\ inFlight' = inFlight /\ staleNonce' = staleNonce
    BY <1>2 DEF MakeUpdate
  <2>2. CASE pc' = "stopped" /\ update' = update
    BY <1>1, <2>1, <2>2 DEF WorkerTypeOK
  <2>3. ASSUME NEW b \in Blocks, pc' = "send", MadeFrom(b)'
        PROVE  WorkerTypeOK'
    <3>1. update' \in Updates
      BY <2>3, MadeIsFinal DEF MadeFrom
    <3> QED BY <1>1, <2>1, <2>3, <3>1 DEF WorkerTypeOK
  <2> QED BY <1>2, <2>2, <2>3, MakeUpdateMakes
<1>3. CASE SendTx
  BY <1>1, <1>3 DEF SendTx, WorkerTypeOK
<1>4. CASE Include
  BY <1>1, <1>4 DEF Include, WorkerTypeOK
<1>5. CASE WaitReceipt
  <2>1. UpdateTargetSlot(update) \in Slots
    BY <1>5, ActiveHeaderType DEF WaitReceipt, WorkerTypeOK, UpdateTargetSlot
  <2> QED BY <1>1, <1>5, <2>1 DEF WaitReceipt, WorkerTypeOK
<1>6. CASE Restart
  BY <1>1, <1>6 DEF Restart, WorkerTypeOK, TypeOK
<1>7. CASE Contract
  BY <1>1, <1>7 DEF Contract, workerVars, WorkerTypeOK
<1>8. CASE UNCHANGED allVars
  BY <1>1, <1>8 DEF allVars, workerVars, WorkerTypeOK
<1> QED BY <1>2, <1>3, <1>4, <1>5, <1>6, <1>7, <1>8 DEF WorkerNext

-----------------------------------------------------------------------------
(* While the worker has an update in hand, the contract's clock goes on.    *)
LEMMA StillMade ==
    ASSUME WorkerTypeOK, SendsWhatItMade, [Next]_vars,
           pc \in {"send", "wait"}, update' = update, slot' = slot
    PROVE  SendsWhatItMade'
<1>1. PICK b \in Blocks : MadeFrom(b)
  BY DEF SendsWhatItMade
<1>2. CurSlot <= CurSlot' /\ CurSlot \in Nat /\ CurSlot' \in Nat
  BY NextGoesForward DEF WorkerTypeOK
<1>3. b.slot <= CurSlot' + ClockLead
  <2>1. b.slot \in Nat /\ b.slot <= CurSlot + ClockLead
    BY <1>1 DEF MadeFrom, Slots
  <2> HIDE DEF CurSlot
  <2> QED BY ONLY <1>2, <2>1, EnvironmentAssumption
<1>4. MadeFrom(b)'
  BY <1>1, <1>3 DEF MadeFrom
<1> QED BY <1>4 DEF SendsWhatItMade

LEMMA WorkerNextSendsWhatItMade ==
    ASSUME WorkerTypeOK, SendsWhatItMade, [WorkerNext]_allVars
    PROVE  SendsWhatItMade'
<1>1. ASSUME NEW clock \in CurSlot..(CurSlot + ClockLead), MakeUpdate(clock)
      PROVE  SendsWhatItMade'
  BY <1>1, MakeUpdateMakes DEF SendsWhatItMade
<1>2. CASE pc' = pc /\ update' = update /\ slot' = slot
  BY <1>2, StillMade, WorkerStepOnContract DEF SendsWhatItMade
<1>3. CASE SendTx
  BY <1>3, StillMade, WorkerStepOnContract DEF SendTx
<1>4. CASE WaitReceipt \/ Restart
  BY <1>4 DEF WaitReceipt, Restart, SendsWhatItMade
<1> QED BY <1>1, <1>2, <1>3, <1>4
        DEF WorkerNext, Include, Contract, workerVars, allVars

(* While its transaction is in flight, others may overtake the worker, but  *)
(* never in a way that leaves its update unacceptable and head behind.      *)
LEMMA WorkerNextWaitsForItsOwn ==
    ASSUME IInv, WorkerTypeOK, SendsWhatItMade, WaitsForItsOwn, [WorkerNext]_allVars
    PROVE  WaitsForItsOwn'
<1>1. [Next]_vars
  BY WorkerStepOnContract
<1>2. head \in Int /\ head' \in Int /\ head <= head'
  BY <1>1, NextGoesForward, NextKeepsTypes DEF WorkerTypeOK, TypeOK, Slots
<1>3. ASSUME pc \in {"send", "wait"}, update' = update, StillGood
      PROVE  StillGood'
  <2>1. PICK u : u = update
    OBVIOUS
  <2>2. PICK b \in Blocks : MadeOf(u, b)
    BY <1>3, <2>1 DEF SendsWhatItMade, MadeFrom
  <2>3. UpdateTargetSlot(u) <= head' \/ Accepted(u)'
    BY <1>1, <1>3, <2>1, <2>2, StillAccepted DEF StillGood, Reached
  <2>4. u = update'
    BY <1>3, <2>1
  <2> QED BY <2>3, <2>4
          DEF StillGood, Reached, Accepted, NewerThanHead, NotFromFuture,
              SignaturePeriodKnown, CommitteeIndex, FinalityProven, EnoughSignatures,
              CommitteeProven, SupermajorityFinal, BeatsCandidate, UpdateTargetSlot
<1>4. ASSUME pc \in {"send", "wait"}
      PROVE  UpdateTargetSlot(update) \in Int /\ SupermajorityFinal(update)
  BY <1>4, MadeIsFinal, ActiveHeaderType
  DEF SendsWhatItMade, MadeFrom, UpdateTargetSlot, Slots
<1>5. ASSUME pc = "wait", update' = update, Reached PROVE Reached'
  BY <1>2, <1>4, <1>5 DEF Reached
<1>6. CASE SendTx
  <2> SUFFICES ASSUME pc' = "wait" PROVE WaitsForItsOwn'
    BY DEF WaitsForItsOwn
  <2>1. pc = "send" /\ update' = update /\ inFlight' = update /\ Accepted(update)
    BY <1>6 DEF SendTx
  <2>2. StillGood' /\ inFlight' # NoUpdate
    BY <1>3, <2>1 DEF StillGood, WorkerTypeOK
  <2> QED BY <2>1, <2>2 DEF WaitsForItsOwn
<1>7. CASE Include
  <2> SUFFICES ASSUME pc = "wait" PROVE Reached'
    BY <1>7 DEF Include, WaitsForItsOwn
  <2>1. inFlight = update /\ StillGood /\ update' = update
    BY <1>7 DEF Include, WaitsForItsOwn
  <2>2. CASE Step(update)
    BY <1>2, <1>4, <2>1, <2>2 DEF Step, SetHead, Reached, UpdateTargetSlot
  <2>3. CASE ~Accepted(update)
    BY <1>5, <2>1, <2>3 DEF StillGood
  <2> QED BY <1>7, <2>1, <2>2, <2>3 DEF Include
<1>8. CASE UNCHANGED workerVars
  <2> SUFFICES ASSUME pc = "wait" PROVE WaitsForItsOwn'
    BY <1>8 DEF workerVars, WaitsForItsOwn
  <2>1. pc' = pc /\ update' = update /\ inFlight' = inFlight
    BY <1>8 DEF workerVars
  <2>2. CASE inFlight = NoUpdate
    BY <1>5, <2>1, <2>2 DEF WaitsForItsOwn
  <2>3. CASE inFlight # NoUpdate
    BY <1>3, <2>1, <2>3 DEF WaitsForItsOwn
  <2> QED BY <2>2, <2>3
<1>9. CASE pc' # "wait"
  BY <1>9 DEF WaitsForItsOwn
<1> QED BY <1>6, <1>7, <1>8, <1>9
        DEF WorkerNext, MakeUpdate, WaitReceipt, Restart, Contract, allVars

LEMMA WorkerNextBelievesNotAhead ==
    ASSUME IInv, WorkerInv, [WorkerNext]_allVars
    PROVE  BeliefNotAhead'
<1>1. head \in Int /\ slot \in Int /\ head' \in Int /\ head <= head'
  <2>1. [Next]_vars /\ TypeOK
    BY WorkerStepOnContract DEF WorkerInv, WorkerTypeOK
  <2> QED BY <2>1, NextGoesForward, NextKeepsTypes DEF WorkerInv, WorkerTypeOK, TypeOK, Slots
<1>2. CASE slot' = slot
  BY <1>1, <1>2 DEF WorkerInv, BeliefNotAhead
<1>3. CASE WaitReceipt
  BY <1>3 DEF WaitReceipt, contractVars, WorkerInv, WaitsForItsOwn, Reached,
                BeliefNotAhead
<1>4. CASE Restart
  BY <1>1, <1>4 DEF Restart, contractVars, BeliefNotAhead
<1> QED BY <1>2, <1>3, <1>4
        DEF WorkerNext, MakeUpdate, SendTx, Include, Contract, workerVars, allVars

-----------------------------------------------------------------------------
(* The worker starts from the head of a contract that was just deployed.    *)
LEMMA InitOfWorker == WorkerInit => IInv /\ WorkerInv
<1> SUFFICES ASSUME WorkerInit PROVE IInv /\ WorkerInv
  OBVIOUS
<1>1. Init /\ TypeOK
  BY InitHasTypes DEF WorkerInit
<1>2. IInv
  BY <1>1 DEF Init, IInv, HeadersUpToHead, CandidateConsistent, Slots
<1>3. WorkerTypeOK
  BY <1>1 DEF WorkerInit, WorkerTypeOK, TypeOK
<1>4. SendsWhatItMade /\ WaitsForItsOwn
  BY DEF WorkerInit, SendsWhatItMade, WaitsForItsOwn
<1>5. BeliefNotAhead
  BY <1>1 DEF WorkerInit, BeliefNotAhead, TypeOK, Slots
<1> QED BY <1>2, <1>3, <1>4, <1>5 DEF WorkerInv

(* The inductive invariant of the contract together with the worker's.      *)
THEOREM WorkerInvariant == WorkerSpec => [](IInv /\ WorkerInv)
<1>1. IInv /\ WorkerInv /\ [WorkerNext]_allVars => (IInv /\ WorkerInv)'
  <2> SUFFICES ASSUME IInv, WorkerInv, [WorkerNext]_allVars
               PROVE  IInv' /\ WorkerInv'
    OBVIOUS
  <2>1. WorkerTypeOK /\ SendsWhatItMade /\ WaitsForItsOwn
    BY DEF WorkerInv
  <2>2. IInv'
    BY <2>1, WorkerStepOnContract, NextKeepsStore
  <2>3. WorkerTypeOK' /\ SendsWhatItMade' /\ WaitsForItsOwn' /\ BeliefNotAhead'
    BY <2>1, WorkerNextKeepsTypes, WorkerNextSendsWhatItMade, WorkerNextWaitsForItsOwn,
       WorkerNextBelievesNotAhead
  <2> QED BY <2>2, <2>3 DEF WorkerInv
<1> QED BY <1>1, InitOfWorker, PTL DEF WorkerSpec

(* Whatever others send and whenever the operator starts it again, the      *)
(* worker never takes for head a slot that the contract has not reached.    *)
THEOREM BeliefIsNeverAhead == WorkerSpec => []BeliefNotAhead
<1>1. WorkerInv => BeliefNotAhead
  BY DEF WorkerInv
<1> QED BY <1>1, WorkerInvariant, PTL

(* The worker's use of the contract, together with that of the others, is   *)
(* within what the contract was proved for.                                 *)
THEOREM WorkerOnlyStepsTheContract == WorkerSpec => Spec
<1>1. WorkerInit => Init
  BY DEF WorkerInit
<1>2. WorkerInv /\ [WorkerNext]_allVars => [Next]_vars
  BY WorkerStepOnContract DEF WorkerInv
<1> QED BY <1>1, <1>2, WorkerInvariant, PTL DEF WorkerSpec, Spec

(* An update made from the true head is acceptable when it is sent, however *)
(* far the worker's clock is ahead of the contract's.                       *)
THEOREM UpdatesAreAcceptable == WorkerSpec => []UpdateIsAcceptable
<1>1. IInv /\ WorkerInv => UpdateIsAcceptable
  <2> SUFFICES ASSUME IInv, WorkerInv, pc = "send", slot = head PROVE Accepted(update)
    BY DEF UpdateIsAcceptable
  <2>1. PICK b \in Blocks : MadeFrom(b)
    BY DEF WorkerInv, SendsWhatItMade
  <2> DEFINE t == UpdateTargetSlot(update)
  <2>2. /\ update \in Updates
        /\ SupermajorityFinal(update) /\ EnoughSignatures(update) /\ FinalityProven(update)
        /\ update.committee = Committees[b][1] /\ update.signatureSlot = b.slot
        /\ t = FinalizedCheckpoint[Parent(b)].slot
        /\ t < b.slot /\ t + ClockLead <= b.slot
    BY <2>1, MadeIsFinal DEF MadeFrom
  <2>3. head \in Nat /\ b.slot \in Nat /\ t \in Nat /\ b \in Headers
        /\ headers[head] \in Headers /\ headers[head].slot = head
    BY <2>2, ActiveHeaderType
    DEF IInv, TypeOK, HeadersUpToHead, Slots, UpdateTargetSlot
  <2>4. NewerThanHead(update)
    BY <2>1, <2>2, <2>3 DEF MadeFrom, NothingNew, NewerThanHead, UpdateTargetSlot
  <2>5. NotFromFuture(update)
    <3>1. CurSlot \in Nat
      BY CurSlotType DEF IInv
    <3>2. t <= CurSlot
      <4>1. b.slot <= CurSlot + ClockLead
        BY <2>1 DEF MadeFrom
      <4> HIDE DEF t, CurSlot
      <4> QED BY ONLY <2>2, <2>3, <3>1, <4>1, EnvironmentAssumption
    <3> QED BY <3>2 DEF NotFromFuture, UpdateTargetSlot
  <2>6. SyncCommitteePeriod(b.slot) - SyncCommitteePeriod(head) \in {0, 1}
    <3>1. head <= b.slot /\ b.slot <= NextPeriodEnd(head)
      BY <2>1, <2>2, <2>3, <2>4 DEF MadeFrom, NewerThanHead, UpdateTargetSlot
    <3> QED BY <2>3, <3>1, WithinTwoPeriods
  <2>7. SignaturePeriodKnown(update)
    BY <2>2, <2>6 DEF SignaturePeriodKnown, CommitteeIndex
  <2>8. CommitteeProven(update)
    BY <2>2, <2>3, <2>6, CommitteeIsKnown DEF CommitteeProven, CommitteeIndex
  <2> QED BY <2>2, <2>4, <2>5, <2>7, <2>8 DEF Accepted
<1> QED BY <1>1, WorkerInvariant, PTL

(* The committee that is proved to the contract is always the current one   *)
(* of the slot that the worker starts from: an update that the next         *)
(* period's committee signed is never sent.                                 *)
THEOREM OnlyTheCurrentCommittee == WorkerSpec => []SignedByCurrent
<1>1. WorkerInit => SignedByCurrent
  BY DEF WorkerInit, SignedByCurrent
<1>2. WorkerInv /\ SignedByCurrent /\ [WorkerNext]_allVars => SignedByCurrent'
  <2> SUFFICES ASSUME WorkerInv, SignedByCurrent, [WorkerNext]_allVars
               PROVE  SignedByCurrent'
    OBVIOUS
  <2>1. ASSUME NEW clock \in CurSlot..(CurSlot + ClockLead), MakeUpdate(clock)
        PROVE  SignedByCurrent'
    <3>1. CASE pc' # "send"
      BY <3>1 DEF SignedByCurrent
    <3>2. ASSUME NEW b \in Blocks, MadeFrom(b)', ~UpdateFails(slot, b)
          PROVE  SignedByCurrent'
      <4>1. update'.committee = Committees[b][1]
        BY <3>2, MadeIsFinal DEF MadeFrom
      <4>2. \A cur \in BlockAt(slot) : Committees[cur][1] = Committees[b][1]
        BY <3>2 DEF UpdateFails, ProvenCommittee, IsNext
      <4>3. slot' = slot
        BY <2>1 DEF MakeUpdate
      <4> QED BY <4>1, <4>2, <4>3 DEF SignedByCurrent
    <3> QED BY <2>1, <3>1, <3>2, MakeUpdateMakes DEF WorkerInv
  <2>2. CASE pc' = pc /\ update' = update /\ slot' = slot
    BY <2>2 DEF SignedByCurrent
  <2>3. CASE pc' # "send"
    BY <2>3 DEF SignedByCurrent
  <2> QED BY <2>1, <2>2, <2>3
          DEF WorkerNext, SendTx, Include, WaitReceipt, Restart, Contract, workerVars, allVars
<1> QED BY <1>1, <1>2, WorkerInvariant, PTL DEF WorkerSpec
=============================================================================
