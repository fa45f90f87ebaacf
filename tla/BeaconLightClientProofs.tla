---------------------- MODULE BeaconLightClientProofs ----------------------
(***************************************************************************)
(* Proofs about the light client, for every chain, committee size and      *)
(* period length.                                                          *)
(***************************************************************************)
EXTENDS LightClientConsensus, ForcedUpdates, TLAPS

(* Slot numbers are quotients: they grow with the time, and the slot that   *)
(* begins at k * n is at least n.                                           *)
LEMMA DivMonotone ==
    ASSUME NEW a \in Nat, NEW b \in Nat, NEW k \in Nat \ {0}, a <= b
    PROVE  a \div k <= b \div k /\ a \div k \in Nat /\ b \div k \in Nat
<1>1. a \div k \in Nat
  BY SMTT(30)
<1>2. b \div k \in Nat
  BY SMTT(30)
<1>3. a \div k <= b \div k
  BY SMTT(30)
<1> QED BY <1>1, <1>2, <1>3

LEMMA DivOfMultiple ==
    ASSUME NEW a \in Nat, NEW k \in Nat \ {0}, NEW n \in Nat, k * n <= a
    PROVE  n <= a \div k
<1>1. a \div k \in Nat /\ a < k * (a \div k) + k
  BY SMTT(30)
<1> SUFFICES ASSUME a \div k + 1 <= n PROVE FALSE
  BY <1>1
<1>2. k * (a \div k + 1) = k * (a \div k) + k
  BY <1>1, SMTT(30)
<1>3. k * (a \div k + 1) <= k * n
  BY <1>1, SMTT(30)
<1> QED BY <1>1, <1>2, <1>3

USE SlotAssumption, HeaderAssumption, CommitteeAssumption, ClockAssumption

(* So are the periods of slots.                                             *)
LEMMA PeriodsAreOrdered ==
    ASSUME NEW s \in Nat, NEW t \in Nat
    PROVE  /\ SyncCommitteePeriod(s) \in Nat /\ SyncCommitteePeriod(t) \in Nat
           /\ s <= t => SyncCommitteePeriod(s) <= SyncCommitteePeriod(t)
<1>1. s \div SlotsPerPeriod \in Nat /\ t \div SlotsPerPeriod \in Nat
  BY ONLY SlotAssumption, s \in Nat, t \in Nat, SMTT(30)
<1>2. s <= t => s \div SlotsPerPeriod <= t \div SlotsPerPeriod
  BY DivMonotone
<1> QED BY <1>1, <1>2 DEF SyncCommitteePeriod

(* The arguments of step are well formed.                                  *)
LEMMA UpdateFields ==
    ASSUME NEW u \in Updates
    PROVE  /\ u.attested \in Headers
           /\ u.committee \in Committee
           /\ u.count \in 1..CommitteeSize
           /\ u.finalized \in Headers \cup {NoHeader}
           /\ u.signatureSlot \in 0..(MaxSlot + 1)
           /\ [attested |-> u.attested, committee |-> u.committee, count |-> u.count]
                \in Aggregates
<1>1. PICK a \in Aggregates, f \in Headers \cup {NoHeader}, s \in 0..(MaxSlot + 1) :
          u = [attested |-> a.attested, committee |-> a.committee, count |-> a.count,
               finalized |-> f, signatureSlot |-> s]
  BY DEF Updates
<1>2. a \in [attested: Headers, committee: Committee, count: 1..CommitteeSize]
  BY <1>1
<1>3. a = [attested |-> a.attested, committee |-> a.committee, count |-> a.count]
  BY <1>2
<1> QED BY <1>1, <1>2, <1>3

(* Whatever an update is about, it is a header.                            *)
LEMMA ActiveHeaderType ==
    ASSUME NEW u \in Updates
    PROVE  ActiveHeader(u) \in Headers /\ ActiveHeader(u).slot \in Slots
BY UpdateFields DEF ActiveHeader, HasFinalityProof

-----------------------------------------------------------------------------
(* Every step, with whatever update, keeps the types.                      *)
LEMMA NextKeepsTypes ==
    ASSUME TypeOK, [Next]_vars
    PROVE  TypeOK'
<1>1. ASSUME NEW u \in Updates, Step(u) PROVE TypeOK'
  <2>1. ActiveHeader(u) \in Headers /\ ActiveHeader(u).slot \in Slots
    BY ActiveHeaderType
  <2>2. u.count \in MinParticipants..CommitteeSize
    <3>1. u.count \in 1..CommitteeSize
      BY UpdateFields
    <3>2. u.count >= MinParticipants
      BY <1>1 DEF Step, EnoughSignatures
    <3> QED BY ONLY <3>1, <3>2, CommitteeAssumption
  <2>3. CASE SupermajorityFinal(u)
    BY <1>1, <2>1, <2>3 DEF Step, SetHead, TypeOK
  <2>4. CASE ~SupermajorityFinal(u)
    BY <1>1, <2>1, <2>2, <2>4 DEF Step, SetCandidate, TypeOK, Signatures
  <2> QED BY <2>3, <2>4
<1>2. CASE ApplyCandidate
  BY <1>2 DEF ApplyCandidate, SetHead, TypeOK
<1>3. CASE Tick
  BY <1>3 DEF Tick, TypeOK
<1>4. CASE UNCHANGED vars
  BY <1>4 DEF vars, TypeOK
<1> QED BY <1>1, <1>2, <1>3, <1>4 DEF Next

LEMMA InitHasTypes == Init => TypeOK
<1> SUFFICES ASSUME Init PROVE TypeOK
  OBVIOUS
<1>1. StartHeader.slot \in Slots
  OBVIOUS
<1>2. SecondsPerSlot * StartHeader.slot \in Nat
  BY <1>1 DEF Slots
<1> QED BY <1>1, <1>2 DEF Init, TypeOK, Signatures, Slots

(* The variables keep their types; in particular the signatures of a        *)
(* candidate are never below MIN_SYNC_COMMITTEE_PARTICIPANTS.                *)
THEOREM TypeCorrect == Spec => []TypeOK
<1>1. TypeOK /\ [Next]_vars => TypeOK'
  BY NextKeepsTypes
<1> QED BY <1>1, InitHasTypes, PTL DEF Spec

-----------------------------------------------------------------------------
(* The inductive invariant: applyCandidate stores the header of the         *)
(* candidate under the slot of the candidate, so that the two agree is part *)
(* of it.                                                                   *)
IInv == TypeOK /\ HeadersUpToHead /\ CandidateConsistent

(* step(update) and applyCandidate() write only above the head, where       *)
(* nothing is stored yet.                                                   *)
LEMMA SetHeadPreserves ==
    ASSUME IInv, NEW h \in Headers, h.slot > head, SetHead(h.slot, h)
    PROVE  HeadersUpToHead' /\ headers[h.slot] = NoHeader
<1>1. h.slot \in Slots /\ head \in Slots
  BY DEF IInv, TypeOK
<1>2. headers[h.slot] = NoHeader
  BY <1>1 DEF IInv, HeadersUpToHead, Slots
<1>3. headers'[head'] # NoHeader
  BY <1>1 DEF SetHead, IInv, TypeOK
<1>4. ASSUME NEW s \in Slots, headers'[s] # NoHeader
      PROVE  s <= head' /\ headers'[s].slot = s
  <2>1. CASE s = h.slot
    BY <1>1, <2>1 DEF SetHead, IInv, TypeOK, Slots
  <2>2. CASE s # h.slot
    <3>1. headers'[s] = headers[s]
      BY <2>2 DEF SetHead, IInv, TypeOK
    <3> QED BY <1>1, <1>4, <3>1 DEF SetHead, IInv, HeadersUpToHead, Slots
  <2> QED BY <2>1, <2>2
<1> QED BY <1>2, <1>3, <1>4 DEF HeadersUpToHead

LEMMA NextKeepsStore ==
    ASSUME IInv, [Next]_vars
    PROVE  IInv'
<1> SUFFICES HeadersUpToHead' /\ CandidateConsistent'
  BY NextKeepsTypes DEF IInv
<1>1. ASSUME NEW u \in Updates, Step(u)
      PROVE  HeadersUpToHead' /\ CandidateConsistent'
  <2>1. ActiveHeader(u) \in Headers /\ ActiveHeader(u).slot > head
    BY <1>1, ActiveHeaderType DEF Step, NewerThanHead
  <2>2. CASE SupermajorityFinal(u)
    <3>1. HeadersUpToHead'
      BY <1>1, <2>1, <2>2, SetHeadPreserves DEF Step
    <3>2. CandidateConsistent'
      BY <1>1, <2>2 DEF Step, IInv, CandidateConsistent
    <3> QED BY <3>1, <3>2
  <2>3. CASE ~SupermajorityFinal(u)
    <3>1. HeadersUpToHead'
      BY <1>1, <2>3 DEF Step, IInv, HeadersUpToHead
    <3>2. CandidateConsistent'
      BY <1>1, <2>3 DEF Step, SetCandidate, CandidateConsistent
    <3> QED BY <3>1, <3>2
  <2> QED BY <2>2, <2>3
<1>2. CASE ApplyCandidate
  <2>1. bestValidUpdate.header \in Headers
    BY <1>2 DEF ApplyCandidate, IInv, TypeOK
  <2>2. bestValidUpdate.slot = bestValidUpdate.header.slot
    BY <1>2 DEF ApplyCandidate, IInv, CandidateConsistent
  <2>3. HeadersUpToHead'
    BY <1>2, <2>1, <2>2, SetHeadPreserves DEF ApplyCandidate, CandidateAhead
  <2>4. CandidateConsistent'
    BY <1>2 DEF ApplyCandidate, IInv, CandidateConsistent
  <2> QED BY <2>3, <2>4
<1>3. CASE Tick
  BY <1>3 DEF Tick, IInv, TypeOK, HeadersUpToHead, CandidateConsistent
<1>4. CASE UNCHANGED vars
  BY <1>4 DEF vars, IInv, HeadersUpToHead, CandidateConsistent
<1> QED BY <1>1, <1>2, <1>3, <1>4 DEF Next

(* The store never holds a header above head, nor under a foreign slot.     *)
THEOREM StoreInvariant == Spec => []IInv
<1>1. Init => IInv
  BY InitHasTypes DEF Init, IInv, HeadersUpToHead, CandidateConsistent, Slots
<1>2. IInv /\ [Next]_vars => IInv'
  BY NextKeepsStore
<1> QED BY <1>1, <1>2, PTL DEF Spec

(* Nothing is stored above the head or under the slot of another header.    *)
THEOREM StoreIsOrdered == Spec => []HeadersUpToHead
<1>1. IInv => HeadersUpToHead
  BY DEF IInv
<1> QED BY <1>1, StoreInvariant, PTL

-----------------------------------------------------------------------------
(* Neither the head nor the clock goes back.                                *)
LEMMA NextGoesForward ==
    ASSUME TypeOK, [Next]_vars
    PROVE  /\ head <= head'
           /\ CurSlot <= CurSlot' /\ CurSlot \in Nat /\ CurSlot' \in Nat
<1>1. head \in Int /\ now \in Nat /\ now' \in Nat
  BY NextKeepsTypes DEF TypeOK, Slots
<1>2. head <= head' /\ now <= now'
  <2>1. ASSUME NEW u \in Updates, Step(u) PROVE head <= head' /\ now <= now'
    <3>1. ActiveHeader(u).slot \in Int /\ ActiveHeader(u).slot > head
      BY <2>1, ActiveHeaderType DEF Step, NewerThanHead, Slots
    <3> QED BY <1>1, <2>1, <3>1 DEF Step, SetHead
  <2>2. CASE ApplyCandidate
    BY <1>1, <2>2 DEF ApplyCandidate, CandidateAhead, SetHead, TypeOK, Slots
  <2>3. CASE Tick
    BY <1>1, <2>3 DEF Tick, TypeOK
  <2>4. CASE UNCHANGED vars
    BY <1>1, <2>4 DEF vars
  <2> QED BY <2>1, <2>2, <2>3, <2>4 DEF Next
<1>3. /\ now \div SecondsPerSlot <= now' \div SecondsPerSlot
      /\ now \div SecondsPerSlot \in Nat /\ now' \div SecondsPerSlot \in Nat
  BY <1>1, <1>2, DivMonotone
<1> QED BY <1>2, <1>3 DEF CurSlot

(* Neither the head nor the candidate is ever of a slot that has not begun. *)
THEOREM NeverFromFuture == Spec => []NothingFromFuture
<1>1. Init => NothingFromFuture
  <2> SUFFICES ASSUME Init PROVE NothingFromFuture
    OBVIOUS
  <2>1. /\ head \in Nat /\ now \in Nat /\ SecondsPerSlot * head <= now
        /\ bestValidUpdate.slot = 0
    <3>1. StartHeader.slot \in Nat
      BY DEF Slots
    <3>2. SecondsPerSlot * StartHeader.slot \in Nat
      BY <3>1
    <3> QED BY <3>1, <3>2 DEF Init
  <2>2. head <= CurSlot
    BY <2>1, DivOfMultiple DEF CurSlot
  <2>3. bestValidUpdate.slot <= CurSlot
    BY <2>1, <2>2, SMTT(30) DEF CurSlot
  <2> QED BY <2>2, <2>3 DEF NothingFromFuture
<1>2. TypeOK /\ TypeOK' /\ NothingFromFuture /\ [Next]_vars => NothingFromFuture'
  <2> SUFFICES ASSUME TypeOK, TypeOK', NothingFromFuture, [Next]_vars
               PROVE  NothingFromFuture'
    OBVIOUS
  <2>1. ASSUME NEW u \in Updates, Step(u) PROVE NothingFromFuture'
    <3>1. CurSlot' = CurSlot /\ ActiveHeader(u).slot <= CurSlot
      BY <2>1 DEF Step, CurSlot, NotFromFuture
    <3>2. CASE SupermajorityFinal(u)
      BY <2>1, <3>1, <3>2 DEF Step, SetHead, NothingFromFuture
    <3>3. CASE ~SupermajorityFinal(u)
      BY <2>1, <3>1, <3>3 DEF Step, SetCandidate, NothingFromFuture
    <3> QED BY <3>2, <3>3
  <2>2. CASE ApplyCandidate
    BY <2>2 DEF ApplyCandidate, SetHead, NothingFromFuture, CurSlot
  <2>3. CASE Tick
    <3>1. head' = head /\ bestValidUpdate'.slot = bestValidUpdate.slot
          /\ head \in Int /\ bestValidUpdate.slot \in Int
      BY <2>3 DEF Tick, TypeOK, Slots
    <3>2. head <= CurSlot /\ bestValidUpdate.slot <= CurSlot
      BY DEF NothingFromFuture
    <3>3. head <= CurSlot' /\ bestValidUpdate.slot <= CurSlot'
      <4>1. CurSlot <= CurSlot' /\ CurSlot \in Nat /\ CurSlot' \in Nat
        BY NextGoesForward
      <4> HIDE DEF CurSlot
      <4> QED BY ONLY <3>1, <3>2, <4>1
    <3> QED BY <3>1, <3>3 DEF NothingFromFuture
  <2>4. CASE UNCHANGED vars
    BY <2>4 DEF vars, NothingFromFuture, CurSlot
  <2> QED BY <2>1, <2>2, <2>3, <2>4 DEF Next
<1> QED BY <1>1, <1>2, TypeCorrect, PTL DEF Spec

-----------------------------------------------------------------------------
(* The light client implements the append-only header store its readers     *)
(* rely on: an entry of headers is written once and head only grows.        *)
THEOREM LightClientImplementsHeaderStore == Spec => ImplementsHeaderStore
<1>1. Init => Store!Init
  BY DEF Init, Store!Init
<1>2. IInv /\ [Next]_vars => [Store!Next]_(Store!vars)
  <2> SUFFICES ASSUME IInv, [Next]_vars PROVE [Store!Next]_(Store!vars)
    OBVIOUS
  <2>1. ASSUME NEW u \in Updates, Step(u) PROVE [Store!Next]_(Store!vars)
    <3>1. ActiveHeader(u) \in Headers /\ ActiveHeader(u).slot > head
      BY <2>1, ActiveHeaderType DEF Step, NewerThanHead
    <3>2. CASE SupermajorityFinal(u)
      <4>1. SetHead(ActiveHeader(u).slot, ActiveHeader(u))
        BY <2>1, <3>2 DEF Step
      <4>2. Store!Publish(ActiveHeader(u))
        BY <3>1, <4>1, SetHeadPreserves DEF Store!Publish, SetHead
      <4> QED BY <3>1, <4>2 DEF Store!Next
    <3>3. CASE ~SupermajorityFinal(u)
      BY <2>1, <3>3 DEF Step, Store!vars
    <3> QED BY <3>2, <3>3
  <2>2. CASE ApplyCandidate
    <3>1. bestValidUpdate.header \in Headers
      BY <2>2 DEF ApplyCandidate, IInv, TypeOK
    <3>2. bestValidUpdate.slot = bestValidUpdate.header.slot
      BY <2>2 DEF ApplyCandidate, IInv, CandidateConsistent
    <3>3. Store!Publish(bestValidUpdate.header)
      BY <2>2, <3>1, <3>2, SetHeadPreserves
      DEF ApplyCandidate, CandidateAhead, SetHead, Store!Publish
    <3> QED BY <3>1, <3>3 DEF Store!Next
  <2>3. CASE Tick
    BY <2>3 DEF Tick, Store!vars
  <2>4. CASE UNCHANGED vars
    BY <2>4 DEF vars, Store!vars
  <2> QED BY <2>1, <2>2, <2>3, <2>4 DEF Next
<1> QED BY <1>1, <1>2, StoreInvariant, PTL DEF Spec, ImplementsHeaderStore, Store!Spec

-----------------------------------------------------------------------------
(* Two thirds of an honest committee vouch for the attested header.         *)
LEMMA StepAttested ==
    ASSUME NEW u \in Updates, Step(u), SupermajorityFinal(u), HonestHead
    PROVE  u.attested \in Honest
<1> USE FaultAssumption
<1>1. u.committee \in HonestCommittee
  <2>1. CommitteeIndex(u) \in {0, 1} /\ headers[head] \in Honest
    BY DEF Step, SignaturePeriodKnown, HonestHead
  <2>2. CASE CommitteeIndex(u) = 0
    BY <2>1, <2>2 DEF Step, CommitteeProven
  <2>3. CASE CommitteeIndex(u) = 1
    BY <2>1, <2>3 DEF Step, CommitteeProven
  <2> QED BY <2>1, <2>2, <2>3
<1> DEFINE a == [attested |-> u.attested, committee |-> u.committee, count |-> u.count]
<1>2. a \in Aggregates
  BY UpdateFields
<1>3. a.committee \in HonestCommittee /\ 3 * a.count >= 2 * CommitteeSize
  BY <1>1 DEF SupermajorityFinal
<1>4. a.attested \in Honest
  BY ONLY <1>2, <1>3, FaultAssumption
<1> QED BY <1>4

(* What step stores is final: it is in the state of the attested header.    *)
LEMMA StepFinal ==
    ASSUME NEW u \in Updates, Step(u), SupermajorityFinal(u), HonestHead
    PROVE  ActiveHeader(u) \in Canonical
<1>1. u.attested \in Honest
  BY StepAttested
<1>2. u.finalized \in Canonical
  <2>1. FinalizedCheckpoint[u.attested] = u.finalized /\ u.finalized # NoHeader
    BY DEF Step, FinalityProven, SupermajorityFinal, HasFinalityProof
  <2> QED BY <1>1, <2>1, FaultAssumption
<1> QED BY <1>2 DEF ActiveHeader, SupermajorityFinal, HasFinalityProof

(* From an honest head, only applyCandidate can store what is not final.    *)
THEOREM StepIsFinal == Spec => StepInstallsFinalOnly
<1> DEFINE A == HonestHead /\ head' # head =>
                    \/ headers'[head'] \in Canonical
                    \/ headers'[head'] = bestValidUpdate.header
<1>1. IInv /\ [Next]_vars => [A]_vars
  <2> SUFFICES ASSUME IInv, Next, HonestHead, head' # head PROVE A
    BY DEF vars
  <2>1. ASSUME NEW u \in Updates, Step(u) PROVE A
    <3>1. SupermajorityFinal(u)
      BY <2>1 DEF Step
    <3>2. headers'[head'] = ActiveHeader(u)
      BY <2>1, <3>1, ActiveHeaderType DEF Step, SetHead, IInv, TypeOK
    <3> QED BY <2>1, <3>1, <3>2, StepFinal
  <2>2. CASE ApplyCandidate
    BY <2>2 DEF ApplyCandidate, SetHead, IInv, TypeOK
  <2>3. CASE Tick
    BY <2>3 DEF Tick
  <2> QED BY <2>1, <2>2, <2>3 DEF Next
<1> QED BY <1>1, StoreInvariant, PTL DEF Spec, StepInstallsFinalOnly

(* As long as applyCandidate is never called, the store is a part of the    *)
(* finalized chain.                                                         *)
THEOREM UnforcedIsCanonical == UnforcedSpec => []OnlyCanonicalStored
<1> DEFINE J == IInv /\ OnlyCanonicalStored
<1>1. UnforcedSpec => Spec
  <2>1. [NextWithoutForcedUpdate]_vars => [Next]_vars
    BY DEF NextWithoutForcedUpdate, Next
  <2> QED BY <2>1, PTL DEF UnforcedSpec, Spec
<1>2. Init /\ StartHeader \in Canonical => OnlyCanonicalStored
  BY DEF Init, OnlyCanonicalStored
<1>3. J /\ [NextWithoutForcedUpdate]_vars => OnlyCanonicalStored'
  <2> SUFFICES ASSUME J, [NextWithoutForcedUpdate]_vars PROVE OnlyCanonicalStored'
    OBVIOUS
  <2>1. ASSUME NEW u \in Updates, Step(u) PROVE OnlyCanonicalStored'
    <3>1. HonestHead
      BY FaultAssumption DEF HonestHead, IInv, TypeOK, HeadersUpToHead, OnlyCanonicalStored
    <3>2. CASE SupermajorityFinal(u)
      <4>1. ActiveHeader(u) \in Canonical
        BY <2>1, <3>1, <3>2, StepFinal
      <4>2. headers' = [headers EXCEPT ![ActiveHeader(u).slot] = ActiveHeader(u)]
        BY <2>1, <3>2 DEF Step, SetHead
      <4> QED BY <4>1, <4>2 DEF IInv, TypeOK, OnlyCanonicalStored
    <3>3. CASE ~SupermajorityFinal(u)
      BY <2>1, <3>3 DEF Step, OnlyCanonicalStored
    <3> QED BY <3>2, <3>3
  <2>2. CASE Tick
    BY <2>2 DEF Tick, OnlyCanonicalStored
  <2>3. CASE UNCHANGED vars
    BY <2>3 DEF vars, OnlyCanonicalStored
  <2> QED BY <2>1, <2>2, <2>3 DEF NextWithoutForcedUpdate
<1> QED BY <1>1, <1>2, <1>3, StoreInvariant, PTL DEF UnforcedSpec

-----------------------------------------------------------------------------
(* The header that step stores is at most one period above an honest head:  *)
(* the committee of the head's state that signed it is for this period or   *)
(* the next, whatever period the caller claims, and two thirds of it do not *)
(* sign ahead.                                                              *)
LEMMA StepWithinPeriods ==
    ASSUME IInv, NEW u \in Updates, Step(u), SupermajorityFinal(u), HonestHead
    PROVE  SyncCommitteePeriod(ActiveHeader(u).slot) <= SyncCommitteePeriod(head) + 1
<1>1. headers[head] \in Honest /\ headers[head].slot = head
  BY DEF IInv, TypeOK, HeadersUpToHead, HonestHead
<1>2. PICK i \in {0, 1} : u.committee = Committees[headers[head]][i + 1]
  BY DEF Step, SignaturePeriodKnown, CommitteeProven
<1>3. SyncCommitteePeriod(u.attested.slot) <= SyncCommitteePeriod(head) + i
  <2> DEFINE a == [attested |-> u.attested, committee |-> u.committee, count |-> u.count]
  <2>1. /\ a \in Aggregates /\ a.committee = Committees[headers[head]][i + 1]
        /\ 3 * a.count >= 2 * CommitteeSize
    BY <1>2, UpdateFields DEF SupermajorityFinal
  <2>2. SyncCommitteePeriod(a.attested.slot) <= SyncCommitteePeriod(headers[head].slot) + i
    BY ONLY <1>1, <1>2, <2>1, HonestClockAssumption
  <2> QED BY <1>1, <2>2
<1>4. ActiveHeader(u).slot <= u.attested.slot
  <2>1. /\ u.finalized = FinalizedCheckpoint[u.attested] /\ u.finalized # NoHeader
        /\ ActiveHeader(u) = u.finalized
    BY DEF Step, FinalityProven, SupermajorityFinal, HasFinalityProof, ActiveHeader
  <2> QED BY <2>1, StepAttested, HonestClockAssumption
<1>5. ActiveHeader(u).slot \in Nat /\ u.attested.slot \in Nat /\ head \in Nat
  <2>1. /\ u.attested \in Headers /\ u.attested.slot \in Slots
        /\ ActiveHeader(u).slot \in Slots /\ head \in Slots
    BY UpdateFields, ActiveHeaderType DEF IInv, TypeOK
  <2> QED BY <2>1 DEF Slots
<1>6. /\ SyncCommitteePeriod(ActiveHeader(u).slot) <= SyncCommitteePeriod(u.attested.slot)
      /\ SyncCommitteePeriod(ActiveHeader(u).slot) \in Nat
      /\ SyncCommitteePeriod(u.attested.slot) \in Nat
      /\ SyncCommitteePeriod(head) \in Nat
  BY <1>4, <1>5, PeriodsAreOrdered
<1> QED BY ONLY <1>2, <1>3, <1>6

LEMMA StepSkipsNothing ==
    ASSUME IInv, HonestHead, (\E u \in Updates : Step(u)) \/ head' = head
    PROVE  SyncCommitteePeriod(head') - SyncCommitteePeriod(head) \in {0, 1}
<1>1. head \in Nat /\ SyncCommitteePeriod(head) \in Nat
  <2>1. head \in Nat
    BY DEF IInv, TypeOK, Slots
  <2> QED BY <2>1, PeriodsAreOrdered
<1>2. ASSUME NEW u \in Updates, Step(u), SupermajorityFinal(u)
      PROVE  SyncCommitteePeriod(head') - SyncCommitteePeriod(head) \in {0, 1}
  <2>1. head' = ActiveHeader(u).slot /\ head' > head
    BY <1>2 DEF Step, SetHead, NewerThanHead
  <2>2. head' \in Nat
    BY <1>2, <2>1, ActiveHeaderType DEF Slots
  <2>3. SyncCommitteePeriod(head') \in Nat /\ SyncCommitteePeriod(head) <= SyncCommitteePeriod(head')
    BY <1>1, <2>1, <2>2, PeriodsAreOrdered
  <2>4. SyncCommitteePeriod(head') <= SyncCommitteePeriod(head) + 1
    BY <1>2, <2>1, StepWithinPeriods
  <2> QED BY <1>1, <2>3, <2>4
<1>3. CASE head' = head
  BY <1>1, <1>3
<1>4. ASSUME NEW u \in Updates, Step(u), ~SupermajorityFinal(u) PROVE head' = head
  BY <1>4 DEF Step
<1> QED BY <1>2, <1>3, <1>4

(* From an honest head, step reaches no further than the next period,       *)
(* whichever committee a caller's signature slot selects and whatever fewer *)
(* than two thirds of it have signed; only applyCandidate may.              *)
THEOREM OnlyForcedUpdatesSkip == Spec => OnlyForcedUpdateSkips
<1> DEFINE A == HonestHead /\ ~ApplyCandidate =>
                    SyncCommitteePeriod(head') - SyncCommitteePeriod(head) \in {0, 1}
<1>1. IInv /\ [Next]_vars => [A]_vars
  <2> SUFFICES ASSUME IInv, Next, HonestHead, ~ApplyCandidate
               PROVE  SyncCommitteePeriod(head') - SyncCommitteePeriod(head) \in {0, 1}
    BY DEF vars
  <2>1. (\E u \in Updates : Step(u)) \/ head' = head
    BY DEF Next, Tick
  <2> QED BY <2>1, StepSkipsNothing
<1>2. QED BY <1>1, StoreInvariant, PTL DEF Spec, OnlyForcedUpdateSkips

(* As long as applyCandidate is never called, the contract uses the         *)
(* committees one after the other and leaves none out.                      *)
THEOREM UnforcedSkipsNothing == UnforcedSpec => PeriodAdvancesByOne
<1> DEFINE A == SyncCommitteePeriod(head') - SyncCommitteePeriod(head) \in {0, 1}
<1>1. IInv /\ OnlyCanonicalStored /\ [NextWithoutForcedUpdate]_vars => [A]_vars
  <2> SUFFICES ASSUME IInv, OnlyCanonicalStored, NextWithoutForcedUpdate PROVE A
    BY DEF vars
  <2>1. HonestHead
    BY FaultAssumption DEF HonestHead, IInv, TypeOK, HeadersUpToHead, OnlyCanonicalStored
  <2>2. (\E u \in Updates : Step(u)) \/ head' = head
    BY DEF NextWithoutForcedUpdate, Tick
  <2> QED BY <2>1, <2>2, StepSkipsNothing
<1>2. UnforcedSpec => Spec
  <2>1. [NextWithoutForcedUpdate]_vars => [Next]_vars
    BY DEF NextWithoutForcedUpdate, Next
  <2> QED BY <2>1, PTL DEF UnforcedSpec, Spec
<1>3. UnforcedSpec => [][NextWithoutForcedUpdate]_vars
  BY PTL DEF UnforcedSpec
<1> QED BY <1>1, <1>2, <1>3, StoreInvariant, UnforcedIsCanonical, PTL DEF PeriodAdvancesByOne

-----------------------------------------------------------------------------
(* The timeout of a candidate and the time that it stood add up; the        *)
(* candidate is the best offer, and there is an offer only with a candidate.*)
HistoryTypeOK == stood \in 0..(UpdateTimeout + 1) /\ bestOffer \in Int
StoodMatchesTimeout ==
    bestValidUpdate.header # NoHeader => bestValidUpdate.timeout + stood >= UpdateTimeout
CandidateIsBestOffer ==
    IF CandidateAhead THEN bestValidUpdate.signatures >= bestOffer ELSE bestOffer = 0
HistoryInv == TypeOK /\ HistoryTypeOK /\ StoodMatchesTimeout /\ CandidateIsBestOffer

LEMMA HistoryStepKeepsInv ==
    ASSUME HistoryInv, NEW u \in Updates, HistoryStep(u)
    PROVE  HistoryTypeOK' /\ StoodMatchesTimeout' /\ CandidateIsBestOffer'
<1>1. /\ u.count \in Nat /\ ActiveHeader(u).slot \in Int /\ ActiveHeader(u).slot > head
      /\ head \in Int /\ bestValidUpdate.slot \in Int /\ bestValidUpdate.signatures \in Int
  <2>1. u.count \in 1..CommitteeSize
    BY UpdateFields
  <2>2. ActiveHeader(u).slot \in Slots
    BY ActiveHeaderType
  <2>3. ActiveHeader(u).slot > head
    BY DEF HistoryStep, Step, NewerThanHead
  <2>4. head \in Slots /\ bestValidUpdate.slot \in Slots
        /\ bestValidUpdate.signatures \in Signatures
    BY DEF HistoryInv, TypeOK
  <2> QED BY <2>1, <2>2, <2>3, <2>4 DEF Slots, Signatures
<1>2. CASE SupermajorityFinal(u)
  <2>1. head' = ActiveHeader(u).slot /\ bestValidUpdate' = bestValidUpdate
    BY <1>2 DEF HistoryStep, Step, SetHead
  <2>2. bestOffer' = 0 /\ stood' = stood
    BY <1>1, <2>1 DEF HistoryStep
  <2>3. CandidateIsBestOffer'
    <3>1. CASE CandidateAhead'
      BY <1>1, <2>1, <2>2, <3>1, CommitteeAssumption
      DEF HistoryInv, TypeOK, Signatures, CandidateIsBestOffer, CandidateAhead
    <3> QED BY <2>2, <3>1 DEF CandidateIsBestOffer
  <2> QED BY <2>1, <2>2, <2>3 DEF HistoryInv, HistoryTypeOK, StoodMatchesTimeout
<1>3. CASE ~SupermajorityFinal(u)
  <2>1. /\ head' = head /\ bestValidUpdate'.slot = ActiveHeader(u).slot
        /\ bestValidUpdate'.signatures = u.count /\ bestValidUpdate'.timeout = UpdateTimeout
        /\ CandidateAhead => u.count > bestValidUpdate.signatures
    BY <1>3 DEF HistoryStep, Step, SetCandidate, BeatsCandidate, CandidateAhead
  <2>2. stood' = 0 /\ bestOffer' = IF u.count > bestOffer THEN u.count ELSE bestOffer
    BY <1>1, <2>1 DEF HistoryStep
  <2>3. u.count >= bestOffer
    <3>1. bestOffer \in Int /\ CandidateIsBestOffer
      BY DEF HistoryInv, HistoryTypeOK
    <3> QED BY ONLY <1>1, <2>1, <3>1 DEF CandidateIsBestOffer
  <2>4. bestOffer' = u.count /\ u.count \in Int
    BY <1>1, <2>2, <2>3, SMTT(20) DEF HistoryInv, HistoryTypeOK
  <2> QED BY <1>1, <2>1, <2>2, <2>4
          DEF HistoryTypeOK, StoodMatchesTimeout, CandidateIsBestOffer, CandidateAhead
<1> QED BY <1>2, <1>3

LEMMA HistoryInvariant == HistorySpec => []HistoryInv
<1>1. HistoryInit => HistoryInv
  BY InitHasTypes DEF HistoryInit, Init, HistoryInv, HistoryTypeOK, StoodMatchesTimeout,
                      CandidateIsBestOffer, CandidateAhead, TypeOK, Slots
<1>2. HistoryInv /\ [HistoryNext]_historyVars => HistoryInv'
  <2> SUFFICES ASSUME HistoryInv, [HistoryNext]_historyVars PROVE HistoryInv'
    OBVIOUS
  <2>1. TypeOK'
    <3>1. [Next]_vars
      BY DEF HistoryNext, HistoryStep, HistoryApplyCandidate, HistoryTick, historyVars, Next
    <3> QED BY <3>1, NextKeepsTypes DEF HistoryInv
  <2> SUFFICES HistoryTypeOK' /\ StoodMatchesTimeout' /\ CandidateIsBestOffer'
    BY <2>1 DEF HistoryInv
  <2>2. CASE HistoryApplyCandidate
    <3>1. head' = bestValidUpdate.slot /\ bestValidUpdate' = bestValidUpdate
          /\ bestOffer' = 0 /\ stood' = stood /\ bestValidUpdate.slot \in Int
      BY <2>2 DEF HistoryApplyCandidate, ApplyCandidate, SetHead, HistoryInv, TypeOK, Slots
    <3> QED BY <3>1 DEF HistoryInv, HistoryTypeOK, StoodMatchesTimeout,
                        CandidateIsBestOffer, CandidateAhead
  <2>3. CASE HistoryTick
    <3>1. /\ head' = head /\ bestOffer' = bestOffer
          /\ bestValidUpdate'.header = bestValidUpdate.header
          /\ bestValidUpdate'.slot = bestValidUpdate.slot
          /\ bestValidUpdate'.signatures = bestValidUpdate.signatures
          /\ bestValidUpdate.timeout \in -1..UpdateTimeout
          /\ bestValidUpdate'.timeout = IF bestValidUpdate.timeout >= 0
                THEN bestValidUpdate.timeout - 1 ELSE bestValidUpdate.timeout
          /\ stood' = IF stood <= UpdateTimeout THEN stood + 1 ELSE stood
      BY <2>3 DEF HistoryTick, Tick, HistoryInv, TypeOK
    <3>2. HistoryTypeOK' /\ StoodMatchesTimeout'
      BY <3>1 DEF HistoryInv, HistoryTypeOK, StoodMatchesTimeout
    <3>3. CandidateIsBestOffer'
      BY <3>1 DEF HistoryInv, CandidateIsBestOffer, CandidateAhead
    <3> QED BY <3>2, <3>3
  <2>4. CASE UNCHANGED historyVars
    BY <2>4 DEF historyVars, vars, HistoryInv, HistoryTypeOK, StoodMatchesTimeout,
                CandidateIsBestOffer, CandidateAhead
  <2> QED BY <2>2, <2>3, <2>4, HistoryStepKeepsInv DEF HistoryNext
<1> QED BY <1>1, <1>2, PTL DEF HistorySpec

(* Whoever offers what, an update is forced only when it has stood          *)
(* unchanged for more than UPDATE_TIMEOUT.                                  *)
THEOREM ForcedUpdatesHaveStood == HistorySpec => ForcedUpdateHasStood
<1>1. HistoryInv /\ ApplyCandidate => stood > UpdateTimeout
  BY DEF TypeOK, HistoryInv, HistoryTypeOK, StoodMatchesTimeout, ApplyCandidate,
         CandidateTimedOut
<1> QED BY <1>1, HistoryInvariant, PTL DEF ForcedUpdateHasStood

(* Nothing that was accepted since the head last moved had more signatures  *)
(* than the update that is forced.                                          *)
THEOREM ForcedUpdatesAreBest == HistorySpec => ForcedUpdateIsBest
<1>1. HistoryInv /\ ApplyCandidate => bestValidUpdate.signatures >= bestOffer
  BY DEF HistoryInv, CandidateIsBestOffer, ApplyCandidate
<1> QED BY <1>1, HistoryInvariant, PTL DEF ForcedUpdateIsBest
=============================================================================
