----------------------- MODULE LightClientConsensus ------------------------
(***************************************************************************)
(* What the light client can rely on when the beacon chain it follows is   *)
(* within its fault assumption, and what it then guarantees: which headers *)
(* may enter the store, and by which of its two doors.                     *)
(***************************************************************************)
EXTENDS BeaconLightClient

CONSTANTS
    Canonical,       \* the headers of the finalized chain
    Honest,          \* headers honest validators have built on, later orphaned ones too
    HonestCommittee  \* committees drawn from the states of honest headers

(* The fault assumption.  Honest validators may sign a header that is       *)
(* orphaned later, in any number; a header they did not see gathers fewer   *)
(* than two thirds of an honest committee; what the state of an honest      *)
(* header calls finalized is final.                                         *)
ASSUME FaultAssumption ==
    /\ Canonical \subseteq Honest /\ Honest \subseteq Headers
    /\ HonestCommittee \subseteq Committee
    /\ \A h \in Honest : /\ Committees[h][1] \in HonestCommittee
                         /\ Committees[h][2] \in HonestCommittee
                         /\ FinalizedCheckpoint[h] \in Canonical \cup {NoHeader}
    /\ \A a \in Aggregates :
         (a.committee \in HonestCommittee /\ 3 * a.count >= 2 * CommitteeSize)
            => a.attested \in Honest

(* Honest validators keep to the clock: two thirds of a committee from the  *)
(* state of an honest header sign nothing above the period that it is for,  *)
(* and such a state calls nothing final that is above it.  Of what fewer    *)
(* signers sign, and of other committees, nothing is assumed.               *)
ASSUME HonestClockAssumption ==
    /\ \A a \in Aggregates, h \in Honest, i \in {0, 1} :
          a.committee = Committees[h][i + 1] /\ 3 * a.count >= 2 * CommitteeSize =>
              SyncCommitteePeriod(a.attested.slot) <= SyncCommitteePeriod(h.slot) + i
    /\ \A h \in Honest : FinalizedCheckpoint[h] # NoHeader =>
          FinalizedCheckpoint[h].slot <= h.slot

(* A forced update is the only door through which a header that is not      *)
(* final can come in: from an honest head, step installs canonical headers  *)
(* only, whoever submits whatever update.                                   *)
HonestHead == headers[head] \in Honest

StepInstallsFinalOnly ==
    [][HonestHead /\ head' # head =>
           \/ headers'[head'] \in Canonical
           \/ headers'[head'] = bestValidUpdate.header]_vars

(* Nor does step skip a sync committee from an honest head, though what     *)
(* chooses the committee is the signature slot, which the caller claims and *)
(* nobody has signed: a few of its members may have signed a header of any  *)
(* later period.  A forced update may go there; step must not.              *)
OnlyForcedUpdateSkips ==
    [][HonestHead /\ ~ApplyCandidate =>
           SyncCommitteePeriod(head') - SyncCommitteePeriod(head) \in {0, 1}]_vars

(* Without forced updates (the bridge's normal operation) everything in the *)
(* store is canonical, and no committee is skipped.                         *)
NextWithoutForcedUpdate == (\E u \in Updates : Step(u)) \/ Tick
UnforcedSpec == Init /\ StartHeader \in Canonical /\ [][NextWithoutForcedUpdate]_vars

OnlyCanonicalStored ==
    \A s \in Slots : headers[s] # NoHeader => headers[s] \in Canonical

PeriodAdvancesByOne ==
    [][SyncCommitteePeriod(head') - SyncCommitteePeriod(head) \in {0, 1}]_vars
=============================================================================
