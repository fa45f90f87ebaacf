--------------------------- MODULE ForcedUpdates ---------------------------
(***************************************************************************)
(* The light client with a record of its candidates: what applyCandidate() *)
(* promises about the update it forces is about all that were accepted     *)
(* before it.  stood and bestOffer are history variables; they constrain   *)
(* nothing.                                                                *)
(***************************************************************************)
EXTENDS BeaconLightClient

VARIABLES
    stood,      \* seconds since a candidate was last accepted
    bestOffer   \* most signatures of a candidate accepted since head moved

historyVars == <<vars, stood, bestOffer>>

HistoryInit == Init /\ stood = 0 /\ bestOffer = 0

HistoryStep(u) ==
    /\ Step(u)
    /\ IF head' # head
       THEN bestOffer' = 0 /\ UNCHANGED stood
       ELSE /\ stood' = 0
            /\ bestOffer' = IF bestValidUpdate'.slot > head /\ u.count > bestOffer
                            THEN u.count ELSE bestOffer

HistoryApplyCandidate == ApplyCandidate /\ bestOffer' = 0 /\ UNCHANGED stood

HistoryTick ==
    /\ Tick
    /\ stood' = IF stood <= UpdateTimeout THEN stood + 1 ELSE stood
    /\ UNCHANGED bestOffer

HistoryNext ==
    \/ \E u \in Updates : HistoryStep(u)
    \/ HistoryApplyCandidate
    \/ HistoryTick

HistorySpec == HistoryInit /\ [][HistoryNext]_historyVars
FairHistorySpec == HistorySpec /\ Fairness

(* A forced update has stood, as it is, for more than UPDATE_TIMEOUT: every *)
(* replacement of the candidate starts the wait anew.                       *)
ForcedUpdateHasStood == [][ApplyCandidate => stood > UpdateTimeout]_historyVars

(* A forced update has as many signatures as any update accepted since the  *)
(* head last moved, in whatever order they came.                            *)
ForcedUpdateIsBest ==
    [][ApplyCandidate => bestValidUpdate.signatures >= bestOffer]_historyVars
=============================================================================
