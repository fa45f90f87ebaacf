------------------------ MODULE MCLightClientWorker ------------------------
(***************************************************************************)
(* A chain for the worker: nine slots, one of them missed, some blocks     *)
(* signed by fewer than two thirds.                                        *)
(***************************************************************************)
EXTENDS LightClientWorker

MCNoUpdate == [none |-> TRUE]
MCNoHeader == [slot |-> -1]
Main(s) == [slot |-> s]
MCStartHeader == Main(1)
MCHeaders == {Main(s) : s \in {0, 1, 2, 3, 4, 6, 7, 8}}

MCCommittee == 0..5
MCCommittees ==
    [h \in MCHeaders |-> <<h.slot \div SlotsPerPeriod, h.slot \div SlotsPerPeriod + 1>>]

(* Two blocks back, or the first one; nothing yet at genesis.               *)
MCFinalizedCheckpoint ==
    [h \in MCHeaders |-> CASE h.slot = 0 -> MCNoHeader
                           [] h.slot \in {1, 2} -> Main(0)
                           [] h.slot = 6 -> Main(3)
                           [] h.slot = 7 -> Main(4)
                           [] OTHER -> Main(h.slot - 2)]

(* The first block counts as finalized from the start.                     *)
MCFinalizedFromGenesis == [MCFinalizedCheckpoint EXCEPT ![Main(0)] = Main(0)]

(* Nobody signs before the first block; the blocks at 4 and 7 have two of   *)
(* four signers.                                                            *)
MCSigners == [h \in MCHeaders |-> CASE h.slot = 0 -> 0
                                    [] h.slot \in {4, 7} -> 2
                                    [] OTHER -> 3]

MCParent(h) == CHOOSE p \in MCHeaders : /\ p.slot < h.slot
                                        /\ \A q \in MCHeaders : q.slot < h.slot => q.slot <= p.slot
MCAggregates ==
    {[attested |-> MCParent(h), committee |-> MCCommittees[h][1], count |-> MCSigners[h]] :
        h \in MCHeaders \ {Main(0)}}

(* Others send the same updates, and those without a finality proof.        *)
MCOtherUpdates ==
    {u \in Updates : /\ u.signatureSlot \div SlotsPerPeriod = u.committee
                     /\ u.finalized \in {MCNoHeader, MCFinalizedCheckpoint[u.attested]}}
=============================================================================
