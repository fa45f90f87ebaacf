------------------------ MODULE MCBeaconLightClient ------------------------
(***************************************************************************)
(* A beacon chain for the light client: eight slots in three sync committee *)
(* periods, two of them missed, an orphaned header, and two rogue headers  *)
(* that a faulty minority of every committee signs, two periods ahead if    *)
(* need be.  The second period never reaches two thirds: it can be crossed  *)
(* by forced updates only.                                                  *)
(***************************************************************************)
EXTENDS LightClientConsensus, ForcedUpdates

Header(slot, branch) == [slot |-> slot, branch |-> branch]
Main(slot) == Header(slot, "main")

MCNoHeader == Header(-1, "none")
MCStartHeader == Main(0)
MCCanonical == {Main(s) : s \in {0, 2, 3, 5, 6, 7}}
MCOrphan == Header(5, "orphan")
MCHonest == MCCanonical \cup {MCOrphan}
MCRogue == {Header(6, "rogue"), Header(7, "rogue")}
MCHeaders == MCHonest \cup MCRogue

MCSlotsPerPeriod == 3
MCPeriod(slot) == slot \div MCSlotsPerPeriod

(* A committee is known by its period, and by the branch that elected it.  *)
(* The orphan is shorter than a period, so its committees are the main     *)
(* chain's.                                                                *)
MCLineage(h) == IF h \in MCRogue THEN "rogue" ELSE "main"
MCCommittee == {"main", "rogue"} \X (0..4)
MCHonestCommittee == {"main"} \X (0..4)
MCCommittees ==
    [h \in MCHeaders |-> <<<<MCLineage(h), MCPeriod(h.slot)>>,
                           <<MCLineage(h), MCPeriod(h.slot) + 1>>>>]

MCFinalizedCheckpoint ==
    [h \in MCHeaders |->
        CASE h.branch = "main" /\ h.slot >= 3 -> Main(IF h.slot = 5 THEN 3 ELSE h.slot - 1)
          [] h = MCOrphan -> Main(3)
          [] h = Header(7, "rogue") -> Header(6, "rogue")
          [] OTHER -> MCNoHeader]

(* A header is signed in the slot after it, or in a later one when slots    *)
(* are missed; here by the committee of the slot after it.  Two of four     *)
(* signers are too few for a final update, three are enough, and the second *)
(* committee never reaches them.                                            *)
MCSignedBy(h) == <<"main", MCPeriod(h.slot + 1)>>
Signed(h, committee, count) ==
    [attested |-> h, committee |-> committee, count |-> count]

MCAggregates ==
    {Signed(h, MCSignedBy(h), 2) : h \in MCHonest}
    \cup {Signed(h, <<"main", period>>, 2) : h \in MCRogue, period \in 0..2}
    \cup {Signed(h, MCSignedBy(h), 3) : h \in {g \in MCHonest : MCPeriod(g.slot + 1) # 1}}
    \cup {Signed(h, <<"rogue", MCPeriod(h.slot + 1)>>, 3) : h \in MCRogue}
    \cup {Signed(Main(2), MCSignedBy(Main(2)), 1)}

-----------------------------------------------------------------------------
(* A candidate does not wait for ever: the updates that replace it, and     *)
(* start its timeout again, have more signatures each time.                 *)
CandidateResolved == CandidateAhead ~> ~CandidateAhead

(* The client catches up with the chain, through the period that can be     *)
(* crossed by forced updates only: head reaches the last slot that can be   *)
(* finalized.                                                               *)
CatchesUp == <>[](head >= 6)
=============================================================================
