------------------------- MODULE MCFindBeaconBlock -------------------------
(***************************************************************************)
(* All chains over a few slots: any of them missed, the merge anywhere.    *)
(***************************************************************************)
EXTENDS FindBeaconBlock, FiniteSets

(* Chain with the given blocks, the first k of them before the merge.       *)
MCChain(blocks, k) ==
    [q \in First..Last |->
        LET n == Cardinality({b \in blocks : b <= q})
        IN  IF q \notin blocks THEN -1 ELSE IF n <= k THEN 0 ELSE n]

MCChains == {MCChain(blocks, k) : blocks \in SUBSET (First..Last), k \in {0, 1, 3}}

(* Post-merge chains with no more than two slots missed.                    *)
MCFullChains ==
    {MCChain(blocks, 0) : blocks \in {b \in SUBSET (First..Last) :
        First \in b /\ Cardinality(b) >= Last - First - 1}}

MCTargets == 1..(Last - First + 2)
=============================================================================
