--------------------------- MODULE MCOracleProofs ---------------------------
(***************************************************************************)
(* A committee of eight in two words of two bytes, with keys of which some *)
(* are the same; trees of up to six leaves; slots beyond two batches.      *)
(***************************************************************************)
EXTENDS OracleProofs

MCSize == 8
MCMembers == 0..(MCSize - 1)

(* Sums of these tell the keys apart.                                       *)
MCKeys == [k \in 1..MCSize |-> 4 ^ (k - 1)]
MCRepeated == [MCKeys EXCEPT ![3] = MCKeys[6], ![4] = MCKeys[5]]
MCCommittees == {[current |-> MCKeys, next |-> MCRepeated],
                 [current |-> MCRepeated, next |-> Reverse(MCKeys)]}

MCSigners == SUBSET MCMembers

(* At most two members are missing from one of the updates, and the other   *)
(* differs from it in at most two members.                                  *)
MCMixes == UNION {{<<s, SymDiff(s, d)>> : s \in {q \in MCSigners : Cardinality(q) >= 6}} :
                     d \in {q \in MCSigners : Cardinality(q) \in 1..2}}

MCLeaves(len) == [k \in 1..len |-> UintToHash(k)]
MCShapes == {NewVectorMerkleTree(MCLeaves(len)) : len \in 1..6}
            \cup {NewListMerkleTree(MCLeaves(len), limit) : len \in 1..6, limit \in {8, 16}}
            \cup {NewPackedVectorMerkleTree([k \in 1..len |-> k % Base], 2) : len \in 1..6}

MCLists == UNION {[1..len -> {0, 1, 3}] : len \in 0..3}

MCHeaders == [slot : {1, 2, 5}, stateRoot : {1, 2, 5}]
=============================================================================
