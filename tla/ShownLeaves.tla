---------------------------- MODULE ShownLeaves ----------------------------
(***************************************************************************)
(* The multiproof with a record of what it was called with, which the loop *)
(* overwrites: what it means that the root of a tree was restored.  shown  *)
(* is a history variable; it constrains nothing.                           *)
(***************************************************************************)
EXTENDS MultiProof

VARIABLE shown      \* the nodes of the last call, by index and hash

shownVars == <<vars, shown>>

ShownInit == Init /\ shown = <<>>

ShownCall(is, hs, ds) ==
    /\ Call(is, hs, ds)
    /\ shown' = [k \in 1..Len(is) |-> [index |-> is[k], hash |-> hs[k]]]

ShownNext ==
    \/ \E is \in Seq(Nat), hs \in Seq(Hashes), ds \in Seq(Hashes) :
          Len(is) = Len(hs) /\ ShownCall(is, hs, ds)
    \/ Loop /\ UNCHANGED shown
    \/ Take /\ UNCHANGED shown

ShownSpec == ShownInit /\ [][ShownNext]_shownVars

-----------------------------------------------------------------------------
(* The digests that can come up: of numbers, of things that no proof takes  *)
(* apart, and of two digests.                                               *)
ClosedUnderHashing(S) ==
    /\ \A v \in Nat : UintToHash(v) \in S
    /\ \A kind, v \in Int : DigestOf(kind, v) \in S
    /\ \A a, b \in S : HashPair(a, b) \in S
Digests == {h \in Hashes : \A S \in SUBSET Hashes : ClosedUnderHashing(S) => h \in S}

(* The nodes of a tree by their generalized indices: as many leaves as its  *)
(* width, and above them the digests of two children.                       *)
IsTree(tree, width) ==
    /\ tree \in [1..(2 * width - 1) -> Digests]
    /\ \A g \in 1..(width - 1) : tree[g] = HashPair(tree[2 * g], tree[2 * g + 1])

Descending(nodes) ==
    \A j, k \in 1..Len(nodes) : j < k => nodes[j].index > nodes[k].index

(* Leaves from the last to the first, as _aggregateMissingPubkeys counts    *)
(* the missing keys of a committee.                                         *)
AreLeaves(nodes, width) ==
    /\ \A k \in 1..Len(nodes) :
          nodes[k].index \in width..(2 * width - 1) /\ nodes[k].hash \in Digests
    /\ Descending(nodes)

Agree(nodes, tree) == \A k \in 1..Len(nodes) : nodes[k].hash = tree[nodes[k].index]

(* If the root of a tree is restored from leaves, whatever decommitments    *)
(* were sent with them, then they are the leaves of the tree at their       *)
(* places.                                                                  *)
RestoredIsShown(tree, width) ==
    phase = "restored" /\ AreLeaves(shown, width) /\ decommitments \in Seq(Digests)
        /\ root = tree[1]
    => Agree(shown, tree)
=============================================================================
