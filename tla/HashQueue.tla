----------------------------- MODULE HashQueue -----------------------------
(***************************************************************************)
(* What restoring a root from a multiproof promises: a queue of nodes of a *)
(* Merkle tree, taken from the front and replaced by their parents at the  *)
(* back until the root comes to the front.  It is the loop of              *)
(* MerkleMultiProof.ReconstructRoot of oracle/crypto: its slices only      *)
(* grow, and the queue is what lies between its head and its tail.         *)
(***************************************************************************)
EXTENDS Digest

VARIABLES
    phase,      \* "idle", "loop", "restored" or "reverted"
    queue,      \* the nodes to be hashed: records of an index and a hash
    siblings,   \* the decommitments that are left
    root        \* the digest restored last

vars == <<phase, queue, siblings, root>>

NoRoot == <<>>

Init ==
    /\ phase = "idle"
    /\ queue = <<>> /\ siblings = <<>>
    /\ root = NoRoot

Nodes == [index : Nat, hash : Hashes]

(* The call.  A tree none of whose leaves is shown is its own sibling.      *)
Call ==
    /\ phase = "idle"
    /\ queue' \in Seq(Nodes)
    /\ siblings' \in Seq(Hashes)
    /\ IF queue' # <<>> THEN phase' = "loop" /\ root' = NoRoot
       ELSE IF siblings' # <<>> THEN phase' = "restored" /\ root' = siblings'[1]
       ELSE phase' = "reverted" /\ root' = NoRoot

BelowRoot(node) == node.index # 1
IsLeft(node) == node.index % 2 = 0

(* The next in the queue is the left sibling of the first.                  *)
SiblingIsNext ==
    Len(queue) > 1 /\ queue[2].index = queue[1].index - 1

Parent(hash) == [index |-> queue[1].index \div 2, hash |-> hash]

Restored ==
    /\ phase = "loop" /\ ~BelowRoot(queue[1])
    /\ phase' = "restored"
    /\ root' = queue[1].hash
    /\ UNCHANGED <<queue, siblings>>

HashLeft ==
    /\ phase = "loop" /\ BelowRoot(queue[1]) /\ IsLeft(queue[1]) /\ siblings # <<>>
    /\ queue' = Append(Tail(queue), Parent(HashPair(queue[1].hash, siblings[1])))
    /\ siblings' = Tail(siblings)
    /\ UNCHANGED <<phase, root>>

HashBoth ==
    /\ phase = "loop" /\ BelowRoot(queue[1]) /\ ~IsLeft(queue[1]) /\ SiblingIsNext
    /\ queue' = Append(Tail(Tail(queue)),
                       Parent(HashPair(queue[2].hash, queue[1].hash)))
    /\ UNCHANGED <<phase, siblings, root>>

HashRight ==
    /\ phase = "loop" /\ BelowRoot(queue[1]) /\ ~IsLeft(queue[1]) /\ ~SiblingIsNext
    /\ siblings # <<>>
    /\ queue' = Append(Tail(queue), Parent(HashPair(siblings[1], queue[1].hash)))
    /\ siblings' = Tail(siblings)
    /\ UNCHANGED <<phase, root>>

(* A decommitment that is not there: an index out of range.                 *)
OutOfSiblings ==
    /\ phase = "loop" /\ BelowRoot(queue[1])
    /\ IsLeft(queue[1]) \/ ~SiblingIsNext
    /\ siblings = <<>>
    /\ phase' = "reverted"
    /\ UNCHANGED <<queue, siblings, root>>

Loop == Restored \/ HashLeft \/ HashBoth \/ HashRight \/ OutOfSiblings

(* The caller has the result.                                               *)
Take ==
    /\ phase \in {"restored", "reverted"}
    /\ phase' = "idle"
    /\ queue' = <<>> /\ siblings' = <<>>
    /\ root' = NoRoot

Next == Call \/ Loop \/ Take

Spec == Init /\ [][Next]_vars
=============================================================================
