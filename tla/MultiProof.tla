----------------------------- MODULE MultiProof -----------------------------
(***************************************************************************)
(* Merkle.restoreMerkleMultiRoot of contracts/light_client: the root of a  *)
(* Merkle tree from some of its leaves and the siblings missing on their   *)
(* way up.  The loop works in place: the two arrays it was called with are *)
(* a circular queue, nodes are read at head and their parents written at   *)
(* tail.  The arrays come from one function of the contract, which makes   *)
(* them of the same length.                                                *)
(***************************************************************************)
EXTENDS Digest

VARIABLES
    phase,              \* "idle", "loop", "restored" or "reverted"
    n,                  \* the length of the arrays
    indices, hashes,    \* the arrays, from 0
    decommitments,      \* the siblings that the prover sends
    head, tail, di,     \* the loop's positions
    root                \* what the last call has returned

vars == <<phase, n, indices, hashes, decommitments, head, tail, di, root>>

calldata == <<n, decommitments>>

NoRoot == <<>>

Init ==
    /\ phase = "idle"
    /\ n = 0 /\ indices = <<>> /\ hashes = <<>> /\ decommitments = <<>>
    /\ head = 0 /\ tail = 0 /\ di = 0
    /\ root = NoRoot

Call(is, hs, ds) ==
    /\ phase = "idle"
    /\ n' = Len(is)
    /\ indices' = [k \in 0..(Len(is) - 1) |-> is[k + 1]]
    /\ hashes' = [k \in 0..(Len(is) - 1) |-> hs[k + 1]]
    /\ decommitments' = ds
    /\ head' = 0 /\ tail' = 0 /\ di' = 0
    /\ IF is # <<>> THEN phase' = "loop" /\ root' = NoRoot
       ELSE IF ds # <<>> THEN phase' = "restored" /\ root' = ds[1]
       ELSE phase' = "reverted" /\ root' = NoRoot

Wrap(p) == (p + 1) % n

index == indices[head]
next == Wrap(head)

(* At tail there is no node left, but an old one still stands there.        *)
SiblingIsNext == indices[next] = index - 1 /\ next # tail

HasDecommitment == di < Len(decommitments)
Decommitment == decommitments[di + 1]

(* The parent is stored at tail.                                            *)
Store(hash) ==
    /\ indices' = [indices EXCEPT ![tail] = index \div 2]
    /\ hashes' = [hashes EXCEPT ![tail] = hash]
    /\ tail' = Wrap(tail)

Restored ==
    /\ phase = "loop" /\ index = 1
    /\ phase' = "restored"
    /\ root' = hashes[head]
    /\ UNCHANGED <<calldata, indices, hashes, head, tail, di>>

HashLeft ==
    /\ phase = "loop" /\ index # 1 /\ index % 2 = 0 /\ HasDecommitment
    /\ Store(HashPair(hashes[head], Decommitment))
    /\ head' = next
    /\ di' = di + 1
    /\ UNCHANGED <<phase, calldata, root>>

HashBoth_Once ==                                                  \* mutant
    /\ phase = "loop" /\ index # 1 /\ index % 2 # 0 /\ SiblingIsNext
    /\ Store(HashPair(hashes[next], hashes[head]))
    /\ head' = next
    /\ UNCHANGED <<phase, calldata, di, root>>
HashBoth ==
    /\ phase = "loop" /\ index # 1 /\ index % 2 # 0 /\ SiblingIsNext
    /\ Store(HashPair(hashes[next], hashes[head]))
    /\ head' = Wrap(next)
    /\ UNCHANGED <<phase, calldata, di, root>>

HashRight ==
    /\ phase = "loop" /\ index # 1 /\ index % 2 # 0 /\ ~SiblingIsNext
    /\ HasDecommitment
    /\ Store(HashPair(Decommitment, hashes[head]))
    /\ head' = next
    /\ di' = di + 1
    /\ UNCHANGED <<phase, calldata, root>>

OutOfDecommitments ==
    /\ phase = "loop" /\ index # 1
    /\ index % 2 = 0 \/ ~SiblingIsNext
    /\ ~HasDecommitment
    /\ phase' = "reverted"
    /\ UNCHANGED <<calldata, indices, hashes, head, tail, di, root>>

Loop == Restored \/ HashLeft \/ HashBoth \/ HashRight \/ OutOfDecommitments

(* The caller has the result, and the memory of the call is gone.           *)
Take ==
    /\ phase \in {"restored", "reverted"}
    /\ phase' = "idle"
    /\ n' = 0 /\ indices' = <<>> /\ hashes' = <<>> /\ decommitments' = <<>>
    /\ head' = 0 /\ tail' = 0 /\ di' = 0
    /\ root' = NoRoot

Next ==
    \/ \E is \in Seq(Nat), hs \in Seq(Hashes), ds \in Seq(Hashes) :
          Len(is) = Len(hs) /\ Call(is, hs, ds)
    \/ Loop
    \/ Take

Spec == Init /\ [][Next]_vars

-----------------------------------------------------------------------------
(* Positions stay inside the arrays, which hold indices and digests.        *)
TypeOK ==
    /\ phase \in {"idle", "loop", "restored", "reverted"}
    /\ n \in Nat
    /\ indices \in [0..(n - 1) -> Nat] /\ hashes \in [0..(n - 1) -> Hashes]
    /\ decommitments \in Seq(Hashes)
    /\ di \in 0..Len(decommitments)
    /\ n = 0 => head = 0 /\ tail = 0 /\ phase # "loop"
    /\ n > 0 => head \in 0..(n - 1) /\ tail \in 0..(n - 1)
    /\ root \in Hashes

(* The arrays as a queue: at the start of a round it has at least one node, *)
(* so that head = tail says it is full.                                     *)
Count == IF n = 0 THEN 0 ELSE IF tail > head THEN tail - head
         ELSE tail - head + n

At(k) == IF head + k - 1 < n THEN head + k - 1 ELSE head + k - 1 - n

Queue == [k \in 1..Count |-> [index |-> indices[At(k)], hash |-> hashes[At(k)]]]

Siblings == [k \in 1..(Len(decommitments) - di) |-> decommitments[k + di]]

Abstract == INSTANCE HashQueue WITH queue <- Queue, siblings <- Siblings

(* The arithmetic of positions loses no node and invents none: the loop in  *)
(* place takes the steps of the loop over a queue that only grows, which is *)
(* how the oracle checks the same proof (ReconstructRoot of oracle/crypto). *)
ImplementsHashQueue == Abstract!Spec
=============================================================================
