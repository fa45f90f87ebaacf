----------------------------- MODULE MerkleTree -----------------------------
(***************************************************************************)
(* Merkle trees of SSZ objects as the oracle builds them                   *)
(* (oracle/crypto), and the proofs it makes from them.  A tree has a power *)
(* of two of leaves, those it was not given are zero; the nodes have       *)
(* generalized indices, 1 for the root, 2i and 2i + 1 for the children of  *)
(* i.  The root of a list is hashed with its length.                       *)
(***************************************************************************)
EXTENDS Digest, Arithmetic, SequencesExt

ZeroHash[n \in Nat] ==
    IF n <= 1 THEN UintToHash(0)
    ELSE LET half == ZeroHash[n \div 2] IN HashPair(half, half)

CeilPow2(n) == Min({p \in {TwoTo[k] : k \in 0..n} : p >= n})

(* Elements are packed into chunks, per of them in a chunk; the first is    *)
(* the least significant one.  Elements have so many bits.                  *)
ElementBits == 2
Base == TwoTo[ElementBits]
Element(data, i) == IF i <= Len(data) THEN data[i] ELSE 0
Chunk(data, first, per) ==
    UintToHash(SumOf([i \in 1..per |->
                         Element(data, first + i - 1) * TwoTo[ElementBits * (i - 1)]], per))
BytesToChunks(data, per) ==
    [c \in 1..((Len(data) + per - 1) \div per) |-> Chunk(data, (c - 1) * per + 1, per)]

NewVectorMerkleTree(leaves) ==
    [isList |-> FALSE, length |-> 0, limit |-> CeilPow2(Len(leaves)), leaves |-> leaves]

NewListMerkleTree(leaves, limit) ==
    [isList |-> TRUE, length |-> Len(leaves), limit |-> limit, leaves |-> leaves]

NewPackedVectorMerkleTree(data, per) == NewVectorMerkleTree(BytesToChunks(data, per))

(* The length of a packed list is that of its elements, not of its chunks.  *)
NewPackedListMerkleTree(data, per, limit) ==
    [isList |-> TRUE, length |-> Len(data), limit |-> limit \div per,
     leaves |-> BytesToChunks(data, per)]

merkle[n \in Nat \ {0}] ==
    [chunks \in Seq(Hashes) |->
        LET m == n \div 2
        IN  CASE chunks = <<>>              -> ZeroHash[n]
              [] chunks # <<>> /\ n = 1     -> chunks[1]
              [] chunks # <<>> /\ n # 1 /\ Len(chunks) <= m ->
                    HashPair(merkle[m][chunks], ZeroHash[m])
              [] OTHER ->
                    HashPair(merkle[m][SubSeq(chunks, 1, m)],
                             merkle[m][SubSeq(chunks, m + 1, Len(chunks))])]

TreeHash(t) ==
    LET x == merkle[t.limit][t.leaves]
    IN  IF t.isList THEN HashPair(x, UintToHash(t.length)) ELSE x

-----------------------------------------------------------------------------
(* The leaves of a tree from first on, counted from 0, at most k of them.   *)
Slice(leaves, first, k) ==
    SubSeq(leaves, first + 1, IF first + k <= Len(leaves) THEN first + k ELSE Len(leaves))

Sibling(g) == IF g % 2 = 1 THEN g - 1 ELSE g + 1

Height(limit) == CHOOSE h \in 0..limit : TwoTo[h] = limit

(* The proof of one leaf: the siblings on its way up, a node j steps above  *)
(* the leaves having TwoTo[j] of them.                                      *)
PathFrom(leaves, limit, idx) ==
    [j \in 1..Height(limit) |->
        LET k == TwoTo[j - 1]
            sibling == Sibling((idx + limit) \div k)
        IN  merkle[k][Slice(leaves, sibling * k - limit, k)]]

MakeProof(t, idx) ==
    LET path == PathFrom(t.leaves, t.limit, idx)
    IN  IF t.isList
        THEN [genIndex |-> idx + t.limit * 2, path |-> Append(path, UintToHash(t.length))]
        ELSE [genIndex |-> idx + t.limit, path |-> path]

IsProofLength(genIndex, path) == genIndex \div TwoTo[Len(path)] = 1

(* The oracle's own check of such a proof.                                  *)
ReconstructRoot(genIndex, path, leaf) ==
    LET node[i \in 0..Len(path)] ==
            IF i = 0 THEN [index |-> genIndex, hash |-> leaf]
            ELSE LET below == node[i - 1]
                 IN  [index |-> below.index \div 2,
                      hash |-> IF below.index % 2 = 1 THEN HashPair(path[i], below.hash)
                               ELSE HashPair(below.hash, path[i])]
    IN  node[Len(path)].hash

-----------------------------------------------------------------------------
(* All nodes of a tree.                                                     *)
NodeHash(t) ==
    LET h[g \in 1..(2 * t.limit - 1)] ==
            IF g < t.limit THEN HashPair(h[2 * g], h[2 * g + 1])
            ELSE IF g - t.limit < Len(t.leaves) THEN t.leaves[g - t.limit + 1]
            ELSE ZeroHash[0]
    IN  h

(* The nodes above the leaves that are shown.                               *)
Known(t, idxs) ==
    LET known[g \in 1..(2 * t.limit - 1)] ==
            IF g < t.limit THEN known[2 * g] \/ known[2 * g + 1]
            ELSE g - t.limit \in Range(idxs)
    IN  known

(* The proof of several leaves, whose positions ascend.  Its siblings are   *)
(* those with one known child, from the last leaf up to the root.           *)
MakeMultiProof(t, idxs) ==
    LET h == NodeHash(t)
        known == Known(t, idxs)
        sibling(i) == IF known[i - 1] /\ ~known[i] THEN <<h[i]>>
                      ELSE IF ~known[i - 1] /\ known[i] THEN <<h[i - 1]>>
                      ELSE <<>>
        until[j \in 0..(t.limit - 1)] ==
            IF j = 0 THEN <<>> ELSE until[j - 1] \o sibling(2 * t.limit + 1 - 2 * j)
    IN  IF idxs = <<>>
        THEN [genIndices |-> <<>>, leaves |-> <<>>, decommitments |-> <<TreeHash(t)>>]
        ELSE [genIndices |-> [j \in 1..Len(idxs) |-> Reverse(idxs)[j] + t.limit],
              leaves |-> [j \in 1..Len(idxs) |-> t.leaves[Reverse(idxs)[j] + 1]],
              decommitments |-> until[t.limit - 1]]
=============================================================================
