--------------------------- MODULE SyncCommittee ---------------------------
(***************************************************************************)
(* The proof that a sync committee has signed: what the oracle puts into   *)
(* an update (MakeUpdate of oracle/lightclient) and what the contract      *)
(* makes of it (_aggregateMissingPubkeys of contracts/light_client).  Only *)
(* the keys of those who did not sign are sent.  Together with the key of  *)
(* those who did they must add up to the committee's aggregate key, and    *)
(* their places in the committee's tree must be the cleared bits.  Keys    *)
(* are numbers, added like points.                                         *)
(***************************************************************************)
EXTENDS MerkleTree

CONSTANTS
    Size,             \* SYNC_COMMITTEE_SIZE
    WordBits,         \* the bits of a word, 256
    ByteBits,         \* the bits of a byte, 8
    MinParticipants   \* MIN_SYNC_COMMITTEE_PARTICIPANTS

ASSUME SyncCommitteeAssumption ==
    /\ \A c \in {Size, WordBits, ByteBits, MinParticipants} : c \in Nat \ {0}
    /\ Size \in {TwoTo[k] : k \in 0..Size}
    /\ Size % WordBits = 0 /\ WordBits % ByteBits = 0

Members == 0..(Size - 1)

Sum(keys) == SumOf(keys, Len(keys))
SumOfSome(keys, members) ==
    SumOf([k \in 1..Size |-> IF k - 1 \in members THEN keys[k] ELSE 0], Size)

(* The digest of a key; G1Point says why it is the same from every form.    *)
HashG1(key) == DigestOf(KeyKind, key)

KeysTree(keys) == NewVectorMerkleTree([k \in 1..Len(keys) |-> HashG1(keys[k])])

(* The root of a committee in the state of the beacon chain.                *)
CommitteeRoot(keys) == HashPair(TreeHash(KeysTree(keys)), HashG1(Sum(keys)))

-----------------------------------------------------------------------------
(* The bits of a block's sync aggregate: bytes, each a set of bits.         *)
SyncCommitteeBits(signers) ==
    [j \in 1..(Size \div ByteBits) |->
        {b \in 0..(ByteBits - 1) : (j - 1) * ByteBits + b \in signers}]

BitAt(bytes, i) == i % ByteBits \in bytes[i \div ByteBits + 1]

Absent(bytes) ==
    LET before[i \in 0..Size] ==
            IF i = 0 THEN <<>>
            ELSE IF BitAt(bytes, i - 1) THEN before[i - 1]
            ELSE Append(before[i - 1], i - 1)
    IN  before[Size]

(* The bytes of each word are reversed ...                                  *)
WordBytes == WordBits \div ByteBits
SwapBytes_All(bytes) == Reverse(bytes)                            \* mutant
SwapBytes(bytes) ==
    [j \in 1..Len(bytes) |->
        LET w == (j - 1) \div WordBytes
            k == (j - 1) % WordBytes
        IN  bytes[w * WordBytes + WordBytes - k]]

(* ... so that a word, whose first byte is the most significant one, has    *)
(* the bit of its first member lowest.                                      *)
Word(bytes, w) ==
    {m \in 0..(WordBits - 1) :
        m % ByteBits \in bytes[w * WordBytes - m \div ByteBits]}

MissingKeys(keys, absent) ==
    [k \in 1..Len(absent) |-> keys[absent[Len(absent) + 1 - k] + 1]]

Present(bytes) == {i \in Members : BitAt(bytes, i)}

(* The part of an update that is about the committee.                       *)
MakeUpdate(keys, bytes) ==
    LET absent == Absent(bytes)
    IN  [pubkey |-> SumOfSome(keys, Present(bytes)),
         missing |-> MissingKeys(keys, absent),
         decommitments |-> MakeMultiProof(KeysTree(keys), absent).decommitments,
         bitList |-> [w \in 1..(Size \div WordBits) |-> Word(SwapBytes(bytes), w)]]

-----------------------------------------------------------------------------
(* The contract counts the leaves of the tree down, and takes a new word    *)
(* whenever it comes to the last bit of one.                                *)
WordOf(bitList, i) == bitList[i \div WordBits - Size \div WordBits + 1]

Missed(bitList) ==
    LET after[k \in 0..Size] ==
            LET i == 2 * Size - k
            IN  IF k = 0 THEN <<>>
                ELSE IF i % WordBits \in WordOf(bitList, i) THEN after[k - 1]
                ELSE Append(after[k - 1], i)
    IN  after[Size]

EnoughSignatures(update) ==
    /\ Len(update.missing) <= Size
    /\ Size - Len(update.missing) >= MinParticipants

(* A key too few is an index out of range, a key too many is required not   *)
(* to be there.                                                             *)
MissedAreSent(update) == Len(Missed(update.bitList)) = Len(update.missing)

AggregatedPK_Sent(update) == update.pubkey                        \* mutant
AggregatedPK(update) == update.pubkey + Sum(update.missing)

LeafHashes(update) == [k \in 1..Len(update.missing) |-> HashG1(update.missing[k])]
=============================================================================
