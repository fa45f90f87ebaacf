------------------------------- MODULE Digest -------------------------------
(***************************************************************************)
(* Chunks of 32 bytes and their digests.  A digest is the term it was made *)
(* from, in prefix notation: two digests are equal when they were made     *)
(* from the same chunks in the same way.                                   *)
(***************************************************************************)
EXTENDS Integers, Sequences

Hashes == Seq(Int)

(* A chunk that holds a number.                                             *)
UintToHash(v) == <<v>>

(* The digest of two chunks or digests.                                     *)
HashPair(a, b) == <<-1>> \o a \o b

(* The digest of something that no proof takes apart, by kind.              *)
DigestOf(kind, v) == <<-2, kind, v>>

KeyKind == 1          \* a public key
FieldKind == 2        \* a field of a beacon state
PayloadKind == 3      \* a field of an execution payload other than these:
StateRootKind == 4    \* the state root of the execution layer
ReceiptsRootKind == 5 \* the receipts root of the execution layer
BeaconStateKind == 6  \* a beacon state
HeaderKind == 7       \* a field of a header
BatchKind == 8        \* the roots of the blocks of a batch
=============================================================================
