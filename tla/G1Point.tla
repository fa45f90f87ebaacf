------------------------------ MODULE G1Point ------------------------------
(***************************************************************************)
(* Public keys: points of a curve, given by two coordinates of the field   *)
(* of P elements.  The beacon chain hashes a key in its compressed form,   *)
(* the first coordinate and a bit for the sign of the second.  The oracle  *)
(* (oracle/crypto/bls.go) sends coordinates to the contract, in a form of  *)
(* two limbs or packed into three words, and the contract makes the        *)
(* compressed form of either.  The low limb has 4 bits here and 256 there, *)
(* the high one 5 and 128, and the upper 3 bits of that are free for flags.*)
(***************************************************************************)
EXTENDS Integers

P == 61
LowLimb == 16
HighLimb == 32
IsCompressed == 16      \* bit 4, bit 3 is for the point at infinity
IsLarger == 4           \* bit 2

Points == [x : 0..(P - 1), y : 1..(P - 1)]

High(v) == v \div LowLimb
Low(v) == v % LowLimb

(* The compressed form, as the library makes it and the beacon chain        *)
(* hashes it: the sign is that of the larger of y and -y.                   *)
Marshal(p) ==
    [high |-> High(p.x) + IsCompressed + (IF p.y > P - p.y THEN IsLarger ELSE 0),
     low |-> Low(p.x)]

(* PkToG1 and PkToG1Compressed of the oracle.                               *)
PkToG1(p) == [X |-> [a |-> High(p.x), b |-> Low(p.x)],
              Y |-> [a |-> High(p.y), b |-> Low(p.y)]]

PkToG1Compressed(p) ==
    [A |-> High(p.y) * HighLimb + High(p.x), XB |-> Low(p.x), YB |-> Low(p.y)]

(* Half of the field, by limbs: the contract's literals.                    *)
HalfA == High((P - 1) \div 2)
HalfB == Low((P - 1) \div 2)
Larger_ByLimbs(a, b) == a > HalfA \/ b > HalfB                    \* mutant
Larger(a, b) == a > HalfA \/ (a = HalfA /\ b > HalfB)

SetBit(v, bit) == IF (v \div bit) % 2 = 1 THEN v ELSE v + bit

WithFlags(v, larger) ==
    IF larger THEN SetBit(SetBit(v, IsCompressed), IsLarger) ELSE SetBit(v, IsCompressed)

(* What the contract hashes: the shift keeps the limb of the first          *)
(* coordinate only.                                                         *)
hashG1(point) ==
    [high |-> WithFlags(point.X.a, Larger(point.Y.a, point.Y.b)) % HighLimb,
     low |-> point.X.b]

hashG1Compressed(point) ==
    [high |-> WithFlags(point.A, Larger(point.A \div HighLimb, point.YB)) % HighLimb,
     low |-> point.XB]
=============================================================================
