--------------------------- MODULE OracleTheorems ---------------------------
(***************************************************************************)
(* What the oracle's provers and the contracts that check them promise.    *)
(* The multiproof in place implements the queue, for arrays of every       *)
(* length, and it restores the root of a tree only from the tree's leaves. *)
(* A proof leads to the root of a state only from what the state has at    *)
(* the place that the proof is for, for states of every size; and the      *)
(* signers that are accepted are members of the committee, for committees  *)
(* of every size.  Whatever the oracle itself proves is accepted.          *)
(***************************************************************************)
EXTENDS OracleProofs, ShownLeaves, ArithmeticProofs, SequenceTheorems, FiniteSetTheorems, TLAPS

LEMMA PairIsHash == \A a, b \in Hashes : HashPair(a, b) \in Hashes
BY DEF Hashes, HashPair

LEMMA SameDigests ==
    /\ Abstract!Hashes = Hashes
    /\ \A a, b : Abstract!HashPair(a, b) = HashPair(a, b)
BY DEF Abstract!Hashes, Hashes, Abstract!HashPair, HashPair

LEMMA EmptyArrays ==
    /\ <<>> \in Hashes /\ <<>> \in Seq(Hashes) /\ Len(<<>>) = 0
    /\ <<>> \in [0..(0 - 1) -> Nat] /\ <<>> \in [0..(0 - 1) -> Hashes]
<1>1. <<>> \in Hashes /\ <<>> \in Seq(Hashes) /\ Len(<<>>) = 0
  BY DEF Hashes
<1>2. 0..(0 - 1) = {}
  OBVIOUS
<1> QED BY <1>1, <1>2

LEMMA InitTypeOK == Init => TypeOK
BY EmptyArrays DEF Init, TypeOK, NoRoot

LEMMA TakeKeepsType == Take => TypeOK'
BY EmptyArrays DEF Take, TypeOK, NoRoot

LEMMA WrapIs ==
    ASSUME n \in Nat, n > 0, NEW p \in 0..(n - 1)
    PROVE  /\ Wrap(p) = IF p + 1 = n THEN 0 ELSE p + 1
           /\ Wrap(p) \in 0..(n - 1)
<1>1. CASE p + 1 = n
  BY <1>1, SMTT(30) DEF Wrap
<1>2. CASE p + 1 # n
  BY <1>2, SMTT(30) DEF Wrap
<1> QED BY <1>1, <1>2

LEMMA NextIs ==
    ASSUME TypeOK, phase = "loop"
    PROVE  /\ n \in Nat /\ n > 0
           /\ head \in 0..(n - 1) /\ tail \in 0..(n - 1) /\ next \in 0..(n - 1)
           /\ next = IF head + 1 = n THEN 0 ELSE head + 1
<1>1. n \in Nat /\ n > 0 /\ head \in 0..(n - 1) /\ tail \in 0..(n - 1)
  BY DEF TypeOK
<1> QED BY <1>1, WrapIs DEF next

(* What a round of the loop stores.                                         *)
LEMMA StoreIs ==
    ASSUME TypeOK, phase = "loop", NEW h \in Hashes, Store(h)
    PROVE  /\ indices' \in [0..(n - 1) -> Nat]
           /\ hashes' \in [0..(n - 1) -> Hashes]
           /\ indices'[tail] = index \div 2 /\ hashes'[tail] = h
           /\ \A p \in 0..(n - 1) : p # tail => /\ indices'[p] = indices[p]
                                              /\ hashes'[p] = hashes[p]
           /\ tail' \in 0..(n - 1)
           /\ tail' = IF tail + 1 = n THEN 0 ELSE tail + 1
<1>1. /\ n \in Nat /\ n > 0 /\ head \in 0..(n - 1) /\ tail \in 0..(n - 1)
  BY NextIs
<1>2. index \in Nat /\ index \div 2 \in Nat
  BY <1>1, PairIsHash DEF TypeOK, index
<1>3. indices \in [0..(n - 1) -> Nat] /\ hashes \in [0..(n - 1) -> Hashes]
  BY DEF TypeOK
<1>4. /\ indices' = [indices EXCEPT ![tail] = index \div 2]
      /\ hashes' = [hashes EXCEPT ![tail] = h]
      /\ tail' = Wrap(tail)
  BY DEF Store
<1>5. tail' \in 0..(n - 1) /\ tail' = IF tail + 1 = n THEN 0 ELSE tail + 1
  BY <1>1, <1>4, WrapIs
<1> QED BY <1>1, <1>2, <1>3, <1>4, <1>5

LEMMA HashIs ==
    ASSUME TypeOK, phase = "loop"
    PROVE  /\ hashes[head] \in Hashes /\ hashes[next] \in Hashes
           /\ HasDecommitment => /\ Decommitment \in Hashes
                                 /\ di + 1 \in 0..Len(decommitments)
<1>1. hashes[head] \in Hashes /\ hashes[next] \in Hashes
  BY NextIs DEF TypeOK
<1>2. decommitments \in Seq(Hashes) /\ di \in 0..Len(decommitments)
  BY DEF TypeOK
<1>3. ASSUME HasDecommitment
      PROVE  Decommitment \in Hashes /\ di + 1 \in 0..Len(decommitments)
  BY <1>2, <1>3 DEF HasDecommitment, Decommitment
<1> QED BY <1>1, <1>3

LEMMA RoundKeepsType ==
    ASSUME TypeOK, phase = "loop", NEW h \in Hashes, Store(h),
           head' \in 0..(n - 1), di' \in 0..Len(decommitments),
           UNCHANGED <<phase, calldata, root>>
    PROVE  TypeOK'
<1>1. n \in Nat /\ n > 0
  BY NextIs
<1>2. /\ indices' \in [0..(n - 1) -> Nat] /\ hashes' \in [0..(n - 1) -> Hashes]
      /\ tail' \in 0..(n - 1)
  BY StoreIs
<1>3. phase' = phase /\ n' = n /\ decommitments' = decommitments /\ root' = root
  BY DEF calldata
<1>4. /\ phase \in {"idle", "loop", "restored", "reverted"}
      /\ decommitments \in Seq(Hashes) /\ root \in Hashes
  BY DEF TypeOK
<1> QED BY <1>1, <1>2, <1>3, <1>4 DEF TypeOK

LEMMA CallKeepsType ==
    ASSUME NEW is \in Seq(Nat), NEW hs \in Seq(Hashes), NEW ds \in Seq(Hashes),
           Len(is) = Len(hs), Call(is, hs, ds)
    PROVE  TypeOK'
<1>1. Len(is) \in Nat /\ (Len(is) > 0 <=> is # <<>>)
  OBVIOUS
<1>2. /\ indices' \in [0..(Len(is) - 1) -> Nat]
      /\ hashes' \in [0..(Len(is) - 1) -> Hashes]
  <2>1. \A k \in 0..(Len(is) - 1) : is[k + 1] \in Nat /\ hs[k + 1] \in Hashes
    BY <1>1
  <2> QED BY <2>1 DEF Call
<1>3. /\ n' = Len(is) /\ decommitments' = ds /\ head' = 0 /\ tail' = 0 /\ di' = 0
  BY DEF Call
<1>4. di' \in 0..Len(decommitments')
  BY <1>3
<1>5. /\ phase' \in {"idle", "loop", "restored", "reverted"}
      /\ root' \in Hashes
      /\ is = <<>> => phase' # "loop"
  <2>1. NoRoot \in Hashes
    BY DEF NoRoot, Hashes
  <2>2. ds # <<>> => ds[1] \in Hashes
    OBVIOUS
  <2> QED BY <2>1, <2>2 DEF Call
<1> QED BY <1>1, <1>2, <1>3, <1>4, <1>5 DEF TypeOK

LEMMA NextTypeOK == TypeOK /\ [Next]_vars => TypeOK'
<1> SUFFICES ASSUME TypeOK, [Next]_vars PROVE TypeOK'
  OBVIOUS
<1>1. ASSUME NEW is \in Seq(Nat), NEW hs \in Seq(Hashes), NEW ds \in Seq(Hashes),
             Len(is) = Len(hs), Call(is, hs, ds)
      PROVE  TypeOK'
  BY <1>1, CallKeepsType
<1>2. CASE Restored
  <2>1. hashes[head] \in Hashes
    BY <1>2, HashIs DEF Restored
  <2> QED BY <1>2, <2>1 DEF Restored, TypeOK, calldata
<1>3. CASE HashLeft
  <2>1. phase = "loop" /\ HasDecommitment
    BY <1>3 DEF HashLeft
  <2>2. HashPair(hashes[head], Decommitment) \in Hashes
    BY <2>1, HashIs, PairIsHash
  <2>3. di' \in 0..Len(decommitments) /\ head' \in 0..(n - 1)
    BY <1>3, <2>1, HashIs, NextIs DEF HashLeft
  <2>4. Store(HashPair(hashes[head], Decommitment)) /\ UNCHANGED <<phase, calldata, root>>
    BY <1>3 DEF HashLeft
  <2> QED BY <2>1, <2>2, <2>3, <2>4, RoundKeepsType
<1>4. CASE HashBoth
  <2>1. phase = "loop"
    BY <1>4 DEF HashBoth
  <2>2. HashPair(hashes[next], hashes[head]) \in Hashes
    BY <2>1, HashIs, PairIsHash
  <2>3. di' \in 0..Len(decommitments) /\ head' \in 0..(n - 1)
    BY <1>4, <2>1, NextIs, WrapIs DEF HashBoth, TypeOK
  <2>4. Store(HashPair(hashes[next], hashes[head])) /\ UNCHANGED <<phase, calldata, root>>
    BY <1>4 DEF HashBoth
  <2> QED BY <2>1, <2>2, <2>3, <2>4, RoundKeepsType
<1>5. CASE HashRight
  <2>1. phase = "loop" /\ HasDecommitment
    BY <1>5 DEF HashRight
  <2>2. HashPair(Decommitment, hashes[head]) \in Hashes
    BY <2>1, HashIs, PairIsHash
  <2>3. di' \in 0..Len(decommitments) /\ head' \in 0..(n - 1)
    BY <1>5, <2>1, HashIs, NextIs DEF HashRight
  <2>4. Store(HashPair(Decommitment, hashes[head])) /\ UNCHANGED <<phase, calldata, root>>
    BY <1>5 DEF HashRight
  <2> QED BY <2>1, <2>2, <2>3, <2>4, RoundKeepsType
<1>6. CASE OutOfDecommitments
  BY <1>6 DEF OutOfDecommitments, TypeOK, calldata
<1>7. CASE Take
  BY <1>7, TakeKeepsType
<1>8. CASE UNCHANGED vars
  BY <1>8 DEF vars, TypeOK
<1> QED BY <1>1, <1>2, <1>3, <1>4, <1>5, <1>6, <1>7, <1>8 DEF Next, Loop

(* The positions of the circular queue stay inside the arrays.              *)
THEOREM MultiProofTypeCorrect == Spec => []TypeOK
BY InitTypeOK, NextTypeOK, PTL DEF Spec

-----------------------------------------------------------------------------
(* The arrays between head and tail, as a sequence of nodes.                *)
Nodes == [index : Nat, hash : Hashes]

LEMMA QueueIs ==
    ASSUME TypeOK, phase = "loop"
    PROVE  /\ Count \in 1..n
           /\ Queue \in Seq(Nodes) /\ Len(Queue) = Count
           /\ Queue[1] = [index |-> index, hash |-> hashes[head]]
           /\ Count > 1 <=> next # tail
           /\ Count > 1 => Queue[2] = [index |-> indices[next], hash |-> hashes[next]]
<1>1. /\ n \in Nat /\ n > 0 /\ head \in 0..(n - 1) /\ tail \in 0..(n - 1)
      /\ next = IF head + 1 = n THEN 0 ELSE head + 1
  BY NextIs
<1>2. Count \in 1..n
  BY <1>1 DEF Count
<1>3. \A k \in 1..Count : At(k) \in 0..(n - 1)
  BY <1>1, <1>2 DEF At
<1>4. indices \in [0..(n - 1) -> Nat] /\ hashes \in [0..(n - 1) -> Hashes]
  BY DEF TypeOK
<1>5. Queue \in [1..Count -> Nodes]
  BY <1>3, <1>4 DEF Queue, Nodes
<1>6. Queue \in Seq(Nodes) /\ Len(Queue) = Count
  BY <1>2, <1>5
<1>7. At(1) = head
  BY <1>1 DEF At
<1>8. Count > 1 <=> next # tail
  BY <1>1 DEF Count
<1>9. Count > 1 => At(2) = next
  BY <1>1 DEF At
<1>10. Queue[1] = [index |-> index, hash |-> hashes[head]]
  BY <1>2, <1>7 DEF Queue, index
<1>11. Count > 1 => Queue[2] = [index |-> indices[next], hash |-> hashes[next]]
  BY <1>2, <1>9 DEF Queue
<1> QED BY <1>2, <1>6, <1>8, <1>10, <1>11

LEMMA SiblingsAre ==
    ASSUME TypeOK
    PROVE  /\ Siblings \in Seq(Hashes)
           /\ Len(Siblings) = Len(decommitments) - di
           /\ Siblings # <<>> <=> HasDecommitment
           /\ HasDecommitment => Siblings[1] = Decommitment
<1>1. decommitments \in Seq(Hashes) /\ di \in 0..Len(decommitments)
  BY DEF TypeOK
<1> DEFINE left == Len(decommitments) - di
<1>2. left \in Nat
  BY <1>1
<1>3. Siblings \in [1..left -> Hashes]
  BY <1>1 DEF Siblings
<1>4. Siblings \in Seq(Hashes) /\ Len(Siblings) = left
  BY <1>2, <1>3
<1>5. Siblings # <<>> <=> left > 0
  BY <1>2, <1>4
<1>6. HasDecommitment <=> left > 0
  BY <1>1 DEF HasDecommitment
<1>7. HasDecommitment => Siblings[1] = Decommitment
  BY <1>1, <1>2, <1>6 DEF Siblings, Decommitment
<1> QED BY <1>4, <1>5, <1>6, <1>7

LEMMA Shifted ==
    ASSUME NEW S, NEW q \in Seq(S), NEW t \in Seq(S), NEW x \in S,
           Len(q) >= 1, Len(t) = Len(q), t[Len(q)] = x,
           \A k \in 1..(Len(q) - 1) : t[k] = q[k + 1]
    PROVE  t = Append(Tail(q), x)
<1> DEFINE r == Append(Tail(q), x)
<1>1. /\ Tail(q) \in Seq(S) /\ Len(Tail(q)) = Len(q) - 1
      /\ \A k \in 1..(Len(q) - 1) : Tail(q)[k] = q[k + 1]
  OBVIOUS
<1>2. /\ r \in Seq(S) /\ Len(r) = Len(q)
      /\ \A k \in 1..(Len(q) - 1) : r[k] = q[k + 1]
      /\ r[Len(q)] = x
  BY <1>1
<1>3. \A k \in 1..Len(t) : t[k] = r[k]
  <2> TAKE k \in 1..Len(t)
  <2> HIDE DEF r
  <2>1. CASE k = Len(q)
    BY <1>2, <2>1
  <2>2. CASE k # Len(q)
    <3>1. k \in 1..(Len(q) - 1)
      BY <2>2
    <3> QED BY <1>2, <3>1
  <2> QED BY <2>1, <2>2
<1> HIDE DEF r
<1>4. t = r
  BY <1>2, <1>3, SeqEqual
<1> QED BY <1>4 DEF r

LEMMA ParentIsNode ==
    ASSUME TypeOK, phase = "loop", NEW h \in Hashes
    PROVE  [index |-> index \div 2, hash |-> h] \in Nodes
<1>1. index \in Nat
  BY NextIs DEF TypeOK, index
<1> QED BY <1>1, PairIsHash DEF Nodes

(* One node is read and its parent stored.                                  *)
LEMMA PopOne ==
    ASSUME TypeOK, phase = "loop", NEW h \in Hashes, Store(h), head' = next, n' = n
    PROVE  Queue' = Append(Tail(Queue), [index |-> index \div 2, hash |-> h])
<1> DEFINE x == [index |-> index \div 2, hash |-> h]
           at(k) == IF head' + k - 1 < n THEN head' + k - 1 ELSE head' + k - 1 - n
<1>1. /\ n \in Nat /\ n > 0 /\ head \in 0..(n - 1) /\ tail \in 0..(n - 1)
      /\ next = IF head + 1 = n THEN 0 ELSE head + 1
  BY NextIs
<1>2. /\ indices'[tail] = index \div 2 /\ hashes'[tail] = h
      /\ \A p \in 0..(n - 1) : p # tail => /\ indices'[p] = indices[p]
                                         /\ hashes'[p] = hashes[p]
      /\ tail' = IF tail + 1 = n THEN 0 ELSE tail + 1
  BY StoreIs
<1>3. Count \in 1..n /\ Queue \in Seq(Nodes) /\ Len(Queue) = Count
  BY QueueIs
<1>4. Count' = Count
  BY <1>1, <1>2 DEF Count
<1>5. /\ at(Count) = tail
      /\ \A k \in 1..(Count - 1) : /\ at(k) = At(k + 1)
                                  /\ At(k + 1) # tail /\ At(k + 1) \in 0..(n - 1)
  BY <1>1, <1>3, <1>4 DEF At, Count
<1>6. /\ x \in Nodes
      /\ Queue' = [k \in 1..Count |-> [index |-> indices'[at(k)], hash |-> hashes'[at(k)]]]
  BY <1>4, ParentIsNode DEF Queue, At
<1>7. [index |-> indices'[at(Count)], hash |-> hashes'[at(Count)]] = x
  BY <1>2, <1>5
<1>8. \A k \in 1..(Count - 1) :
         [index |-> indices'[at(k)], hash |-> hashes'[at(k)]] = Queue[k + 1]
  <2> TAKE k \in 1..(Count - 1)
  <2>1. k + 1 \in 1..Count
    BY <1>3
  <2>2. Queue[k + 1] = [index |-> indices[At(k + 1)], hash |-> hashes[At(k + 1)]]
    BY <2>1 DEF Queue
  <2> QED BY <1>2, <1>5, <2>2
<1> HIDE DEF x, at
<1>9. /\ Queue'[Count] = x
      /\ \A k \in 1..(Count - 1) : Queue'[k] = Queue[k + 1]
  BY <1>3, <1>6, <1>7, <1>8
<1>10. \A k \in 1..Count : Queue'[k] \in Nodes
  <2> TAKE k \in 1..Count
  <2>1. CASE k = Count
    BY <1>6, <1>9, <2>1
  <2>2. CASE k # Count
    <3>1. k \in 1..(Count - 1) /\ k + 1 \in 1..Len(Queue)
      BY <1>3, <2>2
    <3> QED BY <1>3, <1>9, <3>1
  <2> QED BY <2>1, <2>2
<1>11. Queue' \in [1..Count -> Nodes]
  BY <1>6, <1>10
<1>12. Queue' \in Seq(Nodes) /\ Len(Queue') = Count
  BY <1>3, <1>11
<1>13. Queue' = Append(Tail(Queue), x)
  <2>1. x \in Nodes
    BY <1>6
  <2>2. /\ Len(Queue) >= 1 /\ Len(Queue') = Len(Queue) /\ Queue'[Len(Queue)] = x
        /\ \A k \in 1..(Len(Queue) - 1) : Queue'[k] = Queue[k + 1]
    BY <1>3, <1>9, <1>12
  <2>3. Queue \in Seq(Nodes) /\ Queue' \in Seq(Nodes)
    BY <1>3, <1>12
  <2> QED BY <2>1, <2>2, <2>3, Shifted
<1> QED BY <1>13 DEF x

(* Two siblings are read and their parent stored.                           *)
LEMMA PopTwo ==
    ASSUME TypeOK, phase = "loop", NEW h \in Hashes, Store(h), next # tail,
           head' = Wrap(next), n' = n
    PROVE  Queue' = Append(Tail(Tail(Queue)), [index |-> index \div 2, hash |-> h])
<1> DEFINE x == [index |-> index \div 2, hash |-> h]
           at(k) == IF head' + k - 1 < n THEN head' + k - 1 ELSE head' + k - 1 - n
<1>1. /\ n \in Nat /\ n > 0 /\ head \in 0..(n - 1) /\ tail \in 0..(n - 1)
      /\ next \in 0..(n - 1)
      /\ next = IF head + 1 = n THEN 0 ELSE head + 1
  BY NextIs
<1>2. head' = IF next + 1 = n THEN 0 ELSE next + 1
  BY <1>1, WrapIs
<1>3. /\ indices'[tail] = index \div 2 /\ hashes'[tail] = h
      /\ \A p \in 0..(n - 1) : p # tail => /\ indices'[p] = indices[p]
                                         /\ hashes'[p] = hashes[p]
      /\ tail' = IF tail + 1 = n THEN 0 ELSE tail + 1
  BY StoreIs
<1>4. Count \in 2..n /\ Queue \in Seq(Nodes) /\ Len(Queue) = Count
  BY QueueIs
<1>5. Count' = Count - 1
  BY <1>1, <1>2, <1>3 DEF Count
<1>6. /\ at(Count - 1) = tail
      /\ \A k \in 1..(Count - 2) : /\ at(k) = At(k + 2)
                                  /\ At(k + 2) # tail /\ At(k + 2) \in 0..(n - 1)
  BY <1>1, <1>2, <1>4, <1>5, SMTT(20) DEF At, Count
<1>7. /\ x \in Nodes
      /\ Queue' = [k \in 1..(Count - 1) |->
                      [index |-> indices'[at(k)], hash |-> hashes'[at(k)]]]
  BY <1>5, ParentIsNode DEF Queue, At
<1>8. [index |-> indices'[at(Count - 1)], hash |-> hashes'[at(Count - 1)]] = x
  BY <1>3, <1>6
<1>9. \A k \in 1..(Count - 2) :
         [index |-> indices'[at(k)], hash |-> hashes'[at(k)]] = Queue[k + 2]
  <2> TAKE k \in 1..(Count - 2)
  <2>1. k + 2 \in 1..Count
    BY <1>4
  <2>2. Queue[k + 2] = [index |-> indices[At(k + 2)], hash |-> hashes[At(k + 2)]]
    BY <2>1 DEF Queue
  <2> QED BY <1>3, <1>6, <2>2
<1> DEFINE rest == Tail(Queue)
<1>10. /\ rest \in Seq(Nodes) /\ Len(rest) = Count - 1
       /\ \A k \in 1..(Count - 1) : rest[k] = Queue[k + 1]
  BY <1>4
<1> HIDE DEF x, at, rest
<1>11. /\ Queue'[Count - 1] = x
       /\ \A k \in 1..(Count - 2) : Queue'[k] = rest[k + 1]
  <2>1. \A k \in 1..(Count - 2) : k + 1 \in 1..(Count - 1) /\ (k + 1) + 1 = k + 2
    BY <1>4
  <2> QED BY <1>4, <1>7, <1>8, <1>9, <1>10, <2>1
<1>12. \A k \in 1..(Count - 1) : Queue'[k] \in Nodes
  <2> TAKE k \in 1..(Count - 1)
  <2>1. CASE k = Count - 1
    BY <1>7, <1>11, <2>1
  <2>2. CASE k # Count - 1
    <3>1. k \in 1..(Count - 2) /\ k + 1 \in 1..Len(rest)
      BY <1>4, <1>10, <2>2
    <3> QED BY <1>10, <1>11, <3>1
  <2> QED BY <2>1, <2>2
<1>13. Queue' \in [1..(Count - 1) -> Nodes]
  BY <1>7, <1>12
<1>14. Queue' \in Seq(Nodes) /\ Len(Queue') = Count - 1
  BY <1>4, <1>13
<1>15. /\ Len(rest) >= 1 /\ Len(Queue') = Len(rest) /\ Queue'[Len(rest)] = x
       /\ \A k \in 1..(Len(rest) - 1) : Queue'[k] = rest[k + 1]
  BY <1>4, <1>10, <1>11, <1>14
<1>16. Queue' = Append(Tail(rest), x)
  <2>1. x \in Nodes
    BY <1>7
  <2>2. rest \in Seq(Nodes) /\ Queue' \in Seq(Nodes)
    BY <1>10, <1>14
  <2> QED BY <1>15, <2>1, <2>2, Shifted
<1> QED BY <1>16 DEF x, rest

LEMMA SiblingsAdvance ==
    ASSUME TypeOK, HasDecommitment, di' = di + 1, decommitments' = decommitments
    PROVE  Siblings' = Tail(Siblings)
<1>1. decommitments \in Seq(Hashes) /\ di \in 0..Len(decommitments) /\ di + 1 <= Len(decommitments)
  BY DEF TypeOK, HasDecommitment
<1> DEFINE rest == [k \in 1..(Len(decommitments) - (di + 1)) |-> decommitments[k + (di + 1)]]
<1>2. Siblings' = rest
  BY DEF Siblings
<1>3. /\ Siblings \in Seq(Hashes) /\ Len(Siblings) = Len(decommitments) - di
      /\ \A k \in 1..(Len(decommitments) - di) : Siblings[k] = decommitments[k + di]
  BY <1>1, SiblingsAre DEF Siblings
<1>4. /\ rest \in Seq(Hashes) /\ Len(rest) = Len(decommitments) - (di + 1)
  <2>1. rest \in [1..(Len(decommitments) - (di + 1)) -> Hashes]
    BY <1>1
  <2> HIDE DEF rest
  <2> QED BY <1>1, <2>1
<1>5. /\ Tail(Siblings) \in Seq(Hashes) /\ Len(Tail(Siblings)) = Len(Siblings) - 1
      /\ \A k \in 1..(Len(Siblings) - 1) : Tail(Siblings)[k] = Siblings[k + 1]
  BY <1>1, <1>3
<1>6. \A k \in 1..Len(rest) : rest[k] = Tail(Siblings)[k]
  <2> TAKE k \in 1..Len(rest)
  <2>1. k \in 1..(Len(Siblings) - 1) /\ k + 1 \in 1..(Len(decommitments) - di)
    BY <1>1, <1>3, <1>4
  <2>2. Tail(Siblings)[k] = decommitments[(k + 1) + di]
    BY <1>3, <1>5, <2>1
  <2>3. rest[k] = decommitments[k + (di + 1)]
    BY <1>4
  <2>4. (k + 1) + di = k + (di + 1)
    BY <1>1
  <2> QED BY <2>2, <2>3, <2>4
<1> HIDE DEF rest
<1>7. Len(rest) = Len(Tail(Siblings))
  BY <1>1, <1>3, <1>4, <1>5
<1> QED BY <1>2, <1>4, <1>5, <1>6, <1>7, SeqEqual

LEMMA StandStill ==
    ASSUME UNCHANGED <<calldata, indices, hashes, head, tail, di>>
    PROVE  Queue' = Queue /\ Siblings' = Siblings
BY DEF calldata, Queue, Siblings, Count, At

LEMMA CallQueues ==
    ASSUME NEW is \in Seq(Nat), NEW hs \in Seq(Hashes), NEW ds \in Seq(Hashes),
           Len(is) = Len(hs), Call(is, hs, ds)
    PROVE  /\ Queue' \in Seq(Nodes) /\ (Queue' = <<>> <=> is = <<>>)
           /\ Queue' = [k \in 1..Len(is) |-> [index |-> is[k], hash |-> hs[k]]]
           /\ Siblings' = ds
<1>1. /\ n' = Len(is) /\ head' = 0 /\ tail' = 0 /\ di' = 0 /\ decommitments' = ds
      /\ indices' = [k \in 0..(Len(is) - 1) |-> is[k + 1]]
      /\ hashes' = [k \in 0..(Len(is) - 1) |-> hs[k + 1]]
  BY DEF Call
<1>2. Len(is) \in Nat /\ (is = <<>> <=> Len(is) = 0)
  OBVIOUS
<1>3. Queue' = [k \in 1..Len(is) |-> [index |-> indices'[k - 1], hash |-> hashes'[k - 1]]]
  <2>1. Count' = Len(is)
    BY <1>1, <1>2 DEF Count
  <2>2. \A k \in 1..Len(is) : At(k)' = k - 1
    BY <1>1, <1>2 DEF At
  <2>3. Queue' = [k \in 1..Len(is) |-> [index |-> indices'[At(k)'], hash |-> hashes'[At(k)']]]
    BY <2>1 DEF Queue
  <2> QED BY <2>2, <2>3
<1>4. \A k \in 1..Len(is) : /\ indices'[k - 1] = is[k] /\ hashes'[k - 1] = hs[k]
                            /\ indices'[k - 1] \in Nat /\ hashes'[k - 1] \in Hashes
  <2> TAKE k \in 1..Len(is)
  <2>1. k - 1 \in 0..(Len(is) - 1) /\ (k - 1) + 1 = k
    BY <1>2
  <2>2. indices'[k - 1] = is[k] /\ hashes'[k - 1] = hs[k]
    BY <1>1, <2>1
  <2> QED BY <2>2
<1>5. Queue' \in [1..Len(is) -> Nodes]
  BY <1>3, <1>4 DEF Nodes
<1>6. Queue' \in Seq(Nodes) /\ Len(Queue') = Len(is)
  BY <1>2, <1>5
<1>7. Siblings' = ds
  <2>1. Siblings' = [k \in 1..Len(ds) |-> ds[k]]
    <3>1. Siblings' = [k \in 1..(Len(ds) - 0) |-> ds[k + 0]]
      BY <1>1 DEF Siblings
    <3>2. Len(ds) - 0 = Len(ds) /\ \A k \in 1..Len(ds) : k + 0 = k
      OBVIOUS
    <3> QED BY <3>1, <3>2
  <2> QED BY <2>1
<1>8. Queue' = [k \in 1..Len(is) |-> [index |-> is[k], hash |-> hs[k]]]
  BY <1>3, <1>4
<1>9. Queue' = <<>> <=> is = <<>>
  <2>1. Queue' = <<>> <=> Len(Queue') = 0
    BY <1>6
  <2> QED BY <1>2, <1>6, <2>1
<1> QED BY <1>6, <1>7, <1>8, <1>9

LEMMA CallIsCall ==
    ASSUME NEW is \in Seq(Nat), NEW hs \in Seq(Hashes), NEW ds \in Seq(Hashes),
           Len(is) = Len(hs), Call(is, hs, ds)
    PROVE  Abstract!Call
<1>1. /\ Queue' \in Seq(Nodes) /\ (Queue' = <<>> <=> is = <<>>)
      /\ Siblings' = ds
  BY CallQueues
<1> QED BY <1>1, SameDigests DEF Call, Abstract!Call, Abstract!Nodes, Nodes, NoRoot, Abstract!NoRoot

(* The actions of the queue in terms of the arrays.                         *)
LEMMA Views ==
    ASSUME TypeOK, phase = "loop"
    PROVE  /\ Queue[1].index = index /\ Queue[1].hash = hashes[head]
           /\ Abstract!BelowRoot(Queue[1]) <=> index # 1
           /\ Abstract!IsLeft(Queue[1]) <=> index % 2 = 0
           /\ Abstract!SiblingIsNext <=> SiblingIsNext
           /\ SiblingIsNext => Queue[2].hash = hashes[next]
           /\ \A h : Abstract!Parent(h) = [index |-> index \div 2, hash |-> h]
<1>1. Queue[1].index = index /\ Queue[1].hash = hashes[head]
  BY QueueIs
<1>2. Len(Queue) = Count /\ (Count > 1 <=> next # tail)
  BY QueueIs
<1>3. Count > 1 => Queue[2].index = indices[next] /\ Queue[2].hash = hashes[next]
  BY QueueIs
<1>4. Abstract!SiblingIsNext <=> SiblingIsNext
  BY <1>1, <1>2, <1>3 DEF Abstract!SiblingIsNext, SiblingIsNext
<1>5. SiblingIsNext => Queue[2].hash = hashes[next]
  BY <1>2, <1>3 DEF SiblingIsNext
<1> QED BY <1>1, <1>4, <1>5 DEF Abstract!BelowRoot, Abstract!IsLeft, Abstract!Parent

LEMMA LoopIsLoop == TypeOK /\ Loop => Abstract!Loop
<1> SUFFICES ASSUME TypeOK, Loop PROVE Abstract!Loop
  OBVIOUS
<1>0. phase = "loop"
  BY DEF Loop, Restored, HashLeft, HashBoth, HashRight, OutOfDecommitments
<1> DEFINE Up(h) == [index |-> index \div 2, hash |-> h]
<1>1. /\ Queue[1].hash = hashes[head]
      /\ Abstract!BelowRoot(Queue[1]) <=> index # 1
      /\ Abstract!IsLeft(Queue[1]) <=> index % 2 = 0
      /\ Abstract!SiblingIsNext <=> SiblingIsNext
      /\ SiblingIsNext => Queue[2].hash = hashes[next]
      /\ \A h : Abstract!Parent(h) = Up(h)
  BY <1>0, Views
<1>2. /\ Siblings # <<>> <=> HasDecommitment
      /\ HasDecommitment => Siblings[1] = Decommitment
  BY SiblingsAre
<1>3. CASE Restored
  <2>1. Queue' = Queue /\ Siblings' = Siblings
    BY <1>3, StandStill DEF Restored
  <2>2. Abstract!Restored
    BY <1>1, <1>3, <2>1 DEF Restored, Abstract!Restored
  <2> QED BY <2>2 DEF Abstract!Loop
<1>4. CASE HashLeft
  <2> DEFINE h == HashPair(hashes[head], Decommitment)
  <2>1. HasDecommitment /\ Store(h) /\ head' = next /\ di' = di + 1 /\ index # 1
        /\ index % 2 = 0 /\ n' = n /\ decommitments' = decommitments
        /\ UNCHANGED <<phase, root>>
    BY <1>4 DEF HashLeft, calldata
  <2>2. h \in Hashes
    BY <1>0, <2>1, HashIs, PairIsHash
  <2>3. Queue' = Append(Tail(Queue), Up(h))
    BY <1>0, <2>1, <2>2, PopOne
  <2>4. Siblings' = Tail(Siblings)
    BY <2>1, SiblingsAdvance
  <2> HIDE DEF Up
  <2>5. Abstract!HashLeft
    BY <1>0, <1>1, <1>2, <2>1, <2>3, <2>4, SameDigests DEF Abstract!HashLeft
  <2> QED BY <2>5 DEF Abstract!Loop
<1>5. CASE HashBoth
  <2> DEFINE h == HashPair(hashes[next], hashes[head])
  <2>1. SiblingIsNext /\ Store(h) /\ head' = Wrap(next) /\ index # 1
        /\ index % 2 # 0 /\ n' = n /\ di' = di /\ decommitments' = decommitments
        /\ UNCHANGED <<phase, root>>
    BY <1>5 DEF HashBoth, calldata
  <2>2. h \in Hashes
    BY <1>0, HashIs, PairIsHash
  <2>3. Queue' = Append(Tail(Tail(Queue)), Up(h))
    BY <1>0, <2>1, <2>2, PopTwo DEF SiblingIsNext
  <2>4. Siblings' = Siblings
    BY <2>1 DEF Siblings
  <2> HIDE DEF Up
  <2>5. Abstract!HashBoth
    BY <1>0, <1>1, <2>1, <2>3, <2>4, SameDigests DEF Abstract!HashBoth
  <2> QED BY <2>5 DEF Abstract!Loop
<1>6. CASE HashRight
  <2> DEFINE h == HashPair(Decommitment, hashes[head])
  <2>1. HasDecommitment /\ Store(h) /\ head' = next /\ di' = di + 1 /\ index # 1
        /\ index % 2 # 0 /\ ~SiblingIsNext /\ n' = n /\ decommitments' = decommitments
        /\ UNCHANGED <<phase, root>>
    BY <1>6 DEF HashRight, calldata
  <2>2. h \in Hashes
    BY <1>0, <2>1, HashIs, PairIsHash
  <2>3. Queue' = Append(Tail(Queue), Up(h))
    BY <1>0, <2>1, <2>2, PopOne
  <2>4. Siblings' = Tail(Siblings)
    BY <2>1, SiblingsAdvance
  <2> HIDE DEF Up
  <2>5. Abstract!HashRight
    BY <1>0, <1>1, <1>2, <2>1, <2>3, <2>4, SameDigests DEF Abstract!HashRight
  <2> QED BY <2>5 DEF Abstract!Loop
<1>7. CASE OutOfDecommitments
  <2>1. Queue' = Queue /\ Siblings' = Siblings
    BY <1>7, StandStill DEF OutOfDecommitments
  <2>2. Abstract!OutOfSiblings
    BY <1>0, <1>1, <1>2, <1>7, <2>1 DEF OutOfDecommitments, Abstract!OutOfSiblings
  <2> QED BY <2>2 DEF Abstract!Loop
<1> QED BY <1>3, <1>4, <1>5, <1>6, <1>7 DEF Loop

LEMMA TakeIsTake == Take => Abstract!Take
<1> SUFFICES ASSUME Take PROVE Abstract!Take
  OBVIOUS
<1>1. Count' = 0 /\ Len(decommitments') - di' = 0
  BY DEF Take, Count
<1>2. Queue' = <<>> /\ Siblings' = <<>>
  BY <1>1 DEF Queue, Siblings
<1> QED BY <1>2 DEF Take, Abstract!Take, NoRoot, Abstract!NoRoot

LEMMA InitIsInit == Init => Abstract!Init
<1> SUFFICES ASSUME Init PROVE Abstract!Init
  OBVIOUS
<1>1. Count = 0 /\ Len(decommitments) - di = 0
  BY DEF Init, Count
<1>2. Queue = <<>> /\ Siblings = <<>>
  BY <1>1 DEF Queue, Siblings
<1> QED BY <1>2 DEF Init, Abstract!Init, NoRoot, Abstract!NoRoot

(* For arrays of every length the loop in place hashes the same pairs in    *)
(* the same order as the loop over a queue that only grows.                 *)
THEOREM MultiProofImplementsHashQueue == Spec => ImplementsHashQueue
<1>1. TypeOK /\ [Next]_vars => [Abstract!Next]_(Abstract!vars)
  <2> SUFFICES ASSUME TypeOK, [Next]_vars PROVE [Abstract!Next]_(Abstract!vars)
    OBVIOUS
  <2>1. ASSUME NEW is \in Seq(Nat), NEW hs \in Seq(Hashes), NEW ds \in Seq(Hashes),
               Len(is) = Len(hs), Call(is, hs, ds)
        PROVE  Abstract!Next
    BY <2>1, CallIsCall DEF Abstract!Next
  <2>2. CASE Loop
    BY <2>2, LoopIsLoop DEF Abstract!Next
  <2>3. CASE Take
    BY <2>3, TakeIsTake DEF Abstract!Next
  <2>4. CASE UNCHANGED vars
    BY <2>4, StandStill DEF vars, calldata, Abstract!vars
  <2> QED BY <2>1, <2>2, <2>3, <2>4 DEF Next
<1> QED BY <1>1, InitIsInit, MultiProofTypeCorrect, PTL
           DEF Spec, ImplementsHashQueue, Abstract!Spec

-----------------------------------------------------------------------------
LEMMA PairIsJoin == \A a, b \in Hashes : HashPair(a, b) = <<-1>> \o (a \o b)
<1> SUFFICES ASSUME NEW a \in Seq(Int), NEW b \in Seq(Int)
             PROVE  (<<-1>> \o a) \o b = <<-1>> \o (a \o b)
  BY DEF Hashes, HashPair
<1>1. <<-1>> \in Seq(Int)
  OBVIOUS
<1> QED BY <1>1, ConcatAssociative

LEMMA DigestsAreClosed == ClosedUnderHashing(Digests) /\ Digests \subseteq Hashes
<1>1. \A v \in Nat : UintToHash(v) \in Hashes
  BY DEF UintToHash, Hashes
<1>2. \A kind, v \in Int : DigestOf(kind, v) \in Hashes
  BY DEF DigestOf, Hashes
<1> QED BY <1>1, <1>2, PairIsHash DEF ClosedUnderHashing, Digests

LEMMA DigestInduction ==
    ASSUME NEW S \in SUBSET Digests, ClosedUnderHashing(S)
    PROVE  \A h \in Digests : h \in S
BY DEF Digests

LEMMA FormsOfDigests ==
    ASSUME NEW h \in Digests
    PROVE  \/ \E v \in Nat : h = UintToHash(v)
           \/ \E kind, v \in Int : h = DigestOf(kind, v)
           \/ \E a, b \in Digests : h = HashPair(a, b)
<1> DEFINE Formed(d) == \/ \E v \in Nat : d = UintToHash(v)
                        \/ \E kind, v \in Int : d = DigestOf(kind, v)
                        \/ \E a, b \in Digests : d = HashPair(a, b)
           S == {d \in Digests : Formed(d)}
<1>1. ClosedUnderHashing(S)
  BY DigestsAreClosed, Zenon DEF ClosedUnderHashing
<1>2. h \in S
  BY <1>1, DigestInduction
<1> QED BY <1>2

(* Concatenation, to be reasoned about by the lemmas that follow only.      *)
Join(s, t) == s \o t

LEMMA JoinIsHash == \A s, t \in Hashes : Join(s, t) \in Hashes
BY DEF Hashes, Join

LEMMA CutBeginning ==
    ASSUME NEW s \in Hashes, NEW t \in Hashes, NEW u \in Hashes, Join(s, t) = Join(s, u)
    PROVE  t = u
BY ConcatSimplifications DEF Hashes, Join

LEMMA JoinChunk == \A v \in Int, x \in Hashes : Join(UintToHash(v), x)[1] = v
BY DEF UintToHash, Hashes, Join

LEMMA JoinOpaque ==
    ASSUME NEW kind \in Int, NEW v \in Int, NEW x \in Hashes
    PROVE  LET s == Join(DigestOf(kind, v), x) IN s[1] = -2 /\ s[2] = kind /\ s[3] = v
BY DEF DigestOf, Hashes, Join

LEMMA JoinPair ==
    ASSUME NEW a \in Hashes, NEW b \in Hashes, NEW x \in Hashes
    PROVE  /\ Join(HashPair(a, b), x)[1] = -1
           /\ Join(HashPair(a, b), x) = Join(<<-1>>, Join(a, Join(b, x)))
<1>1. <<-1>> \in Hashes /\ b \o x \in Hashes /\ a \o b \in Hashes /\ a \o (b \o x) \in Hashes
  BY DEF Hashes
<1>2. HashPair(a, b) = <<-1>> \o (a \o b)
  BY <1>1, PairIsJoin
<1>3. HashPair(a, b) \o x = <<-1>> \o ((a \o b) \o x)
  BY <1>1, <1>2, ConcatAssociative DEF Hashes
<1>4. (a \o b) \o x = a \o (b \o x)
  BY <1>1, ConcatAssociative DEF Hashes
<1>5. HashPair(a, b) \o x = <<-1>> \o (a \o (b \o x))
  BY <1>3, <1>4
<1>6. (<<-1>> \o (a \o (b \o x)))[1] = -1
  BY <1>1 DEF Hashes
<1> QED BY <1>5, <1>6 DEF Join

(* How a sequence begins tells which digest it begins with.                 *)
LEMMA BeginningTells ==
    ASSUME NEW b \in Digests, NEW y \in Hashes
    PROVE  LET s == Join(b, y)
           IN  /\ \A v \in Nat : s[1] = v => b = UintToHash(v)
               /\ \A kind, v \in Int :
                     s[1] = -2 /\ s[2] = kind /\ s[3] = v => b = DigestOf(kind, v)
               /\ s[1] = -1 => \E c, d \in Digests : b = HashPair(c, d)
<1> DEFINE s == Join(b, y)
<1>1. \/ \E v \in Nat : b = UintToHash(v) /\ s[1] = v
      \/ \E kind, v \in Int : b = DigestOf(kind, v) /\ s[1] = -2 /\ s[2] = kind /\ s[3] = v
      \/ \E c, d \in Digests : b = HashPair(c, d) /\ s[1] = -1
  <2>1. CASE \E v \in Nat : b = UintToHash(v)
    BY <2>1, JoinChunk
  <2>2. CASE \E kind, v \in Int : b = DigestOf(kind, v)
    BY <2>2, JoinOpaque
  <2>3. CASE \E c, d \in Digests : b = HashPair(c, d)
    BY <2>3, JoinPair, DigestsAreClosed
  <2> QED BY <2>1, <2>2, <2>3, FormsOfDigests
<1> HIDE DEF s
<1>2. /\ \A v \in Nat : s[1] = v => b = UintToHash(v)
      /\ \A kind, v \in Int : s[1] = -2 /\ s[2] = kind /\ s[3] = v => b = DigestOf(kind, v)
      /\ s[1] = -1 => \E c, d \in Digests : b = HashPair(c, d)
  BY <1>1
<1> QED BY <1>2 DEF s

(* No digest is the beginning of another one.                               *)
EndsByItself(a) ==
    \A b \in Digests, x, y \in Hashes : Join(a, x) = Join(b, y) => a = b /\ x = y

LEMMA ChunkEnds == \A v \in Nat : EndsByItself(UintToHash(v))
<1> SUFFICES ASSUME NEW v \in Nat, NEW b \in Digests, NEW x \in Hashes, NEW y \in Hashes,
                    Join(UintToHash(v), x) = Join(b, y)
             PROVE  UintToHash(v) = b /\ x = y
  BY DEF EndsByItself
<1>1. UintToHash(v) \in Hashes
  BY DEF UintToHash, Hashes
<1>2. Join(b, y)[1] = v
  BY JoinChunk
<1>3. b = UintToHash(v)
  BY <1>2, BeginningTells
<1> QED BY <1>1, <1>3, CutBeginning

LEMMA OpaqueEnds == \A kind, v \in Int : EndsByItself(DigestOf(kind, v))
<1> SUFFICES ASSUME NEW kind \in Int, NEW v \in Int,
                    NEW b \in Digests, NEW x \in Hashes, NEW y \in Hashes,
                    Join(DigestOf(kind, v), x) = Join(b, y)
             PROVE  DigestOf(kind, v) = b /\ x = y
  BY DEF EndsByItself
<1>1. DigestOf(kind, v) \in Hashes
  BY DEF DigestOf, Hashes
<1>2. Join(b, y)[1] = -2 /\ Join(b, y)[2] = kind /\ Join(b, y)[3] = v
  BY JoinOpaque
<1>3. b = DigestOf(kind, v)
  BY <1>2, BeginningTells
<1> QED BY <1>1, <1>3, CutBeginning

LEMMA PairEnds ==
    ASSUME NEW c \in Digests, NEW d \in Digests, EndsByItself(c), EndsByItself(d)
    PROVE  EndsByItself(HashPair(c, d))
<1> SUFFICES ASSUME NEW b \in Digests, NEW x \in Hashes, NEW y \in Hashes,
                    Join(HashPair(c, d), x) = Join(b, y)
             PROVE  HashPair(c, d) = b /\ x = y
  BY DEF EndsByItself
<1>1. c \in Hashes /\ d \in Hashes
  BY DigestsAreClosed
<1>2. Join(b, y)[1] = -1 /\ Join(b, y) = Join(<<-1>>, Join(c, Join(d, x)))
  BY <1>1, JoinPair
<1>3. PICK e \in Digests, f \in Digests : b = HashPair(e, f)
  BY <1>2, BeginningTells
<1>4. e \in Hashes /\ f \in Hashes
  BY DigestsAreClosed
<1>5. Join(b, y) = Join(<<-1>>, Join(e, Join(f, y)))
  BY <1>3, <1>4, JoinPair
<1>6. /\ <<-1>> \in Hashes
      /\ Join(d, x) \in Hashes /\ Join(c, Join(d, x)) \in Hashes
      /\ Join(f, y) \in Hashes /\ Join(e, Join(f, y)) \in Hashes
  <2>1. <<-1>> \in Hashes
    BY DEF Hashes
  <2> QED BY <1>1, <1>4, <2>1, JoinIsHash
<1>7. Join(c, Join(d, x)) = Join(e, Join(f, y))
  BY <1>2, <1>5, <1>6, CutBeginning
<1>8. c = e /\ Join(d, x) = Join(f, y)
  BY <1>6, <1>7 DEF EndsByItself
<1>9. d = f /\ x = y
  BY <1>8 DEF EndsByItself
<1> QED BY <1>3, <1>8, <1>9

LEMMA DigestsEnd == \A a \in Digests : EndsByItself(a)
<1> DEFINE S == {a \in Digests : EndsByItself(a)}
<1>1. /\ \A v \in Nat : UintToHash(v) \in Digests
      /\ \A kind, v \in Int : DigestOf(kind, v) \in Digests
      /\ \A a, b \in Digests : HashPair(a, b) \in Digests
  BY DigestsAreClosed DEF ClosedUnderHashing
<1>2. /\ \A v \in Nat : UintToHash(v) \in S
      /\ \A kind, v \in Int : DigestOf(kind, v) \in S
  BY <1>1, ChunkEnds, OpaqueEnds, Zenon
<1>3. \A a, b \in S : HashPair(a, b) \in S
  BY <1>1, PairEnds, Zenon
<1>4. S \in SUBSET Digests /\ ClosedUnderHashing(S)
  BY <1>2, <1>3, Zenon DEF ClosedUnderHashing
<1>5. \A h \in Digests : h \in S
  BY <1>4, DigestInduction, Zenon
<1> QED BY <1>5

(* The digest of a pair determines the pair.                                *)
LEMMA PairsDiffer ==
    ASSUME NEW a \in Digests, NEW b \in Digests, NEW c \in Digests, NEW d \in Digests,
           HashPair(a, b) = HashPair(c, d)
    PROVE  a = c /\ b = d
<1>1. a \in Hashes /\ b \in Hashes /\ c \in Hashes /\ d \in Hashes
  BY DigestsAreClosed
<1>2. <<-1>> \in Hashes /\ Join(a, b) \in Hashes /\ Join(c, d) \in Hashes
  <2>1. <<-1>> \in Hashes
    BY DEF Hashes
  <2> QED BY <1>1, <2>1, JoinIsHash
<1>3. HashPair(a, b) = Join(<<-1>>, Join(a, b)) /\ HashPair(c, d) = Join(<<-1>>, Join(c, d))
  BY <1>1, PairIsJoin, Zenon DEF Join
<1>4. Join(a, b) = Join(c, d)
  BY <1>2, <1>3, CutBeginning
<1> QED BY <1>1, <1>4, DigestsEnd DEF EndsByItself

-----------------------------------------------------------------------------
(* The queue between two rounds: two layers of the tree at most, each from  *)
(* the right to the left, the lower one first.                              *)
Layered(q, width) ==
    /\ \A k \in 1..Len(q) : q[k].index \in 1..(2 * width - 1) /\ q[k].hash \in Digests
    /\ Descending(q)
    /\ Len(q) >= 1 => q[1].index < 2 * q[Len(q)].index

LEMMA Half ==
    ASSUME NEW i \in Nat, i > 1
    PROVE  /\ i \div 2 \in Nat /\ 1 <= i \div 2 /\ i \div 2 < i
           /\ i % 2 = 0 => 2 * (i \div 2) = i
           /\ i % 2 # 0 => 2 * (i \div 2) + 1 = i
OBVIOUS

LEMMA LengthIsNat == \A S : \A q \in Seq(S) : Len(q) \in Nat
OBVIOUS

LEMMA LeavesAreLayered ==
    ASSUME NEW width \in Nat \ {0}, NEW q, Len(q) \in Nat, AreLeaves(q, width)
    PROVE  Layered(q, width)
BY DEF AreLeaves, Layered

(* The first d nodes are taken and their parent goes to the end.            *)
Raised(q, d, h, p) ==
    /\ Len(p) = Len(q) - d + 1
    /\ \A k \in 1..(Len(q) - d) : p[k] = q[k + d]
    /\ p[Len(p)] = [index |-> q[1].index \div 2, hash |-> h]

LEMMA NextLayer ==
    ASSUME NEW width \in Nat \ {0}, NEW q, Len(q) \in Nat, Layered(q, width),
           NEW d \in 1..Len(q), q[1].index > 1, NEW h \in Digests,
           \A k \in (d + 1)..Len(q) : q[k].index < 2 * (q[1].index \div 2),
           NEW p, Raised(q, d, h, p)
    PROVE  Layered(p, width)
<1> DEFINE m == Len(q)
           g == q[1].index \div 2
<1>1. m \in Nat /\ d \in Nat /\ 1 <= d /\ d <= m
  OBVIOUS
<1>2. q[1].index \in 1..(2 * width - 1) /\ q[m].index \in 1..(2 * width - 1)
  BY <1>1 DEF Layered
<1>3. g \in Nat /\ 1 <= g /\ g < q[1].index /\ g < q[m].index
  <2>1. q[1].index < 2 * q[m].index
    BY <1>1 DEF Layered
  <2> QED BY <1>2, <2>1, Half
<1>4. \A k \in 1..m : q[k].index \in Nat /\ q[k].index > g
  <2> TAKE k \in 1..m
  <2>1. q[k].index \in Nat
    BY DEF Layered
  <2>2. CASE k = m
    BY <1>3, <2>1, <2>2
  <2>3. CASE k # m
    <3>1. q[k].index > q[m].index
      <4>1. k < m /\ m \in 1..m
        BY <1>1, <2>3
      <4> QED BY <4>1 DEF Layered, Descending
    <3> QED BY <1>2, <1>3, <2>1, <3>1
  <2> QED BY <2>2, <2>3
<1>5. /\ Len(p) = m - d + 1 /\ p[m - d + 1].index = g /\ p[m - d + 1].hash = h
      /\ \A k \in 1..(m - d) : p[k] = q[k + d] /\ k + d \in 1..m
  BY <1>1 DEF Raised
<1> HIDE DEF g
<1>6. ASSUME NEW k \in 1..Len(p)
      PROVE  p[k].index \in 1..(2 * width - 1) /\ p[k].hash \in Digests
  <2>1. CASE k = m - d + 1
    BY <1>2, <1>3, <1>5, <2>1
  <2>2. CASE k # m - d + 1
    <3>1. k \in 1..(m - d)
      <4>1. Len(p) = m - d + 1
        BY <1>5
      <4>2. k \in 1..(m - d + 1)
        BY <4>1
      <4> QED BY <1>1, <2>2, <4>2
    <3>2. p[k] = q[k + d] /\ k + d \in 1..m
      BY <1>5, <3>1
    <3> QED BY <3>2 DEF Layered
  <2> QED BY <2>1, <2>2
<1>7. ASSUME NEW j \in 1..Len(p), NEW k \in 1..Len(p), j < k
      PROVE  p[j].index > p[k].index
  <2>1. p[j] = q[j + d] /\ j + d \in 1..m
    <3>1. j \in 1..(m - d)
      BY <1>1, <1>5, <1>7
    <3> QED BY <1>5, <3>1
  <2>2. CASE k = m - d + 1
    BY <1>4, <1>5, <2>1, <2>2
  <2>3. CASE k # m - d + 1
    <3>1. p[k] = q[k + d] /\ k + d \in 1..m /\ j + d < k + d
      <4>1. k \in 1..(m - d)
        BY <1>1, <1>5, <2>3
      <4>2. j + d < k + d
        BY <1>1, <1>5, <1>7
      <4> QED BY <1>5, <4>1, <4>2
    <3>2. \A a, b \in 1..m : a < b => q[a].index > q[b].index
      BY DEF Layered, Descending
    <3>3. q[j + d].index > q[k + d].index
      BY <2>1, <3>1, <3>2
    <3> QED BY <2>1, <3>1, <3>3
  <2> QED BY <2>2, <2>3
<1>8. p[1].index < 2 * p[Len(p)].index
  <2>1. p[Len(p)].index = g
    BY <1>5
  <2>2. CASE m = d
    BY <1>1, <1>3, <1>5, <2>1, <2>2
  <2>3. CASE m # d
    <3>1. p[1] = q[1 + d] /\ 1 + d \in (d + 1)..m
      BY <1>1, <1>5, <2>3
    <3>2. q[1 + d].index < 2 * g
      BY <3>1 DEF g
    <3> QED BY <2>1, <3>1, <3>2
  <2> QED BY <2>2, <2>3
<1> QED BY <1>6, <1>7, <1>8 DEF Layered, Descending

(* What the digest of a pair is of, if it is where the tree has it.         *)
LEMMA ChildrenAgree ==
    ASSUME NEW width \in Nat \ {0}, NEW tree, IsTree(tree, width),
           NEW q, Len(q) \in Nat, Layered(q, width), NEW d \in 1..Len(q), q[1].index > 1,
           NEW x \in Digests, NEW y \in Digests,
           NEW p, Raised(q, d, HashPair(x, y), p), Agree(p, tree)
    PROVE  /\ \A k \in (d + 1)..Len(q) : q[k].hash = tree[q[k].index]
           /\ x = tree[2 * (q[1].index \div 2)]
           /\ y = tree[2 * (q[1].index \div 2) + 1]
<1> DEFINE m == Len(q)
           g == q[1].index \div 2
<1>1. m \in Nat /\ d \in Nat /\ 1 <= d /\ d <= m
  OBVIOUS
<1>2. q[1].index \in 1..(2 * width - 1)
  BY <1>1 DEF Layered
<1>3. g \in 1..(width - 1) /\ 2 * g \in 1..(2 * width - 1) /\ 2 * g + 1 \in 1..(2 * width - 1)
  BY <1>2, Half
<1>4. /\ Len(p) = m - d + 1 /\ p[m - d + 1].index = g /\ p[m - d + 1].hash = HashPair(x, y)
      /\ \A k \in 1..(m - d) : p[k] = q[k + d]
  BY <1>1 DEF Raised
<1> HIDE DEF g
<1>5. ASSUME NEW k \in (d + 1)..m PROVE q[k].hash = tree[q[k].index]
  <2>1. k - d \in 1..(m - d) /\ k - d \in 1..Len(p) /\ (k - d) + d = k
    BY <1>1, <1>4
  <2>2. p[k - d] = q[k]
    BY <1>4, <2>1
  <2>3. p[k - d].hash = tree[p[k - d].index]
    BY <2>1 DEF Agree
  <2> QED BY <2>2, <2>3
<1>6. HashPair(x, y) = tree[g]
  <2>1. m - d + 1 \in 1..Len(p)
    BY <1>1, <1>4
  <2> QED BY <1>4, <2>1 DEF Agree
<1>7. tree[g] = HashPair(tree[2 * g], tree[2 * g + 1])
      /\ tree[2 * g] \in Digests /\ tree[2 * g + 1] \in Digests
  BY <1>3 DEF IsTree
<1>8. x = tree[2 * g] /\ y = tree[2 * g + 1]
  BY <1>6, <1>7, PairsDiffer
<1> QED BY <1>5, <1>8 DEF g

LEMMA RaisedByOne ==
    ASSUME NEW q \in Seq(Nodes), Len(q) >= 1, NEW h,
           [index |-> q[1].index \div 2, hash |-> h] \in Nodes
    PROVE  Raised(q, 1, h, Append(Tail(q), [index |-> q[1].index \div 2, hash |-> h]))
<1> DEFINE x == [index |-> q[1].index \div 2, hash |-> h]
<1> HIDE DEF x
<1>1. /\ Tail(q) \in Seq(Nodes) /\ Len(Tail(q)) = Len(q) - 1 /\ Len(q) \in Nat
      /\ \A k \in 1..(Len(q) - 1) : Tail(q)[k] = q[k + 1]
  OBVIOUS
<1> DEFINE t == Tail(q)
<1> HIDE DEF t
<1>2. x \in Nodes
  BY DEF x
<1>3. /\ Len(Append(t, x)) = Len(t) + 1 /\ Append(t, x)[Len(t) + 1] = x
      /\ \A k \in 1..Len(t) : Append(t, x)[k] = t[k]
  BY <1>1, <1>2 DEF t
<1> QED BY <1>1, <1>3 DEF Raised, t, x

LEMMA RaisedByTwo ==
    ASSUME NEW q \in Seq(Nodes), Len(q) >= 2, NEW h,
           [index |-> q[1].index \div 2, hash |-> h] \in Nodes
    PROVE  Raised(q, 2, h, Append(Tail(Tail(q)), [index |-> q[1].index \div 2, hash |-> h]))
<1> DEFINE x == [index |-> q[1].index \div 2, hash |-> h]
           r == Tail(q)
           t == Tail(r)
<1> HIDE DEF x
<1>1. /\ r \in Seq(Nodes) /\ Len(r) = Len(q) - 1 /\ Len(q) \in Nat
      /\ \A k \in 1..(Len(q) - 1) : r[k] = q[k + 1]
  OBVIOUS
<1> HIDE DEF r
<1>2. /\ t \in Seq(Nodes) /\ Len(t) = Len(r) - 1
      /\ \A k \in 1..(Len(r) - 1) : t[k] = r[k + 1]
  BY <1>1
<1> HIDE DEF t
<1>3. \A k \in 1..(Len(q) - 2) : t[k] = q[k + 2]
  <2> TAKE k \in 1..(Len(q) - 2)
  <2>1. k \in 1..(Len(r) - 1) /\ k + 1 \in 1..(Len(q) - 1) /\ (k + 1) + 1 = k + 2
    BY <1>1
  <2> QED BY <1>1, <1>2, <2>1
<1>4. x \in Nodes
  BY DEF x
<1>5. /\ Len(Append(t, x)) = Len(t) + 1 /\ Append(t, x)[Len(t) + 1] = x
      /\ \A k \in 1..Len(t) : Append(t, x)[k] = t[k]
  BY <1>2, <1>4
<1>6. Len(t) = Len(q) - 2
  BY <1>1, <1>2
<1>7. Raised(q, 2, h, Append(t, x))
  BY <1>1, <1>3, <1>5, <1>6 DEF Raised, x
<1> QED BY <1>7 DEF t, r, x

(* Once the first is taken, with its sibling if that is in the queue, all   *)
(* that are left are to the left of both.                                   *)
LEMMA LeftOfPair ==
    ASSUME NEW width \in Nat \ {0}, NEW q, Len(q) \in Nat, Layered(q, width),
           Len(q) >= 1, q[1].index > 1
    PROVE  LET paired == Len(q) > 1 /\ q[2].index = q[1].index - 1
               g == q[1].index \div 2
           IN  /\ q[1].index % 2 = 0 \/ ~paired =>
                     \A k \in 2..Len(q) : q[k].index < 2 * g
               /\ q[1].index % 2 # 0 /\ paired =>
                     \A k \in 3..Len(q) : q[k].index < 2 * g
<1> DEFINE paired == Len(q) > 1 /\ q[2].index = q[1].index - 1
           g == q[1].index \div 2
<1>1. \A k \in 1..Len(q) : q[k].index \in Nat
  BY DEF Layered
<1>2. \A j, k \in 1..Len(q) : j < k => q[j].index > q[k].index
  BY DEF Layered, Descending
<1>3. /\ g \in Nat
      /\ q[1].index % 2 = 0 => 2 * g = q[1].index
      /\ q[1].index % 2 # 0 => 2 * g + 1 = q[1].index
  <2>1. q[1].index \in Nat
    BY <1>1
  <2> QED BY <2>1, Half
<1> HIDE DEF g
<1>4. \A k \in 2..Len(q) : q[k].index < q[1].index
  BY <1>2
<1>5. \A k \in 3..Len(q) : q[k].index < q[2].index /\ q[2].index < q[1].index
  BY <1>2
<1>6. ASSUME q[1].index % 2 # 0 PROVE \A k \in 3..Len(q) : q[k].index < 2 * g
  <2> TAKE k \in 3..Len(q)
  <2>1. q[k].index \in Nat /\ q[2].index \in Nat /\ q[1].index \in Nat
    BY <1>1
  <2>2. q[k].index < q[2].index /\ q[2].index < q[1].index
    BY <1>5
  <2> QED BY <1>3, <1>6, <2>1, <2>2
<1>7. ASSUME q[1].index % 2 = 0 PROVE \A k \in 2..Len(q) : q[k].index < 2 * g
  BY <1>3, <1>4, <1>7
<1>8. ASSUME q[1].index % 2 # 0, ~paired PROVE \A k \in 2..Len(q) : q[k].index < 2 * g
  <2> TAKE k \in 2..Len(q)
  <2>1. CASE k = 2
    <3>1. 2 \in 2..Len(q) /\ 2 \in 1..Len(q) /\ 1 \in 1..Len(q) /\ Len(q) > 1
      BY <2>1
    <3>2. q[2].index \in Nat /\ q[2].index < q[1].index /\ q[1].index \in Nat
      BY <1>1, <1>4, <3>1
    <3>3. q[2].index # q[1].index - 1
      BY <1>8, <3>1
    <3> QED BY <1>3, <1>8, <2>1, <3>2, <3>3
  <2>2. CASE k # 2
    BY <1>6, <1>8, <2>2
  <2> QED BY <2>1, <2>2
<1> QED BY <1>6, <1>7, <1>8 DEF g

(* A round keeps the queue layered, and if the tree has its result where it *)
(* is, then it also has what was taken.                                     *)
RoundIsRight(q, p, tree, width) ==
    Layered(p, width) /\ (Agree(p, tree) => Agree(q, tree))

LEMMA OneRound ==
    ASSUME NEW width \in Nat \ {0}, NEW tree, IsTree(tree, width),
           NEW q \in Seq(Nodes), Layered(q, width), Len(q) >= 1, q[1].index # 1,
           q[1].index % 2 = 0 \/ ~(Len(q) > 1 /\ q[2].index = q[1].index - 1),
           NEW x \in Digests, NEW y \in Digests,
           q[1].hash = IF q[1].index % 2 = 0 THEN x ELSE y
    PROVE  RoundIsRight(q, Append(Tail(q),
               [index |-> q[1].index \div 2, hash |-> HashPair(x, y)]), tree, width)
<1> DEFINE h == HashPair(x, y)
           g == q[1].index \div 2
           p == Append(Tail(q), [index |-> g, hash |-> h])
<1>1. /\ Len(q) \in Nat /\ 1 \in 1..Len(q) /\ q[1].index \in Nat /\ q[1].index > 1
      /\ h \in Digests /\ h \in Hashes
  <2>1. Len(q) \in Nat /\ 1 \in 1..Len(q)
    OBVIOUS
  <2>2. q[1].index \in 1..(2 * width - 1)
    BY <2>1 DEF Layered
  <2>3. h \in Digests /\ h \in Hashes
    BY DigestsAreClosed DEF ClosedUnderHashing
  <2> QED BY <2>1, <2>2, <2>3
<1>2. /\ g \in Nat
      /\ q[1].index % 2 = 0 => 2 * g = q[1].index
      /\ q[1].index % 2 # 0 => 2 * g + 1 = q[1].index
  BY <1>1, Half
<1>3. Raised(q, 1, h, p)
  <2>1. [index |-> g, hash |-> h] \in Nodes
    BY <1>1, <1>2 DEF Nodes
  <2> QED BY <2>1, RaisedByOne
<1> HIDE DEF p, h
<1>4. \A k \in (1 + 1)..Len(q) : q[k].index < 2 * g
  BY <1>1, LeftOfPair
<1>5. Layered(p, width)
  BY <1>1, <1>3, <1>4, NextLayer
<1>6. ASSUME Agree(p, tree) PROVE Agree(q, tree)
  <2>1. /\ \A k \in (1 + 1)..Len(q) : q[k].hash = tree[q[k].index]
        /\ x = tree[2 * g] /\ y = tree[2 * g + 1]
    BY <1>1, <1>3, <1>6, ChildrenAgree DEF h
  <2>2. q[1].hash = tree[q[1].index]
    <3> HIDE DEF g
    <3> QED BY <1>2, <2>1
  <2>3. ASSUME NEW k \in 1..Len(q) PROVE q[k].hash = tree[q[k].index]
    <3>1. CASE k = 1
      BY <2>2, <3>1
    <3>2. CASE k # 1
      BY <1>1, <2>1, <3>2
    <3> QED BY <3>1, <3>2
  <2> QED BY <2>3 DEF Agree
<1> QED BY <1>5, <1>6 DEF RoundIsRight, p, h

LEMMA TwoRound ==
    ASSUME NEW width \in Nat \ {0}, NEW tree, IsTree(tree, width),
           NEW q \in Seq(Nodes), Layered(q, width), Len(q) > 1, q[1].index # 1,
           q[1].index % 2 # 0, q[2].index = q[1].index - 1
    PROVE  RoundIsRight(q, Append(Tail(Tail(q)),
               [index |-> q[1].index \div 2, hash |-> HashPair(q[2].hash, q[1].hash)]),
               tree, width)
<1> DEFINE x == q[2].hash
           y == q[1].hash
           h == HashPair(x, y)
           g == q[1].index \div 2
           p == Append(Tail(Tail(q)), [index |-> g, hash |-> h])
<1>1. /\ Len(q) \in Nat /\ 1 \in 1..Len(q) /\ 2 \in 1..Len(q)
      /\ q[1].index \in Nat /\ q[1].index > 1 /\ q[2].index \in Nat
      /\ x \in Digests /\ y \in Digests /\ h \in Digests /\ h \in Hashes
  <2>1. Len(q) \in Nat /\ 1 \in 1..Len(q) /\ 2 \in 1..Len(q)
    OBVIOUS
  <2>2. /\ q[1].index \in 1..(2 * width - 1) /\ q[2].index \in 1..(2 * width - 1)
        /\ x \in Digests /\ y \in Digests
    BY <2>1 DEF Layered
  <2>3. h \in Digests /\ h \in Hashes
    BY <2>2, DigestsAreClosed DEF ClosedUnderHashing
  <2> QED BY <2>1, <2>2, <2>3
<1>2. g \in Nat /\ 2 * g + 1 = q[1].index
  BY <1>1, Half
<1>3. Raised(q, 2, h, p)
  <2>1. [index |-> g, hash |-> h] \in Nodes
    BY <1>1, <1>2 DEF Nodes
  <2> QED BY <1>1, <2>1, RaisedByTwo
<1> HIDE DEF p, h
<1>4. \A k \in (2 + 1)..Len(q) : q[k].index < 2 * g
  BY <1>1, LeftOfPair
<1>5. Layered(p, width)
  BY <1>1, <1>3, <1>4, NextLayer
<1>6. ASSUME Agree(p, tree) PROVE Agree(q, tree)
  <2>1. /\ \A k \in (2 + 1)..Len(q) : q[k].hash = tree[q[k].index]
        /\ x = tree[2 * g] /\ y = tree[2 * g + 1]
    <3> HIDE DEF x, y
    <3> QED BY <1>1, <1>3, <1>6, ChildrenAgree DEF h
  <2>2. q[1].hash = tree[q[1].index] /\ q[2].hash = tree[q[2].index]
    <3>1. q[2].index = 2 * g
      <4> HIDE DEF g
      <4> QED BY <1>1, <1>2
    <3> HIDE DEF g
    <3> QED BY <1>2, <2>1, <3>1
  <2>3. ASSUME NEW k \in 1..Len(q) PROVE q[k].hash = tree[q[k].index]
    <3>1. CASE k \in {1, 2}
      BY <2>2, <3>1
    <3>2. CASE k \notin {1, 2}
      BY <1>1, <2>1, <3>2
    <3> QED BY <3>1, <3>2
  <2> QED BY <2>3 DEF Agree
<1> QED BY <1>5, <1>6 DEF RoundIsRight, p, h

LEMMA RootIsLast ==
    ASSUME NEW width \in Nat \ {0}, NEW tree, NEW q, Len(q) \in Nat, Layered(q, width),
           Len(q) >= 1, q[1].index = 1, q[1].hash = tree[1]
    PROVE  Agree(q, tree)
<1>1. Len(q) = 1
  <2> DEFINE m == Len(q)
  <2>1. ASSUME m > 1 PROVE FALSE
    <3>1. 1 \in 1..m /\ m \in 1..m
      BY <2>1
    <3>2. q[1].index > q[m].index /\ q[m].index \in 1..(2 * width - 1)
      BY <2>1, <3>1 DEF Layered, Descending
    <3> QED BY <3>2
  <2>2. m \in Nat /\ m >= 1
    OBVIOUS
  <2> HIDE DEF m
  <2>3. m = 1
    BY <2>1, <2>2
  <2> QED BY <2>3 DEF m
<1> QED BY <1>1 DEF Agree

LEMMA LoopIsRight ==
    ASSUME NEW width \in Nat \ {0}, NEW tree, IsTree(tree, width), TypeOK, Loop,
           decommitments \in Seq(Digests), Layered(Queue, width)
    PROVE  /\ phase' = "loop" => RoundIsRight(Queue, Queue', tree, width)
           /\ phase' = "restored" /\ root' = tree[1] => Agree(Queue, tree)
<1>1. phase = "loop"
  BY DEF Loop, Restored, HashLeft, HashBoth, HashRight, OutOfDecommitments
<1>2. /\ Queue \in Seq(Nodes) /\ Len(Queue) \in Nat /\ Len(Queue) >= 1
  BY <1>1, QueueIs, LengthIsNat
<1>3. 1 \in 1..Len(Queue) /\ Queue[1].hash \in Digests
  BY <1>2 DEF Layered
<1>4. Siblings # <<>> => Siblings[1] \in Digests
  <2>1. Siblings # <<>> => Siblings[1] = decommitments[di + 1] /\ di < Len(decommitments)
    BY SiblingsAre DEF Decommitment, HasDecommitment
  <2>2. di \in Nat
    BY DEF TypeOK
  <2> QED BY <2>1, <2>2
<1>5. /\ \A k : Abstract!BelowRoot(k) <=> k.index # 1
      /\ \A k : Abstract!IsLeft(k) <=> k.index % 2 = 0
      /\ Abstract!SiblingIsNext <=> Len(Queue) > 1 /\ Queue[2].index = Queue[1].index - 1
      /\ \A h : Abstract!Parent(h) = [index |-> Queue[1].index \div 2, hash |-> h]
      /\ \A a, b : Abstract!HashPair(a, b) = HashPair(a, b)
  BY SameDigests DEF Abstract!BelowRoot, Abstract!IsLeft, Abstract!SiblingIsNext, Abstract!Parent
<1>6. CASE Abstract!Restored
  <2>1. Queue[1].index = 1 /\ root' = Queue[1].hash /\ phase' = "restored"
    BY <1>5, <1>6 DEF Abstract!Restored
  <2> QED BY <1>2, <2>1, RootIsLast
<1>7. CASE Abstract!HashLeft
  <2>1. /\ Queue[1].index # 1 /\ Queue[1].index % 2 = 0 /\ Siblings # <<>>
        /\ Queue' = Append(Tail(Queue), [index |-> Queue[1].index \div 2,
                                         hash |-> HashPair(Queue[1].hash, Siblings[1])])
        /\ phase' = "loop"
    BY <1>5, <1>7 DEF Abstract!HashLeft
  <2> QED BY <1>2, <1>3, <1>4, <2>1, OneRound
<1>8. CASE Abstract!HashBoth
  <2>1. /\ Queue[1].index # 1 /\ Queue[1].index % 2 # 0
        /\ Len(Queue) > 1 /\ Queue[2].index = Queue[1].index - 1
        /\ Queue' = Append(Tail(Tail(Queue)), [index |-> Queue[1].index \div 2,
                                               hash |-> HashPair(Queue[2].hash, Queue[1].hash)])
        /\ phase' = "loop"
    BY <1>5, <1>8 DEF Abstract!HashBoth
  <2> QED BY <1>2, <2>1, TwoRound
<1>9. CASE Abstract!HashRight
  <2>1. /\ Queue[1].index # 1 /\ Queue[1].index % 2 # 0 /\ Siblings # <<>>
        /\ ~(Len(Queue) > 1 /\ Queue[2].index = Queue[1].index - 1)
        /\ Queue' = Append(Tail(Queue), [index |-> Queue[1].index \div 2,
                                         hash |-> HashPair(Siblings[1], Queue[1].hash)])
        /\ phase' = "loop"
    BY <1>5, <1>9 DEF Abstract!HashRight
  <2> QED BY <1>2, <1>3, <1>4, <2>1, OneRound
<1>10. CASE Abstract!OutOfSiblings
  BY <1>10 DEF Abstract!OutOfSiblings
<1> QED BY <1>6, <1>7, <1>8, <1>9, <1>10, LoopIsLoop DEF Abstract!Loop

(* While the loop runs: if the tree has what is in the queue, it has what   *)
(* was shown.                                                               *)
ShownFollows(tree, width) ==
    AreLeaves(shown, width) /\ decommitments \in Seq(Digests) =>
        /\ phase = "loop" => RoundIsRight(shown, Queue, tree, width)
        /\ phase = "restored" /\ root = tree[1] => Agree(shown, tree)

LEMMA ShownNextKeeps ==
    ASSUME NEW width \in Nat \ {0}, NEW tree, IsTree(tree, width),
           TypeOK, ShownFollows(tree, width), [ShownNext]_shownVars
    PROVE  ShownFollows(tree, width)'
<1>1. ASSUME NEW is \in Seq(Nat), NEW hs \in Seq(Hashes), NEW ds \in Seq(Hashes),
             Len(is) = Len(hs), ShownCall(is, hs, ds)
      PROVE  ShownFollows(tree, width)'
  <2>1. Queue' = shown' /\ Len(shown') = Len(is) /\ Len(is) \in Nat
    BY <1>1, CallQueues DEF ShownCall
  <2>2. phase' = "restored" => Len(is) = 0
    BY <1>1 DEF ShownCall, Call
  <2>3. AreLeaves(shown, width)' => Layered(Queue', width)
    BY <2>1, LeavesAreLayered DEF AreLeaves
  <2>4. Len(is) = 0 => Agree(shown, tree)'
    BY <2>1 DEF Agree
  <2> QED BY <2>1, <2>2, <2>3, <2>4 DEF ShownFollows, RoundIsRight
<1>2. CASE Loop /\ UNCHANGED shown
  <2>1. phase = "loop" /\ decommitments' = decommitments /\ shown' = shown
    BY <1>2 DEF Loop, Restored, HashLeft, HashBoth, HashRight, OutOfDecommitments, calldata
  <2>2. SUFFICES ASSUME AreLeaves(shown, width), decommitments \in Seq(Digests)
                 PROVE  /\ phase' = "loop" => RoundIsRight(shown, Queue', tree, width)
                        /\ phase' = "restored" /\ root' = tree[1] => Agree(shown, tree)
    BY <2>1 DEF ShownFollows
  <2>3. Layered(Queue, width) /\ (Agree(Queue, tree) => Agree(shown, tree))
    BY <2>1, <2>2 DEF ShownFollows, RoundIsRight
  <2>4. /\ phase' = "loop" => RoundIsRight(Queue, Queue', tree, width)
        /\ phase' = "restored" /\ root' = tree[1] => Agree(Queue, tree)
    BY <1>2, <2>2, <2>3, LoopIsRight
  <2> QED BY <2>3, <2>4 DEF RoundIsRight
<1>3. CASE Take
  BY <1>3 DEF Take, ShownFollows
<1>4. CASE UNCHANGED shownVars
  <2>1. Queue' = Queue
    BY <1>4, StandStill DEF shownVars, vars, calldata
  <2>2. shown' = shown /\ phase' = phase /\ root' = root /\ decommitments' = decommitments
    BY <1>4 DEF shownVars, vars
  <2> QED BY <2>1, <2>2 DEF ShownFollows
<1> QED BY <1>1, <1>2, <1>3, <1>4 DEF ShownNext

(* A root is never restored from leaves that are not the tree's: for every  *)
(* tree, every choice of leaves and whatever decommitments are sent, the    *)
(* hashes of _aggregateMissingPubkeys are those of the committee's keys at  *)
(* the places that the bits name (restoreMerkleMultiRoot).                  *)
THEOREM RestoredLeavesAreTheTrees ==
    ASSUME NEW width \in Nat \ {0}, NEW tree, IsTree(tree, width)
    PROVE  ShownSpec => []RestoredIsShown(tree, width)
<1> DEFINE J == TypeOK /\ ShownFollows(tree, width)
           R == RestoredIsShown(tree, width)
<1>1. ShownInit => J
  BY InitTypeOK DEF ShownInit, Init, ShownFollows
<1>2. J /\ [ShownNext]_shownVars => J'
  <2>1. [ShownNext]_shownVars => [Next]_vars
    BY DEF ShownNext, ShownCall, shownVars, Next
  <2>2. J /\ [ShownNext]_shownVars => TypeOK'
    BY <2>1, NextTypeOK
  <2>3. J /\ [ShownNext]_shownVars => ShownFollows(tree, width)'
    BY ShownNextKeeps
  <2> QED BY <2>2, <2>3
<1>3. J => R
  BY DEF ShownFollows, RestoredIsShown
<1> QED BY <1>1, <1>2, <1>3, PTL DEF ShownSpec

-----------------------------------------------------------------------------
(* The Merkle root of a sequence of leaves.                                 *)

LEMMA ZeroHashIs ==
    /\ ZeroHash \in [Nat -> Digests]
    /\ ZeroHash[0] = UintToHash(0) /\ ZeroHash[1] = UintToHash(0)
    /\ \A m \in Nat : m > 1 => ZeroHash[m] = HashPair(ZeroHash[m \div 2], ZeroHash[m \div 2])
<1> DEFINE V == Digests
           body(f, m) == IF m <= 1 THEN UintToHash(0)
                         ELSE LET half == f[m \div 2] IN HashPair(half, half)
           D == [p \in Nat \X [Nat -> V] |-> body(p[2], p[1])]
           Is(f) == f = [m \in Nat |-> body(f, m)]
<1>1. UintToHash(0) \in V /\ \A a, b \in V : HashPair(a, b) \in V
  BY DigestsAreClosed DEF ClosedUnderHashing
<1>2. \A m \in Nat : m > 1 => m \div 2 \in 0..(m - 1) /\ m \div 2 \in Nat
  OBVIOUS
<1> HIDE DEF V
<1>3. D \in [Nat \X [Nat -> V] -> V]
  <2>1. \A m \in Nat, f \in [Nat -> V] : body(f, m) \in V
    BY <1>1, <1>2
  <2> HIDE DEF body
  <2> QED BY <2>1
<1>4. PastOnly(D, V)
  BY <1>2 DEF PastOnly
<1>5. \A m \in Nat, f \in [Nat -> V] : D[<<m, f>>] = body(f, m)
  OBVIOUS
<1> HIDE DEF D
<1>6. PICK f \in [Nat -> V] : FromPast(f, D)
  <2> DEFINE v == UintToHash(0)
  <2>1. v \in V
    BY <1>1
  <2> HIDE DEF v, body, Is
  <2> QED BY <2>1, <1>3, <1>4, HistoryRecursion
<1>7. Is(f)
  BY <1>5, <1>6 DEF FromPast
<1>8. Is(ZeroHash)
  BY <1>7 DEF ZeroHash
<1>9. \A m \in Nat : ZeroHash[m] = body(ZeroHash, m)
  BY <1>8
<1>10. \A m \in Nat : ZeroHash[m] \in V
  <2> DEFINE T == {m \in Nat : ZeroHash[m] \in V}
  <2>1. ASSUME NEW m \in Nat, \A k \in 0..(m - 1) : k \in T PROVE m \in T
    <3>1. m > 1 => ZeroHash[m \div 2] \in V
      BY <1>2, <2>1
    <3> QED BY <1>1, <1>9, <3>1
  <2>2. \A m \in Nat : m \in T
    BY <2>1, StrongInduction
  <2> QED BY <2>2
<1>11. ZeroHash \in [Nat -> V]
  BY <1>8, <1>10
<1>12. ZeroHash[0] = UintToHash(0) /\ ZeroHash[1] = UintToHash(0)
  BY <1>9
<1>13. \A m \in Nat : m > 1 => ZeroHash[m] = HashPair(ZeroHash[m \div 2], ZeroHash[m \div 2])
  BY <1>9
<1> QED BY <1>11, <1>12, <1>13 DEF V
(* A tree with n leaves of which some are given.                            *)
IsSlice(s, leaves, first, k) ==
    /\ first + k <= Len(leaves) => Len(s) = k
    /\ first <= Len(leaves) /\ Len(leaves) < first + k => Len(s) = Len(leaves) - first
    /\ Len(leaves) < first => s = <<>>
    /\ \A i \in 1..Len(s) : first + i \in 1..Len(leaves) /\ s[i] = leaves[first + i]

LEMMA SliceIs ==
    ASSUME NEW S, NEW leaves \in Seq(S), NEW first \in Nat, NEW k \in Nat
    PROVE  /\ Slice(leaves, first, k) \in Seq(S)
           /\ IsSlice(Slice(leaves, first, k), leaves, first, k)
<1> DEFINE m == first + 1
           last == IF first + k <= Len(leaves) THEN first + k ELSE Len(leaves)
<1>1. Len(leaves) \in Nat /\ m \in Int /\ last \in Int /\ \A i \in m..last : leaves[i] \in S
  OBVIOUS
<1>2. Slice(leaves, first, k) = SubSeq(leaves, m, last)
  BY DEF Slice
<1> HIDE DEF m, last
<1>3. /\ SubSeq(leaves, m, last) \in Seq(S)
      /\ Len(SubSeq(leaves, m, last)) = IF m <= last THEN last - m + 1 ELSE 0
      /\ \A i \in 1..(last - m + 1) : SubSeq(leaves, m, last)[i] = leaves[m + i - 1]
  BY <1>1, SubSeqProperties
<1>4. last < m => SubSeq(leaves, m, last) = <<>>
  BY <1>1, SubSeqEmpty
<1> QED BY <1>1, <1>2, <1>3, <1>4 DEF m, last, IsSlice


(* The digest of the chunks below a node that has room for m of them.       *)
MerkleOf(f, m, chunks) ==
    CASE chunks = <<>>              -> ZeroHash[m]
      [] chunks # <<>> /\ m = 1     -> chunks[1]
      [] chunks # <<>> /\ m # 1 /\ Len(chunks) <= m \div 2 ->
            HashPair(f[m \div 2][chunks], ZeroHash[m \div 2])
      [] OTHER -> HashPair(f[m \div 2][SubSeq(chunks, 1, m \div 2)],
                           f[m \div 2][SubSeq(chunks, m \div 2 + 1, Len(chunks))])

LEMMA MerkleCases ==
    ASSUME NEW f, NEW m \in Nat \ {0}, NEW S, NEW chunks \in Seq(S)
    PROVE  /\ chunks = <<>> => MerkleOf(f, m, chunks) = ZeroHash[m]
           /\ chunks # <<>> /\ m = 1 => MerkleOf(f, m, chunks) = chunks[1]
           /\ chunks # <<>> /\ m # 1 /\ Len(chunks) <= m \div 2 =>
                 MerkleOf(f, m, chunks) = HashPair(f[m \div 2][chunks], ZeroHash[m \div 2])
           /\ chunks # <<>> /\ m # 1 /\ Len(chunks) > m \div 2 =>
                 MerkleOf(f, m, chunks) =
                    HashPair(f[m \div 2][SubSeq(chunks, 1, m \div 2)],
                             f[m \div 2][SubSeq(chunks, m \div 2 + 1, Len(chunks))])
<1>1. Len(chunks) \in Nat /\ m \div 2 \in Int
  OBVIOUS
<1> QED BY <1>1 DEF MerkleOf

LEMMA MerkleOfNone == \A f, m : MerkleOf(f, m, <<>>) = ZeroHash[m]
BY DEF MerkleOf

LEMMA MerkleOfOne ==
    ASSUME NEW f, NEW chunks
    PROVE  MerkleOf(f, 1, chunks) = IF chunks = <<>> THEN ZeroHash[1] ELSE chunks[1]
<1>1. CASE chunks = <<>>
  BY <1>1 DEF MerkleOf
<1>2. CASE chunks # <<>>
  BY <1>2 DEF MerkleOf
<1> QED BY <1>1, <1>2

LEMMA HalvesAreSequences ==
    ASSUME NEW S, NEW m \in Nat \ {0}, m # 1, NEW chunks \in Seq(S), Len(chunks) > m \div 2
    PROVE  /\ SubSeq(chunks, 1, m \div 2) \in Seq(S)
           /\ SubSeq(chunks, m \div 2 + 1, Len(chunks)) \in Seq(S)
<1> DEFINE h == m \div 2
<1>1. h \in Nat /\ Len(chunks) \in Nat /\ h + 1 \in Nat
  OBVIOUS
<1> HIDE DEF h
<1>2. (\A i \in 1..h : chunks[i] \in S) /\ \A i \in (h + 1)..Len(chunks) : chunks[i] \in S
  <2>1. h < Len(chunks)
    BY DEF h
  <2> QED BY <1>1, <2>1
<1>3. SubSeq(chunks, 1, h) \in Seq(S) /\ SubSeq(chunks, h + 1, Len(chunks)) \in Seq(S)
  BY <1>1, <1>2, SubSeqProperties
<1> QED BY <1>3 DEF h

LEMMA MerkleIs ==
    /\ merkle \in [Nat \ {0} -> [Seq(Hashes) -> Hashes]]
    /\ \A m \in Nat \ {0} : \A chunks \in Seq(Hashes) :
          merkle[m][chunks] = MerkleOf(merkle, m, chunks)
<1> DEFINE C == Seq(Hashes)
           V == [C -> Hashes]
           D == [p \in Nat \X [Nat -> V] |->
                    [chunks \in C |-> IF p[1] = 0 THEN <<>> ELSE MerkleOf(p[2], p[1], chunks)]]
           Is(f) == f = [m \in Nat \ {0} |-> [chunks \in C |-> MerkleOf(f, m, chunks)]]
<1>1. \A m \in Nat \ {0} : m # 1 => m \div 2 \in Nat \ {0} /\ m \div 2 \in 0..(m - 1)
  OBVIOUS
<1>2. ASSUME NEW m \in Nat \ {0}, NEW f, NEW chunks \in C,
             m # 1 => f[m \div 2] \in V
      PROVE  MerkleOf(f, m, chunks) \in Hashes
  <2>1. ZeroHash[m] \in Hashes /\ (m # 1 => ZeroHash[m \div 2] \in Hashes)
    BY <1>1, ZeroHashIs, DigestsAreClosed
  <2>2. m # 1 /\ Len(chunks) > m \div 2 =>
           SubSeq(chunks, 1, m \div 2) \in C /\ SubSeq(chunks, m \div 2 + 1, Len(chunks)) \in C
    BY HalvesAreSequences
  <2>3. Len(chunks) \in Nat /\ m \div 2 \in Int /\ (chunks # <<>> => chunks[1] \in Hashes)
    OBVIOUS
  <2> HIDE DEF C
  <2>4. CASE chunks = <<>>
    BY <2>1, <2>4, MerkleCases, ZenonT(20) DEF C
  <2>5. CASE chunks # <<>> /\ m = 1
    BY <2>3, <2>5, MerkleOfOne
  <2>6. CASE chunks # <<>> /\ m # 1 /\ Len(chunks) <= m \div 2
    <3>1. MerkleOf(f, m, chunks) = HashPair(f[m \div 2][chunks], ZeroHash[m \div 2])
      BY <2>6, MerkleCases DEF C
    <3>2. f[m \div 2][chunks] \in Hashes
      BY <1>2, <2>6
    <3> QED BY <2>1, <2>6, <3>1, <3>2, PairIsHash
  <2>7. CASE chunks # <<>> /\ m # 1 /\ Len(chunks) > m \div 2
    <3> DEFINE a == SubSeq(chunks, 1, m \div 2)
               b == SubSeq(chunks, m \div 2 + 1, Len(chunks))
    <3>1. MerkleOf(f, m, chunks) = HashPair(f[m \div 2][a], f[m \div 2][b])
      BY <2>7, MerkleCases DEF C
    <3>2. a \in C /\ b \in C
      BY <2>2, <2>7
    <3> HIDE DEF a, b
    <3>3. f[m \div 2][a] \in Hashes /\ f[m \div 2][b] \in Hashes
      BY <1>2, <2>7, <3>2
    <3> QED BY <3>1, <3>3, PairIsHash
  <2> QED BY <2>3, <2>4, <2>5, <2>6, <2>7
<1>3. <<>> \in Hashes /\ [chunks \in C |-> <<>>] \in V
  BY EmptyArrays
<1>4. D \in [Nat \X [Nat -> V] -> V]
  <2>1. ASSUME NEW m \in Nat, NEW f \in [Nat -> V]
        PROVE  [chunks \in C |-> IF m = 0 THEN <<>> ELSE MerkleOf(f, m, chunks)] \in V
    <3>1. m # 0 /\ m # 1 => f[m \div 2] \in V
      <4> HIDE DEF V
      <4> QED BY <1>1
    <3>2. \A chunks \in C : m # 0 => MerkleOf(f, m, chunks) \in Hashes
      <4> HIDE DEF V, C
      <4> QED BY <1>2, <3>1
    <3> HIDE DEF C
    <3> QED BY <1>3, <3>2
  <2> HIDE DEF V, C
  <2> QED BY <2>1
<1>5. ASSUME NEW m \in Nat, NEW f \in [Nat -> V], NEW g \in [Nat -> V],
             \A k \in 0..(m - 1) : f[k] = g[k]
      PROVE  D[<<m, f>>] = D[<<m, g>>]
  <2>1. m # 0 /\ m # 1 => f[m \div 2] = g[m \div 2]
    BY <1>1, <1>5
  <2>2. ASSUME NEW chunks \in C, m # 0
        PROVE  MerkleOf(f, m, chunks) = MerkleOf(g, m, chunks)
    <3>1. CASE m = 1
      BY <3>1, MerkleOfOne
    <3>2. CASE m # 1
      BY <3>2, <2>1, <2>2 DEF MerkleOf
    <3> QED BY <3>1, <3>2
  <2> HIDE DEF V, C
  <2> QED BY <2>2
<1>6. \A m \in Nat \ {0}, f \in [Nat -> V] :
         D[<<m, f>>] = [chunks \in C |-> MerkleOf(f, m, chunks)]
  <2> HIDE DEF V, C
  <2> QED OBVIOUS
<1> HIDE DEF D
<1>7. PICK f \in [Nat -> V] : FromPast(f, D)
  <2> DEFINE v == [chunks \in C |-> <<>>]
  <2>1. v \in V
    BY <1>3
  <2>2. PastOnly(D, V)
    <3> HIDE DEF V
    <3> QED BY <1>5 DEF PastOnly
  <2> HIDE DEF v, V, Is
  <2> QED BY <2>1, <2>2, <1>4, HistoryRecursion
<1> DEFINE g == [m \in Nat \ {0} |-> f[m]]
<1>8. Is(g)
  <2>1. ASSUME NEW m \in Nat \ {0}
        PROVE  f[m] = [chunks \in C |-> MerkleOf(g, m, chunks)]
    <3>1. f[m] = [chunks \in C |-> MerkleOf(f, m, chunks)]
      <4> HIDE DEF C, V
      <4> QED BY <1>6, <1>7 DEF FromPast
    <3>2. ASSUME NEW chunks \in C PROVE MerkleOf(f, m, chunks) = MerkleOf(g, m, chunks)
      <4>1. CASE m = 1
        BY <4>1, MerkleOfOne
      <4>2. CASE m # 1
        <5>1. f[m \div 2] = g[m \div 2]
          BY <1>1, <4>2
        <5> HIDE DEF g
        <5> QED BY <4>2, <5>1 DEF MerkleOf
      <4> QED BY <4>1, <4>2
    <3> HIDE DEF C, g
    <3> QED BY <3>1, <3>2
  <2> HIDE DEF C
  <2> QED BY <2>1
<1>9. Is(merkle)
  <2> HIDE DEF g
  <2> QED BY <1>8 DEF merkle, MerkleOf
<1>10. \A m \in Nat \ {0} : merkle[m] = [chunks \in C |-> MerkleOf(merkle, m, chunks)]
  <2> HIDE DEF C
  <2> QED BY <1>9
<1>11. \A m \in Nat : m # 0 => merkle[m] \in V
  <2> DEFINE T == {m \in Nat : m # 0 => merkle[m] \in V}
  <2>1. ASSUME NEW m \in Nat, \A k \in 0..(m - 1) : k \in T PROVE m \in T
    <3>1. m # 0 /\ m # 1 => merkle[m \div 2] \in V
      BY <1>1, <2>1
    <3>2. \A chunks \in C : m # 0 => MerkleOf(merkle, m, chunks) \in Hashes
      <4> HIDE DEF V, C
      <4> QED BY <1>2, <3>1
    <3> HIDE DEF C
    <3> QED BY <1>10, <3>2, ZenonT(20)
  <2>2. \A m \in Nat : m \in T
    <3> HIDE DEF T
    <3> QED BY <2>1, StrongInduction
  <2> QED BY <2>2
<1>12. merkle \in [Nat \ {0} -> V]
  <2> HIDE DEF V, C
  <2> QED BY <1>9, <1>11
<1>13. \A m \in Nat \ {0} : \A chunks \in C : merkle[m][chunks] = MerkleOf(merkle, m, chunks)
  <2> HIDE DEF C
  <2> QED BY <1>10
<1> QED BY <1>12, <1>13

LEMMA MerkleHalves ==
    ASSUME NEW m \in Nat \ {0}, NEW chunks \in Seq(Hashes), Len(chunks) <= 2 * m
    PROVE  merkle[2 * m][chunks] =
              HashPair(merkle[m][Slice(chunks, 0, m)], merkle[m][Slice(chunks, m, m)])
<1> DEFINE w == 2 * m
           k == Len(chunks)
<1>1. w \in Nat \ {0} /\ w # 1 /\ w > 1 /\ w \div 2 = m /\ k \in Nat /\ w \in Nat
  OBVIOUS
<1>2. merkle[w][chunks] = MerkleOf(merkle, w, chunks)
  BY <1>1, MerkleIs
<1>3. <<>> \in Seq(Hashes) /\ merkle[m][<<>>] = ZeroHash[m]
  <2>1. <<>> \in Seq(Hashes) /\ MerkleOf(merkle, m, <<>>) = ZeroHash[m]
    BY MerkleOfNone
  <2> QED BY <2>1, MerkleIs
<1>4. CASE chunks = <<>>
  <2>1. Slice(chunks, 0, m) = <<>> /\ Slice(chunks, m, m) = <<>>
    <3>1. SubSeq(chunks, 0 + 1, k) = <<>> /\ SubSeq(chunks, m + 1, k) = <<>> /\ k = 0
      BY <1>4, SubSeqEmpty
    <3> QED BY <3>1 DEF Slice
  <2>2. merkle[w][chunks] = ZeroHash[w] /\ ZeroHash[w] = HashPair(ZeroHash[m], ZeroHash[m])
    BY <1>1, <1>2, <1>4, MerkleOfNone, ZeroHashIs
  <2> QED BY <1>3, <2>1, <2>2
<1>5. CASE chunks # <<>> /\ k <= m
  <2>1. merkle[w][chunks] = HashPair(merkle[m][chunks], ZeroHash[m])
    BY <1>1, <1>2, <1>5, MerkleCases
  <2>2. Slice(chunks, 0, m) = SubSeq(chunks, 1, k)
    BY <1>1, <1>5 DEF Slice
  <2>3. SubSeq(chunks, 1, k) = chunks
    BY SubSeqFull
  <2>4. Slice(chunks, m, m) = SubSeq(chunks, m + 1, k)
    BY <1>1, <1>5 DEF Slice
  <2>5. SubSeq(chunks, m + 1, k) = <<>>
    BY <1>1, <1>5, SubSeqEmpty
  <2> QED BY <1>3, <2>1, <2>2, <2>3, <2>4, <2>5
<1>6. CASE k > m
  <2>1. chunks # <<>>
    BY <1>1, <1>6
  <2>2. merkle[w][chunks] = HashPair(merkle[m][SubSeq(chunks, 1, m)],
                                     merkle[m][SubSeq(chunks, m + 1, k)])
    BY <1>1, <1>2, <1>6, <2>1, MerkleCases
  <2>3. Slice(chunks, 0, m) = SubSeq(chunks, 1, m)
    BY <1>1, <1>6 DEF Slice
  <2>4. Slice(chunks, m, m) = SubSeq(chunks, m + 1, k)
    BY <1>1, <1>6 DEF Slice
  <2> QED BY <2>2, <2>3, <2>4
<1> QED BY <1>1, <1>4, <1>5, <1>6

LEMMA MerkleOne ==
    ASSUME NEW chunks \in Seq(Hashes)
    PROVE  merkle[1][chunks] = IF chunks = <<>> THEN UintToHash(0) ELSE chunks[1]
BY MerkleIs, MerkleOfOne, ZeroHashIs

(* Digests have digests for their Merkle root.                              *)
LEMMA MerkleOfDigests ==
    ASSUME NEW m \in Nat \ {0}, NEW chunks \in Seq(Digests)
    PROVE  merkle[m][chunks] \in Digests
<1> DEFINE T == {k \in Nat : k # 0 => \A q \in Seq(Digests) : merkle[k][q] \in Digests}
<1>1. \A q \in Seq(Digests) : q \in Seq(Hashes)
  BY DigestsAreClosed
<1>2. ASSUME NEW k \in Nat, \A j \in 0..(k - 1) : j \in T PROVE k \in T
  <2> SUFFICES ASSUME k # 0, NEW q \in Seq(Digests) PROVE merkle[k][q] \in Digests
    OBVIOUS
  <2>1. k \in Nat \ {0} /\ merkle[k][q] = MerkleOf(merkle, k, q)
    BY <1>1, MerkleIs
  <2>2. ZeroHash[k] \in Digests /\ (k # 1 => ZeroHash[k \div 2] \in Digests)
    BY ZeroHashIs
  <2>3. CASE q = <<>>
    BY <2>1, <2>2, <2>3, MerkleOfNone
  <2>4. CASE q # <<>> /\ k = 1
    <3>1. q[1] \in Digests
      BY <2>4
    <3> QED BY <2>1, <2>4, <3>1, MerkleOfOne
  <2>5. CASE q # <<>> /\ k # 1
    <3>1. k \div 2 \in 0..(k - 1) /\ k \div 2 # 0 /\ k \div 2 \in Int /\ Len(q) \in Nat
      BY <2>5
    <3>2. \A p \in Seq(Digests) : merkle[k \div 2][p] \in Digests
      BY <1>2, <3>1
    <3>3. \A a, b \in Digests : HashPair(a, b) \in Digests
      BY DigestsAreClosed DEF ClosedUnderHashing
    <3>4. CASE Len(q) <= k \div 2
      BY <2>1, <2>2, <2>5, <3>2, <3>3, <3>4, MerkleCases
    <3>5. CASE Len(q) > k \div 2
      <4>1. /\ SubSeq(q, 1, k \div 2) \in Seq(Digests)
            /\ SubSeq(q, k \div 2 + 1, Len(q)) \in Seq(Digests)
        BY <2>1, <2>5, <3>5, HalvesAreSequences
      <4>2. merkle[k][q] = HashPair(merkle[k \div 2][SubSeq(q, 1, k \div 2)],
                                   merkle[k \div 2][SubSeq(q, k \div 2 + 1, Len(q))])
        BY <2>1, <2>5, <3>5, MerkleCases
      <4> QED BY <3>2, <3>3, <4>1, <4>2
    <3> QED BY <3>1, <3>4, <3>5
  <2> QED BY <2>3, <2>4, <2>5
<1>3. \A k \in Nat : k \in T
  <2> HIDE DEF T
  <2> QED BY <1>2, StrongInduction
<1> QED BY <1>3

-----------------------------------------------------------------------------
(* A branch, and what it can lead from.                                     *)

(* One step up a branch.                                                    *)
Up(g, sibling, x) == IF g % 2 = 0 THEN HashPair(x, sibling) ELSE HashPair(sibling, x)

Climbs(h, leaf, g, path) ==
    /\ h \in [0..Len(path) -> Digests]
    /\ h[0] = leaf
    /\ \A i \in 1..Len(path) : h[i] = Up(g \div TwoTo[i - 1], path[i], h[i - 1])

LEMMA PairIsDigest == \A a, b \in Digests : HashPair(a, b) \in Digests
BY DigestsAreClosed DEF ClosedUnderHashing

LEMMA UpIsDigest == \A g, a, b : a \in Digests /\ b \in Digests => Up(g, a, b) \in Digests
BY PairIsDigest DEF Up

(* restoreMerkleRoot is a climb.                                            *)
LEMMA RestoreIs ==
    ASSUME NEW leaf \in Digests, NEW g \in Nat, NEW path \in Seq(Digests)
    PROVE  \E h : Climbs(h, leaf, g, path) /\ restoreMerkleRoot(leaf, g, path) = h[Len(path)]
<1> DEFINE m == Len(path)
           body(f, i) == IF i = 0 THEN leaf
                         ELSE IF (g \div TwoTo[i - 1]) % 2 = 0 THEN HashPair(f[i - 1], path[i])
                         ELSE HashPair(path[i], f[i - 1])
           Is(f) == f = [i \in 0..m |-> body(f, i)]
           step == [p \in Nat \X Digests |->
                       IF p[1] \in 1..m THEN Up(g \div TwoTo[p[1] - 1], path[p[1]], p[2])
                       ELSE leaf]
<1>1. m \in Nat /\ \A i \in 1..m : path[i] \in Digests
  OBVIOUS
<1> HIDE DEF m
<1>2. step \in [Nat \X Digests -> Digests]
  <2>1. \A p \in Nat \X Digests : p[1] \in 1..m =>
           path[p[1]] \in Digests /\ p[2] \in Digests
    BY <1>1
  <2>2. \A p \in Nat \X Digests : p[1] \in 1..m =>
           Up(g \div TwoTo[p[1] - 1], path[p[1]], p[2]) \in Digests
    BY <2>1, UpIsDigest
  <2> QED BY <2>2
<1>3. \A i \in 1..m, x \in Digests : step[<<i, x>>] = Up(g \div TwoTo[i - 1], path[i], x)
  BY <1>1
<1> HIDE DEF step
<1>4. PICK h \in [0..m -> Digests] : Rounds(leaf, step, h, m)
  <2>1. m \in Nat
    BY <1>1
  <2> HIDE DEF Is, body
  <2> QED BY <1>2, <2>1, LoopExists
<1>5. ASSUME NEW i \in 1..m
      PROVE  i - 1 \in 0..m /\ h[i] = Up(g \div TwoTo[i - 1], path[i], h[i - 1])
  <2>1. i - 1 \in 0..m
    BY <1>1
  <2>2. h[i - 1] \in Digests
    BY <1>4, <2>1
  <2> QED BY <1>3, <1>4, <2>1, <2>2 DEF Rounds
<1>6. Is(h)
  <2>1. \A i \in 0..m : h[i] = body(h, i)
    BY <1>1, <1>4, <1>5 DEF Up, Rounds
  <2> HIDE DEF body
  <2> QED BY <2>1, <1>4
<1> DEFINE c == CHOOSE f : Is(f)
<1>7. Is(c)
  <2> HIDE DEF Is
  <2> QED BY <1>6
<1>8. restoreMerkleRoot(leaf, g, path) = c[m]
  BY DEF restoreMerkleRoot, m
<1> HIDE DEF c
<1>9. \A i \in 0..m : c[i] = body(c, i)
  BY <1>7
<1>10. \A i \in 0..m : c[i] = h[i]
  <2> DEFINE S == {i \in 0..m : c[i] = h[i]}
  <2>1. 0 \in S
    BY <1>1, <1>4, <1>9 DEF Rounds
  <2>2. \A i \in 0..(m - 1) : i \in S => i + 1 \in S
    <3> SUFFICES ASSUME NEW i \in 0..(m - 1), c[i] = h[i] PROVE c[i + 1] = h[i + 1]
      BY <1>1
    <3>1. i + 1 \in 1..m /\ (i + 1) - 1 = i /\ i + 1 \in 0..m
      BY <1>1
    <3>2. h[i + 1] = Up(g \div TwoTo[i], path[i + 1], h[i])
      BY <1>5, <3>1
    <3>3. c[i + 1] = body(c, i + 1)
      BY <1>9, <3>1
    <3>4. c[i + 1] = IF (g \div TwoTo[i]) % 2 = 0 THEN HashPair(c[i], path[i + 1])
                     ELSE HashPair(path[i + 1], c[i])
      BY <3>1, <3>3
    <3> QED BY <3>2, <3>4 DEF Up
  <2> HIDE DEF S
  <2>3. \A i \in 0..m : i \in S
    BY <1>1, <2>1, <2>2, BoundedInduction
  <2> QED BY <2>3 DEF S
<1>11. Climbs(h, leaf, g, path)
  BY <1>4, <1>5 DEF Climbs, Rounds, m
<1> QED BY <1>1, <1>8, <1>10, <1>11 DEF m

LEMMA ClimbsAgree ==
    ASSUME NEW m \in Nat, NEW h, NEW f, h[0] = f[0],
           \A i \in 0..(m - 1) : h[i] = f[i] => h[i + 1] = f[i + 1]
    PROVE  \A i \in 0..m : h[i] = f[i]
<1> DEFINE S == {i \in 0..m : h[i] = f[i]}
<1>1. 0 \in S /\ \A i \in 0..(m - 1) : i \in S => i + 1 \in S
  OBVIOUS
<1> HIDE DEF S
<1>2. \A i \in 0..m : i \in S
  BY <1>1, BoundedInduction
<1> QED BY <1>2 DEF S

LEMMA TailIs ==
    ASSUME NEW S, NEW path \in Seq(S), path # <<>>
    PROVE  /\ path[1] \in S /\ Tail(path) \in Seq(S) /\ Len(path) \in Nat \ {0}
           /\ Len(Tail(path)) = Len(path) - 1
           /\ \A i \in 1..(Len(path) - 1) : Tail(path)[i] = path[i + 1]
OBVIOUS

LEMMA RestoreUp ==
    ASSUME NEW leaf \in Digests, NEW g \in Nat, NEW path \in Seq(Digests), path # <<>>
    PROVE  restoreMerkleRoot(leaf, g, path)
              = restoreMerkleRoot(Up(g, path[1], leaf), g \div 2, Tail(path))
<1> DEFINE rest == Tail(path)
           m == Len(path) - 1
           up == Up(g, path[1], leaf)
<1>1. /\ path[1] \in Digests /\ rest \in Seq(Digests) /\ m \in Nat /\ Len(path) = m + 1
      /\ Len(rest) = m /\ \A i \in 1..m : rest[i] = path[i + 1]
  BY TailIs
<1> HIDE DEF rest, m
<1>2. up \in Digests /\ g \div 2 \in Nat
  BY <1>1, UpIsDigest
<1> HIDE DEF up
<1>3. PICK h : Climbs(h, leaf, g, path) /\ restoreMerkleRoot(leaf, g, path) = h[Len(path)]
  BY RestoreIs
<1>4. PICK f : Climbs(f, up, g \div 2, rest) /\ restoreMerkleRoot(up, g \div 2, rest) = f[Len(rest)]
  BY <1>1, <1>2, RestoreIs
<1> DEFINE k == [i \in 0..m |-> h[i + 1]]
<1>5. k[0] = f[0]
  <2>1. h[1] = Up(g \div TwoTo[0], path[1], h[0]) /\ h[0] = leaf
    BY <1>1, <1>3 DEF Climbs
  <2>2. g \div TwoTo[0] = g
    BY TwoToEquation
  <2> QED BY <1>1, <1>4, <2>1, <2>2 DEF Climbs, up
<1>6. ASSUME NEW i \in 0..(m - 1), k[i] = f[i] PROVE k[i + 1] = f[i + 1]
  <2>1. i + 1 \in 1..m /\ i + 2 \in 1..(m + 1) /\ (i + 1) - 1 = i /\ (i + 2) - 1 = i + 1
        /\ i \in Nat /\ i + 1 \in 0..m /\ i \in 0..m /\ (i + 1) + 1 = i + 2
    BY <1>1
  <2>2. h[i + 2] = Up(g \div TwoTo[i + 1], path[i + 2], h[i + 1])
    BY <1>1, <1>3, <2>1 DEF Climbs
  <2>3. f[i + 1] = Up((g \div 2) \div TwoTo[i], rest[i + 1], f[i])
    BY <1>1, <1>4, <2>1 DEF Climbs
  <2>4. rest[i + 1] = path[i + 2]
    BY <1>1, <2>1
  <2>5. (g \div 2) \div TwoTo[i] = g \div TwoTo[i + 1]
    BY <2>1, DivHalf, TwoToEquation
  <2>6. k[i + 1] = h[i + 2] /\ h[i + 1] = f[i]
    BY <1>6, <2>1
  <2> QED BY <2>2, <2>3, <2>4, <2>5, <2>6
<1> HIDE DEF k
<1>7. \A i \in 0..m : k[i] = f[i]
  <2>1. m \in Nat
    BY <1>1
  <2> QED BY <1>5, <1>6, <2>1, ClimbsAgree
<1>8. k[m] = f[m] /\ k[m] = h[m + 1]
  BY <1>1, <1>7 DEF k
<1> QED BY <1>1, <1>3, <1>4, <1>8 DEF rest, up

LEMMA RestoreNone == \A leaf \in Digests, g \in Nat : restoreMerkleRoot(leaf, g, <<>>) = leaf
<1> TAKE leaf \in Digests, g \in Nat
<1>1. <<>> \in Seq(Digests) /\ Len(<<>>) = 0
  OBVIOUS
<1>2. PICK h : Climbs(h, leaf, g, <<>>) /\ restoreMerkleRoot(leaf, g, <<>>) = h[Len(<<>>)]
  BY <1>1, RestoreIs
<1> QED BY <1>1, <1>2 DEF Climbs

LEMMA ProofLengths ==
    ASSUME NEW g \in Nat \ {0}, NEW path \in Seq(Digests)
    PROVE  /\ IsProofLength(g, <<>>) <=> g = 1
           /\ path # <<>> => (IsProofLength(g, path) <=> IsProofLength(g \div 2, Tail(path)))
<1>1. IsProofLength(g, <<>>) <=> g = 1
  <2>1. Len(<<>>) = 0 /\ TwoTo[0] = 1 /\ g \div 1 = g
    BY TwoToEquation
  <2> QED BY <2>1 DEF IsProofLength
<1>2. ASSUME path # <<>>
      PROVE  IsProofLength(g, path) <=> IsProofLength(g \div 2, Tail(path))
  <2> DEFINE m == Len(path) - 1
  <2>1. m \in Nat /\ Len(path) = m + 1 /\ Len(Tail(path)) = m
    BY <1>2, TailIs
  <2>2. g \div TwoTo[m + 1] = (g \div 2) \div TwoTo[m]
    <3>1. TwoTo[m] \in Nat \ {0} /\ TwoTo[m + 1] = 2 * TwoTo[m]
      BY <2>1, TwoToEquation
    <3> QED BY <3>1, DivHalf
  <2> QED BY <2>1, <2>2 DEF IsProofLength
<1> QED BY <1>1, <1>2

-----------------------------------------------------------------------------
(* Nothing but x leads from the index g to the root.                        *)
Holds(r, g, x) == \A leaf \in Digests, path \in Seq(Digests) : Leads(leaf, g, path, r) => leaf = x

LEMMA RootHolds == \A r : Holds(r, 1, r)
<1> TAKE r
<1> SUFFICES ASSUME NEW leaf \in Digests, NEW path \in Seq(Digests), Leads(leaf, 1, path, r)
             PROVE  leaf = r
  BY DEF Holds
<1>1. IsProofLength(1, path) /\ restoreMerkleRoot(leaf, 1, path) = r
  BY DEF Leads
<1>2. CASE path = <<>>
  BY <1>1, <1>2, RestoreNone
<1>3. CASE path # <<>>
  <2>1. IsProofLength(0, Tail(path))
    BY <1>1, <1>3, ProofLengths
  <2>2. Len(Tail(path)) \in Nat
    BY <1>3, TailIs
  <2>3. 0 \div TwoTo[Len(Tail(path))] = 0
    <3>1. TwoTo[Len(Tail(path))] \in Nat \ {0}
      BY <2>2, TwoToEquation
    <3> QED BY <3>1, DivIs
  <2> QED BY <2>1, <2>3 DEF IsProofLength
<1> QED BY <1>2, <1>3

LEMMA ChildrenHold ==
    ASSUME NEW r, NEW g \in Nat \ {0}, NEW a \in Digests, NEW b \in Digests,
           Holds(r, g, HashPair(a, b))
    PROVE  Holds(r, 2 * g, a) /\ Holds(r, 2 * g + 1, b)
<1>1. ASSUME NEW c \in {2 * g, 2 * g + 1}, NEW leaf \in Digests, NEW path \in Seq(Digests),
             Leads(leaf, c, path, r)
      PROVE  path # <<>> /\ Up(c, path[1], leaf) = HashPair(a, b)
  <2>1. c \in Nat \ {0} /\ c # 1 /\ c \div 2 = g
    OBVIOUS
  <2>2. IsProofLength(c, path) /\ restoreMerkleRoot(leaf, c, path) = r
    BY <1>1 DEF Leads
  <2>3. path # <<>>
    BY <2>1, <2>2, ProofLengths
  <2>4. path[1] \in Digests /\ Tail(path) \in Seq(Digests)
    BY <2>3, TailIs
  <2>5. Up(c, path[1], leaf) \in Digests
    BY <2>4, UpIsDigest
  <2>6. Leads(Up(c, path[1], leaf), g, Tail(path), r)
    BY <2>1, <2>2, <2>3, ProofLengths, RestoreUp DEF Leads
  <2> QED BY <2>3, <2>4, <2>5, <2>6 DEF Holds
<1>2. Holds(r, 2 * g, a)
  <2> SUFFICES ASSUME NEW leaf \in Digests, NEW path \in Seq(Digests), Leads(leaf, 2 * g, path, r)
               PROVE  leaf = a
    BY DEF Holds
  <2>1. path # <<>> /\ HashPair(leaf, path[1]) = HashPair(a, b)
    <3>1. (2 * g) % 2 = 0
      OBVIOUS
    <3> QED BY <1>1, <3>1 DEF Up
  <2> QED BY <2>1, TailIs, PairsDiffer
<1>3. Holds(r, 2 * g + 1, b)
  <2> SUFFICES ASSUME NEW leaf \in Digests, NEW path \in Seq(Digests),
                      Leads(leaf, 2 * g + 1, path, r)
               PROVE  leaf = b
    BY DEF Holds
  <2>1. path # <<>> /\ HashPair(path[1], leaf) = HashPair(a, b)
    <3>1. (2 * g + 1) % 2 = 1
      OBVIOUS
    <3> QED BY <1>1, <3>1 DEF Up
  <2> QED BY <2>1, TailIs, PairsDiffer
<1> QED BY <1>2, <1>3

(* The leaves below a node that holds.                                      *)
LEMMA SubtreeHolds ==
    ASSUME NEW r
    PROVE  \A k \in Nat : \A g \in Nat \ {0}, leaves \in Seq(Digests) :
              Len(leaves) <= TwoTo[k] /\ Holds(r, g, merkle[TwoTo[k]][leaves]) =>
                 \A j \in 0..(Len(leaves) - 1) : Holds(r, g * TwoTo[k] + j, leaves[j + 1])
<1> DEFINE Goal(k, g, leaves) ==
               Len(leaves) <= TwoTo[k] /\ Holds(r, g, merkle[TwoTo[k]][leaves]) =>
                  \A j \in 0..(Len(leaves) - 1) : Holds(r, g * TwoTo[k] + j, leaves[j + 1])
           T == {k \in Nat : \A g \in Nat \ {0}, leaves \in Seq(Digests) : Goal(k, g, leaves)}
<1>1. 0 \in T
  <2> SUFFICES ASSUME NEW g \in Nat \ {0}, NEW leaves \in Seq(Digests), Len(leaves) <= 1,
                      Holds(r, g, merkle[1][leaves]), NEW j \in 0..(Len(leaves) - 1)
               PROVE  Holds(r, g * 1 + j, leaves[j + 1])
    BY TwoToEquation
  <2>1. Len(leaves) \in Nat
    OBVIOUS
  <2>2. j = 0 /\ leaves # <<>> /\ g * 1 + j = g
    BY <2>1
  <2>3. leaves \in Seq(Hashes)
    BY DigestsAreClosed
  <2> QED BY <2>2, <2>3, MerkleOne
<1>2. ASSUME NEW k \in Nat, k \in T PROVE k + 1 \in T
  <2> DEFINE m == TwoTo[k]
  <2>1. m \in Nat \ {0} /\ TwoTo[k + 1] = 2 * m
    BY TwoToEquation
  <2> SUFFICES ASSUME NEW g \in Nat \ {0}, NEW leaves \in Seq(Digests), Len(leaves) <= 2 * m,
                      Holds(r, g, merkle[2 * m][leaves]), NEW j \in 0..(Len(leaves) - 1)
               PROVE  Holds(r, g * (2 * m) + j, leaves[j + 1])
    BY <2>1
  <2> HIDE DEF m
  <2> DEFINE left == Slice(leaves, 0, m)
             right == Slice(leaves, m, m)
  <2>2. leaves \in Seq(Hashes) /\ Len(leaves) \in Nat
    BY DigestsAreClosed
  <2>3. /\ left \in Seq(Digests) /\ Len(left) <= m
        /\ right \in Seq(Digests) /\ Len(right) <= m
        /\ j < m => j \in 0..(Len(left) - 1) /\ left[j + 1] = leaves[j + 1]
        /\ j >= m => j - m \in 0..(Len(right) - 1) /\ right[(j - m) + 1] = leaves[j + 1]
    <3>1. /\ left \in Seq(Digests)
          /\ m <= Len(leaves) => Len(left) = m
          /\ Len(leaves) < m => Len(left) = Len(leaves)
          /\ \A i \in 1..Len(left) : left[i] = leaves[i]
      <4>1. left \in Seq(Digests) /\ IsSlice(left, leaves, 0, m)
        BY <2>1, SliceIs
      <4> HIDE DEF left
      <4> QED BY <2>1, <2>2, <4>1 DEF IsSlice
    <3>2. /\ right \in Seq(Digests)
          /\ 2 * m <= Len(leaves) => Len(right) = m
          /\ m <= Len(leaves) /\ Len(leaves) < 2 * m => Len(right) = Len(leaves) - m
          /\ Len(leaves) < m => Len(right) = 0
          /\ \A i \in 1..Len(right) : right[i] = leaves[m + i]
      <4>1. right \in Seq(Digests) /\ IsSlice(right, leaves, m, m)
        BY <2>1, SliceIs
      <4> HIDE DEF right
      <4> QED BY <2>1, <2>2, <4>1 DEF IsSlice
    <3> HIDE DEF left, right
    <3>3. j < m => j + 1 \in 1..Len(left)
      BY <2>1, <2>2, <3>1
    <3>4. j >= m => (j - m) + 1 \in 1..Len(right) /\ m + ((j - m) + 1) = j + 1
      BY <2>1, <2>2, <3>2
    <3>5. Len(left) \in Nat /\ Len(right) \in Nat
      BY <3>1, <3>2
    <3>6. Len(left) <= m /\ Len(right) <= m
      BY <2>1, <2>2, <3>1, <3>2
    <3> QED BY <2>1, <3>1, <3>2, <3>3, <3>4, <3>5, <3>6
  <2> DEFINE a == merkle[m][left]
             b == merkle[m][right]
  <2>4. merkle[2 * m][leaves] = HashPair(a, b)
    BY <2>1, <2>2, MerkleHalves
  <2>5. a \in Digests /\ b \in Digests
    BY <2>1, <2>3, MerkleOfDigests
  <2>6. Holds(r, 2 * g, a) /\ Holds(r, 2 * g + 1, b)
    <3> HIDE DEF a, b
    <3> QED BY <2>4, <2>5, ChildrenHold
  <2>7. 2 * g \in Nat \ {0} /\ 2 * g + 1 \in Nat \ {0}
    OBVIOUS
  <2> HIDE DEF left, right
  <2>8. Goal(k, 2 * g, left) /\ Goal(k, 2 * g + 1, right)
    BY <1>2, <2>3, <2>7
  <2>9. CASE j < m
    <3>1. Holds(r, (2 * g) * m + j, left[j + 1])
      BY <2>3, <2>6, <2>8, <2>9 DEF m
    <3>2. (2 * g) * m + j = g * (2 * m) + j
      BY <2>1
    <3> QED BY <2>3, <2>9, <3>1, <3>2
  <2>10. CASE j >= m
    <3>1. Holds(r, (2 * g + 1) * m + (j - m), right[(j - m) + 1])
      BY <2>3, <2>6, <2>8, <2>10 DEF m
    <3>2. (2 * g + 1) * m + (j - m) = g * (2 * m) + j
      BY <2>1
    <3> QED BY <2>3, <2>10, <3>1, <3>2
  <2> QED BY <2>1, <2>9, <2>10
<1>3. \A k \in Nat : k \in T
  <2> HIDE DEF T
  <2> QED BY <1>1, <1>2, NatInductionOverSet
<1> QED BY <1>3

LEMMA CeilPow2Is ==
    ASSUME NEW m \in Nat \ {0}, NEW h \in Nat, TwoTo[h] >= m, h = 0 \/ TwoTo[h - 1] < m
    PROVE  CeilPow2(m) = TwoTo[h]
<1> DEFINE S == {p \in {TwoTo[k] : k \in 0..m} : p >= m}
<1>1. h \in 0..m
  <2>1. CASE h = 0
    BY <2>1
  <2>2. CASE h # 0
    <3>1. h - 1 \in Nat /\ TwoTo[h - 1] \in Nat
      BY <2>2, TwoToEquation
    <3>2. h - 1 < TwoTo[h - 1]
      BY <3>1, TwoToGrows
    <3> QED BY <2>2, <3>1, <3>2
  <2> QED BY <2>1, <2>2
<1>2. TwoTo[h] \in S
  BY <1>1
<1>3. ASSUME NEW k \in 0..m, TwoTo[k] >= m PROVE TwoTo[h] <= TwoTo[k]
  <2>1. k \in Nat /\ TwoTo[k] \in Nat /\ TwoTo[h] \in Nat
    BY TwoToEquation
  <2>2. k >= h
    <3> SUFFICES ASSUME k < h PROVE FALSE
      BY <2>1
    <3>1. h - 1 \in Nat /\ (h - 1) - k \in Nat /\ k + ((h - 1) - k) = h - 1 /\ h # 0
      BY <2>1
    <3>2. TwoTo[k] <= TwoTo[h - 1] /\ TwoTo[h - 1] \in Nat
      BY <2>1, <3>1, TwoToGrows, TwoToEquation
    <3> QED BY <1>3, <2>1, <3>1, <3>2
  <2>3. k - h \in Nat /\ h + (k - h) = k
    BY <2>1, <2>2
  <2> QED BY <2>3, TwoToGrows
<1>4. \A x \in S : x \in Nat /\ TwoTo[h] <= x
  BY <1>3, TwoToEquation
<1>5. CeilPow2(m) = CHOOSE x \in S : \A y \in S : x <= y
  BY DEF CeilPow2, Min
<1>6. TwoTo[h] \in Nat
  BY TwoToEquation
<1> DEFINE w == CHOOSE x \in S : \A y \in S : x <= y
<1> HIDE DEF S
<1>7. w \in S /\ \A y \in S : w <= y
  BY <1>2, <1>4
<1> HIDE DEF w
<1>8. w = TwoTo[h]
  BY <1>2, <1>4, <1>6, <1>7
<1> QED BY <1>5, <1>8 DEF w

LEMMA Powers ==
    /\ TwoTo[1] = 2 /\ TwoTo[2] = 4 /\ TwoTo[3] = 8 /\ TwoTo[4] = 16 /\ TwoTo[5] = 32
<1>1. /\ TwoTo[0 + 1] = 2 * TwoTo[0] /\ TwoTo[1 + 1] = 2 * TwoTo[1]
      /\ TwoTo[2 + 1] = 2 * TwoTo[2] /\ TwoTo[3 + 1] = 2 * TwoTo[3]
      /\ TwoTo[4 + 1] = 2 * TwoTo[4]
  BY TwoToEquation
<1> QED BY <1>1, TwoToEquation

(* Widths of the trees of the fields of a header, a payload and a state,    *)
(* and of a tree that is full.                                              *)
LEMMA Widths ==
    /\ CeilPow2(5) = TwoTo[3] /\ CeilPow2(14) = TwoTo[4] /\ CeilPow2(25) = TwoTo[5]
    /\ \A h \in Nat : CeilPow2(TwoTo[h]) = TwoTo[h]
<1>1. CeilPow2(5) = TwoTo[3] /\ CeilPow2(14) = TwoTo[4] /\ CeilPow2(25) = TwoTo[5]
  BY Powers, CeilPow2Is
<1>2. ASSUME NEW h \in Nat PROVE CeilPow2(TwoTo[h]) = TwoTo[h]
  <2>1. TwoTo[h] \in Nat \ {0}
    BY TwoToEquation
  <2>2. h = 0 \/ TwoTo[h - 1] < TwoTo[h]
    <3> SUFFICES ASSUME h # 0 PROVE TwoTo[h - 1] < TwoTo[h]
      OBVIOUS
    <3>1. h - 1 \in Nat /\ (h - 1) + 1 = h
      OBVIOUS
    <3>2. TwoTo[h - 1] \in Nat \ {0} /\ TwoTo[h] = 2 * TwoTo[h - 1]
      BY <3>1, TwoToEquation
    <3> QED BY <3>2
  <2> QED BY <2>1, <2>2, CeilPow2Is
<1> QED BY <1>1, <1>2

(* The leaves of a tree of width w whose root has the index g.              *)
LeavesHold(r, g, w, leaves) ==
    \A j \in 0..(Len(leaves) - 1) : Holds(r, Below(g, w, j), leaves[j + 1])

LEMMA VectorHolds ==
    ASSUME NEW r, NEW g \in Nat \ {0}, NEW leaves \in Seq(Digests), NEW h \in Nat,
           NEW m, Len(leaves) = m, CeilPow2(m) = TwoTo[h], Len(leaves) <= TwoTo[h],
           Holds(r, g, TreeHash(NewVectorMerkleTree(leaves)))
    PROVE  LeavesHold(r, g, TwoTo[h], leaves)
<1>1. TreeHash(NewVectorMerkleTree(leaves)) = merkle[TwoTo[h]][leaves]
  BY DEF TreeHash, NewVectorMerkleTree
<1> QED BY <1>1, SubtreeHolds DEF Below, LeavesHold

LEMMA ListHolds ==
    ASSUME NEW r, NEW g \in Nat \ {0}, NEW leaves \in Seq(Digests), NEW h \in Nat,
           Len(leaves) <= TwoTo[h],
           Holds(r, g, TreeHash(NewListMerkleTree(leaves, TwoTo[h])))
    PROVE  LeavesHold(r, Below(g, 2, 0), TwoTo[h], leaves)
<1> DEFINE a == merkle[TwoTo[h]][leaves]
           b == UintToHash(Len(leaves))
<1>1. TreeHash(NewListMerkleTree(leaves, TwoTo[h])) = HashPair(a, b)
  BY DEF TreeHash, NewListMerkleTree
<1>2. a \in Digests
  BY TwoToEquation, MerkleOfDigests
<1>3. b \in Digests
  BY DigestsAreClosed, LengthIsNat DEF ClosedUnderHashing
<1>4. Holds(r, 2 * g, a)
  <2> HIDE DEF a, b
  <2> QED BY <1>1, <1>2, <1>3, ChildrenHold
<1>5. Below(g, 2, 0) = 2 * g /\ 2 * g \in Nat \ {0}
  BY DEF Below
<1> QED BY <1>4, <1>5, SubtreeHolds DEF Below, LeavesHold

-----------------------------------------------------------------------------
(* The fields of a state and of an execution payload.                       *)

LEMMA OpaqueIsDigest == \A kind, v \in Int : DigestOf(kind, v) \in Digests
BY DigestsAreClosed DEF ClosedUnderHashing

LEMMA KindsAreInt ==
    /\ KeyKind \in Int /\ FieldKind \in Int /\ PayloadKind \in Int /\ StateRootKind \in Int
    /\ ReceiptsRootKind \in Int /\ BeaconStateKind \in Int /\ HeaderKind \in Int
    /\ BatchKind \in Int
BY DEF KeyKind, FieldKind, PayloadKind, StateRootKind, ReceiptsRootKind, BeaconStateKind,
       HeaderKind, BatchKind

LEMMA SequenceIs ==
    ASSUME NEW S, NEW m \in Nat, NEW f, \A j \in 1..m : f[j] \in S
    PROVE  /\ [j \in 1..m |-> f[j]] \in Seq(S) /\ Len([j \in 1..m |-> f[j]]) = m
OBVIOUS

LEMMA MaxIs ==
    ASSUME NEW m \in Nat, NEW T \in SUBSET (0..m), T # {}
    PROVE  Max(T) \in T /\ \A y \in T : y <= Max(T)
<1>1. \E x \in T : \A y \in T : x >= y
  BY GreatestNat
<1> DEFINE w == CHOOSE x \in T : \A y \in T : x >= y
<1>2. w \in T /\ \A y \in T : w >= y
  BY <1>1
<1>3. Max(T) = w
  BY DEF Max
<1> QED BY <1>2, <1>3

(* The power of two that a constant is.                                     *)
LEMMA BatchIsPower ==
    /\ SlotsPerHistoricalRoot \in Nat \ {0} /\ HistoricalRootsLimit \in Nat \ {0}
    /\ \E h \in Nat : SlotsPerHistoricalRoot = TwoTo[h]
    /\ \E h \in Nat : HistoricalRootsLimit = TwoTo[h]
<1>1. /\ \E h \in 0..SlotsPerHistoricalRoot : SlotsPerHistoricalRoot = TwoTo[h]
      /\ \E h \in 0..HistoricalRootsLimit : HistoricalRootsLimit = TwoTo[h]
  BY BeaconStateAssumption
<1>2. /\ \E h \in Nat : SlotsPerHistoricalRoot = TwoTo[h]
      /\ \E h \in Nat : HistoricalRootsLimit = TwoTo[h]
  BY <1>1
<1> QED BY <1>2, TwoToEquation

LEMMA BoundOfSlots ==
    LastSlot \in Nat \ {0} /\ LastSlot <= SlotsPerHistoricalRoot * HistoricalRootsLimit
BY BeaconStateAssumption, BatchIsPower

-----------------------------------------------------------------------------
LEMMA StateTreeIs ==
    ASSUME NEW fields, \A f \in DOMAIN fields : fields[f] \in Digests
    PROVE  /\ TreeHash(StateTree(fields)) \in Digests
           /\ \A r, g : g \in Nat \ {0} /\ Holds(r, g, TreeHash(StateTree(fields))) =>
                 \A f \in DOMAIN fields : f \in 0..24 => Holds(r, Below(g, 32, f), fields[f])
<1> DEFINE leaf(f) == IF f - 1 \in DOMAIN fields THEN fields[f - 1] ELSE DigestOf(FieldKind, f)
           leaves == [f \in 1..25 |-> leaf(f)]
<1>1. StateTree(fields) = NewVectorMerkleTree(leaves)
  BY DEF StateTree, StateFields
<1>2. \A f \in 1..25 : leaf(f) \in Digests
  BY OpaqueIsDigest, KindsAreInt
<1>3. leaves \in Seq(Digests) /\ Len(leaves) = 25
  <2> HIDE DEF leaf
  <2> QED BY <1>2
<1>4. \A f \in DOMAIN fields : f \in 0..24 => leaves[f + 1] = fields[f]
  OBVIOUS
<1> HIDE DEF leaves, leaf
<1>5. TwoTo[5] = 32 /\ CeilPow2(25) = TwoTo[5] /\ 32 \in Nat \ {0}
  BY Powers, Widths
<1>6. TreeHash(StateTree(fields)) \in Digests
  BY <1>1, <1>3, <1>5, MerkleOfDigests DEF TreeHash, NewVectorMerkleTree
<1>7. ASSUME NEW r, NEW g \in Nat \ {0}, Holds(r, g, TreeHash(StateTree(fields))),
             NEW f \in DOMAIN fields, f \in 0..24
      PROVE  Holds(r, Below(g, 32, f), fields[f])
  <2>1. LeavesHold(r, g, TwoTo[5], leaves)
    <3>1. 25 <= TwoTo[5] /\ 5 \in Nat
      BY <1>5
    <3>2. Holds(r, g, TreeHash(NewVectorMerkleTree(leaves)))
      BY <1>1, <1>7
    <3> QED BY <1>3, <1>5, <1>7, <3>1, <3>2, VectorHolds
  <2>2. f \in 0..(Len(leaves) - 1) /\ leaves[f + 1] = fields[f]
    BY <1>3, <1>4, <1>7
  <2> QED BY <1>5, <2>1, <2>2 DEF LeavesHold
<1> QED BY <1>6, <1>7

LEMMA PayloadTreeIs ==
    ASSUME NEW slot \in Nat
    PROVE  /\ TreeHash(PayloadTree(slot)) \in Digests
           /\ \A r, g : g \in Nat \ {0} /\ Holds(r, g, TreeHash(PayloadTree(slot))) =>
                 /\ Holds(r, Below(g, 16, PayloadStateRootField), ExecutionStateRoot(slot))
                 /\ Holds(r, Below(g, 16, PayloadReceiptsRootField), ReceiptsRoot(slot))
<1> DEFINE leaf(f) == CASE f - 1 = PayloadStateRootField    -> ExecutionStateRoot(slot)
                        [] f - 1 = PayloadReceiptsRootField -> ReceiptsRoot(slot)
                        [] OTHER                            -> DigestOf(PayloadKind, f)
           leaves == [f \in 1..14 |-> leaf(f)]
<1>1. PayloadTree(slot) = NewVectorMerkleTree(leaves)
  BY DEF PayloadTree, PayloadFields
<1>2. \A f \in 1..14 : leaf(f) \in Digests
  BY OpaqueIsDigest, KindsAreInt DEF ExecutionStateRoot, ReceiptsRoot
<1>3. leaf(3) = ExecutionStateRoot(slot) /\ leaf(4) = ReceiptsRoot(slot)
  BY DEF PayloadStateRootField, PayloadReceiptsRootField
<1> HIDE DEF leaf
<1>4. leaves \in Seq(Digests) /\ Len(leaves) = 14
  BY <1>2
<1>5. leaves[2 + 1] = ExecutionStateRoot(slot) /\ leaves[3 + 1] = ReceiptsRoot(slot)
  BY <1>3
<1> HIDE DEF leaves
<1>6. TwoTo[4] = 16 /\ CeilPow2(14) = TwoTo[4] /\ 16 \in Nat \ {0}
  BY Powers, Widths
<1>7. TreeHash(PayloadTree(slot)) \in Digests
  BY <1>1, <1>4, <1>6, MerkleOfDigests DEF TreeHash, NewVectorMerkleTree
<1>8. ASSUME NEW r, NEW g \in Nat \ {0}, Holds(r, g, TreeHash(PayloadTree(slot)))
      PROVE  /\ Holds(r, Below(g, 16, 2), ExecutionStateRoot(slot))
             /\ Holds(r, Below(g, 16, 3), ReceiptsRoot(slot))
  <2>1. LeavesHold(r, g, TwoTo[4], leaves)
    <3>1. 14 <= TwoTo[4] /\ 4 \in Nat
      BY <1>6
    <3>2. Holds(r, g, TreeHash(NewVectorMerkleTree(leaves)))
      BY <1>1, <1>8
    <3> QED BY <1>4, <1>6, <1>8, <3>1, <3>2, VectorHolds
  <2>2. 2 \in 0..(Len(leaves) - 1) /\ 3 \in 0..(Len(leaves) - 1)
    BY <1>4
  <2> QED BY <1>5, <1>6, <2>1, <2>2 DEF LeavesHold
<1> QED BY <1>7, <1>8 DEF PayloadStateRootField, PayloadReceiptsRootField

(* The roots that a state knows.                                            *)
LatestAt(slot, place) == {q \in 0..(slot - 1) : q % SlotsPerHistoricalRoot = place}

LEMMA RootsOfStatesIs ==
    ASSUME NEW slot \in Nat, NEW roots, \A q \in 0..(slot - 1) : roots[q] \in Digests
    PROVE  /\ RootsOfStates(slot, roots) \in Seq(Digests)
           /\ Len(RootsOfStates(slot, roots)) = SlotsPerHistoricalRoot
           /\ \A q \in 0..(slot - 1) : slot <= q + SlotsPerHistoricalRoot =>
                 RootsOfStates(slot, roots)[(q % SlotsPerHistoricalRoot) + 1] = roots[q]
           /\ \A other : (\A q \in 0..(slot - 1) : roots[q] = other[q]) =>
                 RootsOfStates(slot, other) = RootsOfStates(slot, roots)
<1> DEFINE S == SlotsPerHistoricalRoot
           known(f, j) == IF LatestAt(slot, j - 1) = {} THEN ZeroHash[0]
                          ELSE f[Max(LatestAt(slot, j - 1))]
<1>1. \A f : RootsOfStates(slot, f) = [j \in 1..S |-> known(f, j)]
  BY DEF RootsOfStates, LatestAt
<1>2. S \in Nat \ {0} /\ ZeroHash[0] \in Digests
  BY BatchIsPower, ZeroHashIs
<1> HIDE DEF S
<1>3. ASSUME NEW p, LatestAt(slot, p) # {}
      PROVE  /\ Max(LatestAt(slot, p)) \in LatestAt(slot, p)
             /\ \A y \in LatestAt(slot, p) : y <= Max(LatestAt(slot, p))
  <2>1. LatestAt(slot, p) \in SUBSET (0..slot)
    BY DEF LatestAt
  <2> QED BY <1>3, <2>1, MaxIs
<1>4. \A p : LatestAt(slot, p) # {} => Max(LatestAt(slot, p)) \in 0..(slot - 1)
  BY <1>3 DEF LatestAt
<1>5. \A j \in 1..S : known(roots, j) \in Digests
  BY <1>2, <1>4
<1>6. ASSUME NEW q \in 0..(slot - 1), slot <= q + S
      PROVE  (q % S) + 1 \in 1..S /\ known(roots, (q % S) + 1) = roots[q]
  <2>1. q % S \in 0..(S - 1) /\ q \in Nat
    BY <1>2, DivBounds
  <2> DEFINE p == q % S
  <2>2. q \in LatestAt(slot, p)
    BY DEF LatestAt, S
  <2>3. ASSUME NEW y \in LatestAt(slot, p), q <= y PROVE y = q
    <3>1. y \in 0..(slot - 1) /\ y % S = q % S
      BY DEF LatestAt, S
    <3>2. y % S = y - S * (y \div S) /\ q % S = q - S * (q \div S)
          /\ y \div S \in Int /\ q \div S \in Int
      <4>1. y \in Int /\ q \in Int
        BY <2>1, <3>1
      <4> QED BY <1>2, <4>1, DivBounds
    <3>3. y - q = S * (y \div S - q \div S) /\ y - q < S /\ y - q >= 0
      BY <1>2, <1>6, <2>1, <2>3, <3>1, <3>2
    <3> DEFINE d == y \div S - q \div S
    <3>4. d \in Int /\ S * d < S /\ S * d >= 0
      BY <3>2, <3>3
    <3> HIDE DEF d
    <3>5. d = 0
      BY <1>2, <3>4
    <3> QED BY <1>2, <2>1, <3>1, <3>3, <3>5 DEF d
  <2>4. Max(LatestAt(slot, p)) = q
    <3>1. Max(LatestAt(slot, p)) \in LatestAt(slot, p) /\ q <= Max(LatestAt(slot, p))
      <4> HIDE DEF p
      <4> QED BY <1>3, <2>2
    <3> QED BY <2>3, <3>1
  <2>5. (p + 1) - 1 = p /\ p + 1 \in 1..S
    BY <1>2, <2>1
  <2> QED BY <2>2, <2>4, <2>5
<1>7. ASSUME NEW f, \A q \in 0..(slot - 1) : roots[q] = f[q]
      PROVE  RootsOfStates(slot, f) = RootsOfStates(slot, roots)
  <2>1. \A j \in 1..S : known(f, j) = known(roots, j)
    BY <1>4, <1>7
  <2> HIDE DEF known
  <2> QED BY <1>1, <2>1
<1> HIDE DEF known
<1>8. /\ RootsOfStates(slot, roots) \in Seq(Digests) /\ Len(RootsOfStates(slot, roots)) = S
      /\ \A j \in 1..S : RootsOfStates(slot, roots)[j] = known(roots, j)
  BY <1>1, <1>2, <1>5
<1> QED BY <1>6, <1>7, <1>8 DEF S

LEMMA RootsHold ==
    ASSUME NEW slot \in Nat, NEW roots, \A q \in 0..(slot - 1) : roots[q] \in Digests
    PROVE  /\ TreeHash(NewVectorMerkleTree(RootsOfStates(slot, roots))) \in Digests
           /\ \A r, g, q : /\ g \in Nat \ {0} /\ q \in 0..(slot - 1)
                           /\ slot <= q + SlotsPerHistoricalRoot
                           /\ Holds(r, g, TreeHash(NewVectorMerkleTree(RootsOfStates(slot, roots))))
                 => Holds(r, InRootsOfStates(g, q), roots[q])
<1> DEFINE leaves == RootsOfStates(slot, roots)
           S == SlotsPerHistoricalRoot
<1>1. leaves \in Seq(Digests) /\ Len(leaves) = S
  BY RootsOfStatesIs
<1>2. PICK h \in Nat : S = TwoTo[h]
  BY BatchIsPower
<1>3. CeilPow2(S) = TwoTo[h] /\ S \in Nat \ {0}
  BY <1>2, Widths, BatchIsPower
<1>4. TreeHash(NewVectorMerkleTree(leaves)) \in Digests
  BY <1>1, <1>2, <1>3, MerkleOfDigests DEF TreeHash, NewVectorMerkleTree
<1>5. ASSUME NEW r, NEW g \in Nat \ {0}, NEW q \in 0..(slot - 1), slot <= q + S,
             Holds(r, g, TreeHash(NewVectorMerkleTree(leaves)))
      PROVE  Holds(r, InRootsOfStates(g, q), roots[q])
  <2>1. leaves[(q % S) + 1] = roots[q]
    BY <1>5, RootsOfStatesIs
  <2> HIDE DEF leaves, S
  <2>2. LeavesHold(r, g, TwoTo[h], leaves)
    <3>1. Len(leaves) <= TwoTo[h] /\ CeilPow2(Len(leaves)) = TwoTo[h]
      BY <1>1, <1>2, <1>3
    <3>2. g \in Nat \ {0} /\ Holds(r, g, TreeHash(NewVectorMerkleTree(leaves)))
      BY <1>5
    <3> QED BY <1>1, <3>1, <3>2, VectorHolds
  <2>3. q \in Int
    OBVIOUS
  <2>4. q % S \in 0..(S - 1)
    BY <1>3, <2>3, DivBounds
  <2>5. Holds(r, Below(g, S, q % S), leaves[(q % S) + 1])
    BY <1>1, <1>2, <2>2, <2>4 DEF LeavesHold
  <2> QED BY <2>1, <2>5 DEF InRootsOfStates, S
<1> QED BY <1>4, <1>5

-----------------------------------------------------------------------------
(* The roots of states that a state knows.                                  *)

LEMMA BatchesIs ==
    ASSUME NEW slot \in 0..LastSlot
    PROVE  /\ slot \div SlotsPerHistoricalRoot \in 0..HistoricalRootsLimit
           /\ \A b \in 1..(slot \div SlotsPerHistoricalRoot) :
                 BatchEnd(b - 1) \in Nat /\ BatchEnd(b - 1) <= slot
<1> DEFINE S == SlotsPerHistoricalRoot
           c == slot \div S
<1>1. S \in Nat \ {0} /\ HistoricalRootsLimit \in Nat \ {0} /\ slot \in Nat
      /\ slot <= S * HistoricalRootsLimit
  BY BatchIsPower, BoundOfSlots
<1> HIDE DEF S
<1>2. c \in Int /\ S * c <= slot /\ slot < S * c + S
  BY <1>1, DivBounds
<1> HIDE DEF c
<1>3. c >= 0
  BY <1>1, <1>2
<1>4. c <= HistoricalRootsLimit
  <2> SUFFICES ASSUME c >= HistoricalRootsLimit + 1 PROVE FALSE
    BY <1>1, <1>2
  <2>1. S * c >= S * (HistoricalRootsLimit + 1)
    BY <1>1, <1>2
  <2> QED BY <1>1, <1>2, <2>1
<1>5. ASSUME NEW b \in 1..c PROVE BatchEnd(b - 1) \in Nat /\ BatchEnd(b - 1) <= slot
  <2>1. BatchEnd(b - 1) = b * S
    BY <1>2 DEF BatchEnd, S
  <2>2. b * S \in Nat /\ b * S <= S * c
    BY <1>1, <1>2
  <2> QED BY <1>1, <1>2, <2>1, <2>2
<1> QED BY <1>1, <1>2, <1>3, <1>4, <1>5 DEF S, c

LEMMA HistoricalRootsIs ==
    ASSUME NEW slot \in 0..LastSlot, NEW roots, \A q \in 0..(slot - 1) : roots[q] \in Digests
    PROVE  /\ HistoricalRoots(slot, roots) \in Seq(Digests)
           /\ Len(HistoricalRoots(slot, roots)) = slot \div SlotsPerHistoricalRoot
           /\ \A b \in 1..(slot \div SlotsPerHistoricalRoot) :
                 /\ BlockRoots(b - 1) \in Digests
                 /\ TreeHash(NewVectorMerkleTree(RootsOfStates(BatchEnd(b - 1), roots))) \in Digests
                 /\ HistoricalRoots(slot, roots)[b] =
                       HashPair(BlockRoots(b - 1),
                                TreeHash(NewVectorMerkleTree(RootsOfStates(BatchEnd(b - 1), roots))))
           /\ \A other : (\A q \in 0..(slot - 1) : roots[q] = other[q]) =>
                 HistoricalRoots(slot, other) = HistoricalRoots(slot, roots)
<1> DEFINE c == slot \div SlotsPerHistoricalRoot
           batch(f, b) == TreeHash(NewVectorMerkleTree(RootsOfStates(BatchEnd(b - 1), f)))
           pair(f, b) == HashPair(BlockRoots(b - 1), batch(f, b))
<1>1. \A f : HistoricalRoots(slot, f) = [b \in 1..c |-> pair(f, b)]
  BY DEF HistoricalRoots
<1>2. c \in Nat /\ slot \in Nat
  BY BatchesIs
<1>3. ASSUME NEW b \in 1..c
      PROVE  /\ BlockRoots(b - 1) \in Digests /\ batch(roots, b) \in Digests
             /\ \A other : (\A q \in 0..(slot - 1) : roots[q] = other[q]) =>
                   RootsOfStates(BatchEnd(b - 1), other) = RootsOfStates(BatchEnd(b - 1), roots)
  <2>1. BatchEnd(b - 1) \in Nat /\ BatchEnd(b - 1) <= slot
    BY BatchesIs
  <2> DEFINE s == BatchEnd(b - 1)
  <2> HIDE DEF s
  <2>2. s \in Nat /\ \A q \in 0..(s - 1) : q \in 0..(slot - 1)
    BY <1>2, <2>1 DEF s
  <2>3. \A q \in 0..(s - 1) : roots[q] \in Digests
    BY <2>2
  <2>4. TreeHash(NewVectorMerkleTree(RootsOfStates(s, roots))) \in Digests
    BY <2>2, <2>3, RootsHold
  <2>5. ASSUME NEW other, \A q \in 0..(slot - 1) : roots[q] = other[q]
        PROVE  RootsOfStates(s, other) = RootsOfStates(s, roots)
    <3>1. \A q \in 0..(s - 1) : roots[q] = other[q]
      BY <2>2, <2>5
    <3> QED BY <2>2, <2>3, <3>1, RootsOfStatesIs
  <2>6. BlockRoots(b - 1) \in Digests
    <3>1. b - 1 \in Int
      BY <1>2
    <3> QED BY <3>1, OpaqueIsDigest, KindsAreInt DEF BlockRoots
  <2> QED BY <2>4, <2>5, <2>6 DEF s
<1>4. \A b \in 1..c : pair(roots, b) \in Digests
  <2> HIDE DEF batch
  <2> QED BY <1>3, PairIsDigest
<1>5. ASSUME NEW other, \A q \in 0..(slot - 1) : roots[q] = other[q]
      PROVE  HistoricalRoots(slot, other) = HistoricalRoots(slot, roots)
  <2>1. \A b \in 1..c : pair(other, b) = pair(roots, b)
    BY <1>3, <1>5
  <2> HIDE DEF pair
  <2> QED BY <1>1, <2>1
<1> HIDE DEF c
<1>6. \A b \in 1..c : [j \in 1..c |-> pair(roots, j)][b] = pair(roots, b)
  <2> HIDE DEF pair
  <2> QED OBVIOUS
<1>7. /\ HistoricalRoots(slot, roots) \in Seq(Digests) /\ Len(HistoricalRoots(slot, roots)) = c
      /\ \A b \in 1..c : HistoricalRoots(slot, roots)[b] = pair(roots, b)
  <2>1. HistoricalRoots(slot, roots) = [b \in 1..c |-> pair(roots, b)]
    BY <1>1
  <2> HIDE DEF pair
  <2> QED BY <1>2, <1>4, <1>6, <2>1
<1> QED BY <1>3, <1>5, <1>7 DEF c

-----------------------------------------------------------------------------
StateFieldsOf(slot, roots) ==
    [f \in {StateRootsField, HistoricalRootsField, PayloadHeaderField} |->
        CASE f = StateRootsField -> TreeHash(NewVectorMerkleTree(RootsOfStates(slot, roots)))
          [] f = HistoricalRootsField ->
                TreeHash(NewListMerkleTree(HistoricalRoots(slot, roots), HistoricalRootsLimit))
          [] OTHER -> TreeHash(PayloadTree(slot))]

LEMMA FieldsOfState ==
    ASSUME NEW slot, NEW roots
    PROVE  /\ BeaconState(slot, roots) = StateTree(StateFieldsOf(slot, roots))
           /\ DOMAIN StateFieldsOf(slot, roots) = {6, 7, 24}
           /\ StateFieldsOf(slot, roots)[6] =
                 TreeHash(NewVectorMerkleTree(RootsOfStates(slot, roots)))
           /\ StateFieldsOf(slot, roots)[7] =
                 TreeHash(NewListMerkleTree(HistoricalRoots(slot, roots), HistoricalRootsLimit))
           /\ StateFieldsOf(slot, roots)[24] = TreeHash(PayloadTree(slot))
BY DEF BeaconState, StateFieldsOf, StateRootsField, HistoricalRootsField, PayloadHeaderField

LEMMA ListIsDigest ==
    ASSUME NEW leaves \in Seq(Digests), NEW limit \in Nat \ {0}
    PROVE  TreeHash(NewListMerkleTree(leaves, limit)) \in Digests
<1>1. merkle[limit][leaves] \in Digests /\ UintToHash(Len(leaves)) \in Digests
  BY MerkleOfDigests, LengthIsNat, DigestsAreClosed DEF ClosedUnderHashing
<1> QED BY <1>1, PairIsDigest DEF TreeHash, NewListMerkleTree

LEMMA FieldsAreDigests ==
    ASSUME NEW slot \in 0..LastSlot, NEW roots, \A q \in 0..(slot - 1) : roots[q] \in Digests
    PROVE  /\ \A f \in DOMAIN StateFieldsOf(slot, roots) :
                 StateFieldsOf(slot, roots)[f] \in Digests
           /\ TreeHash(BeaconState(slot, roots)) \in Digests
           /\ \A other : (\A q \in 0..(slot - 1) : roots[q] = other[q]) =>
                 BeaconState(slot, other) = BeaconState(slot, roots)
<1>1. slot \in Nat
  BY BoundOfSlots
<1>2. TreeHash(NewVectorMerkleTree(RootsOfStates(slot, roots))) \in Digests
  BY <1>1, RootsHold
<1>3. TreeHash(NewListMerkleTree(HistoricalRoots(slot, roots), HistoricalRootsLimit)) \in Digests
  BY HistoricalRootsIs, ListIsDigest, BatchIsPower
<1>4. TreeHash(PayloadTree(slot)) \in Digests
  BY <1>1, PayloadTreeIs
<1>5. \A f \in DOMAIN StateFieldsOf(slot, roots) : StateFieldsOf(slot, roots)[f] \in Digests
  BY <1>2, <1>3, <1>4, FieldsOfState
<1>6. TreeHash(BeaconState(slot, roots)) \in Digests
  BY <1>5, FieldsOfState, StateTreeIs
<1>7. ASSUME NEW other, \A q \in 0..(slot - 1) : roots[q] = other[q]
      PROVE  BeaconState(slot, other) = BeaconState(slot, roots)
  <2>1. RootsOfStates(slot, other) = RootsOfStates(slot, roots)
    BY <1>1, <1>7, RootsOfStatesIs
  <2>2. HistoricalRoots(slot, other) = HistoricalRoots(slot, roots)
    BY <1>7, HistoricalRootsIs
  <2>3. StateFieldsOf(slot, other) = StateFieldsOf(slot, roots)
    BY <2>1, <2>2 DEF StateFieldsOf
  <2> QED BY <2>3, FieldsOfState
<1> QED BY <1>5, <1>6, <1>7

LEMMA StateRootsIs ==
    ASSUME NEW open
    PROVE  /\ \A q \in 0..LastSlot : StateRoots(open)[q] \in Digests
           /\ \A slot \in 0..LastSlot : slot \in open =>
                 StateRoots(open)[slot] = TreeHash(BeaconState(slot, StateRoots(open)))
<1> DEFINE body(f, slot) == IF slot \in open THEN TreeHash(BeaconState(slot, f))
                            ELSE DigestOf(BeaconStateKind, slot)
           D == [p \in Nat \X [Nat -> Digests] |->
                    IF p[1] \in 0..LastSlot THEN body(p[2], p[1]) ELSE UintToHash(0)]
           Is(f) == f = [slot \in 0..LastSlot |-> body(f, slot)]
<1>1. UintToHash(0) \in Digests
  BY DigestsAreClosed DEF ClosedUnderHashing
<1>2. ASSUME NEW slot \in 0..LastSlot, NEW f, \A q \in 0..(slot - 1) : f[q] \in Digests
      PROVE  body(f, slot) \in Digests
  <2>1. TreeHash(BeaconState(slot, f)) \in Digests
    BY <1>2, FieldsAreDigests
  <2>2. slot \in Int
    OBVIOUS
  <2> QED BY <2>1, <2>2, OpaqueIsDigest, KindsAreInt
<1>3. ASSUME NEW slot \in 0..LastSlot, NEW f, NEW g,
             \A q \in 0..(slot - 1) : f[q] \in Digests /\ f[q] = g[q]
      PROVE  body(f, slot) = body(g, slot)
  <2>1. BeaconState(slot, f) = BeaconState(slot, g)
    BY <1>3, FieldsAreDigests
  <2> QED BY <2>1
<1> HIDE DEF body
<1>4. \A slot \in 0..LastSlot, f \in [Nat -> Digests] :
         \A q \in 0..(slot - 1) : f[q] \in Digests
  BY BoundOfSlots
<1>5. D \in [Nat \X [Nat -> Digests] -> Digests]
  BY <1>1, <1>2, <1>4
<1>6. ASSUME NEW m \in Nat, NEW f \in [Nat -> Digests], NEW g \in [Nat -> Digests],
             \A k \in 0..(m - 1) : f[k] = g[k]
      PROVE  D[<<m, f>>] = D[<<m, g>>]
  <2>1. m \in 0..LastSlot => body(f, m) = body(g, m)
    BY <1>3, <1>4, <1>6
  <2> QED BY <2>1
<1>7. \A m \in 0..LastSlot, f \in [Nat -> Digests] : D[<<m, f>>] = body(f, m)
  BY BoundOfSlots
<1> HIDE DEF D
<1>8. PICK f \in [Nat -> Digests] : FromPast(f, D)
  <2> DEFINE v == UintToHash(0)
  <2>1. v \in Digests
    BY <1>1
  <2>2. PastOnly(D, Digests)
    BY <1>6 DEF PastOnly
  <2> HIDE DEF v, Is
  <2> QED BY <2>1, <2>2, <1>5, HistoryRecursion
<1> DEFINE g == [slot \in 0..LastSlot |-> f[slot]]
<1>9. Is(g)
  <2>1. ASSUME NEW slot \in 0..LastSlot PROVE f[slot] = body(g, slot)
    <3>1. slot \in Nat /\ f[slot] = body(f, slot)
      <4>1. slot \in Nat
        BY BoundOfSlots
      <4> HIDE DEF g, body
      <4> QED BY <1>7, <1>8, <4>1 DEF FromPast
    <3>2. \A q \in 0..(slot - 1) : f[q] \in Digests /\ f[q] = g[q]
      BY BoundOfSlots
    <3> HIDE DEF g
    <3> QED BY <1>3, <3>1, <3>2
  <2> QED BY <2>1
<1> DEFINE roots == CHOOSE h : Is(h)
<1>10. StateRoots(open) = roots
  BY DEF StateRoots, body
<1>11. Is(roots)
  <2> HIDE DEF g, Is
  <2> QED BY <1>9
<1> HIDE DEF roots
<1>12. \A slot \in 0..LastSlot : roots[slot] = body(roots, slot)
  BY <1>11
<1>13. \A m \in Nat : m <= LastSlot => roots[m] \in Digests
  <2> DEFINE T == {m \in Nat : m <= LastSlot => roots[m] \in Digests}
  <2>1. ASSUME NEW m \in Nat, \A k \in 0..(m - 1) : k \in T PROVE m \in T
    <3> SUFFICES ASSUME m <= LastSlot PROVE roots[m] \in Digests
      OBVIOUS
    <3>1. \A q \in 0..(m - 1) : roots[q] \in Digests
      BY <2>1, BoundOfSlots
    <3>2. m \in 0..LastSlot
      BY BoundOfSlots
    <3> QED BY <1>2, <1>12, <3>1, <3>2
  <2>2. \A m \in Nat : m \in T
    <3> HIDE DEF T
    <3> QED BY <2>1, StrongInduction
  <2> QED BY <2>2
<1>14. \A q \in 0..LastSlot : roots[q] \in Digests
  BY <1>13, BoundOfSlots
<1>15. \A slot \in 0..LastSlot : slot \in open => roots[slot] = TreeHash(BeaconState(slot, roots))
  BY <1>12 DEF body
<1> QED BY <1>10, <1>14, <1>15

-----------------------------------------------------------------------------
(* The index of a target in the state of a source.                          *)

LEMMA IndexIsPositive ==
    /\ \A g, w \in Nat \ {0}, i \in Nat : Below(g, w, i) \in Nat \ {0}
    /\ \A g \in Nat \ {0}, q \in Nat : InRootsOfStates(g, q) \in Nat \ {0}
    /\ \A q \in Nat : InBatch(q) \in Nat \ {0}
<1>0. /\ 1 \in Nat \ {0} /\ 2 \in Nat \ {0} /\ 16 \in Nat \ {0} /\ 32 \in Nat \ {0}
      /\ 0 \in Nat
  OBVIOUS
<1>1. \A g, w \in Nat \ {0}, i \in Nat : Below(g, w, i) \in Nat \ {0}
  <2> SUFFICES ASSUME NEW g \in Nat \ {0}, NEW w \in Nat \ {0}, NEW i \in Nat
               PROVE  g * w + i \in Nat \ {0}
    BY DEF Below
  <2>1. g * w \in Nat \ {0}
    OBVIOUS
  <2> QED BY <2>1
<1>2. \A q \in Nat : q % SlotsPerHistoricalRoot \in Nat /\ q \div SlotsPerHistoricalRoot \in Nat
  <2> TAKE q \in Nat
  <2>1. SlotsPerHistoricalRoot \in Nat \ {0}
    BY BatchIsPower
  <2> QED BY <2>1
<1>3. \A g \in Nat \ {0}, q \in Nat : InRootsOfStates(g, q) \in Nat \ {0}
  BY <1>1, <1>2, BatchIsPower DEF InRootsOfStates
<1>4. ASSUME NEW q \in Nat PROVE InBatch(q) \in Nat \ {0}
  <2> DEFINE list == Below(Below(1, 32, HistoricalRootsField), 2, 0)
             batch == Below(list, HistoricalRootsLimit, q \div SlotsPerHistoricalRoot)
  <2>1. HistoricalRootsField \in Nat
    BY DEF HistoricalRootsField
  <2>2. Below(1, 32, HistoricalRootsField) \in Nat \ {0}
    BY <1>1, <2>1
  <2>3. list \in Nat \ {0}
    <3> DEFINE one == Below(1, 32, HistoricalRootsField)
    <3> HIDE DEF one
    <3>1. Below(one, 2, 0) \in Nat \ {0}
      BY <1>0, <1>1, <2>2 DEF one
    <3> QED BY <3>1 DEF one
  <2> HIDE DEF list
  <2>4. batch \in Nat \ {0}
    BY <1>1, <1>2, <2>3, BatchIsPower
  <2> HIDE DEF batch
  <2>5. Below(batch, 2, 1) \in Nat \ {0}
    BY <1>1, <2>4
  <2> QED BY <1>3, <2>5 DEF InBatch, batch, list
<1> QED BY <1>1, <1>3, <1>4

LEMMA StateHolds ==
    ASSUME NEW r, NEW g \in Nat \ {0}, NEW slot \in 0..LastSlot, NEW roots,
           \A q \in 0..(slot - 1) : roots[q] \in Digests,
           Holds(r, g, TreeHash(BeaconState(slot, roots)))
    PROVE  /\ Holds(r, InPayload(g, PayloadStateRootField), ExecutionStateRoot(slot))
           /\ Holds(r, InPayload(g, PayloadReceiptsRootField), ReceiptsRoot(slot))
           /\ Holds(r, Below(g, 32, 6),
                    TreeHash(NewVectorMerkleTree(RootsOfStates(slot, roots))))
           /\ Holds(r, Below(g, 32, 7),
                    TreeHash(NewListMerkleTree(HistoricalRoots(slot, roots), HistoricalRootsLimit)))
<1>1. /\ Holds(r, Below(g, 32, 24), TreeHash(PayloadTree(slot)))
      /\ Holds(r, Below(g, 32, 6), TreeHash(NewVectorMerkleTree(RootsOfStates(slot, roots))))
      /\ Holds(r, Below(g, 32, 7),
               TreeHash(NewListMerkleTree(HistoricalRoots(slot, roots), HistoricalRootsLimit)))
  <2> DEFINE fields == StateFieldsOf(slot, roots)
  <2>1. \A f \in DOMAIN fields : fields[f] \in Digests
    BY FieldsAreDigests
  <2>2. TreeHash(StateTree(fields)) = TreeHash(BeaconState(slot, roots))
    BY FieldsOfState
  <2> HIDE DEF fields
  <2>3. \A f \in DOMAIN fields : f \in 0..24 => Holds(r, Below(g, 32, f), fields[f])
    BY <2>1, <2>2, StateTreeIs
  <2>4. /\ DOMAIN fields = {6, 7, 24}
        /\ 6 \in 0..24 /\ 7 \in 0..24 /\ 24 \in 0..24
    BY FieldsOfState DEF fields
  <2>5. Holds(r, Below(g, 32, 6), fields[6]) /\ Holds(r, Below(g, 32, 7), fields[7])
        /\ Holds(r, Below(g, 32, 24), fields[24])
    BY <2>3, <2>4
  <2> QED BY <2>5, FieldsOfState DEF fields
<1>2. Below(g, 32, 24) \in Nat \ {0}
  <2>1. 32 \in Nat \ {0} /\ 24 \in Nat
    OBVIOUS
  <2> QED BY <2>1, IndexIsPositive
<1>3. slot \in Nat
  BY BoundOfSlots
<1>4. /\ Holds(r, Below(Below(g, 32, 24), 16, PayloadStateRootField), ExecutionStateRoot(slot))
      /\ Holds(r, Below(Below(g, 32, 24), 16, PayloadReceiptsRootField), ReceiptsRoot(slot))
  BY <1>1, <1>2, <1>3, PayloadTreeIs
<1> QED BY <1>1, <1>4 DEF InPayload, PayloadHeaderField

(* The batch of an ancient slot.                                            *)
LEMMA AncientBatch ==
    ASSUME NEW source \in 0..LastSlot, NEW target \in Nat, IsAncient(source, target)
    PROVE  LET b == target \div SlotsPerHistoricalRoot
           IN  /\ b \in Nat /\ b + 1 \in 1..(source \div SlotsPerHistoricalRoot)
               /\ target \in 0..(BatchEnd(b) - 1)
               /\ BatchEnd(b) <= target + SlotsPerHistoricalRoot
               /\ BatchEnd(b) \in Nat /\ BatchEnd(b) <= source
<1> DEFINE S == SlotsPerHistoricalRoot
           b == target \div S
           c == source \div S
<1>1. S \in Nat \ {0} /\ source \in Nat /\ target + S <= source
  BY BatchIsPower, BoundOfSlots DEF IsAncient
<1> HIDE DEF S
<1>2. b \in Int /\ S * b <= target /\ target < S * b + S
  BY <1>1, DivBounds
<1>3. c \in Int /\ S * c <= source /\ source < S * c + S
  BY <1>1, DivBounds
<1>4. BatchEnd(b) = (b + 1) * S
  BY DEF BatchEnd, S
<1> HIDE DEF b, c
<1>5. b >= 0 /\ (b + 1) * S = S * b + S
  BY <1>1, <1>2
<1>6. b + 1 <= c
  <2> SUFFICES ASSUME b >= c PROVE FALSE
    BY <1>2, <1>3
  <2>1. S * b >= S * c
    BY <1>1, <1>2, <1>3
  <2> QED BY <1>1, <1>2, <1>3, <2>1
<1>7. (b + 1) * S \in Nat /\ (b + 1) * S <= source
  BY <1>1, <1>2, <1>5
<1>8. /\ b \in Nat /\ b + 1 \in 1..c
      /\ target \in 0..((b + 1) * S - 1)
      /\ (b + 1) * S <= target + S
  BY <1>1, <1>2, <1>3, <1>5, <1>6
<1> QED BY <1>4, <1>7, <1>8 DEF S, b, c

LEMMA BatchHolds ==
    ASSUME NEW r, NEW source \in 0..LastSlot, NEW target \in Nat, IsAncient(source, target),
           NEW roots, \A q \in 0..(source - 1) : roots[q] \in Digests,
           Holds(r, Below(1, 32, 7),
                 TreeHash(NewListMerkleTree(HistoricalRoots(source, roots), HistoricalRootsLimit)))
    PROVE  Holds(r, InBatch(target), roots[target])
<1> DEFINE b == target \div SlotsPerHistoricalRoot
           leaves == HistoricalRoots(source, roots)
           c == source \div SlotsPerHistoricalRoot
           one == Below(1, 32, 7)
           list == Below(one, 2, 0)
           batch == Below(list, HistoricalRootsLimit, b)
           tree == TreeHash(NewVectorMerkleTree(RootsOfStates(BatchEnd(b), roots)))
<1>1. /\ b \in Nat /\ b + 1 \in 1..c
      /\ target \in 0..(BatchEnd(b) - 1)
      /\ BatchEnd(b) <= target + SlotsPerHistoricalRoot
      /\ BatchEnd(b) \in Nat /\ BatchEnd(b) <= source
  BY AncientBatch
<1>2. c \in 0..HistoricalRootsLimit
  BY BatchesIs
<1>3. leaves \in Seq(Digests) /\ Len(leaves) = c
  BY HistoricalRootsIs
<1>4. BlockRoots(b) \in Digests /\ tree \in Digests /\ leaves[b + 1] = HashPair(BlockRoots(b), tree)
  <2>1. (b + 1) - 1 = b
    BY <1>1
  <2>2. /\ BlockRoots((b + 1) - 1) \in Digests
        /\ TreeHash(NewVectorMerkleTree(RootsOfStates(BatchEnd((b + 1) - 1), roots))) \in Digests
        /\ leaves[b + 1] =
              HashPair(BlockRoots((b + 1) - 1),
                       TreeHash(NewVectorMerkleTree(RootsOfStates(BatchEnd((b + 1) - 1), roots))))
    <3> HIDE DEF b
    <3> QED BY <1>1, HistoricalRootsIs
  <2> QED BY <2>1, <2>2
<1>5. PICK h \in Nat : HistoricalRootsLimit = TwoTo[h]
  BY BatchIsPower
<1>6. one \in Nat \ {0} /\ list \in Nat \ {0}
  <2>1. one \in Nat \ {0}
    BY IndexIsPositive
  <2>2. 2 \in Nat \ {0} /\ 0 \in Nat
    OBVIOUS
  <2> HIDE DEF one
  <2> QED BY <2>1, <2>2, IndexIsPositive
<1>7. \A q \in 0..(BatchEnd(b) - 1) : roots[q] \in Digests
  <2>1. \A q \in 0..(BatchEnd(b) - 1) : q \in 0..(source - 1)
    BY <1>1
  <2> QED BY <2>1
<1>8. b \in 0..(Len(leaves) - 1) /\ Len(leaves) <= TwoTo[h]
  BY <1>1, <1>2, <1>3, <1>5
<1>9. Holds(r, one, TreeHash(NewListMerkleTree(leaves, TwoTo[h])))
  BY <1>5
<1> HIDE DEF leaves, one, c, tree
<1>10. LeavesHold(r, list, TwoTo[h], leaves)
  BY <1>3, <1>6, <1>8, <1>9, ListHolds
<1>11. Holds(r, batch, HashPair(BlockRoots(b), tree))
  BY <1>4, <1>5, <1>8, <1>10 DEF LeavesHold
<1>12. batch \in Nat \ {0}
  <2> HIDE DEF list, b
  <2> QED BY <1>1, <1>6, BatchIsPower, IndexIsPositive
<1>13. Holds(r, Below(batch, 2, 1), tree) /\ Below(batch, 2, 1) \in Nat \ {0}
  <2>1. Holds(r, 2 * batch + 1, tree)
    <3> HIDE DEF batch, b
    <3> QED BY <1>4, <1>11, <1>12, ChildrenHold
  <2>2. Below(batch, 2, 1) = 2 * batch + 1 /\ 2 * batch + 1 \in Nat \ {0}
    <3> HIDE DEF batch
    <3> QED BY <1>12 DEF Below
  <2> QED BY <2>1, <2>2
<1>14. Holds(r, InRootsOfStates(Below(batch, 2, 1), target), roots[target])
  <2> HIDE DEF batch, b
  <2> QED BY <1>1, <1>7, <1>13, RootsHold DEF tree
<1> QED BY <1>14 DEF InBatch, HistoricalRootsField, one

(* What leads to the place of a target in the state of a source.            *)
LEMMA TargetHolds ==
    ASSUME NEW open, NEW source \in Slots, NEW target \in Slots,
           source \in open, target \in open, target <= source
    PROVE  LET roots == StateRoots(open)
           IN  /\ TargetIndex(source, target) \in Nat \ {0}
               /\ Holds(roots[source], TargetIndex(source, target),
                        TreeHash(BeaconState(target, roots)))
<1> DEFINE roots == StateRoots(open)
           r == roots[source]
<1>1. source \in 0..LastSlot /\ target \in 0..LastSlot /\ target \in Nat /\ source \in Nat
  BY BoundOfSlots DEF Slots
<1>2. /\ \A q \in 0..LastSlot : roots[q] \in Digests
      /\ r = TreeHash(BeaconState(source, roots))
      /\ roots[target] = TreeHash(BeaconState(target, roots))
  BY <1>1, StateRootsIs
<1> HIDE DEF roots
<1>3. \A q \in 0..(source - 1) : roots[q] \in Digests
  <2>1. \A q \in 0..(source - 1) : q \in 0..LastSlot
    BY <1>1, BoundOfSlots
  <2> QED BY <1>2, <2>1
<1>4. Holds(r, 1, TreeHash(BeaconState(source, roots)))
  BY <1>2, RootHolds
<1>5. /\ Holds(r, Below(1, 32, 6), TreeHash(NewVectorMerkleTree(RootsOfStates(source, roots))))
      /\ Holds(r, Below(1, 32, 7),
               TreeHash(NewListMerkleTree(HistoricalRoots(source, roots), HistoricalRootsLimit)))
  <2>1. 1 \in Nat \ {0}
    OBVIOUS
  <2> HIDE DEF r
  <2> QED BY <1>1, <1>3, <1>4, <2>1, StateHolds
<1>6. CASE target = source
  BY <1>4, <1>6 DEF TargetIndex, roots
<1>7. CASE target # source /\ IsAncient(source, target)
  <2>1. Holds(r, InBatch(target), roots[target])
    <3> HIDE DEF r
    <3> QED BY <1>1, <1>3, <1>5, <1>7, BatchHolds
  <2>2. TargetIndex(source, target) = InBatch(target)
    BY <1>7 DEF TargetIndex
  <2> QED BY <1>1, <1>2, <2>1, <2>2, IndexIsPositive DEF roots
<1>8. CASE target # source /\ ~IsAncient(source, target)
  <2>1. target \in 0..(source - 1) /\ source <= target + SlotsPerHistoricalRoot
    BY <1>1, <1>8, BatchIsPower DEF IsAncient
  <2>2. Below(1, 32, 6) \in Nat \ {0}
    BY IndexIsPositive
  <2>3. Holds(r, InRootsOfStates(Below(1, 32, 6), target), roots[target])
    <3> HIDE DEF r
    <3> QED BY <1>1, <1>3, <1>5, <2>1, <2>2, RootsHold
  <2>4. TargetIndex(source, target) = InRootsOfStates(Below(1, 32, 6), target)
    BY <1>8 DEF TargetIndex, StateRootsField
  <2> QED BY <1>1, <1>2, <2>2, <2>3, <2>4, IndexIsPositive DEF roots
<1> QED BY <1>6, <1>7, <1>8

LEMMA ReceiptsRootIsTheTargets ==
    ASSUME NEW open, NEW source \in Slots, NEW target \in Slots, source \in open, target \in open,
           NEW leaf \in Digests, NEW path \in Seq(Digests),
           AcceptsReceiptsRoot(StateRoots(open)[source], source, target, leaf, path)
    PROVE  leaf = ReceiptsRoot(target)
<1> DEFINE roots == StateRoots(open)
           g == TargetIndex(source, target)
<1>1. target <= source /\ Leads(leaf, InPayload(g, PayloadReceiptsRootField), path, roots[source])
  BY DEF AcceptsReceiptsRoot, ReceiptsRootIndex
<1>2. g \in Nat \ {0} /\ Holds(roots[source], g, TreeHash(BeaconState(target, roots)))
  BY <1>1, TargetHolds
<1>3. target \in 0..LastSlot /\ \A q \in 0..(target - 1) : roots[q] \in Digests
  <2>1. target \in 0..LastSlot /\ \A q \in 0..(target - 1) : q \in 0..LastSlot
    BY BoundOfSlots DEF Slots
  <2> QED BY <2>1, StateRootsIs
<1> HIDE DEF roots, g
<1>4. Holds(roots[source], InPayload(g, PayloadReceiptsRootField), ReceiptsRoot(target))
  BY <1>2, <1>3, StateHolds
<1> QED BY <1>1, <1>4 DEF Holds

LEMMA StateRootIsTheSources ==
    ASSUME NEW open, NEW source \in Slots, source \in open,
           NEW leaf \in Digests, NEW path \in Seq(Digests),
           AcceptsStateRoot(StateRoots(open)[source], leaf, path)
    PROVE  leaf = ExecutionStateRoot(source)
<1> DEFINE roots == StateRoots(open)
<1>1. Leads(leaf, InPayload(1, PayloadStateRootField), path, roots[source])
  BY DEF AcceptsStateRoot, StateRootIndex
<1>2. source \in 0..LastSlot /\ \A q \in 0..(source - 1) : roots[q] \in Digests
  <2>1. source \in 0..LastSlot /\ \A q \in 0..(source - 1) : q \in 0..LastSlot
    BY BoundOfSlots DEF Slots
  <2> QED BY <2>1, StateRootsIs
<1>3. Holds(roots[source], 1, TreeHash(BeaconState(source, roots)))
  BY <1>2, StateRootsIs, RootHolds
<1> HIDE DEF roots
<1>4. Holds(roots[source], InPayload(1, PayloadStateRootField), ExecutionStateRoot(source))
  <2>1. 1 \in Nat \ {0}
    OBVIOUS
  <2> QED BY <1>2, <1>3, <2>1, StateHolds
<1> QED BY <1>1, <1>4 DEF Holds

-----------------------------------------------------------------------------
(* The branches that the oracle makes.                                      *)

LEMMA HeightIs == \A h \in Nat : Height(TwoTo[h]) = h
<1> TAKE h \in Nat
<1> DEFINE c == CHOOSE k \in 0..TwoTo[h] : TwoTo[k] = TwoTo[h]
<1>1. h \in 0..TwoTo[h]
  BY TwoToGrows, TwoToEquation
<1>2. c \in 0..TwoTo[h] /\ TwoTo[c] = TwoTo[h]
  BY <1>1
<1>3. Height(TwoTo[h]) = c
  BY DEF Height
<1> HIDE DEF c
<1>4. c \in Nat /\ TwoTo[h] \in Nat \ {0}
  BY <1>2, TwoToEquation
<1>5. ~(c < h) /\ ~(h < c)
  <2>1. c < h => 2 * TwoTo[c] <= TwoTo[h]
    BY <1>4, TwoToGrows
  <2>2. h < c => 2 * TwoTo[h] <= TwoTo[c]
    BY <1>4, TwoToGrows
  <2> QED BY <1>2, <1>4, <2>1, <2>2
<1> QED BY <1>3, <1>4, <1>5

(* The nodes beside a branch, and their leaves.                             *)
LEMMA SiblingIs ==
    ASSUME NEW h \in Nat, NEW j \in 1..h, NEW idx \in Nat
    PROVE  /\ TwoTo[j - 1] \in Nat \ {0}
           /\ Sibling((idx + TwoTo[h]) \div TwoTo[j - 1]) * TwoTo[j - 1] - TwoTo[h] \in Nat
<1> DEFINE k == TwoTo[j - 1]
           w == TwoTo[h - j]
           g == (idx + TwoTo[h]) \div k
<1>1. j - 1 \in Nat /\ h - j \in Nat /\ (j - 1) + ((h - j) + 1) = h /\ (h - j) + 1 \in Nat
  OBVIOUS
<1>2. k \in Nat \ {0} /\ w \in Nat \ {0} /\ TwoTo[(h - j) + 1] = 2 * w
  BY <1>1, TwoToEquation
<1>3. TwoTo[h] = k * (2 * w)
  BY <1>1, <1>2, TwoToAdds
<1> HIDE DEF k, w
<1>4. k * (2 * w) \in Nat /\ idx + TwoTo[h] \in Int
  BY <1>2, <1>3
<1>5. g \in Int /\ k * g <= idx + TwoTo[h] /\ idx + TwoTo[h] < k * g + k
  <2> DEFINE a == idx + TwoTo[h]
  <2>1. a \in Int
    BY <1>4
  <2> HIDE DEF a
  <2>2. a \div k \in Int /\ k * (a \div k) <= a /\ a < k * (a \div k) + k
    BY <1>2, <2>1, DivBounds
  <2> QED BY <2>2 DEF a
<1> HIDE DEF g
<1>6. g >= 2 * w
  <2> SUFFICES ASSUME g + 1 <= 2 * w PROVE FALSE
    BY <1>2, <1>5
  <2>1. k * (g + 1) <= k * (2 * w) /\ k * (g + 1) = k * g + k
    BY <1>2, <1>5
  <2> QED BY <1>2, <1>3, <1>5, <2>1
<1>7. Sibling(g) \in Int /\ Sibling(g) >= 2 * w
  BY <1>2, <1>5, <1>6 DEF Sibling
<1>8. Sibling(g) * k >= (2 * w) * k /\ Sibling(g) * k \in Int
  BY <1>2, <1>7
<1>9. (2 * w) * k = k * (2 * w)
  BY <1>2
<1>10. Sibling(g) * k - TwoTo[h] \in Nat
  BY <1>3, <1>4, <1>8, <1>9
<1> QED BY <1>2, <1>10 DEF k, g

LEMMA PathIsDigests ==
    ASSUME NEW leaves \in Seq(Digests), NEW h \in Nat, NEW idx \in Nat
    PROVE  /\ PathFrom(leaves, TwoTo[h], idx) \in Seq(Digests)
           /\ Len(PathFrom(leaves, TwoTo[h], idx)) = h
<1> DEFINE node(j) == LET k == TwoTo[j - 1]
                          sibling == Sibling((idx + TwoTo[h]) \div k)
                      IN  merkle[k][Slice(leaves, sibling * k - TwoTo[h], k)]
<1>1. PathFrom(leaves, TwoTo[h], idx) = [j \in 1..h |-> node(j)]
  BY HeightIs DEF PathFrom
<1>2. ASSUME NEW j \in 1..h PROVE node(j) \in Digests
  <2> DEFINE k == TwoTo[j - 1]
             first == Sibling((idx + TwoTo[h]) \div k) * k - TwoTo[h]
  <2>1. k \in Nat \ {0} /\ first \in Nat
    BY SiblingIs
  <2> HIDE DEF k, first
  <2>2. Slice(leaves, first, k) \in Seq(Digests)
    <3>1. k \in Nat
      BY <2>1
    <3> QED BY <2>1, <3>1, SliceIs
  <2>3. merkle[k][Slice(leaves, first, k)] \in Digests
    BY <2>1, <2>2, MerkleOfDigests
  <2> QED BY <2>3 DEF k, first
<1> HIDE DEF node
<1> QED BY <1>1, <1>2

LEMMA VectorProofIsDigests ==
    ASSUME NEW leaves \in Seq(Digests), NEW m, Len(leaves) = m, NEW h \in Nat,
           CeilPow2(m) = TwoTo[h], NEW idx \in Nat
    PROVE  MakeProof(NewVectorMerkleTree(leaves), idx).path \in Seq(Digests)
<1>1. MakeProof(NewVectorMerkleTree(leaves), idx).path = PathFrom(leaves, TwoTo[h], idx)
  BY DEF MakeProof, NewVectorMerkleTree
<1> QED BY <1>1, PathIsDigests

LEMMA ListProofIsDigests ==
    ASSUME NEW leaves \in Seq(Digests), NEW h \in Nat, NEW idx \in Nat
    PROVE  MakeProof(NewListMerkleTree(leaves, TwoTo[h]), idx).path \in Seq(Digests)
<1> DEFINE path == PathFrom(leaves, TwoTo[h], idx)
           x == UintToHash(Len(leaves))
<1>1. MakeProof(NewListMerkleTree(leaves, TwoTo[h]), idx).path = Append(path, x)
  BY DEF MakeProof, NewListMerkleTree
<1>2. path \in Seq(Digests) /\ x \in Digests
  BY PathIsDigests, LengthIsNat, DigestsAreClosed DEF ClosedUnderHashing
<1> HIDE DEF path, x
<1> QED BY <1>1, <1>2

LEMMA StateProofIsDigests ==
    ASSUME NEW fields, \A f \in DOMAIN fields : fields[f] \in Digests, NEW idx \in Nat
    PROVE  MakeProof(StateTree(fields), idx).path \in Seq(Digests)
<1> DEFINE leaf(f) == IF f - 1 \in DOMAIN fields THEN fields[f - 1] ELSE DigestOf(FieldKind, f)
           leaves == [f \in 1..25 |-> leaf(f)]
<1>1. StateTree(fields) = NewVectorMerkleTree(leaves)
  BY DEF StateTree, StateFields
<1>2. \A f \in 1..25 : leaf(f) \in Digests
  BY OpaqueIsDigest, KindsAreInt
<1> HIDE DEF leaf
<1>3. leaves \in Seq(Digests) /\ Len(leaves) = 25
  BY <1>2
<1> HIDE DEF leaves
<1>4. CeilPow2(25) = TwoTo[5] /\ 5 \in Nat
  BY Widths
<1> QED BY <1>1, <1>3, <1>4, VectorProofIsDigests

LEMMA PayloadProofIsDigests ==
    ASSUME NEW slot \in Nat, NEW idx \in Nat
    PROVE  MakeProof(PayloadTree(slot), idx).path \in Seq(Digests)
<1> DEFINE leaf(f) == CASE f - 1 = PayloadStateRootField    -> ExecutionStateRoot(slot)
                        [] f - 1 = PayloadReceiptsRootField -> ReceiptsRoot(slot)
                        [] OTHER                            -> DigestOf(PayloadKind, f)
           leaves == [f \in 1..14 |-> leaf(f)]
<1>1. PayloadTree(slot) = NewVectorMerkleTree(leaves)
  BY DEF PayloadTree, PayloadFields
<1>2. \A f \in 1..14 : leaf(f) \in Digests
  BY OpaqueIsDigest, KindsAreInt DEF ExecutionStateRoot, ReceiptsRoot
<1> HIDE DEF leaf
<1>3. leaves \in Seq(Digests) /\ Len(leaves) = 14
  BY <1>2
<1> HIDE DEF leaves
<1>4. CeilPow2(14) = TwoTo[4] /\ 4 \in Nat
  BY Widths
<1> QED BY <1>1, <1>3, <1>4, VectorProofIsDigests

LEMMA RootsProofIsDigests ==
    ASSUME NEW slot \in Nat, NEW roots, \A q \in 0..(slot - 1) : roots[q] \in Digests,
           NEW idx \in Nat
    PROVE  MakeProof(NewVectorMerkleTree(RootsOfStates(slot, roots)), idx).path \in Seq(Digests)
<1>1. PICK h \in Nat : SlotsPerHistoricalRoot = TwoTo[h]
  BY BatchIsPower
<1>2. CeilPow2(SlotsPerHistoricalRoot) = TwoTo[h]
  BY <1>1, Widths
<1> QED BY <1>2, RootsOfStatesIs, VectorProofIsDigests

LEMMA Joined == \A S : \A p, q \in Seq(S) : p \o q \in Seq(S)
OBVIOUS

LEMMA FieldsAreNat ==
    /\ PayloadStateRootField \in Nat /\ PayloadReceiptsRootField \in Nat
    /\ PayloadHeaderField \in Nat /\ StateRootsField \in Nat /\ HistoricalRootsField \in Nat
    /\ FinalizedCheckpointField \in Nat /\ CurrentSyncCommitteeField \in Nat
    /\ NextSyncCommitteeField \in Nat
BY DEF PayloadStateRootField, PayloadReceiptsRootField, PayloadHeaderField, StateRootsField,
       HistoricalRootsField, FinalizedCheckpointField, CurrentSyncCommitteeField,
       NextSyncCommitteeField

LEMMA FieldProofIsDigests ==
    ASSUME NEW slot \in 0..LastSlot, NEW roots, \A q \in 0..(slot - 1) : roots[q] \in Digests,
           NEW idx \in Nat
    PROVE  MakeProof(BeaconState(slot, roots), idx).path \in Seq(Digests)
BY FieldsAreDigests, FieldsOfState, StateProofIsDigests

LEMMA StateRootProofIsDigests ==
    ASSUME NEW open, NEW slot \in Slots
    PROVE  MakeExecutionPayloadStateRootProof(slot, StateRoots(open)) \in Seq(Digests)
<1> DEFINE roots == StateRoots(open)
<1>1. slot \in 0..LastSlot /\ slot \in Nat /\ \A q \in 0..(slot - 1) : q \in 0..LastSlot
  BY BoundOfSlots DEF Slots
<1>2. \A q \in 0..(slot - 1) : roots[q] \in Digests
  BY <1>1, StateRootsIs
<1> HIDE DEF roots
<1>3. MakeProof(PayloadTree(slot), PayloadStateRootField).path \in Seq(Digests)
  BY <1>1, PayloadProofIsDigests, FieldsAreNat
<1>4. MakeProof(BeaconState(slot, roots), PayloadHeaderField).path \in Seq(Digests)
  BY <1>1, <1>2, FieldProofIsDigests, FieldsAreNat
<1> QED BY <1>3, <1>4, Joined DEF MakeExecutionPayloadStateRootProof, roots

LEMMA ProofOfStateIsDigests ==
    ASSUME NEW open, NEW source \in Slots, NEW target \in Slots, target <= source
    PROVE  ProofOfState(source, target, StateRoots(open)) \in Seq(Digests)
<1> DEFINE roots == StateRoots(open)
           place == target % SlotsPerHistoricalRoot
           batch == target \div SlotsPerHistoricalRoot
           end == BatchEnd(batch)
           a == MakeProof(NewVectorMerkleTree(RootsOfStates(source, roots)), place).path
           b == MakeProof(BeaconState(source, roots), StateRootsField).path
           c == MakeProof(NewVectorMerkleTree(RootsOfStates(end, roots)), place).path
           d == MakeProof(NewListMerkleTree(HistoricalRoots(source, roots),
                                            HistoricalRootsLimit), batch).path
           e == MakeProof(BeaconState(source, roots), HistoricalRootsField).path
<1>1. source \in 0..LastSlot /\ source \in Nat /\ target \in Nat
      /\ \A q \in 0..(source - 1) : q \in 0..LastSlot
  BY BoundOfSlots DEF Slots
<1>2. \A q \in 0..(source - 1) : roots[q] \in Digests
  BY <1>1, StateRootsIs
<1> HIDE DEF roots
<1>3. place \in Nat /\ batch \in Nat
  BY <1>1, BatchIsPower
<1> HIDE DEF place, batch
<1>4. a \in Seq(Digests) /\ b \in Seq(Digests) /\ e \in Seq(Digests)
  BY <1>1, <1>2, <1>3, RootsProofIsDigests, FieldProofIsDigests, FieldsAreNat
<1>5. d \in Seq(Digests)
  <2>1. PICK h \in Nat : HistoricalRootsLimit = TwoTo[h]
    BY BatchIsPower
  <2>2. HistoricalRoots(source, roots) \in Seq(Digests)
    BY <1>1, <1>2, HistoricalRootsIs
  <2> QED BY <1>3, <2>1, <2>2, ListProofIsDigests
<1>6. ~InWindow(source, target) => c \in Seq(Digests) /\ BlockRoots(batch) \in Digests
  <2> SUFFICES ASSUME ~InWindow(source, target)
               PROVE  c \in Seq(Digests) /\ BlockRoots(batch) \in Digests
    OBVIOUS
  <2>1. IsAncient(source, target)
    BY <1>1, BatchIsPower DEF IsAncient, InWindow
  <2>2. end \in Nat /\ end <= source
    BY <1>1, <2>1, AncientBatch DEF batch
  <2> HIDE DEF end
  <2>3. \A q \in 0..(end - 1) : roots[q] \in Digests
    <3>1. \A q \in 0..(end - 1) : q \in 0..(source - 1)
      BY <1>1, <2>2
    <3> QED BY <1>2, <3>1
  <2>4. c \in Seq(Digests)
    BY <1>3, <2>2, <2>3, RootsProofIsDigests
  <2> QED BY <1>3, <2>4, OpaqueIsDigest, KindsAreInt DEF BlockRoots
<1> HIDE DEF a, b, c, d, e
<1>7. a \o b \in Seq(Digests)
  BY <1>4, Joined
<1>8. ~InWindow(source, target) => c \o <<BlockRoots(batch)>> \o d \o e \in Seq(Digests)
  <2> SUFFICES ASSUME ~InWindow(source, target)
               PROVE  c \o <<BlockRoots(batch)>> \o d \o e \in Seq(Digests)
    OBVIOUS
  <2>1. <<BlockRoots(batch)>> \in Seq(Digests)
    BY <1>6
  <2> QED BY <1>4, <1>5, <1>6, <2>1, Joined
<1>9. <<>> \in Seq(Digests)
  OBVIOUS
<1>10. ProofOfState(source, target, roots) =
          IF source = target THEN <<>>
          ELSE IF InWindow(source, target) THEN a \o b
          ELSE c \o <<BlockRoots(batch)>> \o d \o e
  BY DEF ProofOfState, a, b, c, d, e, place, batch
<1> QED BY <1>7, <1>8, <1>9, <1>10 DEF roots

LEMMA ReceiptsRootProofIsDigests ==
    ASSUME NEW open, NEW source \in Slots, NEW target \in Slots, target <= source
    PROVE  MakeExecutionPayloadReceiptsRootProof(source, target, StateRoots(open)) \in Seq(Digests)
<1> DEFINE roots == StateRoots(open)
<1>1. target \in 0..LastSlot /\ target \in Nat /\ \A q \in 0..(target - 1) : q \in 0..LastSlot
  BY BoundOfSlots DEF Slots
<1>2. \A q \in 0..(target - 1) : roots[q] \in Digests
  BY <1>1, StateRootsIs
<1>3. ProofOfState(source, target, roots) \in Seq(Digests)
  BY ProofOfStateIsDigests
<1> HIDE DEF roots
<1>4. MakeProof(PayloadTree(target), PayloadReceiptsRootField).path \in Seq(Digests)
  BY <1>1, PayloadProofIsDigests, FieldsAreNat
<1>5. MakeProof(BeaconState(target, roots), PayloadHeaderField).path \in Seq(Digests)
  BY <1>1, <1>2, FieldProofIsDigests, FieldsAreNat
<1> QED BY <1>3, <1>4, <1>5, Joined DEF MakeExecutionPayloadReceiptsRootProof, roots

-----------------------------------------------------------------------------
(* Headers.                                                                 *)

(* The tree of a header, by hand and by the oracle.                         *)
HeadersAre == [slot : Nat, stateRoot : Nat]

LEMMA FieldsOfHeader ==
    ASSUME NEW header \in HeadersAre
    PROVE  /\ HeaderFields(header) \in Seq(Digests) /\ Len(HeaderFields(header)) = 5
           /\ HeaderFields(header)[1] = UintToHash(header.slot)
           /\ HeaderFields(header)[4] = DigestOf(BeaconStateKind, header.stateRoot)
<1>1. UintToHash(header.slot) \in Digests
  BY DigestsAreClosed DEF ClosedUnderHashing, HeadersAre
<1>2. /\ DigestOf(HeaderKind, 2) \in Digests /\ DigestOf(HeaderKind, 3) \in Digests
      /\ DigestOf(BeaconStateKind, header.stateRoot) \in Digests
      /\ DigestOf(HeaderKind, 5) \in Digests
  BY OpaqueIsDigest, KindsAreInt DEF HeadersAre
<1> QED BY <1>1, <1>2 DEF HeaderFields

LeftOf(s, q, m) ==
    /\ s \in Seq(Digests) /\ Len(s) = (IF m <= Len(q) THEN m ELSE Len(q))
    /\ \A i \in 1..Len(s) : s[i] = q[i]
RightOf(s, q, m) ==
    /\ s \in Seq(Digests)
    /\ Len(s) = (IF 2 * m <= Len(q) THEN m ELSE IF m <= Len(q) THEN Len(q) - m ELSE 0)
    /\ \A i \in 1..Len(s) : s[i] = q[m + i]

LEMMA HalvesAre ==
    ASSUME NEW q \in Seq(Digests), NEW m \in Nat \ {0}
    PROVE  LeftOf(Slice(q, 0, m), q, m) /\ RightOf(Slice(q, m, m), q, m)
<1> DEFINE a == Slice(q, 0, m)
           b == Slice(q, m, m)
<1>1. a \in Seq(Digests) /\ IsSlice(a, q, 0, m) /\ b \in Seq(Digests) /\ IsSlice(b, q, m, m)
  BY SliceIs
<1>2. Len(q) \in Nat
  OBVIOUS
<1> HIDE DEF a, b
<1>3. LeftOf(a, q, m)
  BY <1>1, <1>2 DEF IsSlice, LeftOf
<1>4. RightOf(b, q, m)
  BY <1>1, <1>2 DEF IsSlice, RightOf
<1> QED BY <1>3, <1>4 DEF a, b

(* The root of a tree of five leaves.                                       *)
LEMMA FiveLeaves ==
    ASSUME NEW leaves \in Seq(Digests), Len(leaves) = 5
    PROVE  merkle[8][leaves] =
              HashPair(HashPair(HashPair(leaves[1], leaves[2]), HashPair(leaves[3], leaves[4])),
                       HashPair(HashPair(leaves[5], UintToHash(0)),
                                HashPair(UintToHash(0), UintToHash(0))))
<1>1. \A q \in Seq(Digests) : q \in Seq(Hashes) /\ Len(q) \in Nat
  BY DigestsAreClosed
<1>2. ASSUME NEW q \in Seq(Digests), NEW m \in Nat \ {0}, Len(q) <= 2 * m
      PROVE  merkle[2 * m][q] = HashPair(merkle[m][Slice(q, 0, m)], merkle[m][Slice(q, m, m)])
  BY <1>1, <1>2, MerkleHalves
<1>4. \A q \in Seq(Digests) : merkle[1][q] = IF Len(q) = 0 THEN UintToHash(0) ELSE q[1]
  <2> TAKE q \in Seq(Digests)
  <2>1. q = <<>> <=> Len(q) = 0
    OBVIOUS
  <2> QED BY <1>1, <2>1, MerkleOne
<1> DEFINE at(q, i) == IF i <= Len(q) THEN q[i] ELSE UintToHash(0)
<1>5. ASSUME NEW q \in Seq(Digests), Len(q) <= 2
      PROVE  merkle[2][q] = HashPair(at(q, 1), at(q, 2))
  <2>1. 1 \in Nat \ {0}
    OBVIOUS
  <2>2. merkle[2][q] = HashPair(merkle[1][Slice(q, 0, 1)], merkle[1][Slice(q, 1, 1)])
    BY <1>2, <1>5, <2>1
  <2> DEFINE a == Slice(q, 0, 1)
             b == Slice(q, 1, 1)
  <2>3. /\ a \in Seq(Digests) /\ Len(a) = (IF 1 <= Len(q) THEN 1 ELSE 0)
        /\ 1 <= Len(q) => a[1] = q[1]
    <3>1. LeftOf(Slice(q, 0, 1), q, 1)
      BY <2>1, HalvesAre
    <3> HIDE DEF a
    <3> QED BY <1>1, <1>5, <3>1 DEF LeftOf, a
  <2>4. /\ b \in Seq(Digests) /\ Len(b) = (IF 2 <= Len(q) THEN 1 ELSE 0)
        /\ 2 <= Len(q) => b[1] = q[2]
    <3>1. RightOf(Slice(q, 1, 1), q, 1)
      BY <2>1, HalvesAre
    <3> HIDE DEF b
    <3> QED BY <1>1, <1>5, <3>1 DEF RightOf, b
  <2> HIDE DEF a, b
  <2>5. merkle[1][a] = at(q, 1) /\ merkle[1][b] = at(q, 2)
    BY <1>1, <1>4, <2>3, <2>4
  <2> QED BY <2>2, <2>5 DEF a, b
<1>6. ASSUME NEW q \in Seq(Digests), Len(q) <= 4
      PROVE  merkle[4][q] = HashPair(HashPair(at(q, 1), at(q, 2)), HashPair(at(q, 3), at(q, 4)))
  <2>1. 2 \in Nat \ {0}
    OBVIOUS
  <2>2. merkle[4][q] = HashPair(merkle[2][Slice(q, 0, 2)], merkle[2][Slice(q, 2, 2)])
    BY <1>2, <1>6, <2>1
  <2> DEFINE a == Slice(q, 0, 2)
             b == Slice(q, 2, 2)
  <2>3. /\ a \in Seq(Digests) /\ Len(a) = (IF 2 <= Len(q) THEN 2 ELSE Len(q))
        /\ \A i \in 1..Len(a) : a[i] = q[i]
    <3>1. LeftOf(Slice(q, 0, 2), q, 2)
      BY <2>1, HalvesAre
    <3> HIDE DEF a
    <3> QED BY <1>1, <1>6, <3>1 DEF LeftOf, a
  <2>4. /\ b \in Seq(Digests) /\ Len(b) = (IF 2 <= Len(q) THEN Len(q) - 2 ELSE 0)
        /\ \A i \in 1..Len(b) : b[i] = q[2 + i]
    <3>1. RightOf(Slice(q, 2, 2), q, 2)
      BY <2>1, HalvesAre
    <3> HIDE DEF b
    <3>2. /\ b \in Seq(Digests) /\ \A i \in 1..Len(b) : b[i] = q[2 + i]
          /\ Len(b) = IF 2 * 2 <= Len(q) THEN 2 ELSE IF 2 <= Len(q) THEN Len(q) - 2 ELSE 0
      BY <3>1 DEF RightOf, b
    <3>3. Len(q) \in Nat /\ 2 * 2 = 4
      BY <1>1
    <3>4. Len(b) = IF 2 <= Len(q) THEN Len(q) - 2 ELSE 0
      BY <1>6, <3>2, <3>3
    <3> QED BY <3>2, <3>4
  <2> HIDE DEF a, b
  <2>5. at(a, 1) = at(q, 1) /\ at(a, 2) = at(q, 2) /\ at(b, 1) = at(q, 3) /\ at(b, 2) = at(q, 4)
    BY <1>1, <1>6, <2>3, <2>4
  <2>6. Len(a) <= 2 /\ Len(b) <= 2
    BY <1>1, <1>6, <2>3, <2>4
  <2> HIDE DEF at
  <2> QED BY <1>5, <2>2, <2>3, <2>4, <2>5, <2>6 DEF a, b
<1>7. merkle[8][leaves] =
         HashPair(HashPair(HashPair(at(leaves, 1), at(leaves, 2)),
                           HashPair(at(leaves, 3), at(leaves, 4))),
                  HashPair(HashPair(at(leaves, 5), UintToHash(0)),
                           HashPair(UintToHash(0), UintToHash(0))))
  <2>1. 4 \in Nat \ {0} /\ 2 * 4 = 8 /\ Len(leaves) <= 2 * 4
    OBVIOUS
  <2>2. merkle[8][leaves] = HashPair(merkle[4][Slice(leaves, 0, 4)], merkle[4][Slice(leaves, 4, 4)])
    BY <1>2, <2>1
  <2> DEFINE a == Slice(leaves, 0, 4)
             b == Slice(leaves, 4, 4)
  <2>3. a \in Seq(Digests) /\ Len(a) = 4 /\ \A i \in 1..4 : a[i] = leaves[i]
    <3>1. LeftOf(Slice(leaves, 0, 4), leaves, 4)
      BY <2>1, HalvesAre
    <3> HIDE DEF a
    <3> QED BY <1>1, <3>1 DEF LeftOf, a
  <2>4. b \in Seq(Digests) /\ Len(b) = 1 /\ b[1] = leaves[5]
    <3>1. RightOf(Slice(leaves, 4, 4), leaves, 4)
      BY <2>1, HalvesAre
    <3> HIDE DEF b
    <3> QED BY <1>1, <3>1 DEF RightOf, b
  <2> HIDE DEF a, b
  <2>5. /\ at(a, 1) = at(leaves, 1) /\ at(a, 2) = at(leaves, 2)
        /\ at(a, 3) = at(leaves, 3) /\ at(a, 4) = at(leaves, 4)
        /\ at(b, 1) = at(leaves, 5) /\ at(b, 2) = UintToHash(0)
        /\ at(b, 3) = UintToHash(0) /\ at(b, 4) = UintToHash(0)
    BY <2>3, <2>4
  <2>6. Len(a) <= 4 /\ Len(b) <= 4
    BY <2>3, <2>4
  <2> HIDE DEF at
  <2> QED BY <1>6, <2>2, <2>3, <2>4, <2>5, <2>6 DEF a, b
<1>8. \A i \in 1..5 : at(leaves, i) = leaves[i]
  OBVIOUS
<1> HIDE DEF at
<1> QED BY <1>7, <1>8

LEMMA HeaderRootIs ==
    ASSUME NEW header \in HeadersAre
    PROVE  /\ headerRoot(header) = TreeHash(NewVectorMerkleTree(HeaderFields(header)))
           /\ headerRoot(header) \in Digests
<1> DEFINE leaves == HeaderFields(header)
<1>1. leaves \in Seq(Digests) /\ Len(leaves) = 5
  BY FieldsOfHeader
<1>2. CeilPow2(5) = 8
  BY Widths, Powers
<1>3. TreeHash(NewVectorMerkleTree(leaves)) = merkle[8][leaves]
  BY <1>1, <1>2 DEF TreeHash, NewVectorMerkleTree
<1>4. headerRoot(header) = merkle[8][leaves]
  <2> HIDE DEF leaves
  <2> QED BY <1>1, FiveLeaves DEF headerRoot, leaves
<1>5. merkle[8][leaves] \in Digests
  BY <1>1, MerkleOfDigests
<1> QED BY <1>3, <1>4, <1>5

LEMMA OpaqueTells ==
    /\ \A kind, v, w \in Int : DigestOf(kind, v) = DigestOf(kind, w) => v = w
    /\ \A v, w : UintToHash(v) = UintToHash(w) => v = w
<1>1. ASSUME NEW v, NEW w, UintToHash(v) = UintToHash(w) PROVE v = w
  <2>1. <<v>>[1] = <<w>>[1]
    BY <1>1 DEF UintToHash
  <2> QED BY <2>1
<1>2. ASSUME NEW kind, NEW v, NEW w, DigestOf(kind, v) = DigestOf(kind, w) PROVE v = w
  <2>1. <<-2, kind, v>>[3] = <<-2, kind, w>>[3]
    BY <1>2 DEF DigestOf
  <2> QED BY <2>1
<1> QED BY <1>1, <1>2

LEMMA HeaderRootTells ==
    ASSUME NEW a \in HeadersAre, NEW b \in HeadersAre, headerRoot(a) = headerRoot(b)
    PROVE  a = b
<1> DEFINE f == HeaderFields(a)
           g == HeaderFields(b)
           zeros == HashPair(UintToHash(0), UintToHash(0))
           left(q) == HashPair(HashPair(q[1], q[2]), HashPair(q[3], q[4]))
           right(q) == HashPair(HashPair(q[5], UintToHash(0)), zeros)
<1>1. headerRoot(a) = HashPair(left(f), right(f)) /\ headerRoot(b) = HashPair(left(g), right(g))
  BY DEF headerRoot
<1>2. f \in Seq(Digests) /\ Len(f) = 5 /\ g \in Seq(Digests) /\ Len(g) = 5
  BY FieldsOfHeader
<1> HIDE DEF f, g
<1>3. UintToHash(0) \in Digests
  BY DigestsAreClosed DEF ClosedUnderHashing
<1>4. ASSUME NEW q \in {f, g}
      PROVE  /\ HashPair(q[1], q[2]) \in Digests /\ HashPair(q[3], q[4]) \in Digests
             /\ left(q) \in Digests /\ right(q) \in Digests
             /\ q[1] \in Digests /\ q[2] \in Digests /\ q[3] \in Digests /\ q[4] \in Digests
  <2>1. /\ q[1] \in Digests /\ q[2] \in Digests /\ q[3] \in Digests /\ q[4] \in Digests
        /\ q[5] \in Digests
    BY <1>2
  <2> QED BY <1>3, <2>1, PairIsDigest
<1>5. left(f) = left(g)
  <2> HIDE DEF left, right
  <2> QED BY <1>1, <1>4, PairsDiffer
<1>6. HashPair(f[1], f[2]) = HashPair(g[1], g[2]) /\ HashPair(f[3], f[4]) = HashPair(g[3], g[4])
  BY <1>4, <1>5, PairsDiffer
<1>7. f[1] = g[1] /\ f[4] = g[4]
  BY <1>4, <1>6, PairsDiffer
<1>8. a.slot = b.slot /\ a.stateRoot = b.stateRoot
  <2>1. /\ UintToHash(a.slot) = UintToHash(b.slot)
        /\ DigestOf(BeaconStateKind, a.stateRoot) = DigestOf(BeaconStateKind, b.stateRoot)
    BY <1>7, FieldsOfHeader DEF f, g
  <2>2. a.stateRoot \in Int /\ b.stateRoot \in Int
    BY DEF HeadersAre
  <2> QED BY <2>1, <2>2, OpaqueTells, KindsAreInt
<1> QED BY <1>8 DEF HeadersAre

FinalizedFields(epoch, header) ==
    [f \in {FinalizedCheckpointField} |->
        HashPair(UintToHash(epoch), TreeHash(NewVectorMerkleTree(HeaderFields(header))))]

LEMMA FinalizedFieldsAre ==
    ASSUME NEW epoch \in Nat, NEW header \in HeadersAre
    PROVE  /\ FinalizedState(epoch, header) = StateTree(FinalizedFields(epoch, header))
           /\ DOMAIN FinalizedFields(epoch, header) = {20}
           /\ UintToHash(epoch) \in Digests
           /\ FinalizedFields(epoch, header)[20] = HashPair(UintToHash(epoch), headerRoot(header))
           /\ \A f \in DOMAIN FinalizedFields(epoch, header) :
                 FinalizedFields(epoch, header)[f] \in Digests
<1>1. UintToHash(epoch) \in Digests
  BY DigestsAreClosed DEF ClosedUnderHashing
<1>2. HashPair(UintToHash(epoch), headerRoot(header)) \in Digests
  BY <1>1, HeaderRootIs, PairIsDigest
<1>3. /\ DOMAIN FinalizedFields(epoch, header) = {20}
      /\ FinalizedFields(epoch, header)[20] = HashPair(UintToHash(epoch), headerRoot(header))
  BY HeaderRootIs DEF FinalizedFields, FinalizedCheckpointField
<1>4. FinalizedState(epoch, header) = StateTree(FinalizedFields(epoch, header))
  BY DEF FinalizedState, FinalizedFields
<1> QED BY <1>1, <1>2, <1>3, <1>4

LEMMA FinalizedHeaderIsTheStates ==
    ASSUME NEW epoch \in Nat, NEW finalized \in HeadersAre, NEW header \in HeadersAre,
           AcceptsFinality(TreeHash(FinalizedState(epoch, finalized)), header,
                           MakeFinalityBranch(epoch, finalized))
    PROVE  header = finalized
<1> DEFINE fields == FinalizedFields(epoch, finalized)
           r == TreeHash(StateTree(fields))
           path == MakeFinalityBranch(epoch, finalized)
<1>1. Leads(headerRoot(header), 105, path, r)
  BY FinalizedFieldsAre DEF AcceptsFinality, FINALIZED_ROOT_INDEX
<1>2. path \in Seq(Digests)
  <2>1. MakeProof(FinalizedState(epoch, finalized), FinalizedCheckpointField).path \in Seq(Digests)
    BY FinalizedFieldsAre, StateProofIsDigests, FieldsAreNat
  <2>2. <<UintToHash(epoch)>> \in Seq(Digests)
    BY FinalizedFieldsAre
  <2> QED BY <2>1, <2>2, Joined DEF MakeFinalityBranch
<1>3. Holds(r, 52, HashPair(UintToHash(epoch), headerRoot(finalized)))
  <2>1. DOMAIN fields = {20} /\ fields[20] = HashPair(UintToHash(epoch), headerRoot(finalized))
        /\ \A f \in DOMAIN fields : fields[f] \in Digests
    BY FinalizedFieldsAre
  <2> HIDE DEF fields
  <2>2. Holds(r, 1, TreeHash(StateTree(fields))) /\ 1 \in Nat \ {0}
    BY RootHolds
  <2> HIDE DEF r
  <2>3. Holds(r, Below(1, 32, 20), fields[20])
    BY <2>1, <2>2, StateTreeIs
  <2>4. Below(1, 32, 20) = 52
    BY DEF Below
  <2> QED BY <2>1, <2>3, <2>4
<1> HIDE DEF path, r
<1>4. Holds(r, 105, headerRoot(finalized))
  <2> DEFINE a == UintToHash(epoch)
             b == headerRoot(finalized)
  <2>1. a \in Digests /\ b \in Digests /\ 52 \in Nat \ {0} /\ 2 * 52 + 1 = 105
    BY FinalizedFieldsAre, HeaderRootIs
  <2> HIDE DEF a, b
  <2>2. Holds(r, 2 * 52 + 1, b)
    BY <1>3, <2>1, ChildrenHold DEF a, b
  <2> QED BY <2>1, <2>2 DEF b
<1>5. headerRoot(header) = headerRoot(finalized)
  BY <1>1, <1>2, <1>4, HeaderRootIs DEF Holds
<1> QED BY <1>5, HeaderRootTells

-----------------------------------------------------------------------------
(* Packed lists and keys.                                                   *)

(* The root of a tree tells its leaves.                                     *)
LEMMA MerkleTells ==
    \A k \in Nat : \A p, q \in Seq(Digests) :
       Len(p) = Len(q) /\ Len(p) <= TwoTo[k] /\ merkle[TwoTo[k]][p] = merkle[TwoTo[k]][q] =>
          \A i \in 1..Len(p) : p[i] = q[i]
<1> DEFINE Goal(k, p, q) ==
               Len(p) = Len(q) /\ Len(p) <= TwoTo[k] /\ merkle[TwoTo[k]][p] = merkle[TwoTo[k]][q] =>
                  \A i \in 1..Len(p) : p[i] = q[i]
           T == {k \in Nat : \A p, q \in Seq(Digests) : Goal(k, p, q)}
<1>0. \A q \in Seq(Digests) : q \in Seq(Hashes) /\ Len(q) \in Nat
  BY DigestsAreClosed
<1>1. 0 \in T
  <2> SUFFICES ASSUME NEW p \in Seq(Digests), NEW q \in Seq(Digests), Len(p) = Len(q),
                      Len(p) <= 1, merkle[1][p] = merkle[1][q], NEW i \in 1..Len(p)
               PROVE  p[i] = q[i]
    BY TwoToEquation, ZenonT(20)
  <2>1. i = 1 /\ p # <<>> /\ q # <<>>
    BY <1>0
  <2>2. merkle[1][p] = p[1] /\ merkle[1][q] = q[1]
    BY <1>0, <2>1, MerkleOne
  <2> QED BY <2>1, <2>2
<1>2. ASSUME NEW k \in Nat, k \in T PROVE k + 1 \in T
  <2> DEFINE m == TwoTo[k]
  <2>1. m \in Nat \ {0} /\ TwoTo[k + 1] = 2 * m
    BY TwoToEquation
  <2> SUFFICES ASSUME NEW p \in Seq(Digests), NEW q \in Seq(Digests), Len(p) = Len(q),
                      Len(p) <= 2 * m, merkle[2 * m][p] = merkle[2 * m][q], NEW i \in 1..Len(p)
               PROVE  p[i] = q[i]
    BY <2>1
  <2>2. \A x, y \in Seq(Digests) :
           Len(x) = Len(y) /\ Len(x) <= m /\ merkle[m][x] = merkle[m][y] =>
              \A j \in 1..Len(x) : x[j] = y[j]
    BY <1>2
  <2> HIDE DEF m
  <2> DEFINE a == Slice(p, 0, m)
             b == Slice(p, m, m)
             c == Slice(q, 0, m)
             d == Slice(q, m, m)
  <2>3. merkle[2 * m][p] = HashPair(merkle[m][a], merkle[m][b])
        /\ merkle[2 * m][q] = HashPair(merkle[m][c], merkle[m][d])
    BY <1>0, <2>1, MerkleHalves
  <2>4. LeftOf(a, p, m) /\ RightOf(b, p, m) /\ LeftOf(c, q, m) /\ RightOf(d, q, m)
    BY <2>1, HalvesAre
  <2> HIDE DEF a, b, c, d
  <2>5. a \in Seq(Digests) /\ b \in Seq(Digests) /\ c \in Seq(Digests) /\ d \in Seq(Digests)
    BY <2>4 DEF LeftOf, RightOf
  <2>6. merkle[m][a] = merkle[m][c] /\ merkle[m][b] = merkle[m][d]
    <3>1. /\ merkle[m][a] \in Digests /\ merkle[m][b] \in Digests
          /\ merkle[m][c] \in Digests /\ merkle[m][d] \in Digests
      BY <2>1, <2>5, MerkleOfDigests
    <3>2. HashPair(merkle[m][a], merkle[m][b]) = HashPair(merkle[m][c], merkle[m][d])
      BY <2>3
    <3> QED BY <3>1, <3>2, PairsDiffer
  <2>7. Len(p) \in Nat /\ Len(q) \in Nat
    BY <1>0
  <2>8. CASE i <= m
    <3>1. Len(a) = Len(c) /\ Len(a) <= m /\ i \in 1..Len(a) /\ a[i] = p[i] /\ c[i] = q[i]
      BY <2>1, <2>4, <2>7, <2>8 DEF LeftOf
    <3> QED BY <2>2, <2>5, <2>6, <3>1
  <2>9. CASE i > m
    <3>1. Len(b) = Len(d) /\ Len(b) <= m /\ i - m \in 1..Len(b)
      BY <2>1, <2>4, <2>7, <2>9 DEF RightOf
    <3>2. m + (i - m) = i
      BY <2>1
    <3>3. b[i - m] = p[i] /\ d[i - m] = q[i]
      BY <2>4, <3>1, <3>2 DEF RightOf
    <3> QED BY <2>2, <2>5, <2>6, <3>1, <3>3
  <2> QED BY <2>1, <2>8, <2>9
<1>3. \A k \in Nat : k \in T
  <2> HIDE DEF T
  <2> QED BY <1>1, <1>2, NatInductionOverSet
<1> QED BY <1>3

LEMMA SumOfTwo ==
    ASSUME NEW f, f[1] \in Int, f[2] \in Int
    PROVE  SumOf(f, 2) = f[1] + f[2]
<1>1. \A i \in 1..2 : f[i] \in Int
  OBVIOUS
<1>2. /\ SumOf(f, 0) = 0
      /\ \A m \in 0..(2 - 1) : SumOf(f, m + 1) = SumOf(f, m) + f[m + 1]
  BY <1>1, SumOfEquation
<1>3. SumOf(f, 0 + 1) = SumOf(f, 0) + f[0 + 1] /\ SumOf(f, 1 + 1) = SumOf(f, 1) + f[1 + 1]
  BY <1>2
<1> QED BY <1>2, <1>3

LEMMA ChunkIs ==
    ASSUME NEW list \in Seq(0..3), NEW i \in Nat \ {0}
    PROVE  /\ Chunk(list, i, 2) = UintToHash(Element(list, i) + 4 * Element(list, i + 1))
           /\ Element(list, i) \in 0..3 /\ Element(list, i + 1) \in 0..3
<1> DEFINE f == [k \in 1..2 |-> Element(list, i + k - 1) * TwoTo[ElementBits * (k - 1)]]
<1>1. Element(list, i) \in 0..3 /\ Element(list, i + 1) \in 0..3
  BY DEF Element
<1>2. f[1] = Element(list, i) /\ f[2] = Element(list, i + 1) * 4
  <2>1. i + 1 - 1 = i /\ i + 2 - 1 = i + 1 /\ ElementBits * (1 - 1) = 0
        /\ ElementBits * (2 - 1) = 2
    BY DEF ElementBits
  <2>2. TwoTo[0] = 1 /\ TwoTo[2] = 4
    BY Powers, TwoToEquation
  <2> QED BY <1>1, <2>1, <2>2
<1>3. Chunk(list, i, 2) = UintToHash(SumOf(f, 2))
  BY DEF Chunk
<1> HIDE DEF f
<1>4. SumOf(f, 2) = Element(list, i) + 4 * Element(list, i + 1)
  BY <1>1, <1>2, SumOfTwo
<1> QED BY <1>1, <1>3, <1>4

LEMMA ListsDiffer ==
    ASSUME NEW list \in Lists, NEW other \in Lists, HashPackedList(list) = HashPackedList(other)
    PROVE  list = other
<1>1. Base = 4
  BY Powers DEF Base, ElementBits
<1>2. /\ list \in Seq(0..3) /\ Len(list) \in 0..8 /\ other \in Seq(0..3) /\ Len(other) \in 0..8
  <2>1. list \in Seq(0..3) /\ Len(list) <= 8 /\ other \in Seq(0..3) /\ Len(other) <= 8
    BY <1>1, OracleAssumption
  <2>2. Len(list) \in Nat /\ Len(other) \in Nat
    BY <2>1, LengthIsNat
  <2>3. \A k \in Nat : k <= 8 => k \in 0..8
    OBVIOUS
  <2> QED BY <2>1, <2>2, <2>3
<1> DEFINE count(q) == (Len(q) + 2 - 1) \div 2
           chunks(q) == [c \in 1..count(q) |-> Chunk(q, (c - 1) * 2 + 1, 2)]
<1>3. ASSUME NEW q \in {list, other}
      PROVE  /\ BytesToChunks(q, 2) = chunks(q)
             /\ chunks(q) \in Seq(Digests) /\ Len(chunks(q)) = count(q) /\ count(q) \in 0..4
             /\ HashPackedList(q) = HashPair(merkle[4][chunks(q)], UintToHash(Len(q)))
  <2>1. BytesToChunks(q, 2) = chunks(q)
    BY DEF BytesToChunks
  <2>2. count(q) \in 0..4
    <3>1. Len(q) \in 0..8
      BY <1>2
    <3>2. \A k \in 0..8 : (k + 2 - 1) \div 2 \in 0..4
      OBVIOUS
    <3> QED BY <3>1, <3>2
  <2>3. \A c \in 1..count(q) : Chunk(q, (c - 1) * 2 + 1, 2) \in Digests
    <3> TAKE c \in 1..count(q)
    <3> DEFINE i == (c - 1) * 2 + 1
    <3>1. i \in Nat \ {0} /\ q \in Seq(0..3)
      BY <1>2, <2>2
    <3> HIDE DEF i
    <3>2. Chunk(q, i, 2) = UintToHash(Element(q, i) + 4 * Element(q, i + 1))
          /\ Element(q, i) + 4 * Element(q, i + 1) \in Nat
      <4>1. /\ Chunk(q, i, 2) = UintToHash(Element(q, i) + 4 * Element(q, i + 1))
            /\ Element(q, i) \in 0..3 /\ Element(q, i + 1) \in 0..3
        BY <3>1, ChunkIs
      <4> QED BY <4>1
    <3> QED BY <3>2, DigestsAreClosed DEF ClosedUnderHashing, i
  <2>4. chunks(q) \in Seq(Digests) /\ Len(chunks(q)) = count(q)
    <3> HIDE DEF count
    <3> QED BY <2>2, <2>3
  <2>5. HashPackedList(q) = HashPair(merkle[4][BytesToChunks(q, 2)], UintToHash(Len(q)))
    <3>1. 8 \div 2 = 4
      OBVIOUS
    <3> QED BY <3>1 DEF HashPackedList, TreeHash, NewPackedListMerkleTree
  <2> QED BY <2>1, <2>2, <2>4, <2>5
<1> DEFINE p == chunks(list)
           q == chunks(other)
<1>4. merkle[4][p] = merkle[4][q] /\ UintToHash(Len(list)) = UintToHash(Len(other))
  <2> HIDE DEF chunks
  <2>1. merkle[4][p] \in Digests /\ merkle[4][q] \in Digests
    BY <1>3, MerkleOfDigests
  <2>2. UintToHash(Len(list)) \in Digests /\ UintToHash(Len(other)) \in Digests
    BY <1>2, DigestsAreClosed DEF ClosedUnderHashing
  <2>3. HashPair(merkle[4][p], UintToHash(Len(list)))
           = HashPair(merkle[4][q], UintToHash(Len(other)))
    BY <1>3
  <2> HIDE DEF p, q
  <2> QED BY <2>1, <2>2, <2>3, PairsDiffer
<1>5. Len(list) = Len(other)
  BY <1>4, OpaqueTells
<1>6. ASSUME NEW c \in 1..count(list)
      PROVE  Chunk(list, (c - 1) * 2 + 1, 2) = Chunk(other, (c - 1) * 2 + 1, 2)
  <2>1. count(list) = count(other)
    BY <1>5
  <2>2. p[c] = q[c]
    <3>1. TwoTo[2] = 4 /\ 2 \in Nat
      BY Powers
    <3> HIDE DEF chunks, count
    <3>2. p \in Seq(Digests) /\ q \in Seq(Digests) /\ Len(p) = Len(q) /\ Len(p) <= 4
          /\ c \in 1..Len(p)
      BY <1>3, <2>1
    <3> HIDE DEF p, q
    <3> QED BY <1>4, <3>1, <3>2, MerkleTells
  <2> HIDE DEF count
  <2> QED BY <2>1, <2>2
<1>7. ASSUME NEW k \in 1..Len(list) PROVE list[k] = other[k]
  <2> DEFINE c == (k + 1) \div 2
             i == (c - 1) * 2 + 1
  <2>1. c \in 1..count(list) /\ i \in Nat \ {0} /\ (k = i \/ k = i + 1)
    BY <1>2
  <2>2. Chunk(list, i, 2) = Chunk(other, i, 2)
    <3> HIDE DEF count
    <3> QED BY <1>6, <2>1
  <2> HIDE DEF i, c
  <2>3. /\ Element(list, i) + 4 * Element(list, i + 1) = Element(other, i) + 4 * Element(other, i + 1)
        /\ Element(list, i) \in 0..3 /\ Element(list, i + 1) \in 0..3
        /\ Element(other, i) \in 0..3 /\ Element(other, i + 1) \in 0..3
    BY <1>2, <2>1, <2>2, ChunkIs, OpaqueTells
  <2>4. Element(list, i) = Element(other, i) /\ Element(list, i + 1) = Element(other, i + 1)
    BY <2>3
  <2>5. Element(list, k) = Element(other, k)
    BY <2>1, <2>4
  <2> QED BY <1>2, <1>5, <2>5 DEF Element
<1> QED BY <1>2, <1>5, <1>7

-----------------------------------------------------------------------------
LEMMA KeysDiffer ==
    ASSUME NEW p \in Points, NEW sent \in {p, [p EXCEPT !.y = P - p.y]},
           hashG1(PkToG1(sent)) = Marshal(p)
    PROVE  p = sent
<1> SUFFICES ASSUME sent = [p EXCEPT !.y = P - p.y] PROVE FALSE
  OBVIOUS
<1> DEFINE y == p.y
           z == 61 - y
           h == p.x \div 16
<1>1. p.x \in 0..60 /\ y \in 1..60 /\ h \in 0..3
  BY DEF Points, P
<1>2. sent.x = p.x /\ sent.y = z
  BY DEF Points, P
<1>3. Larger(z \div 16, z % 16) <=> z > 30
  BY <1>1 DEF Larger, HalfA, HalfB, High, Low, LowLimb, P
<1>4. hashG1(PkToG1(sent)).high = WithFlags(h, z > 30) % 32
  <2>1. hashG1(PkToG1(sent)).high
           = WithFlags(sent.x \div 16, Larger(sent.y \div 16, sent.y % 16)) % 32
    BY DEF hashG1, PkToG1, High, Low, LowLimb, HighLimb
  <2>2. Larger(z \div 16, z % 16) = (z > 30)
    BY <1>3 DEF Larger
  <2> HIDE DEF z
  <2> QED BY <1>2, <2>1, <2>2
<1>5. Marshal(p).high = h + 16 + (IF y > 61 - y THEN 4 ELSE 0)
  BY DEF Marshal, High, LowLimb, IsCompressed, IsLarger, P
<1> HIDE DEF h, y
<1>6. SetBit(h, 16) = h + 16 /\ SetBit(h + 16, 4) = h + 20
  BY <1>1 DEF SetBit
<1>7. WithFlags(h, z > 30) % 32 = IF z > 30 THEN h + 20 ELSE h + 16
  BY <1>1, <1>6 DEF WithFlags, IsCompressed, IsLarger
<1>8. z > 30 <=> ~(y > 61 - y)
  BY <1>1
<1> QED BY <1>1, <1>4, <1>5, <1>7, <1>8

-----------------------------------------------------------------------------
(* Claims that are checked without a loop.                                  *)

LEMMA LeavesAreDigests ==
    \A slot \in Slots : ExecutionStateRoot(slot) \in Digests /\ ReceiptsRoot(slot) \in Digests
BY OpaqueIsDigest, KindsAreInt DEF Slots, ExecutionStateRoot, ReceiptsRoot

(* The truth of a claim.                                                    *)
IsTrue(c) ==
    CASE c.kind = "receiptsRoot" -> c.leaf = ReceiptsRoot(c.target)
      [] c.kind = "stateRoot"    -> c.leaf = ExecutionStateRoot(c.source)
      [] c.kind = "finality"     -> c.header = c.finalized
      [] c.kind = "list"         -> c.list = c.other
      [] c.kind = "key"          -> c.key = c.sent
      [] OTHER                   -> TRUE

LEMMA LeafIsTrue == ProveLeaf => AcceptedIsTrue'
<1> SUFFICES ASSUME ProveLeaf PROVE AcceptedIsTrue'
  OBVIOUS
<1>1. claim'.kind = "leaf"
  BY DEF ProveLeaf, Check
<1> QED BY <1>1 DEF AcceptedIsTrue

LEMMA StateRootIsTrue == ProveExecutionStateRoot => AcceptedIsTrue'
<1> SUFFICES ASSUME ProveExecutionStateRoot PROVE AcceptedIsTrue'
  OBVIOUS
<1> DEFINE c(source, leaf) == [kind |-> "stateRoot", source |-> source, leaf |-> leaf,
                               honest |-> leaf = ExecutionStateRoot(source)]
           roots(source, slot) == StateRoots({source, slot})
           ok(source, slot, leaf) ==
               AcceptsStateRoot(roots(source, slot)[source], leaf,
                   MakeExecutionPayloadStateRootProof(slot, roots(source, slot)))
<1>0. PICK source \in Slots, slot \in Slots :
         \E leaf \in {ExecutionStateRoot(slot), ReceiptsRoot(slot)} :
            Check(c(source, leaf), ok(source, slot, leaf))
  BY DEF ProveExecutionStateRoot
<1>1. PICK leaf \in {ExecutionStateRoot(slot), ReceiptsRoot(slot)} :
         Check(c(source, leaf), ok(source, slot, leaf))
  BY <1>0
<1>2. leaf \in Digests
  BY LeavesAreDigests
<1>3. ok(source, slot, leaf) => leaf = ExecutionStateRoot(source)
  <2> DEFINE path == MakeExecutionPayloadStateRootProof(slot, roots(source, slot))
  <2>1. path \in Seq(Digests)
    BY StateRootProofIsDigests
  <2>2. source \in {source, slot}
    OBVIOUS
  <2> HIDE DEF path
  <2> QED BY <1>2, <2>1, <2>2, StateRootIsTheSources DEF path
<1>4. ok(source, slot, leaf) => IsTrue(c(source, leaf))
  BY <1>3 DEF IsTrue
<1>5. claim' = c(source, leaf) /\ (verdict' = "accepted" => ok(source, slot, leaf))
  <2> HIDE DEF c, ok
  <2> QED BY <1>1 DEF Check
<1> HIDE DEF c, ok
<1> QED BY <1>4, <1>5 DEF AcceptedIsTrue, IsTrue

LEMMA ReceiptsRootIsTrue == ProveReceiptsRoot => AcceptedIsTrue'
<1> SUFFICES ASSUME ProveReceiptsRoot PROVE AcceptedIsTrue'
  OBVIOUS
<1> DEFINE roots(source, target, slot) == StateRoots({source, target, slot})
           c(source, target, slot) ==
               [kind |-> "receiptsRoot", source |-> source, target |-> target,
                leaf |-> ReceiptsRoot(slot), honest |-> slot = target]
           ok(source, target, slot) ==
               AcceptsReceiptsRoot(roots(source, target, slot)[source], source, target,
                   ReceiptsRoot(slot),
                   MakeExecutionPayloadReceiptsRootProof(source, slot, roots(source, target, slot)))
<1>1. PICK source \in Slots, target \in Slots, slot \in Slots :
         slot <= source /\ Check(c(source, target, slot), ok(source, target, slot))
  BY DEF ProveReceiptsRoot
<1>2. ok(source, target, slot) => ReceiptsRoot(slot) = ReceiptsRoot(target)
  <2> DEFINE path == MakeExecutionPayloadReceiptsRootProof(source, slot,
                                                           roots(source, target, slot))
             leaf == ReceiptsRoot(slot)
             open == {source, target, slot}
  <2>1. path \in Seq(Digests)
    BY <1>1, ReceiptsRootProofIsDigests
  <2>2. leaf \in Digests
    BY LeavesAreDigests
  <2>3. source \in open /\ target \in open
    OBVIOUS
  <2>4. ok(source, target, slot)
           = AcceptsReceiptsRoot(StateRoots(open)[source], source, target, leaf, path)
    OBVIOUS
  <2> HIDE DEF path, leaf, ok, open
  <2> QED BY <2>1, <2>2, <2>3, <2>4, ReceiptsRootIsTheTargets DEF leaf
<1>3. ok(source, target, slot) => IsTrue(c(source, target, slot))
  BY <1>2 DEF IsTrue
<1>4. claim' = c(source, target, slot) /\ (verdict' = "accepted" => ok(source, target, slot))
  <2> HIDE DEF c, ok
  <2> QED BY <1>1 DEF Check
<1> HIDE DEF c, ok
<1> QED BY <1>3, <1>4 DEF AcceptedIsTrue, IsTrue

LEMMA FinalityIsTrue == ProveFinality => AcceptedIsTrue'
<1> SUFFICES ASSUME ProveFinality PROVE AcceptedIsTrue'
  OBVIOUS
<1> DEFINE c(finalized, header) ==
               [kind |-> "finality", finalized |-> finalized, header |-> header,
                honest |-> finalized = header]
           ok(finalized, header, epoch) ==
               AcceptsFinality(TreeHash(FinalizedState(epoch, finalized)), header,
                               MakeFinalityBranch(epoch, finalized))
<1>1. PICK finalized \in Headers, header \in Headers, epoch \in Slots :
         Check(c(finalized, header), ok(finalized, header, epoch))
  BY DEF ProveFinality
<1>2. finalized \in HeadersAre /\ header \in HeadersAre /\ epoch \in Nat
  BY OracleAssumption DEF HeadersAre, Slots
<1>3. ok(finalized, header, epoch) => IsTrue(c(finalized, header))
  BY <1>2, FinalizedHeaderIsTheStates DEF IsTrue
<1>4. claim' = c(finalized, header) /\ (verdict' = "accepted" => ok(finalized, header, epoch))
  <2> HIDE DEF c, ok
  <2> QED BY <1>1 DEF Check
<1> HIDE DEF c, ok
<1> QED BY <1>3, <1>4 DEF AcceptedIsTrue, IsTrue

LEMMA ListIsTrue == ProveList => AcceptedIsTrue'
<1> SUFFICES ASSUME ProveList PROVE AcceptedIsTrue'
  OBVIOUS
<1> DEFINE c(list, other) ==
               [kind |-> "list", list |-> list, other |-> other, honest |-> list = other]
           ok(list, other) == HashPackedList(list) = HashPackedList(other)
<1>1. PICK list \in Lists, other \in Lists : Check(c(list, other), ok(list, other))
  BY DEF ProveList
<1>2. ok(list, other) => IsTrue(c(list, other))
  BY ListsDiffer DEF IsTrue
<1>3. claim' = c(list, other) /\ (verdict' = "accepted" => ok(list, other))
  <2> HIDE DEF c, ok
  <2> QED BY <1>1 DEF Check
<1> HIDE DEF c, ok
<1> QED BY <1>2, <1>3 DEF AcceptedIsTrue, IsTrue

LEMMA KeyIsTrue == ProveKey => AcceptedIsTrue'
<1> SUFFICES ASSUME ProveKey PROVE AcceptedIsTrue'
  OBVIOUS
<1> DEFINE c(p, sent) == [kind |-> "key", key |-> p, sent |-> sent, honest |-> p = sent]
           ok(p, sent) == /\ hashG1(PkToG1(sent)) = Marshal(p)
                          /\ hashG1Compressed(PkToG1Compressed(sent)) = Marshal(p)
<1>0. PICK p \in Points :
         \E sent \in {p, [p EXCEPT !.y = P - p.y]} : Check(c(p, sent), ok(p, sent))
  BY DEF ProveKey
<1>1. PICK sent \in {p, [p EXCEPT !.y = P - p.y]} : Check(c(p, sent), ok(p, sent))
  BY <1>0
<1>2. ok(p, sent) => IsTrue(c(p, sent))
  BY KeysDiffer DEF IsTrue
<1>3. claim' = c(p, sent) /\ (verdict' = "accepted" => ok(p, sent))
  <2> HIDE DEF c, ok
  <2> QED BY <1>1 DEF Check
<1> HIDE DEF c, ok
<1> QED BY <1>2, <1>3 DEF AcceptedIsTrue, IsTrue

(* For states of every size, and for every list and key: a proof of another *)
(* slot's receipts root, of a receipts root in a state root's place, of     *)
(* another header, of a list with zeros appended or of a key of the         *)
(* opposite sign is rejected (executeMessage, executeMessageFromLog,        *)
(* _processUpdate, HashUint64List, _hashG1).                                *)
THEOREM AcceptedClaimsAreTrue == OracleSpec => []AcceptedIsTrue
<1>1. OracleInit => AcceptedIsTrue
  BY DEF OracleInit, AcceptedIsTrue
<1>2. AcceptedIsTrue /\ [OracleNext]_oracleVars => AcceptedIsTrue'
  <2> SUFFICES ASSUME AcceptedIsTrue, [OracleNext]_oracleVars PROVE AcceptedIsTrue'
    OBVIOUS
  <2>1. CASE ProveLeaf
    BY <2>1, LeafIsTrue
  <2>2. CASE ProveExecutionStateRoot
    BY <2>2, StateRootIsTrue
  <2>3. CASE ProveReceiptsRoot
    BY <2>3, ReceiptsRootIsTrue
  <2>4. CASE ProveFinality
    BY <2>4, FinalityIsTrue
  <2>5. CASE ProveList
    BY <2>5, ListIsTrue
  <2>6. CASE ProveKey
    BY <2>6, KeyIsTrue
  <2>7. CASE ProveSyncCommittee \/ MixSyncCommittee
    <3>1. verdict' = "checking"
      BY <2>7 DEF ProveSyncCommittee, MixSyncCommittee, Submit
    <3> QED BY <3>1 DEF AcceptedIsTrue
  <2>8. CASE RequireSignatures
    <3>1. claim' = claim /\ (verdict' = verdict \/ verdict' = "rejected")
      BY <2>8 DEF RequireSignatures
    <3> QED BY <3>1 DEF AcceptedIsTrue
  <2>9. CASE RestoreKeysRoot
    BY <2>9 DEF RestoreKeysRoot, AcceptedIsTrue
  <2>10. CASE RequireCommittee
    <3>1. claim' = claim /\ claim.kind = "committee"
      BY <2>10 DEF RequireCommittee, IsCommittee
    <3> QED BY <3>1 DEF AcceptedIsTrue
  <2>11. CASE Done
    <3>1. verdict' = "none"
      BY <2>11 DEF Done
    <3> QED BY <3>1 DEF AcceptedIsTrue
  <2>12. CASE UNCHANGED oracleVars
    BY <2>12 DEF oracleVars, AcceptedIsTrue
  <2> QED BY <2>1, <2>2, <2>3, <2>4, <2>5, <2>6, <2>7, <2>8, <2>9, <2>10, <2>11, <2>12
          DEF OracleNext
<1> QED BY <1>1, <1>2, PTL DEF OracleSpec

(* All nodes of a tree with leaves of digests.                              *)
LeafAt(t, g) == IF g - t.limit < Len(t.leaves) THEN t.leaves[g - t.limit + 1] ELSE ZeroHash[0]

LEMMA NodeHashIs ==
    ASSUME NEW t, NEW w \in Nat \ {0}, t.limit = w, t.leaves \in Seq(Digests)
    PROVE  /\ IsTree(NodeHash(t), w)
           /\ \A g \in w..(2 * w - 1) : NodeHash(t)[g] = LeafAt(t, g)
<1> DEFINE N == 1..(2 * w - 1)
           last == 2 * w - 1
           body(f, g) == IF g < w THEN HashPair(f[2 * g], f[2 * g + 1]) ELSE LeafAt(t, g)
           Is(f) == f = [g \in N |-> body(f, g)]
           D == [p \in Nat \X [Nat -> Digests] |->
                    IF last - p[1] \in 1..(w - 1)
                    THEN HashPair(p[2][last - 2 * (last - p[1])], p[2][last - (2 * (last - p[1]) + 1)])
                    ELSE IF last - p[1] \in w..last THEN LeafAt(t, last - p[1])
                    ELSE UintToHash(0)]
<1>1. UintToHash(0) \in Digests
  BY DigestsAreClosed DEF ClosedUnderHashing
<1>2. \A g \in w..last : LeafAt(t, g) \in Digests
  <2> TAKE g \in w..last
  <2>1. Len(t.leaves) \in Nat /\ (g - w < Len(t.leaves) => g - w + 1 \in 1..Len(t.leaves))
    OBVIOUS
  <2> QED BY <2>1, ZeroHashIs DEF LeafAt
<1>3. \A g \in 1..(w - 1) : /\ 2 * g \in N /\ 2 * g + 1 \in N
                            /\ last - 2 * g \in 0..(last - g - 1)
                            /\ last - (2 * g + 1) \in 0..(last - g - 1)
  OBVIOUS
<1>4. D \in [Nat \X [Nat -> Digests] -> Digests]
  <2>1. \A m \in Nat, f \in [Nat -> Digests] :
           last - m \in 1..(w - 1) =>
              HashPair(f[last - 2 * (last - m)], f[last - (2 * (last - m) + 1)]) \in Digests
    <3> SUFFICES ASSUME NEW m \in Nat, NEW f \in [Nat -> Digests], last - m \in 1..(w - 1)
                 PROVE  HashPair(f[last - 2 * (last - m)], f[last - (2 * (last - m) + 1)]) \in Digests
      OBVIOUS
    <3>1. last - 2 * (last - m) \in Nat /\ last - (2 * (last - m) + 1) \in Nat
      OBVIOUS
    <3> QED BY <3>1, PairIsDigest
  <2> HIDE DEF last
  <2> QED BY <1>1, <1>2, <2>1
<1>5. ASSUME NEW m \in Nat, NEW f \in [Nat -> Digests], NEW g \in [Nat -> Digests],
             \A k \in 0..(m - 1) : f[k] = g[k]
      PROVE  D[<<m, f>>] = D[<<m, g>>]
  <2>1. last - m \in 1..(w - 1) =>
           last - 2 * (last - m) \in 0..(m - 1) /\ last - (2 * (last - m) + 1) \in 0..(m - 1)
    OBVIOUS
  <2> HIDE DEF last
  <2> QED BY <1>5, <2>1
<1>6. \A f \in [Nat -> Digests], g \in N :
         D[<<last - g, f>>] = IF g < w THEN HashPair(f[last - 2 * g], f[last - (2 * g + 1)])
                              ELSE LeafAt(t, g)
  <2> TAKE f \in [Nat -> Digests], g \in N
  <2>1. last - g \in Nat /\ last - (last - g) = g
    OBVIOUS
  <2>2. g < w <=> g \in 1..(w - 1)
    OBVIOUS
  <2>3. ~(g < w) => g \in w..last
    OBVIOUS
  <2> HIDE DEF last
  <2> QED BY <2>1, <2>2, <2>3
<1> HIDE DEF D
<1>7. PICK f \in [Nat -> Digests] : FromPast(f, D)
  <2> DEFINE v == UintToHash(0)
  <2>1. v \in Digests
    BY <1>1
  <2>2. PastOnly(D, Digests)
    BY <1>5 DEF PastOnly
  <2> HIDE DEF v, Is, body, last, N
  <2> QED BY <2>1, <2>2, <1>4, HistoryRecursion
<1> DEFINE h == [g \in N |-> f[last - g]]
<1>8. Is(h)
  <2>1. ASSUME NEW g \in N PROVE f[last - g] = body(h, g)
    <3>1. last - g \in Nat
      OBVIOUS
    <3>2. f[last - g] = IF g < w THEN HashPair(f[last - 2 * g], f[last - (2 * g + 1)])
                        ELSE LeafAt(t, g)
      BY <1>6, <1>7, <3>1 DEF FromPast
    <3>3. g < w => g \in 1..(w - 1)
      OBVIOUS
    <3>4. g < w => h[2 * g] = f[last - 2 * g] /\ h[2 * g + 1] = f[last - (2 * g + 1)]
      BY <1>3, <3>3
    <3> HIDE DEF h
    <3> QED BY <3>2, <3>4
  <2> QED BY <2>1
<1> DEFINE c == CHOOSE x : Is(x)
<1>9. NodeHash(t) = c
  BY DEF NodeHash, LeafAt
<1>10. Is(c)
  <2> HIDE DEF h, Is
  <2> QED BY <1>8
<1> HIDE DEF c
<1>11. \A g \in N : c[g] = body(c, g)
  BY <1>10
<1>12. \A g \in 1..(w - 1) : c[g] = HashPair(c[2 * g], c[2 * g + 1])
  <2> TAKE g \in 1..(w - 1)
  <2>1. g \in N /\ g < w
    OBVIOUS
  <2> QED BY <1>11, <2>1
<1>13. \A g \in w..last : c[g] = LeafAt(t, g)
  <2> TAKE g \in w..last
  <2>1. g \in N /\ ~(g < w)
    OBVIOUS
  <2> QED BY <1>11, <2>1
<1>14. \A m \in Nat : m < last => c[last - m] \in Digests
  <2> DEFINE T == {m \in Nat : m < last => c[last - m] \in Digests}
  <2>1. ASSUME NEW m \in Nat, \A k \in 0..(m - 1) : k \in T PROVE m \in T
    <3> SUFFICES ASSUME m < last PROVE c[last - m] \in Digests
      OBVIOUS
    <3> DEFINE g == last - m
    <3>1. g \in N /\ (g \in 1..(w - 1) \/ g \in w..last)
      OBVIOUS
    <3>2. CASE g \in 1..(w - 1)
      <4> DEFINE a == last - 2 * g
                 b == last - (2 * g + 1)
      <4>1. /\ a \in 0..(m - 1) /\ a < last /\ last - a = 2 * g
            /\ b \in 0..(m - 1) /\ b < last /\ last - b = 2 * g + 1
        BY <3>2
      <4> HIDE DEF a, b
      <4>2. c[last - a] \in Digests /\ c[last - b] \in Digests
        BY <2>1, <4>1
      <4>3. c[2 * g] \in Digests /\ c[2 * g + 1] \in Digests
        BY <4>1, <4>2
      <4> HIDE DEF g
      <4>4. c[g] \in Digests
        BY <1>12, <3>2, <4>3, PairIsDigest
      <4> QED BY <4>4 DEF g
    <3>3. CASE g \in w..last
      <4> HIDE DEF g
      <4>1. c[g] \in Digests
        BY <1>2, <1>13, <3>3
      <4> QED BY <4>1 DEF g
    <3> QED BY <3>1, <3>2, <3>3
  <2>2. \A m \in Nat : m \in T
    <3> HIDE DEF T
    <3> QED BY <2>1, StrongInduction
  <2> QED BY <2>2
<1>15. \A g \in N : c[g] \in Digests
  <2> TAKE g \in N
  <2>1. last - g \in Nat /\ last - g < last /\ last - (last - g) = g
    OBVIOUS
  <2> DEFINE m == last - g
  <2>2. c[last - m] \in Digests
    <3>1. m \in Nat /\ m < last
      BY <2>1
    <3> HIDE DEF m, last
    <3> QED BY <1>14, <3>1
  <2> QED BY <2>1, <2>2
<1>16. c \in [N -> Digests]
  <2> HIDE DEF body
  <2> QED BY <1>10, <1>15
<1>17. IsTree(c, w)
  BY <1>12, <1>16 DEF IsTree
<1> QED BY <1>9, <1>13, <1>17

(* The leaves below a node, k levels down.                                  *)
StandsOver(tree, w, g, m, s) ==
    \A j \in 0..(m - 1) : g * m + j \in w..(2 * w - 1) /\ tree[g * m + j] = s[j + 1]

LEMMA NodeIsMerkle ==
    ASSUME NEW w \in Nat \ {0}, NEW tree, IsTree(tree, w)
    PROVE  \A k \in Nat : \A g \in Nat \ {0}, s \in Seq(Digests) :
              Len(s) = TwoTo[k] /\ StandsOver(tree, w, g, TwoTo[k], s) =>
                 tree[g] = merkle[TwoTo[k]][s]
<1> DEFINE Fits(k, g, s) == Len(s) = TwoTo[k] /\ StandsOver(tree, w, g, TwoTo[k], s)
           T == {k \in Nat : \A g \in Nat \ {0}, s \in Seq(Digests) :
                    Fits(k, g, s) => tree[g] = merkle[TwoTo[k]][s]}
<1>0. \A s \in Seq(Digests) : s \in Seq(Hashes)
  BY DigestsAreClosed
<1>1. 0 \in T
  <2> SUFFICES ASSUME NEW g \in Nat \ {0}, NEW s \in Seq(Digests), Fits(0, g, s)
               PROVE  tree[g] = merkle[TwoTo[0]][s]
    OBVIOUS
  <2>1. TwoTo[0] = 1 /\ Len(s) = 1 /\ s # <<>>
    BY TwoToEquation
  <2>2. 0 \in 0..(1 - 1) /\ g * 1 + 0 = g
    OBVIOUS
  <2>3. tree[g] = s[1]
    BY <2>1, <2>2 DEF StandsOver
  <2>4. merkle[1][s] = s[1]
    BY <1>0, <2>1, MerkleOne
  <2> QED BY <2>1, <2>3, <2>4
<1>2. ASSUME NEW k \in Nat, k \in T PROVE k + 1 \in T
  <2> SUFFICES ASSUME NEW g \in Nat \ {0}, NEW s \in Seq(Digests), Fits(k + 1, g, s)
               PROVE  tree[g] = merkle[TwoTo[k + 1]][s]
    OBVIOUS
  <2> DEFINE m == TwoTo[k]
             a == Slice(s, 0, m)
             b == Slice(s, m, m)
  <2>1. m \in Nat \ {0} /\ TwoTo[k + 1] = 2 * m
    BY TwoToEquation
  <2> HIDE DEF m
  <2>2. Len(s) = 2 * m /\ \A j \in 0..(2 * m - 1) : /\ g * (2 * m) + j \in w..(2 * w - 1)
                                                    /\ tree[g * (2 * m) + j] = s[j + 1]
    BY <2>1 DEF StandsOver
  <2>3. /\ a \in Seq(Digests) /\ Len(a) = m /\ \A i \in 1..m : a[i] = s[i]
        /\ b \in Seq(Digests) /\ Len(b) = m /\ \A i \in 1..m : b[i] = s[m + i]
    <3>1. LeftOf(a, s, m) /\ RightOf(b, s, m)
      BY <2>1, HalvesAre
    <3>2. m <= Len(s) /\ 2 * m <= Len(s)
      BY <2>1, <2>2
    <3> HIDE DEF a, b
    <3> QED BY <3>1, <3>2 DEF LeftOf, RightOf
  <2> HIDE DEF a, b, T
  <2>4. StandsOver(tree, w, 2 * g, m, a)
    <3>1. ASSUME NEW j \in 0..(m - 1)
          PROVE  (2 * g) * m + j \in w..(2 * w - 1) /\ tree[(2 * g) * m + j] = a[j + 1]
      <4>1. j \in 0..(2 * m - 1) /\ j + 1 \in 1..m
        BY <2>1
      <4>2. g * (2 * m) = (2 * g) * m
        BY <2>1
      <4> QED BY <2>2, <2>3, <4>1, <4>2
    <3> QED BY <3>1 DEF StandsOver
  <2>5. StandsOver(tree, w, 2 * g + 1, m, b)
    <3>1. ASSUME NEW j \in 0..(m - 1)
          PROVE  (2 * g + 1) * m + j \in w..(2 * w - 1) /\ tree[(2 * g + 1) * m + j] = b[j + 1]
      <4>1. m + j \in 0..(2 * m - 1) /\ j + 1 \in 1..m /\ (m + j) + 1 = m + (j + 1)
        BY <2>1
      <4>2. g * (2 * m) + (m + j) = (2 * g + 1) * m + j
        BY <2>1
      <4>3. s[(m + j) + 1] = b[j + 1]
        BY <2>3, <4>1, SMTT(20)
      <4>4. /\ g * (2 * m) + (m + j) \in w..(2 * w - 1)
            /\ tree[g * (2 * m) + (m + j)] = s[(m + j) + 1]
        BY <2>2, <4>1
      <4> QED BY <4>2, <4>3, <4>4
    <3> QED BY <3>1 DEF StandsOver
  <2>6. 2 * g \in Nat \ {0} /\ 2 * g + 1 \in Nat \ {0}
    OBVIOUS
  <2>7. tree[2 * g] = merkle[m][a] /\ tree[2 * g + 1] = merkle[m][b]
    <3>1. Fits(k, 2 * g, a) /\ Fits(k, 2 * g + 1, b)
      BY <2>3, <2>4, <2>5 DEF m
    <3> HIDE DEF Fits
    <3> QED BY <1>2, <2>3, <2>6, <3>1 DEF T, m
  <2>8. g \in 1..(w - 1)
    <3>1. 0 \in 0..(2 * m - 1)
      BY <2>1
    <3>2. g * (2 * m) + 0 \in w..(2 * w - 1)
      BY <2>2, <3>1
    <3>3. 2 * g <= g * (2 * m)
      BY <2>1
    <3>4. g * (2 * m) \in Int
      BY <2>1
    <3> HIDE DEF Fits
    <3> QED BY <3>2, <3>3, <3>4
  <2>9. tree[g] = HashPair(tree[2 * g], tree[2 * g + 1])
    BY <2>8 DEF IsTree
  <2>10. merkle[2 * m][s] = HashPair(merkle[m][a], merkle[m][b])
    <3>1. Len(s) <= 2 * m
      BY <2>1, <2>2
    <3> QED BY <1>0, <2>1, <3>1, MerkleHalves DEF a, b
  <2> QED BY <2>1, <2>7, <2>9, <2>10
<1>3. \A k \in Nat : k \in T
  <2> HIDE DEF T
  <2> QED BY <1>1, <1>2, NatInductionOverSet
<1> QED BY <1>3

LEMMA FullTree ==
    ASSUME NEW h \in Nat, NEW leaves \in Seq(Digests), Len(leaves) = TwoTo[h]
    PROVE  LET t == NewVectorMerkleTree(leaves)
           IN  /\ t.limit = TwoTo[h]
               /\ IsTree(NodeHash(t), TwoTo[h])
               /\ NodeHash(t)[1] = TreeHash(t)
               /\ \A g \in TwoTo[h]..(2 * TwoTo[h] - 1) :
                     NodeHash(t)[g] = leaves[g - TwoTo[h] + 1]
               /\ TreeHash(t) \in Digests
<1> DEFINE t == NewVectorMerkleTree(leaves)
           w == TwoTo[h]
           tree == NodeHash(t)
<1>1. w \in Nat \ {0}
  BY TwoToEquation
<1>2. t.limit = w /\ t.leaves = leaves /\ ~t.isList
  BY Widths DEF NewVectorMerkleTree
<1>3. TreeHash(t) = merkle[w][leaves]
  BY <1>2 DEF TreeHash
<1> HIDE DEF t, w
<1>4. /\ IsTree(tree, w)
      /\ \A g \in w..(2 * w - 1) : tree[g] = LeafAt(t, g)
  <2>1. t.leaves \in Seq(Digests)
    BY <1>2
  <2> HIDE DEF tree
  <2> QED BY <1>1, <1>2, <2>1, NodeHashIs DEF tree
<1>5. \A g \in w..(2 * w - 1) : tree[g] = leaves[g - w + 1]
  <2> TAKE g \in w..(2 * w - 1)
  <2>1. g - w < w
    BY <1>1
  <2>2. Len(leaves) = w
    BY DEF w
  <2> HIDE DEF tree
  <2> QED BY <1>2, <1>4, <2>1, <2>2 DEF LeafAt
<1> HIDE DEF tree
<1>6. StandsOver(tree, w, 1, w, leaves)
  <2>1. ASSUME NEW j \in 0..(w - 1)
        PROVE  1 * w + j \in w..(2 * w - 1) /\ tree[1 * w + j] = leaves[j + 1]
    <3>1. 1 * w + j \in w..(2 * w - 1) /\ (1 * w + j) - w + 1 = j + 1
      BY <1>1
    <3>2. tree[1 * w + j] = leaves[(1 * w + j) - w + 1]
      BY <1>5, <3>1
    <3> QED BY <3>1, <3>2
  <2> QED BY <2>1 DEF StandsOver
<1>7. tree[1] = merkle[w][leaves]
  <2>1. 1 \in Nat \ {0} /\ Len(leaves) = w
    BY DEF w
  <2> QED BY <1>1, <1>4, <1>6, <2>1, NodeIsMerkle DEF w
<1>8. merkle[w][leaves] \in Digests
  BY <1>1, MerkleOfDigests
<1> QED BY <1>2, <1>3, <1>4, <1>5, <1>7, <1>8 DEF t, w, tree

-----------------------------------------------------------------------------
(* Loops that collect: the absent members and the missed ones.              *)

(* A loop that collects numbers and leaves some out.                        *)
Collects(c, m, out, v) ==
    /\ c[0] = <<>>
    /\ \A k \in 1..m : c[k] = IF k \in out THEN c[k - 1] ELSE Append(c[k - 1], v[k])

LEMMA CollectionExists ==
    ASSUME NEW m \in Nat, NEW out, NEW v \in [1..m -> Nat]
    PROVE  \E c \in [0..m -> Seq(Nat)] : Collects(c, m, out, v)
<1> DEFINE S == Seq(Nat)
           step == [p \in Nat \X S |-> IF p[1] \in 1..m /\ p[1] \notin out
                                       THEN Append(p[2], v[p[1]]) ELSE p[2]]
           a == <<>>
<1>1. step \in [Nat \X S -> S] /\ a \in S
  OBVIOUS
<1>2. \A k \in 1..m, q \in S : step[<<k, q>>] = IF k \in out THEN q ELSE Append(q, v[k])
  OBVIOUS
<1> HIDE DEF step, S
<1>3. PICK c \in [0..m -> S] : Rounds(a, step, c, m)
  <2> HIDE DEF a
  <2> QED BY <1>1, LoopExists
<1>4. \A k \in 1..m : k - 1 \in 0..m /\ c[k - 1] \in S
  BY <1>3
<1>5. Collects(c, m, out, v)
  BY <1>2, <1>3, <1>4 DEF Collects, Rounds
<1> QED BY <1>3, <1>5 DEF S

Collected(q, k, out, v) ==
    /\ q \in Seq(Nat)
    /\ \A j \in 1..Len(q) : \E i \in 1..k : i \notin out /\ q[j] = v[i]

LEMMA CollectionGrows ==
    ASSUME NEW k \in Nat, NEW out, NEW v, NEW x \in Nat, NEW q, Collected(q, k, out, v),
           k + 1 \notin out, v[k + 1] = x
    PROVE  Collected(Append(q, x), k + 1, out, v)
<1>1. q \in Seq(Nat) /\ \A j \in 1..Len(q) : \E i \in 1..k : i \notin out /\ q[j] = v[i]
  BY DEF Collected
<1>2. /\ Len(Append(q, x)) = Len(q) + 1 /\ Append(q, x) \in Seq(Nat)
      /\ \A j \in 1..Len(q) : Append(q, x)[j] = q[j]
      /\ Append(q, x)[Len(q) + 1] = x
  BY <1>1
<1>3. ASSUME NEW j \in 1..(Len(q) + 1)
      PROVE  \E i \in 1..(k + 1) : i \notin out /\ Append(q, x)[j] = v[i]
  <2>1. CASE j = Len(q) + 1
    <3>1. k + 1 \in 1..(k + 1)
      OBVIOUS
    <3> QED BY <1>2, <2>1, <3>1
  <2>2. CASE j # Len(q) + 1
    <3>1. j \in 1..Len(q)
      BY <1>1, <2>2
    <3>2. PICK i \in 1..k : i \notin out /\ q[j] = v[i]
      BY <1>1, <3>1
    <3>3. i \in 1..(k + 1)
      OBVIOUS
    <3> QED BY <1>2, <3>1, <3>2, <3>3
  <2> QED BY <2>1, <2>2
<1> QED BY <1>2, <1>3 DEF Collected

LEMMA CollectionIs ==
    ASSUME NEW m \in Nat, NEW out, NEW v \in [1..m -> Nat], NEW c, Collects(c, m, out, v)
    PROVE  \A k \in 0..m : Collected(c[k], k, out, v)
<1> DEFINE S == {k \in 0..m : Collected(c[k], k, out, v)}
<1>1. 0 \in S
  <2>1. c[0] = <<>> /\ 0 \in 0..m
    BY DEF Collects
  <2>2. Collected(<<>>, 0, out, v)
    BY DEF Collected
  <2> QED BY <2>1, <2>2
<1>2. \A k \in 0..(m - 1) : k \in S => k + 1 \in S
  <2> SUFFICES ASSUME NEW k \in 0..(m - 1), Collected(c[k], k, out, v)
               PROVE  Collected(c[k + 1], k + 1, out, v)
    OBVIOUS
  <2>1. k + 1 \in 1..m /\ (k + 1) - 1 = k /\ v[k + 1] \in Nat /\ k \in Nat
    OBVIOUS
  <2>2. c[k + 1] = IF k + 1 \in out THEN c[k] ELSE Append(c[k], v[k + 1])
    BY <2>1 DEF Collects
  <2>3. CASE k + 1 \in out
    <3>1. \A i \in 1..k : i \in 1..(k + 1)
      OBVIOUS
    <3> QED BY <2>2, <2>3, <3>1 DEF Collected
  <2>4. CASE k + 1 \notin out
    BY <2>1, <2>2, <2>4, CollectionGrows
  <2> QED BY <2>3, <2>4
<1>3. \A k \in 0..m : k \in S
  <2> HIDE DEF S
  <2> QED BY <1>1, <1>2, BoundedInduction
<1> QED BY <1>3

LEMMA SequenceOf ==
    ASSUME NEW S, NEW q \in Seq(S), NEW T, \A j \in 1..Len(q) : q[j] \in T
    PROVE  q \in Seq(T)
<1> DEFINE l == Len(q)
<1>1. l \in Nat /\ q = [j \in 1..l |-> q[j]]
  OBVIOUS
<1> HIDE DEF l
<1>2. \A j \in 1..l : q[j] \in T
  BY DEF l
<1>3. [j \in 1..l |-> q[j]] \in Seq(T)
  BY <1>1, <1>2, SequenceIs
<1> QED BY <1>1, <1>3

LEMMA SizeIs ==
    /\ Size \in Nat \ {0} /\ WordBits \in Nat \ {0} /\ MinParticipants \in Nat \ {0}
    /\ Size % WordBits = 0
    /\ \E h \in Nat : Size = TwoTo[h]
BY SyncCommitteeAssumption

(* The members whose bits are set, as the oracle counts them up.            *)
Heard(bytes) == {k \in 1..Size : BitAt(bytes, k - 1)}
CountsUp == [k \in 1..Size |-> k - 1]

LEMMA AbsentIsLast ==
    ASSUME NEW bytes
    PROVE  \E c : Collects(c, Size, Heard(bytes), CountsUp) /\ Absent(bytes) = c[Size]
<1> DEFINE m == Size
           out == Heard(bytes)
           v == CountsUp
           Is(f) == f = [i \in 0..m |-> IF i = 0 THEN <<>>
                                        ELSE IF BitAt(bytes, i - 1) THEN f[i - 1]
                                        ELSE Append(f[i - 1], i - 1)]
           c == CHOOSE f : Is(f)
<1>1. m \in Nat
  BY SizeIs
<1>2. v \in [1..m -> Nat] /\ \A k \in 1..m : v[k] = k - 1 /\ (k \in out <=> BitAt(bytes, k - 1))
  BY DEF CountsUp, Heard
<1>3. Absent(bytes) = c[m]
  BY DEF Absent
<1>4. PICK f \in [0..m -> Seq(Nat)] : Collects(f, m, out, v)
  <2> HIDE DEF m, out, v, c, Is
  <2> QED BY <1>1, <1>2, CollectionExists
<1> HIDE DEF m, out, v
<1>5. Is(f)
  <2>1. \A i \in 0..m : i # 0 => i \in 1..m
    BY <1>1
  <2> QED BY <1>2, <1>4, <2>1 DEF Collects
<1>6. Is(c)
  <2> HIDE DEF Is
  <2> QED BY <1>5
<1> HIDE DEF c
<1>7. Collects(c, m, out, v)
  <2>1. \A i \in 1..m : i \in 0..m /\ i # 0
    BY <1>1
  <2>2. 0 \in 0..m
    BY <1>1
  <2>3. \A i \in 0..m : c[i] = IF i = 0 THEN <<>>
                               ELSE IF BitAt(bytes, i - 1) THEN c[i - 1]
                               ELSE Append(c[i - 1], i - 1)
    BY <1>6
  <2>4. c[0] = <<>>
    BY <2>2, <2>3
  <2>5. \A k \in 1..m : c[k] = IF k \in out THEN c[k - 1] ELSE Append(c[k - 1], v[k])
    <3> HIDE DEF Is
    <3> QED BY <1>2, <2>1, <2>3
  <2> QED BY <2>4, <2>5 DEF Collects
<1> QED BY <1>3, <1>7 DEF m, out, v

LEMMA AbsentIs ==
    ASSUME NEW bytes
    PROVE  Absent(bytes) \in Seq(Members)
<1> DEFINE q == Absent(bytes)
           m == Size
<1>1. PICK c : Collects(c, m, Heard(bytes), CountsUp) /\ q = c[m]
  BY AbsentIsLast
<1>2. m \in Nat /\ m \in 0..m
  BY SizeIs
<1>3. CountsUp \in [1..m -> Nat] /\ \A k \in 1..m : CountsUp[k] = k - 1
  BY DEF CountsUp
<1> HIDE DEF q, m
<1>4. \A k \in 0..m : Collected(c[k], k, Heard(bytes), CountsUp)
  BY <1>1, <1>2, <1>3, CollectionIs
<1>5. q \in Seq(Nat) /\ \A j \in 1..Len(q) : \E i \in 1..m : q[j] = CountsUp[i]
  BY <1>1, <1>2, <1>4 DEF Collected
<1>6. \A j \in 1..Len(q) : q[j] \in 0..(m - 1)
  BY <1>2, <1>3, <1>5
<1>7. q \in Seq(0..(m - 1))
  BY <1>5, <1>6, SequenceOf
<1> QED BY <1>7 DEF Members, q, m

-----------------------------------------------------------------------------
(* The decommitments that the oracle makes.                                 *)

LEMMA MultiProofIsDigests ==
    ASSUME NEW t, NEW w \in Nat \ {0}, t.limit = w, IsTree(NodeHash(t), w),
           TreeHash(t) \in Digests, NEW idxs
    PROVE  MakeMultiProof(t, idxs).decommitments \in Seq(Digests)
<1> DEFINE S == Seq(Digests)
           h == NodeHash(t)
           known == Known(t, idxs)
           sibling(i) == IF known[i - 1] /\ ~known[i] THEN <<h[i]>>
                         ELSE IF ~known[i - 1] /\ known[i] THEN <<h[i - 1]>>
                         ELSE <<>>
           at(j) == sibling(2 * w + 1 - 2 * j)
           Is(f) == f = [j \in 0..(w - 1) |->
                            IF j = 0 THEN <<>> ELSE f[j - 1] \o at(j)]
           step == [p \in Nat \X S |-> IF p[1] \in 1..(w - 1) THEN p[2] \o at(p[1]) ELSE p[2]]
           a == <<>>
           c == CHOOSE f : Is(f)
<1>1. \A j \in 1..(w - 1) : at(j) \in S
  <2> TAKE j \in 1..(w - 1)
  <2> DEFINE i == 2 * w + 1 - 2 * j
  <2>1. i \in 1..(2 * w - 1) /\ i - 1 \in 1..(2 * w - 1)
    OBVIOUS
  <2>2. h[i] \in Digests /\ h[i - 1] \in Digests
    <3> HIDE DEF i
    <3> QED BY <2>1 DEF IsTree
  <2>3. <<h[i]>> \in S /\ <<h[i - 1]>> \in S /\ <<>> \in S
    <3> HIDE DEF h, i
    <3> QED BY <2>2
  <2>4. at(j) \in {<<h[i]>>, <<h[i - 1]>>, <<>>}
    OBVIOUS
  <2> HIDE DEF at, S, i, h
  <2> QED BY <2>3, <2>4
<1>2. MakeMultiProof(t, idxs).decommitments = IF idxs = <<>> THEN <<TreeHash(t)>> ELSE c[w - 1]
  BY DEF MakeMultiProof
<1> HIDE DEF at, c
<1>3. step \in [Nat \X S -> S] /\ a \in S
  <2>1. \A p \in Nat \X S : p[1] \in 1..(w - 1) => p[2] \o at(p[1]) \in S
    BY <1>1, Joined
  <2> HIDE DEF S
  <2>2. step \in [Nat \X S -> S]
    BY <2>1
  <2> QED BY <2>2 DEF S
<1>4. \A j \in 1..(w - 1), q \in S : step[<<j, q>>] = q \o at(j)
  <2> HIDE DEF S, Is
  <2> TAKE j \in 1..(w - 1), q \in S
  <2>1. <<j, q>> \in Nat \X S
    OBVIOUS
  <2> QED BY <2>1
<1> HIDE DEF step
<1>5. PICK f \in [0..(w - 1) -> S] : Rounds(a, step, f, w - 1)
  <2> DEFINE m == w - 1
  <2>1. m \in Nat
    OBVIOUS
  <2> HIDE DEF a, S, m, Is
  <2>2. \E f \in [0..m -> S] : Rounds(a, step, f, m)
    BY <1>3, <2>1, LoopExists
  <2> QED BY <2>2 DEF m
<1> HIDE DEF S
<1>6. Is(f)
  <2>1. \A j \in 1..(w - 1) : j - 1 \in 0..(w - 1) /\ f[j - 1] \in S
    BY <1>5
  <2>2. \A j \in 1..(w - 1) : f[j] = f[j - 1] \o at(j)
    BY <1>4, <1>5, <2>1 DEF Rounds
  <2>3. \A j \in 0..(w - 1) : j # 0 => j \in 1..(w - 1)
    OBVIOUS
  <2>4. f[0] = <<>>
    BY <1>5 DEF Rounds
  <2> QED BY <1>5, <2>2, <2>3, <2>4
<1>7. Is(c)
  <2> HIDE DEF Is
  <2> QED BY <1>6 DEF c
<1>8. c[w - 1] \in S
  <2> DEFINE m == w - 1
             T == {j \in 0..m : c[j] \in S}
  <2>1. m \in Nat
    OBVIOUS
  <2>2. \A j \in 0..m : c[j] = IF j = 0 THEN <<>> ELSE c[j - 1] \o at(j)
    BY <1>7
  <2>3. \A j \in 1..m : at(j) \in S
    BY <1>1
  <2> HIDE DEF m, Is
  <2>4. 0 \in T
    BY <1>3, <2>1, <2>2
  <2>5. \A j \in 0..(m - 1) : j \in T => j + 1 \in T
    <3> SUFFICES ASSUME NEW j \in 0..(m - 1), c[j] \in S PROVE c[j + 1] \in S
      BY <2>1
    <3>1. j + 1 \in 0..m /\ j + 1 # 0 /\ (j + 1) - 1 = j /\ j + 1 \in 1..m
      BY <2>1
    <3>2. c[j + 1] = c[j] \o at(j + 1)
      BY <2>2, <3>1
    <3>3. c[j] \o at(j + 1) \in S
      BY <2>3, <3>1, Joined DEF S
    <3> QED BY <3>2, <3>3
  <2>6. \A j \in 0..m : j \in T
    <3> HIDE DEF T
    <3> QED BY <2>1, <2>4, <2>5, BoundedInduction
  <2>7. m \in 0..m
    BY <2>1
  <2>8. c[m] \in S
    BY <2>6, <2>7
  <2> QED BY <2>8 DEF m
<1>9. <<TreeHash(t)>> \in S
  BY DEF S
<1> QED BY <1>2, <1>8, <1>9 DEF S

(* A committee's keys, as many as Size.                                     *)
CommitteeKeys == {keys \in Seq(Int) : Len(keys) = Size}

LEMMA KeysTreeIs ==
    ASSUME NEW keys \in CommitteeKeys
    PROVE  /\ KeysTree(keys).limit = Size
           /\ IsTree(NodeHash(KeysTree(keys)), Size)
           /\ NodeHash(KeysTree(keys))[1] = TreeHash(KeysTree(keys))
           /\ TreeHash(KeysTree(keys)) \in Digests
           /\ \A g \in Size..(2 * Size - 1) :
                 NodeHash(KeysTree(keys))[g] = HashG1(keys[g - Size + 1])
<1> DEFINE l == Len(keys)
           leaves == [k \in 1..l |-> HashG1(keys[k])]
           t == NewVectorMerkleTree(leaves)
<1>1. PICK h \in Nat : Size = TwoTo[h]
  BY SizeIs
<1>2. l = Size /\ Size \in Nat \ {0} /\ \A k \in 1..l : keys[k] \in Int
  BY SizeIs DEF CommitteeKeys
<1> HIDE DEF l
<1>3. \A k \in 1..l : HashG1(keys[k]) \in Digests
  BY <1>2, OpaqueIsDigest, KindsAreInt DEF HashG1
<1>4. leaves \in Seq(Digests) /\ Len(leaves) = l
  <2> DEFINE f == [k \in 1..l |-> HashG1(keys[k])]
  <2>1. \A k \in 1..l : f[k] \in Digests
    BY <1>3
  <2>2. l \in Nat
    BY <1>2
  <2>3. leaves = [k \in 1..l |-> f[k]]
    OBVIOUS
  <2> HIDE DEF f, leaves
  <2> QED BY <2>1, <2>2, <2>3, SequenceIs
<1>5. KeysTree(keys) = t
  BY DEF KeysTree, l
<1>6. \A k \in 1..l : leaves[k] = HashG1(keys[k])
  OBVIOUS
<1> HIDE DEF leaves
<1>7. /\ t.limit = TwoTo[h]
      /\ IsTree(NodeHash(t), TwoTo[h])
      /\ NodeHash(t)[1] = TreeHash(t)
      /\ \A g \in TwoTo[h]..(2 * TwoTo[h] - 1) : NodeHash(t)[g] = leaves[g - TwoTo[h] + 1]
      /\ TreeHash(t) \in Digests
  BY <1>1, <1>2, <1>4, FullTree
<1>8. \A g \in Size..(2 * Size - 1) : leaves[g - Size + 1] = HashG1(keys[g - Size + 1])
  <2> TAKE g \in Size..(2 * Size - 1)
  <2>1. g - Size + 1 \in 1..l
    BY <1>2
  <2> QED BY <1>6, <2>1
<1> HIDE DEF t
<1> QED BY <1>1, <1>5, <1>7, <1>8

-----------------------------------------------------------------------------
(* The bits of a committee.                                                 *)

LEMMA SumsAreInt ==
    ASSUME NEW keys \in CommitteeKeys
    PROVE  /\ Sum(keys) = SumOf(keys, Size) /\ Sum(keys) \in Int
           /\ \A k \in 1..Size : keys[k] \in Int
           /\ \A members : SumOfSome(keys, members) \in Int
<1>1. Len(keys) = Size /\ \A k \in 1..Size : keys[k] \in Int
  BY DEF CommitteeKeys
<1>2. Size \in Nat /\ Size \in 0..Size
  BY SizeIs
<1>3. SumOf(keys, Size) \in Int
  BY <1>1, <1>2, SumOfEquation
<1>4. ASSUME NEW members PROVE SumOfSome(keys, members) \in Int
  <2> DEFINE f == [k \in 1..Size |-> IF k - 1 \in members THEN keys[k] ELSE 0]
  <2>1. \A k \in 1..Size : f[k] \in Int
    BY <1>1
  <2> HIDE DEF f
  <2>2. SumOf(f, Size) \in Int
    BY <1>2, <2>1, SumOfEquation
  <2> QED BY <2>2 DEF SumOfSome, f
<1> QED BY <1>1, <1>3, <1>4 DEF Sum

(* What is sent about a committee, by whatever prover.                      *)
IsUpdate(update) ==
    /\ update.pubkey \in Int
    /\ update.missing \in Seq(Int)
    /\ update.decommitments \in Seq(Digests)

LEMMA UpdateIs ==
    ASSUME NEW keys \in CommitteeKeys, NEW bytes
    PROVE  IsUpdate(MakeUpdate(keys, bytes))
<1> DEFINE absent == Absent(bytes)
           l == Len(absent)
           missing == MissingKeys(keys, absent)
<1>1. absent \in Seq(Members) /\ Size \in Nat
  BY AbsentIs, SizeIs
<1>2. l \in Nat /\ \A k \in 1..l : absent[k] \in 0..(Size - 1)
  <2> HIDE DEF absent
  <2> QED BY <1>1 DEF Members
<1> HIDE DEF absent
<1>3. missing \in Seq(Int)
  <2> DEFINE f == [k \in 1..l |-> keys[absent[l + 1 - k] + 1]]
  <2>1. \A k \in 1..l : f[k] \in Int
    <3> TAKE k \in 1..l
    <3>1. l + 1 - k \in 1..l
      BY <1>2
    <3>2. absent[l + 1 - k] + 1 \in 1..Size
      BY <1>1, <1>2, <3>1
    <3> HIDE DEF l
    <3> QED BY <3>2, SumsAreInt
  <2>2. missing = [k \in 1..l |-> f[k]]
    BY DEF MissingKeys
  <2> HIDE DEF f, missing, l
  <2> QED BY <1>2, <2>1, <2>2, SequenceIs
<1>4. MakeMultiProof(KeysTree(keys), absent).decommitments \in Seq(Digests)
  BY SizeIs, KeysTreeIs, MultiProofIsDigests
<1>5. SumOfSome(keys, Present(bytes)) \in Int
  BY SumsAreInt
<1> HIDE DEF missing, l
<1> QED BY <1>3, <1>4, <1>5 DEF MakeUpdate, IsUpdate, absent, missing

(* The members whose bits are cleared, as the contract counts them down.    *)
Cleared(bitList) == {k \in 1..Size : Size - k \in Marked(bitList)}
CountsDown == [k \in 1..Size |-> 2 * Size - k]

LEMMA BitsOfMembers ==
    ASSUME NEW bitList, NEW k \in 1..Size
    PROVE  (2 * Size - k) % WordBits \in WordOf(bitList, 2 * Size - k)
              <=> Size - k \in Marked(bitList)
<1> DEFINE i == Size - k
           j == 2 * Size - k
           p == Size \div WordBits
           q == i \div WordBits
<1>1. Size \in Nat \ {0} /\ WordBits \in Nat \ {0} /\ i \in Nat /\ j = i + Size /\ i \in Members
  BY SizeIs DEF Members
<1>2. p \in Int /\ Size = WordBits * p
  <2>1. Size % WordBits = Size - WordBits * (Size \div WordBits) /\ Size \div WordBits \in Int
    BY <1>1, DivBounds
  <2> QED BY <1>1, <2>1, SizeIs
<1> HIDE DEF p, i, j
<1>3. /\ q \in Int /\ WordBits * q <= i /\ i < WordBits * q + WordBits
      /\ i % WordBits = i - WordBits * q
  <2>1. i \in Int
    BY <1>1
  <2> QED BY <1>1, <2>1, DivBounds
<1> HIDE DEF q
<1>4. j \div WordBits = q + p
  <2>1. WordBits * (q + p) = WordBits * q + WordBits * p
    BY <1>1, <1>2, <1>3
  <2>2. q + p \in Int /\ j \in Int /\ WordBits * (q + p) <= j /\ j < WordBits * (q + p) + WordBits
    BY <1>1, <1>2, <1>3, <2>1
  <2> DEFINE r == q + p
  <2> HIDE DEF r
  <2>3. j \div WordBits = r
    <3>1. r \in Int /\ WordBits * r <= j /\ j < WordBits * r + WordBits
      BY <2>2 DEF r
    <3> QED BY <1>1, <2>2, <3>1, DivIs
  <2> QED BY <2>3 DEF r
<1>5. j % WordBits = i % WordBits
  <2>1. j \in Int
    BY <1>1
  <2>2. j % WordBits = j - WordBits * (j \div WordBits)
    BY <1>1, <2>1, DivBounds
  <2>3. WordBits * (q + p) = WordBits * q + WordBits * p
    BY <1>1, <1>2, <1>3
  <2> QED BY <1>1, <1>2, <1>3, <1>4, <2>2, <2>3
<1>6. j \div WordBits - p + 1 = q + 1
  BY <1>2, <1>3, <1>4
<1>7. WordOf(bitList, j) = bitList[q + 1]
  BY <1>6 DEF WordOf, p
<1>8. i \in Marked(bitList) <=> i % WordBits \in bitList[q + 1]
  BY <1>1 DEF Marked, q
<1> QED BY <1>5, <1>7, <1>8 DEF i, j

LEMMA MissedIsLast ==
    ASSUME NEW bitList
    PROVE  \E c : Collects(c, Size, Cleared(bitList), CountsDown) /\ Missed(bitList) = c[Size]
<1> DEFINE m == Size
           out == Cleared(bitList)
           v == CountsDown
           at(k) == 2 * m - k
           Is(f) == f = [k \in 0..m |->
                            IF k = 0 THEN <<>>
                            ELSE IF at(k) % WordBits \in WordOf(bitList, at(k)) THEN f[k - 1]
                            ELSE Append(f[k - 1], at(k))]
           c == CHOOSE f : Is(f)
<1>1. m \in Nat
  BY SizeIs
<1>2. v \in [1..m -> Nat]
  BY <1>1 DEF CountsDown
<1>3. Missed(bitList) = c[m]
  BY DEF Missed
<1>4. \A k \in 1..m : /\ at(k) % WordBits \in WordOf(bitList, at(k)) <=> k \in out
                      /\ v[k] = at(k)
  BY BitsOfMembers DEF Cleared, CountsDown
<1>5. PICK f \in [0..m -> Seq(Nat)] : Collects(f, m, out, v)
  <2> HIDE DEF m, out, v, c, Is
  <2> QED BY <1>1, <1>2, CollectionExists
<1> HIDE DEF m, v, out, at
<1>6. Is(f)
  <2>1. \A i \in 0..m : i # 0 => i \in 1..m
    BY <1>1
  <2> QED BY <1>4, <1>5, <2>1 DEF Collects
<1>7. Is(c)
  <2> HIDE DEF Is
  <2> QED BY <1>6
<1> HIDE DEF c
<1>8. Collects(c, m, out, v)
  <2>1. \A i \in 1..m : i \in 0..m /\ i # 0
    BY <1>1
  <2>2. 0 \in 0..m
    BY <1>1
  <2>3. \A k \in 0..m : c[k] = IF k = 0 THEN <<>>
                               ELSE IF at(k) % WordBits \in WordOf(bitList, at(k)) THEN c[k - 1]
                               ELSE Append(c[k - 1], at(k))
    BY <1>7
  <2>4. c[0] = <<>>
    BY <2>2, <2>3
  <2>5. \A k \in 1..m : c[k] = IF k \in out THEN c[k - 1] ELSE Append(c[k - 1], v[k])
    <3> HIDE DEF Is
    <3> QED BY <1>4, <2>1, <2>3
  <2> QED BY <2>4, <2>5 DEF Collects
<1> QED BY <1>3, <1>8 DEF m, v, out

-----------------------------------------------------------------------------
(* The members whose bits are cleared.                                      *)

Falls(q) == \A i, j \in 1..Len(q) : i < j => q[i] > q[j]

LEMMA CountsDownIs == CountsDown \in [1..Size -> Nat] /\ \A k \in 1..Size : CountsDown[k] = 2 * Size - k
<1>1. Size \in Nat
  BY SizeIs
<1> QED BY <1>1 DEF CountsDown

(* The indices of the leaves of the first members that are counted down.    *)
LEMMA CountedIs ==
    ASSUME NEW bitList, NEW c, Collects(c, Size, Cleared(bitList), CountsDown), NEW k \in 0..Size
    PROVE  /\ c[k] \in Seq(Nat)
           /\ \A j \in 1..Len(c[k]) : c[k][j] \in (2 * Size - k)..(2 * Size - 1)
<1>1. Size \in Nat /\ k \in Nat
  BY SizeIs
<1>2. Collected(c[k], k, Cleared(bitList), CountsDown)
  BY <1>1, CountsDownIs, CollectionIs
<1>3. ASSUME NEW j \in 1..Len(c[k]) PROVE c[k][j] \in (2 * Size - k)..(2 * Size - 1)
  <2>1. PICK i \in 1..k : c[k][j] = CountsDown[i]
    BY <1>2 DEF Collected
  <2>2. i \in 1..Size
    BY <1>1
  <2>3. CountsDown[i] = 2 * Size - i
    BY <2>2, CountsDownIs
  <2> QED BY <1>1, <2>1, <2>3
<1> QED BY <1>2, <1>3 DEF Collected

(* One more member.                                                         *)
LEMMA CountNext ==
    ASSUME NEW bitList, NEW c, Collects(c, Size, Cleared(bitList), CountsDown),
           NEW k \in 0..(Size - 1)
    PROVE  /\ k + 1 \in 0..Size /\ k \in 0..Size /\ Size - (k + 1) \in Members
           /\ 2 * Size - (k + 1) \in Nat
           /\ Size - (k + 1) \in Marked(bitList) => c[k + 1] = c[k]
           /\ Size - (k + 1) \notin Marked(bitList) => c[k + 1] = Append(c[k], 2 * Size - (k + 1))
<1>1. Size \in Nat
  BY SizeIs
<1>2. /\ k + 1 \in 1..Size /\ (k + 1) - 1 = k /\ k + 1 \in 0..Size /\ k \in 0..Size
      /\ Size - (k + 1) \in 0..(Size - 1) /\ 2 * Size - (k + 1) \in Nat
  BY <1>1
<1>3. c[k + 1] = IF k + 1 \in Cleared(bitList) THEN c[k] ELSE Append(c[k], CountsDown[k + 1])
  BY <1>2 DEF Collects
<1>4. k + 1 \in Cleared(bitList) <=> Size - (k + 1) \in Marked(bitList)
  BY <1>2 DEF Cleared
<1>5. CountsDown[k + 1] = 2 * Size - (k + 1)
  BY <1>2, CountsDownIs
<1> QED BY <1>2, <1>3, <1>4, <1>5 DEF Members

LEMMA AppendFalls ==
    ASSUME NEW q \in Seq(Nat), NEW x \in Nat, Falls(q), \A j \in 1..Len(q) : q[j] > x
    PROVE  Falls(Append(q, x))
<1>1. /\ Len(Append(q, x)) = Len(q) + 1 /\ Len(q) \in Nat
      /\ \A j \in 1..Len(q) : Append(q, x)[j] = q[j]
      /\ Append(q, x)[Len(q) + 1] = x
  OBVIOUS
<1>2. ASSUME NEW i \in 1..(Len(q) + 1), NEW j \in 1..(Len(q) + 1), i < j
      PROVE  Append(q, x)[i] > Append(q, x)[j]
  <2>1. i \in 1..Len(q)
    BY <1>1, <1>2
  <2>2. CASE j = Len(q) + 1
    BY <1>1, <2>1, <2>2
  <2>3. CASE j # Len(q) + 1
    <3>1. j \in 1..Len(q)
      BY <1>1, <2>3
    <3> QED BY <1>1, <1>2, <2>1, <3>1 DEF Falls
  <2> QED BY <2>2, <2>3
<1> QED BY <1>1, <1>2 DEF Falls

LEMMA MissedAreLeaves ==
    ASSUME NEW bitList
    PROVE  /\ Missed(bitList) \in Seq(Nat)
           /\ \A j \in 1..Len(Missed(bitList)) : Missed(bitList)[j] \in Size..(2 * Size - 1)
           /\ Falls(Missed(bitList))
<1>1. PICK c : Collects(c, Size, Cleared(bitList), CountsDown) /\ Missed(bitList) = c[Size]
  BY MissedIsLast
<1>2. Size \in Nat /\ Size \in 0..Size /\ 2 * Size - Size = Size
  BY SizeIs
<1>3. /\ c[Size] \in Seq(Nat)
      /\ \A j \in 1..Len(c[Size]) : c[Size][j] \in Size..(2 * Size - 1)
  BY <1>1, <1>2, CountedIs
<1> DEFINE S == {k \in 0..Size : Falls(c[k])}
<1>4. 0 \in S
  <2>1. c[0] = <<>>
    BY <1>1 DEF Collects
  <2> QED BY <1>2, <2>1 DEF Falls
<1>5. \A k \in 0..(Size - 1) : k \in S => k + 1 \in S
  <2> SUFFICES ASSUME NEW k \in 0..(Size - 1), Falls(c[k]) PROVE Falls(c[k + 1]) /\ k + 1 \in 0..Size
    OBVIOUS
  <2> DEFINE x == 2 * Size - (k + 1)
  <2>1. /\ k + 1 \in 0..Size /\ k \in 0..Size /\ x \in Nat
        /\ c[k + 1] = c[k] \/ c[k + 1] = Append(c[k], x)
    BY <1>1, CountNext
  <2>2. c[k] \in Seq(Nat) /\ \A j \in 1..Len(c[k]) : c[k][j] \in (2 * Size - k)..(2 * Size - 1)
    BY <1>1, <2>1, CountedIs
  <2>3. \A j \in 1..Len(c[k]) : c[k][j] > x
    BY <1>2, <2>2
  <2> HIDE DEF x
  <2>4. Falls(Append(c[k], x))
    BY <2>1, <2>2, <2>3, AppendFalls
  <2> QED BY <2>1, <2>4
<1>6. \A k \in 0..Size : k \in S
  <2> HIDE DEF S
  <2> QED BY <1>2, <1>4, <1>5, BoundedInduction
<1>7. Falls(c[Size])
  BY <1>2, <1>6
<1> QED BY <1>1, <1>3, <1>7

LEMMA MissedAreTheOthers ==
    ASSUME NEW bitList
    PROVE  /\ IsFiniteSet(Marked(bitList)) /\ Cardinality(Marked(bitList)) \in Nat
           /\ Len(Missed(bitList)) + Cardinality(Marked(bitList)) = Size
<1> DEFINE marked == Marked(bitList)
           Above(k) == {i \in marked : i >= Size - k}
<1>1. PICK c : Collects(c, Size, Cleared(bitList), CountsDown) /\ Missed(bitList) = c[Size]
  BY MissedIsLast
<1>2. Size \in Nat /\ Size \in 0..Size
  BY SizeIs
<1>3. marked \subseteq 0..(Size - 1)
  BY DEF Marked, Members
<1>4. IsFiniteSet(marked)
  <2>1. 0 \in Int /\ Size - 1 \in Int
    BY <1>2
  <2>2. IsFiniteSet(0..(Size - 1))
    BY <2>1, FS_Interval
  <2> QED BY <1>3, <2>2, FS_Subset
<1> HIDE DEF marked
<1>5. \A k \in 0..Size : IsFiniteSet(Above(k)) /\ Cardinality(Above(k)) \in Nat
  <2> TAKE k \in 0..Size
  <2>1. Above(k) \subseteq marked
    OBVIOUS
  <2> HIDE DEF Above
  <2>2. IsFiniteSet(Above(k))
    BY <1>4, <2>1, FS_Subset
  <2> QED BY <2>2, FS_CardinalityType
<1>12. /\ \A k, i : i \in Above(k) <=> i \in marked /\ i >= Size - k
       /\ \A i \in marked : i \in Int /\ 0 <= i /\ i < Size
  BY <1>2, <1>3
<1> HIDE DEF Above
<1> DEFINE S == {k \in 0..Size : Len(c[k]) + Cardinality(Above(k)) = k}
<1>6. 0 \in S
  <2>1. c[0] = <<>> /\ Len(<<>>) = 0
    BY <1>1 DEF Collects
  <2>2. Above(0) = {}
    <3>1. \A i : i \notin Above(0)
      BY <1>2, <1>12
    <3> QED BY <3>1
  <2>3. Cardinality({}) = 0
    BY FS_EmptySet
  <2>4. Cardinality(Above(0)) = 0
    BY <2>2, <2>3, Zenon
  <2>5. Len(c[0]) = 0
    BY <2>1
  <2>6. 0 \in 0..Size
    BY <1>2
  <2> QED BY <2>4, <2>5, <2>6
<1>7. \A k \in 0..(Size - 1) : k \in S => k + 1 \in S
  <2> SUFFICES ASSUME NEW k \in 0..(Size - 1), Len(c[k]) + Cardinality(Above(k)) = k
               PROVE  Len(c[k + 1]) + Cardinality(Above(k + 1)) = k + 1 /\ k + 1 \in 0..Size
    OBVIOUS
  <2> DEFINE i == Size - (k + 1)
             x == 2 * Size - (k + 1)
  <2>1. /\ k + 1 \in 0..Size /\ k \in 0..Size /\ x \in Nat
        /\ i \in marked => c[k + 1] = c[k]
        /\ i \notin marked => c[k + 1] = Append(c[k], x)
    BY <1>1, CountNext DEF marked
  <2>2. c[k] \in Seq(Nat)
    BY <1>1, <2>1, CountedIs
  <2>3. CASE i \in marked
    <3>0. \A e : e \in Above(k + 1) <=> e \in Above(k) \/ e = i
      BY <1>2, <1>12, <2>3
    <3>1. Above(k + 1) = Above(k) \cup {i} /\ i \notin Above(k)
      <4>1. i \notin Above(k)
        BY <1>2, <1>12
      <4> HIDE DEF i
      <4> QED BY <3>0, <4>1
    <3>2. Cardinality(Above(k) \cup {i}) = Cardinality(Above(k)) + 1
      <4> HIDE DEF Above, i
      <4> QED BY <1>5, <2>1, <3>1, FS_AddElement
    <3> DEFINE a == Cardinality(Above(k))
    <3>3. Cardinality(Above(k + 1)) = a + 1 /\ a \in Nat
      BY <1>5, <2>1, <3>1, <3>2
    <3>4. Len(c[k + 1]) = Len(c[k]) /\ Len(c[k]) \in Nat /\ Len(c[k]) + a = k
      BY <2>1, <2>2, <2>3
    <3> HIDE DEF a, Above
    <3> QED BY <2>1, <3>3, <3>4
  <2>4. CASE i \notin marked
    <3>0. \A e : e \in Above(k + 1) <=> e \in Above(k)
      BY <1>2, <1>12, <2>4
    <3>1. Above(k + 1) = Above(k)
      BY <3>0
    <3>2. Len(Append(c[k], x)) = Len(c[k]) + 1 /\ Len(c[k]) \in Nat
      BY <2>2
    <3> HIDE DEF Above, x
    <3>3. Len(c[k + 1]) = Len(c[k]) + 1
      BY <2>1, <2>4, <3>2
    <3>4. Cardinality(Above(k + 1)) = Cardinality(Above(k)) /\ Cardinality(Above(k)) \in Nat
      BY <1>5, <2>1, <3>1
    <3> QED BY <2>1, <3>2, <3>3, <3>4
  <2> QED BY <2>3, <2>4
<1>8. \A k \in 0..Size : k \in S
  <2> HIDE DEF S
  <2> QED BY <1>2, <1>6, <1>7, BoundedInduction
<1>9. Above(Size) = marked
  <2>1. \A e : e \in Above(Size) <=> e \in marked
    BY <1>2, <1>12
  <2> QED BY <2>1
<1>10. Len(c[Size]) + Cardinality(marked) = Size
  <2>1. Size \in S
    BY <1>2, <1>8
  <2> HIDE DEF Above
  <2> QED BY <1>9, <2>1
<1>11. Cardinality(marked) \in Nat
  BY <1>4, FS_CardinalityType
<1> QED BY <1>1, <1>4, <1>10, <1>11 DEF marked

-----------------------------------------------------------------------------
(* The keys of the members whose bits are cleared.                          *)

LEMMA SumOfBoth ==
    ASSUME NEW m \in Nat, NEW f, NEW g, NEW h,
           \A i \in 1..m : f[i] \in Int /\ g[i] \in Int /\ h[i] = f[i] + g[i]
    PROVE  SumOf(h, m) = SumOf(f, m) + SumOf(g, m)
<1> DEFINE S == {k \in 0..m : SumOf(h, k) = SumOf(f, k) + SumOf(g, k)}
<1>1. /\ SumOf(f, 0) = 0 /\ \A k \in 0..m : SumOf(f, k) \in Int
      /\ \A k \in 0..(m - 1) : SumOf(f, k + 1) = SumOf(f, k) + f[k + 1]
  BY SumOfEquation
<1>2. /\ SumOf(g, 0) = 0 /\ \A k \in 0..m : SumOf(g, k) \in Int
      /\ \A k \in 0..(m - 1) : SumOf(g, k + 1) = SumOf(g, k) + g[k + 1]
  BY SumOfEquation
<1>3. /\ SumOf(h, 0) = 0 /\ \A k \in 0..m : SumOf(h, k) \in Int
      /\ \A k \in 0..(m - 1) : SumOf(h, k + 1) = SumOf(h, k) + h[k + 1]
  <2>1. \A i \in 1..m : h[i] \in Int
    OBVIOUS
  <2> QED BY <2>1, SumOfEquation
<1>4. 0 \in S
  BY <1>1, <1>2, <1>3
<1>5. \A k \in 0..(m - 1) : k \in S => k + 1 \in S
  <2> SUFFICES ASSUME NEW k \in 0..(m - 1), SumOf(h, k) = SumOf(f, k) + SumOf(g, k)
               PROVE  SumOf(h, k + 1) = SumOf(f, k + 1) + SumOf(g, k + 1) /\ k + 1 \in 0..m
    OBVIOUS
  <2>1. k \in 0..m /\ k + 1 \in 1..m /\ k + 1 \in 0..m
    OBVIOUS
  <2>2. f[k + 1] \in Int /\ g[k + 1] \in Int /\ h[k + 1] = f[k + 1] + g[k + 1]
    BY <2>1
  <2> QED BY <1>1, <1>2, <1>3, <2>1, <2>2
<1>6. \A k \in 0..m : k \in S
  <2> HIDE DEF S
  <2> QED BY <1>4, <1>5, BoundedInduction
<1>7. m \in S
  BY <1>6
<1> QED BY <1>7

(* The keys at leaves.                                                      *)
KeysAt(keys, q) == [j \in 1..Len(q) |-> keys[q[j] - Size + 1]]
AreMembers(q) == q \in Seq(Nat) /\ \A j \in 1..Len(q) : q[j] \in Size..(2 * Size - 1)

LEMMA KeysAtAppend ==
    ASSUME NEW keys \in CommitteeKeys, NEW q, AreMembers(q), NEW x \in Size..(2 * Size - 1)
    PROVE  SumOf(KeysAt(keys, Append(q, x)), Len(q) + 1)
              = SumOf(KeysAt(keys, q), Len(q)) + keys[x - Size + 1]
<1> DEFINE l == Len(q)
           p == Append(q, x)
           f == KeysAt(keys, p)
           g == KeysAt(keys, q)
<1>1. Size \in Nat /\ q \in Seq(Nat) /\ \A j \in 1..Len(q) : q[j] \in Size..(2 * Size - 1)
  BY SizeIs DEF AreMembers
<1>2. l \in Nat /\ Len(p) = l + 1 /\ p[l + 1] = x /\ \A j \in 1..l : p[j] = q[j]
  BY <1>1
<1>3. \A i \in Size..(2 * Size - 1) : keys[i - Size + 1] \in Int
  <2> TAKE i \in Size..(2 * Size - 1)
  <2>1. i - Size + 1 \in 1..Size
    BY <1>1
  <2> QED BY <2>1, SumsAreInt
<1>4. \A j \in 1..l : g[j] = keys[q[j] - Size + 1] /\ g[j] \in Int
  BY <1>1, <1>3 DEF KeysAt
<1> HIDE DEF p
<1>5. f[l + 1] = keys[x - Size + 1] /\ f[l + 1] \in Int /\ \A j \in 1..l : f[j] = g[j]
  <2>1. l + 1 \in 1..Len(p) /\ \A j \in 1..l : j \in 1..Len(p)
    BY <1>2
  <2> HIDE DEF l
  <2>2. \A j \in 1..Len(p) : f[j] = keys[p[j] - Size + 1]
    BY DEF KeysAt
  <2> HIDE DEF f, g
  <2> QED BY <1>2, <1>3, <1>4, <2>1, <2>2
<1> HIDE DEF f, g, l
<1>6. \A j \in 1..(l + 1) : f[j] \in Int
  <2> TAKE j \in 1..(l + 1)
  <2>1. j = l + 1 \/ j \in 1..l
    BY <1>2
  <2> QED BY <1>4, <1>5, <2>1
<1>7. SumOf(f, l + 1) = SumOf(f, l) + f[l + 1]
  <2> DEFINE m == l + 1
  <2>1. m \in Nat /\ l \in 0..(m - 1)
    BY <1>2
  <2> HIDE DEF m
  <2>2. \A j \in 1..m : f[j] \in Int
    BY <1>6 DEF m
  <2> QED BY <2>1, <2>2, SumOfEquation
<1>8. SumOf(f, l) = SumOf(g, l)
  <2>1. \A j \in 1..l : g[j] \in Int /\ f[j] = g[j]
    BY <1>4, <1>5
  <2> QED BY <1>2, <2>1, SumOfSame
<1> QED BY <1>5, <1>7, <1>8 DEF f, g, l, p

(* The sum of the keys that are sent, when they are those of the leaves.    *)
LEMMA MissedSum ==
    ASSUME NEW keys \in CommitteeKeys, NEW bitList
    PROVE  LET q == Missed(bitList)
           IN  SumOf(KeysAt(keys, q), Len(q)) + SumOfSome(keys, Marked(bitList)) = Sum(keys)
<1> DEFINE marked == Marked(bitList)
           y == [k \in 1..Size |-> IF k - 1 \in marked THEN 0 ELSE keys[k]]
           z == [k \in 1..Size |-> IF k - 1 \in marked THEN keys[k] ELSE 0]
           Total(q) == SumOf(KeysAt(keys, q), Len(q))
<1>1. PICK c : Collects(c, Size, Cleared(bitList), CountsDown) /\ Missed(bitList) = c[Size]
  BY MissedIsLast
<1>2. Size \in Nat /\ Size \in 0..Size
  BY SizeIs
<1>3. \A k \in 1..Size : /\ keys[k] \in Int /\ y[k] \in Int /\ z[k] \in Int
                         /\ keys[k] = y[k] + z[k]
                         /\ k - 1 \in marked => y[k] = 0
                         /\ k - 1 \notin marked => y[k] = keys[k]
  <2>1. \A k \in 1..Size : keys[k] \in Int
    BY SumsAreInt
  <2> HIDE DEF marked
  <2> QED BY <2>1
<1>4. SumOfSome(keys, marked) = SumOf(z, Size)
  BY DEF SumOfSome
<1> HIDE DEF y, z, marked
<1>5. Sum(keys) = SumOf(y, Size) + SumOf(z, Size)
  <2>1. SumOf(keys, Size) = SumOf(y, Size) + SumOf(z, Size)
    BY <1>2, <1>3, SumOfBoth
  <2> QED BY <2>1, SumsAreInt
<1>6. /\ SumOf(y, 0) = 0 /\ \A k \in 0..Size : SumOf(y, k) \in Int
      /\ \A k \in 0..(Size - 1) : SumOf(y, k + 1) = SumOf(y, k) + y[k + 1]
  BY <1>2, <1>3, SumOfEquation
<1> DEFINE S == {k \in 0..Size : Total(c[k]) + SumOf(y, Size - k) = SumOf(y, Size)}
<1>7. 0 \in S
  <2>1. c[0] = <<>> /\ Len(<<>>) = 0
    BY <1>1 DEF Collects
  <2> DEFINE f == KeysAt(keys, <<>>)
  <2>2. \A i \in 1..0 : f[i] \in Int
    OBVIOUS
  <2> HIDE DEF f
  <2>3. SumOf(f, 0) = 0
    BY <2>2, SumOfEquation
  <2>4. Total(c[0]) = 0
    BY <2>1, <2>3 DEF f
  <2>5. Size - 0 = Size /\ SumOf(y, Size) \in Int /\ 0 \in 0..Size
    BY <1>2, <1>6
  <2> HIDE DEF Total
  <2> QED BY <2>4, <2>5
<1>8. \A k \in 0..(Size - 1) : k \in S => k + 1 \in S
  <2> SUFFICES ASSUME NEW k \in 0..(Size - 1), Total(c[k]) + SumOf(y, Size - k) = SumOf(y, Size),
                      k \in 0..Size
               PROVE  /\ Total(c[k + 1]) + SumOf(y, Size - (k + 1)) = SumOf(y, Size)
                      /\ k + 1 \in 0..Size
    OBVIOUS
  <2> DEFINE i == Size - (k + 1)
             x == 2 * Size - (k + 1)
  <2>1. /\ k + 1 \in 0..Size /\ i \in Members /\ x \in Nat
        /\ i \in marked => c[k + 1] = c[k]
        /\ i \notin marked => c[k + 1] = Append(c[k], x)
    BY <1>1, CountNext DEF marked
  <2>2. AreMembers(c[k]) /\ Len(c[k]) \in Nat
    <3>1. c[k] \in Seq(Nat) /\ \A j \in 1..Len(c[k]) : c[k][j] \in (2 * Size - k)..(2 * Size - 1)
      BY <1>1, CountedIs
    <3>2. \A e \in (2 * Size - k)..(2 * Size - 1) : e \in Size..(2 * Size - 1)
      BY <1>2
    <3> QED BY <3>1, <3>2 DEF AreMembers
  <2>3. /\ x \in Size..(2 * Size - 1) /\ x - Size + 1 = i + 1 /\ Size - k = i + 1
        /\ i \in 0..(Size - 1) /\ i + 1 \in 1..Size /\ (i + 1) - 1 = i
    BY <1>2
  <2>4. SumOf(y, i + 1) = SumOf(y, i) + y[i + 1] /\ SumOf(y, i) \in Int /\ SumOf(y, Size) \in Int
        /\ SumOf(y, i + 1) \in Int
    BY <1>2, <1>6, <2>3, SMTT(20)
  <2>5. Total(c[k]) \in Int
    <3> DEFINE f == KeysAt(keys, c[k])
               l == Len(c[k])
    <3>1. ASSUME NEW j \in 1..l PROVE f[j] \in Int
      <4>0. c[k][j] \in Size..(2 * Size - 1)
        BY <2>2 DEF AreMembers
      <4>1. c[k][j] - Size + 1 \in 1..Size
        BY <1>2, <4>0
      <4>2. f[j] = keys[c[k][j] - Size + 1]
        BY DEF KeysAt
      <4> QED BY <1>3, <4>1, <4>2
    <3> HIDE DEF f
    <3>2. l \in Nat /\ l \in 0..l
      BY <2>2
    <3> HIDE DEF l
    <3>3. SumOf(f, l) \in Int
      BY <3>1, <3>2, SumOfEquation
    <3> QED BY <3>3 DEF f, l
  <2>6. CASE i \in marked
    <3>1. y[i + 1] = 0
      BY <1>3, <2>3, <2>6
    <3>2. c[k + 1] = c[k]
      BY <2>1, <2>6
    <3> HIDE DEF Total, i
    <3> QED BY <2>1, <2>3, <2>4, <2>5, <3>1, <3>2 DEF i
  <2>7. CASE i \notin marked
    <3>1. y[i + 1] = keys[i + 1] /\ keys[i + 1] \in Int
      BY <1>3, <2>3, <2>7
    <3>2. Total(c[k + 1]) = Total(c[k]) + keys[i + 1]
      <4>1. c[k + 1] = Append(c[k], x)
        BY <2>1, <2>7
      <4>2. Len(Append(c[k], x)) = Len(c[k]) + 1
        BY <2>2 DEF AreMembers
      <4>3. SumOf(KeysAt(keys, Append(c[k], x)), Len(c[k]) + 1)
               = SumOf(KeysAt(keys, c[k]), Len(c[k])) + keys[x - Size + 1]
        <5> DEFINE q == c[k]
        <5> HIDE DEF q, x
        <5>1. SumOf(KeysAt(keys, Append(q, x)), Len(q) + 1)
                 = SumOf(KeysAt(keys, q), Len(q)) + keys[x - Size + 1]
          BY <2>2, <2>3, KeysAtAppend DEF q
        <5> QED BY <5>1 DEF q
      <4> QED BY <2>3, <4>1, <4>2, <4>3
    <3> DEFINE a == Total(c[k])
               b == Total(c[k + 1])
               s == SumOf(y, i)
               t == SumOf(y, i + 1)
    <3>3. /\ a \in Int /\ b = a + keys[i + 1] /\ t = s + keys[i + 1] /\ s \in Int
          /\ a + t = SumOf(y, Size)
      BY <2>3, <2>4, <2>5, <3>1, <3>2
    <3>4. b + s = SumOf(y, Size)
      <4> HIDE DEF a, b, s, t, i
      <4> QED BY <3>1, <3>3, <2>4
    <3> HIDE DEF Total
    <3> QED BY <2>1, <3>4
  <2> QED BY <2>6, <2>7
<1>9. \A k \in 0..Size : k \in S
  <2> HIDE DEF S
  <2> QED BY <1>2, <1>7, <1>8, BoundedInduction
<1>10. Total(c[Size]) = SumOf(y, Size)
  <2>1. Size \in S
    BY <1>2, <1>9
  <2>2. Size - Size = 0
    BY <1>2
  <2>3. Total(c[Size]) + SumOf(y, Size - Size) = SumOf(y, Size)
    BY <2>1
  <2>4. Total(c[Size]) \in Int
    <3> DEFINE q == Missed(bitList)
               f == KeysAt(keys, q)
               l == Len(q)
    <3>1. q \in Seq(Nat) /\ \A j \in 1..Len(q) : q[j] \in Size..(2 * Size - 1)
      BY MissedAreLeaves
    <3>2. l \in Nat /\ l \in 0..l
      BY <3>1
    <3>3. ASSUME NEW j \in 1..l PROVE f[j] \in Int
      <4>1. q[j] - Size + 1 \in 1..Size
        BY <1>2, <3>1
      <4>2. f[j] = keys[q[j] - Size + 1]
        BY DEF KeysAt
      <4> HIDE DEF f
      <4> QED BY <1>3, <4>1, <4>2
    <3> HIDE DEF f, l
    <3>4. SumOf(f, l) \in Int
      BY <3>2, <3>3, SumOfEquation
    <3> QED BY <1>1, <3>4 DEF f, l
  <2>5. SumOf(y, 0) = 0
    BY <1>6
  <2> HIDE DEF Total
  <2> QED BY <2>2, <2>3, <2>4, <2>5
<1> QED BY <1>1, <1>4, <1>5, <1>10 DEF marked

-----------------------------------------------------------------------------
(* The committees of a state, and what it means that an update is accepted. *)

CommitteeFields(current, next_) ==
    [f \in {CurrentSyncCommitteeField, NextSyncCommitteeField} |->
        IF f = CurrentSyncCommitteeField THEN current ELSE next_]

LEMMA CommitteeStateIs ==
    ASSUME NEW a \in Digests, NEW b \in Digests
    PROVE  LET r == TreeHash(CommitteeState(a, b))
           IN  /\ r \in Digests
               /\ \A i \in Nat : MakeProof(CommitteeState(a, b), i).path \in Seq(Digests)
               /\ Holds(r, 54, a) /\ Holds(r, 55, b)
<1> DEFINE fields == CommitteeFields(a, b)
           r == TreeHash(StateTree(fields))
<1>1. CommitteeState(a, b) = StateTree(fields)
  BY DEF CommitteeState, CommitteeFields
<1>2. /\ DOMAIN fields = {22, 23} /\ fields[22] = a /\ fields[23] = b
      /\ \A f \in DOMAIN fields : fields[f] \in Digests
  BY DEF CommitteeFields, CurrentSyncCommitteeField, NextSyncCommitteeField
<1> HIDE DEF fields
<1>3. r \in Digests
  BY <1>2, StateTreeIs
<1>4. \A i \in Nat : MakeProof(StateTree(fields), i).path \in Seq(Digests)
  BY <1>2, StateProofIsDigests
<1>5. Holds(r, 1, TreeHash(StateTree(fields))) /\ 1 \in Nat \ {0}
  BY RootHolds
<1>6. Holds(r, Below(1, 32, 22), fields[22]) /\ Holds(r, Below(1, 32, 23), fields[23])
  <2> HIDE DEF r
  <2>1. 22 \in DOMAIN fields /\ 23 \in DOMAIN fields /\ 22 \in 0..24 /\ 23 \in 0..24
    BY <1>2
  <2> QED BY <1>2, <1>5, <2>1, StateTreeIs
<1>7. Below(1, 32, 22) = 54 /\ Below(1, 32, 23) = 55
  BY DEF Below
<1> QED BY <1>1, <1>2, <1>3, <1>4, <1>6, <1>7

LEMMA CommitteeRootIs ==
    ASSUME NEW keys \in CommitteeKeys
    PROVE  /\ TreeHash(KeysTree(keys)) \in Digests /\ HashG1(Sum(keys)) \in Digests
           /\ CommitteeRoot(keys) = HashPair(TreeHash(KeysTree(keys)), HashG1(Sum(keys)))
           /\ CommitteeRoot(keys) \in Digests
<1>1. HashG1(Sum(keys)) \in Digests
  BY SumsAreInt, OpaqueIsDigest, KindsAreInt DEF HashG1
<1> QED BY <1>1, KeysTreeIs, PairIsDigest DEF CommitteeRoot

ArePairs(c) == c.current \in CommitteeKeys /\ c.next \in CommitteeKeys

LEMMA BranchIsDigests ==
    ASSUME NEW c, ArePairs(c), NEW next_
    PROVE  Branch(c, next_) \in Seq(Digests)
<1>1. CommitteeRoot(c.current) \in Digests /\ CommitteeRoot(c.next) \in Digests
  BY CommitteeRootIs DEF ArePairs
<1>2. \A i \in Nat : MakeProof(StateOf(c), i).path \in Seq(Digests)
  BY <1>1, CommitteeStateIs DEF StateOf
<1> QED BY <1>2, FieldsAreNat DEF Branch

LEMMA AcceptedCommittee ==
    ASSUME NEW c, ArePairs(c), NEW next_ \in BOOLEAN, NEW x \in Digests, NEW v \in Int,
           NEW path \in Seq(Digests),
           AcceptsCommittee(TreeHash(StateOf(c)), next_, HashPair(x, HashG1(v)), path)
    PROVE  /\ x = TreeHash(KeysTree(KeysOf(c, next_)))
           /\ v = Sum(KeysOf(c, next_))
<1> DEFINE keys == KeysOf(c, next_)
           r == TreeHash(StateOf(c))
           leaf == HashPair(x, HashG1(v))
           g == IF next_ THEN 55 ELSE 54
<1>1. keys \in CommitteeKeys
  BY DEF KeysOf, ArePairs
<1>2. HashG1(v) \in Digests /\ leaf \in Digests
  BY OpaqueIsDigest, KindsAreInt, PairIsDigest DEF HashG1
<1>3. Holds(r, g, CommitteeRoot(keys))
  <2>1. CommitteeRoot(c.current) \in Digests /\ CommitteeRoot(c.next) \in Digests
    BY CommitteeRootIs DEF ArePairs
  <2>2. Holds(r, 54, CommitteeRoot(c.current)) /\ Holds(r, 55, CommitteeRoot(c.next))
    BY <2>1, CommitteeStateIs DEF StateOf
  <2> HIDE DEF r
  <2> QED BY <2>2 DEF KeysOf
<1>4. Leads(leaf, g, path, r)
  BY DEF AcceptsCommittee, NEXT_SYNC_COMMITTEE_INDEX, CURRENT_SYNC_COMMITTEE_INDEX
<1> HIDE DEF leaf, g, r, keys
<1>5. leaf = CommitteeRoot(keys)
  BY <1>2, <1>3, <1>4 DEF Holds
<1>6. HashPair(x, HashG1(v)) = HashPair(TreeHash(KeysTree(keys)), HashG1(Sum(keys)))
  BY <1>1, <1>5, CommitteeRootIs DEF leaf
<1>7. x = TreeHash(KeysTree(keys)) /\ HashG1(v) = HashG1(Sum(keys))
  BY <1>1, <1>2, <1>6, CommitteeRootIs, PairsDiffer
<1>8. v = Sum(keys)
  <2>1. Sum(keys) \in Int /\ KeyKind \in Int
    BY <1>1, SumsAreInt, KindsAreInt
  <2>2. DigestOf(KeyKind, v) = DigestOf(KeyKind, Sum(keys))
    BY <1>7 DEF HashG1
  <2> QED BY <2>1, <2>2, OpaqueTells
<1> QED BY <1>7, <1>8 DEF keys

(* The leaves that the contract restores the root of the keys from.         *)
Sent(update) ==
    [k \in 1..Len(Missed(update.bitList)) |->
        [index |-> Missed(update.bitList)[k], hash |-> LeafHashes(update)[k]]]

LEMMA SentIs ==
    ASSUME NEW update, IsUpdate(update), MissedAreSent(update)
    PROVE  /\ Missed(update.bitList) \in Seq(Nat) /\ LeafHashes(update) \in Seq(Digests)
           /\ Len(Missed(update.bitList)) = Len(LeafHashes(update))
           /\ Len(Sent(update)) \in Nat /\ Len(Sent(update)) = Len(update.missing)
           /\ AreLeaves(Sent(update), Size)
           /\ \A k \in 1..Len(update.missing) :
                 /\ Sent(update)[k].index = Missed(update.bitList)[k]
                 /\ Sent(update)[k].hash = HashG1(update.missing[k])
<1> DEFINE q == Missed(update.bitList)
           l == Len(update.missing)
           hs == LeafHashes(update)
<1>1. update.missing \in Seq(Int) /\ l \in Nat /\ \A k \in 1..l : update.missing[k] \in Int
  BY DEF IsUpdate
<1>2. q \in Seq(Nat) /\ Falls(q) /\ \A j \in 1..Len(q) : q[j] \in Size..(2 * Size - 1)
  BY MissedAreLeaves
<1>3. Len(q) = l
  BY DEF MissedAreSent
<1> HIDE DEF q, l
<1>4. /\ hs = [k \in 1..l |-> HashG1(update.missing[k])]
      /\ \A k \in 1..l : hs[k] = HashG1(update.missing[k]) /\ hs[k] \in Digests
  <2>1. hs = [k \in 1..l |-> HashG1(update.missing[k])]
    BY DEF LeafHashes, l
  <2>2. \A k \in 1..l : HashG1(update.missing[k]) \in Digests
    BY <1>1, OpaqueIsDigest, KindsAreInt DEF HashG1
  <2> HIDE DEF hs
  <2> QED BY <2>1, <2>2
<1>5. hs \in Seq(Digests) /\ Len(hs) = l
  <2>1. hs = [k \in 1..l |-> hs[k]]
    BY <1>4
  <2> HIDE DEF hs
  <2> QED BY <1>1, <1>4, <2>1, SequenceIs
<1> HIDE DEF hs
<1> DEFINE s == Sent(update)
<1>6. s = [k \in 1..l |-> [index |-> q[k], hash |-> hs[k]]]
  BY <1>3 DEF Sent, q, hs
<1>7. Len(s) = l /\ \A k \in 1..l : s[k].index = q[k] /\ s[k].hash = hs[k]
  BY <1>1, <1>6
<1> HIDE DEF s
<1>8. AreLeaves(s, Size)
  BY <1>1, <1>2, <1>3, <1>4, <1>7 DEF AreLeaves, Descending, Falls
<1> QED BY <1>1, <1>2, <1>3, <1>4, <1>5, <1>7, <1>8 DEF q, l, hs, s

(* What it means that an update is accepted.                                *)
LEMMA KeysAreSigners ==
    ASSUME NEW update, IsUpdate(update), MissedAreSent(update), EnoughSignatures(update),
           NEW keys \in CommitteeKeys, Agree(Sent(update), NodeHash(KeysTree(keys))),
           AggregatedPK(update) = Sum(keys)
    PROVE  LET marked == Marked(update.bitList)
           IN  /\ update.pubkey = SumOfSome(keys, marked)
               /\ Len(update.missing) + Cardinality(marked) = Size
               /\ Cardinality(marked) >= MinParticipants
<1> DEFINE marked == Marked(update.bitList)
           q == Missed(update.bitList)
           l == Len(update.missing)
           missing == update.missing
           tree == NodeHash(KeysTree(keys))
<1>1. l \in Nat /\ missing \in Seq(Int) /\ \A k \in 1..l : missing[k] \in Int
  BY DEF IsUpdate
<1>2. Len(q) = l
  BY DEF MissedAreSent
<1>3. Size \in Nat /\ MinParticipants \in Nat
  BY SizeIs
<1>4. l + Cardinality(marked) = Size /\ Cardinality(marked) \in Nat
  BY <1>2, MissedAreTheOthers
<1>5. Size - l >= MinParticipants
  BY DEF EnoughSignatures
<1>6. \A k \in 1..l : q[k] \in Size..(2 * Size - 1)
  BY <1>2, MissedAreLeaves
<1> HIDE DEF q, l, marked, tree
<1>7. \A k \in 1..l : missing[k] = keys[q[k] - Size + 1]
  <2> TAKE k \in 1..l
  <2>1. Sent(update)[k].hash = tree[Sent(update)[k].index]
    <3>1. k \in 1..Len(Sent(update))
      BY SentIs DEF l
    <3> QED BY <3>1 DEF Agree, tree
  <2>2. Sent(update)[k].index = q[k] /\ Sent(update)[k].hash = HashG1(missing[k])
    BY SentIs DEF l, q
  <2>3. tree[q[k]] = HashG1(keys[q[k] - Size + 1])
    BY <1>6, KeysTreeIs DEF tree
  <2>4. DigestOf(KeyKind, missing[k]) = DigestOf(KeyKind, keys[q[k] - Size + 1])
    BY <2>1, <2>2, <2>3 DEF HashG1
  <2>5. missing[k] \in Int /\ KeyKind \in Int /\ keys[q[k] - Size + 1] \in Int
    <3>1. q[k] - Size + 1 \in 1..Size
      BY <1>3, <1>6
    <3> QED BY <1>1, <3>1, SumsAreInt, KindsAreInt
  <2> QED BY <2>4, <2>5, OpaqueTells
<1>8. Sum(missing) = SumOf(KeysAt(keys, q), Len(q)) /\ Sum(missing) \in Int
  <2> DEFINE f == KeysAt(keys, q)
  <2>1. \A k \in 1..l : missing[k] \in Int /\ f[k] = missing[k]
    BY <1>1, <1>2, <1>7 DEF KeysAt
  <2> HIDE DEF f
  <2>2. SumOf(f, l) = SumOf(missing, l)
    BY <1>1, <2>1, SumOfSame
  <2>3. SumOf(missing, l) \in Int
    <3>1. l \in 0..l
      BY <1>1
    <3> QED BY <1>1, <3>1, SumOfEquation
  <2> QED BY <1>2, <2>2, <2>3 DEF f, Sum, l
<1>9. SumOf(KeysAt(keys, q), Len(q)) + SumOfSome(keys, marked) = Sum(keys)
  BY MissedSum DEF q, marked
<1>10. update.pubkey \in Int /\ update.pubkey + Sum(missing) = Sum(keys)
       /\ SumOfSome(keys, marked) \in Int /\ Sum(keys) \in Int
  BY SumsAreInt DEF AggregatedPK, IsUpdate
<1>11. update.pubkey = SumOfSome(keys, marked)
  BY <1>8, <1>9, <1>10
<1>12. Cardinality(marked) >= MinParticipants
  BY <1>1, <1>3, <1>4, <1>5
<1> QED BY <1>4, <1>11, <1>12 DEF marked, l

-----------------------------------------------------------------------------
(* The check of an update, step by step.                                    *)

(* The claims about committees that come up.                                *)
IsCommitteeClaim(c) ==
    /\ ArePairs(c.state) /\ c.next \in BOOLEAN
    /\ c.stateRoot = TreeHash(StateOf(c.state))
    /\ c.branch \in Seq(Digests)
    /\ IsUpdate(c.update)

KeyNodes(c) == NodeHash(KeysTree(KeysOf(c.state, c.next)))

(* The root of the keys is being restored from what was sent.               *)
IsRestoring(c, at, restored, siblings, q) ==
    /\ MissedAreSent(c.update) /\ EnoughSignatures(c.update)
    /\ siblings \in Seq(Digests)
    /\ at = "loop" => RoundIsRight(Sent(c.update), q, KeyNodes(c), Size)
    /\ at = "restored" => /\ restored \in Digests
                          /\ restored = KeyNodes(c)[1] => Agree(Sent(c.update), KeyNodes(c))

CommitteeInv ==
    /\ TypeOK
    /\ verdict # "checking" => phase = "idle"
    /\ verdict = "checking" /\ claim.kind = "committee" =>
          /\ IsCommitteeClaim(claim)
          /\ phase # "idle" => IsRestoring(claim, phase, root, decommitments, Queue)

LEMMA KeyNodesAre ==
    ASSUME NEW c, IsCommitteeClaim(c)
    PROVE  /\ KeysOf(c.state, c.next) \in CommitteeKeys
           /\ IsTree(KeyNodes(c), Size)
           /\ KeyNodes(c)[1] = TreeHash(KeysTree(KeysOf(c.state, c.next)))
<1>1. KeysOf(c.state, c.next) \in CommitteeKeys
  BY DEF IsCommitteeClaim, KeysOf, ArePairs
<1> QED BY <1>1, KeysTreeIs DEF KeyNodes

LEMMA CallRestores ==
    ASSUME NEW c, IsCommitteeClaim(c), MissedAreSent(c.update), EnoughSignatures(c.update),
           Call(Missed(c.update.bitList), LeafHashes(c.update), c.update.decommitments)
    PROVE  TypeOK' /\ IsRestoring(c, phase', root', decommitments', Queue')
<1> DEFINE is == Missed(c.update.bitList)
           hs == LeafHashes(c.update)
           ds == c.update.decommitments
           s == Sent(c.update)
<1>1. IsUpdate(c.update) /\ ds \in Seq(Digests)
  BY DEF IsCommitteeClaim, IsUpdate
<1>2. /\ is \in Seq(Nat) /\ hs \in Seq(Digests) /\ Len(is) = Len(hs)
      /\ AreLeaves(s, Size) /\ Len(s) \in Nat /\ Len(s) = Len(is)
  <2>1. Len(c.update.missing) = Len(is)
    BY DEF MissedAreSent
  <2> QED BY <1>1, <2>1, SentIs
<1>3. hs \in Seq(Hashes) /\ ds \in Seq(Hashes)
  BY <1>1, <1>2, DigestsAreClosed
<1>4. s = [k \in 1..Len(is) |-> [index |-> is[k], hash |-> hs[k]]]
  BY DEF Sent
<1>5. Call(is, hs, ds)
  OBVIOUS
<1> HIDE DEF is, hs, ds, s
<1>6. TypeOK'
  BY <1>2, <1>3, <1>5, CallKeepsType
<1>7. Queue' = s
  <2>1. Queue' = [k \in 1..Len(is) |-> [index |-> is[k], hash |-> hs[k]]]
    BY <1>2, <1>3, <1>5, CallQueues
  <2> QED BY <1>4, <2>1
<1>8. /\ decommitments' = ds
      /\ phase' = "restored" => is = <<>> /\ ds # <<>> /\ root' = ds[1]
  BY <1>5 DEF Call
<1>9. phase' = "loop" => RoundIsRight(s, s, KeyNodes(c), Size)
  BY <1>2, SizeIs, LeavesAreLayered DEF RoundIsRight
<1>10. phase' = "restored" => root' \in Digests /\ Agree(s, KeyNodes(c))
  <2>1. ds # <<>> => ds[1] \in Digests
    BY <1>1
  <2>2. is = <<>> => Agree(s, KeyNodes(c))
    BY <1>2 DEF Agree
  <2> QED BY <1>8, <2>1, <2>2
<1> QED BY <1>1, <1>6, <1>7, <1>8, <1>9, <1>10 DEF IsRestoring, s

LEMMA LoopRestores ==
    ASSUME NEW c, IsCommitteeClaim(c), TypeOK, Loop,
           IsRestoring(c, phase, root, decommitments, Queue)
    PROVE  TypeOK' /\ IsRestoring(c, phase', root', decommitments', Queue')
<1> DEFINE tree == KeyNodes(c)
           s == Sent(c.update)
<1>1. phase = "loop" /\ decommitments' = decommitments
  BY DEF Loop, Restored, HashLeft, HashBoth, HashRight, OutOfDecommitments, calldata
<1>2. TypeOK'
  BY NextTypeOK DEF Next
<1>3. /\ decommitments \in Seq(Digests) /\ Layered(Queue, Size)
      /\ Agree(Queue, tree) => Agree(s, tree)
  BY <1>1 DEF IsRestoring, RoundIsRight
<1>4. Size \in Nat \ {0} /\ IsTree(tree, Size)
  BY SizeIs, KeyNodesAre
<1> HIDE DEF tree, s
<1>5. /\ phase' = "loop" => RoundIsRight(Queue, Queue', tree, Size)
      /\ phase' = "restored" /\ root' = tree[1] => Agree(Queue, tree)
  BY <1>3, <1>4, LoopIsRight
<1>6. phase' = "loop" => RoundIsRight(s, Queue', tree, Size)
  BY <1>3, <1>5 DEF RoundIsRight
<1>7. phase' = "restored" => root' \in Digests
  <2> SUFFICES ASSUME phase' = "restored" PROVE root' \in Digests
    OBVIOUS
  <2>1. root' = hashes[head]
    BY <1>1 DEF Loop, Restored, HashLeft, HashBoth, HashRight, OutOfDecommitments
  <2>2. Queue[1].hash = hashes[head]
    BY <1>1, Views
  <2>3. 1 \in 1..Len(Queue)
    BY <1>1, QueueIs DEF TypeOK
  <2> QED BY <1>3, <2>1, <2>2, <2>3 DEF Layered
<1>8. phase' = "restored" /\ root' = tree[1] => Agree(s, tree)
  BY <1>3, <1>5
<1> QED BY <1>1, <1>2, <1>3, <1>6, <1>7, <1>8 DEF IsRestoring, tree, s

LEMMA AcceptedKeys ==
    ASSUME NEW c, IsCommitteeClaim(c), NEW x \in Digests,
           MissedAreSent(c.update), EnoughSignatures(c.update),
           x = KeyNodes(c)[1] => Agree(Sent(c.update), KeyNodes(c)),
           AcceptsCommittee(c.stateRoot, c.next, HashPair(x, HashG1(AggregatedPK(c.update))),
                            c.branch)
    PROVE  LET marked == Marked(c.update.bitList)
               keys == KeysOf(c.state, c.next)
           IN  /\ c.update.pubkey = SumOfSome(keys, marked)
               /\ Len(c.update.missing) + Cardinality(marked) = Size
               /\ Cardinality(marked) >= MinParticipants
<1> DEFINE keys == KeysOf(c.state, c.next)
           v == AggregatedPK(c.update)
           pair == c.state
           next_ == c.next
           path == c.branch
<1>1. /\ IsUpdate(c.update) /\ ArePairs(pair) /\ next_ \in BOOLEAN /\ path \in Seq(Digests)
      /\ c.stateRoot = TreeHash(StateOf(pair))
  BY DEF IsCommitteeClaim
<1>2. v \in Int
  <2> DEFINE missing == c.update.missing
             l == Len(missing)
  <2>1. c.update.pubkey \in Int /\ missing \in Seq(Int)
    BY <1>1 DEF IsUpdate
  <2>2. l \in Nat /\ l \in 0..l /\ \A k \in 1..l : missing[k] \in Int
    BY <2>1
  <2> HIDE DEF missing, l
  <2>3. SumOf(missing, l) \in Int
    BY <2>2, SumOfEquation
  <2> QED BY <2>1, <2>3 DEF AggregatedPK, Sum, missing, l
<1>3. AcceptsCommittee(TreeHash(StateOf(pair)), next_, HashPair(x, HashG1(v)), path)
  BY <1>1
<1> HIDE DEF v, pair, next_, path
<1>4. x = TreeHash(KeysTree(KeysOf(pair, next_))) /\ v = Sum(KeysOf(pair, next_))
  BY <1>1, <1>2, <1>3, AcceptedCommittee
<1>5. /\ keys \in CommitteeKeys /\ KeyNodes(c)[1] = TreeHash(KeysTree(keys))
      /\ KeyNodes(c) = NodeHash(KeysTree(keys))
  BY KeyNodesAre DEF KeyNodes
<1>6. keys = KeysOf(pair, next_)
  BY DEF pair, next_
<1>7. Agree(Sent(c.update), NodeHash(KeysTree(keys)))
  BY <1>4, <1>5, <1>6
<1>8. AggregatedPK(c.update) = Sum(keys)
  BY <1>4, <1>6 DEF v
<1> HIDE DEF keys
<1>9. LET marked == Marked(c.update.bitList)
      IN  /\ c.update.pubkey = SumOfSome(keys, marked)
          /\ Len(c.update.missing) + Cardinality(marked) = Size
          /\ Cardinality(marked) >= MinParticipants
  BY <1>1, <1>5, <1>7, <1>8, KeysAreSigners
<1> QED BY <1>9 DEF keys

LEMMA CommitteesAre == \A c \in Committees : ArePairs(c)
<1> SUFFICES ASSUME NEW c \in Committees PROVE ArePairs(c)
  OBVIOUS
<1>1. \A keys \in {c.current, c.next} : keys \in Seq(Int) /\ Len(keys) = Size
  BY OracleAssumption
<1> QED BY <1>1 DEF ArePairs, CommitteeKeys

LEMMA UpdatesAre ==
    ASSUME NEW c, ArePairs(c), NEW next_, NEW signers
    PROVE  IsUpdate(Update(c, next_, signers))
<1>1. KeysOf(c, next_) \in CommitteeKeys
  BY DEF KeysOf, ArePairs
<1> QED BY <1>1, UpdateIs DEF Update

LEMMA ClaimIs ==
    ASSUME NEW c, ArePairs(c), NEW made, NEW checked \in BOOLEAN, NEW update, IsUpdate(update),
           NEW honest
    PROVE  IsCommitteeClaim(Claim(c, made, checked, update, honest))
<1> DEFINE d == Claim(c, made, checked, update, honest)
<1>1. /\ d.state = c /\ d.next = checked /\ d.stateRoot = TreeHash(StateOf(c))
      /\ d.branch = Branch(c, made) /\ d.update = update
  BY DEF Claim
<1>2. Branch(c, made) \in Seq(Digests)
  BY BranchIsDigests
<1> HIDE DEF d
<1>3. IsCommitteeClaim(d)
  BY <1>1, <1>2 DEF IsCommitteeClaim
<1> QED BY <1>3 DEF d

LEMMA SubmitKeeps ==
    ASSUME CommitteeInv, Ready, NEW c, IsCommitteeClaim(c), Submit(c)
    PROVE  CommitteeInv' /\ SignersAreMembers'
<1>1. phase = "idle" /\ TypeOK
  BY DEF CommitteeInv, Ready
<1>2. verdict' = "checking" /\ claim' = c /\ UNCHANGED vars
  BY DEF Submit
<1>3. TypeOK'
  BY <1>1, <1>2, NextTypeOK
<1>4. phase' = "idle"
  BY <1>1, <1>2 DEF vars
<1>5. IsCommitteeClaim(claim)'
  BY <1>2
<1>6. CommitteeInv'
  BY <1>2, <1>3, <1>4, <1>5 DEF CommitteeInv
<1> QED BY <1>2, <1>6 DEF SignersAreMembers

LEMMA ProveKeeps == CommitteeInv /\ ProveSyncCommittee => CommitteeInv' /\ SignersAreMembers'
<1> SUFFICES ASSUME CommitteeInv, ProveSyncCommittee PROVE CommitteeInv' /\ SignersAreMembers'
  OBVIOUS
<1> DEFINE d(c, signers, made, checked) ==
               Claim(c, made, checked, Update(c, made, signers), made = checked)
<1>1. PICK c \in Committees, signers \in Signers, made \in BOOLEAN, checked \in BOOLEAN :
         Submit(d(c, signers, made, checked))
  BY DEF ProveSyncCommittee
<1>2. ArePairs(c)
  BY CommitteesAre
<1>3. IsCommitteeClaim(d(c, signers, made, checked))
  BY <1>2, UpdatesAre, ClaimIs
<1> HIDE DEF d
<1> QED BY <1>1, <1>3, SubmitKeeps DEF ProveSyncCommittee

LEMMA MixKeeps == CommitteeInv /\ MixSyncCommittee => CommitteeInv' /\ SignersAreMembers'
<1> SUFFICES ASSUME CommitteeInv, MixSyncCommittee PROVE CommitteeInv' /\ SignersAreMembers'
  OBVIOUS
<1> DEFINE mixed(c, mix, parts) ==
               LET mine == Update(c, FALSE, mix[1])
                   other == Update(c, FALSE, mix[2])
               IN  [p \in Parts |-> IF p \in parts THEN other[p] ELSE mine[p]]
           d(c, mix, parts) == Claim(c, FALSE, FALSE, mixed(c, mix, parts), FALSE)
<1>1. PICK c \in Committees, mix \in Mixes, parts \in SUBSET Parts : Submit(d(c, mix, parts))
  BY DEF MixSyncCommittee
<1>2. ArePairs(c)
  BY CommitteesAre
<1>3. IsUpdate(mixed(c, mix, parts))
  <2> DEFINE mine == Update(c, FALSE, mix[1])
             other == Update(c, FALSE, mix[2])
             u == [p \in Parts |-> IF p \in parts THEN other[p] ELSE mine[p]]
  <2>1. IsUpdate(mine) /\ IsUpdate(other)
    BY <1>2, UpdatesAre
  <2> HIDE DEF mine, other
  <2>2. /\ u.pubkey \in {mine.pubkey, other.pubkey}
        /\ u.missing \in {mine.missing, other.missing}
        /\ u.decommitments \in {mine.decommitments, other.decommitments}
    BY DEF Parts
  <2> HIDE DEF u
  <2>3. IsUpdate(u)
    BY <2>1, <2>2 DEF IsUpdate
  <2> QED BY <2>3 DEF u, mine, other
<1> HIDE DEF mixed
<1>4. IsCommitteeClaim(d(c, mix, parts))
  BY <1>2, <1>3, ClaimIs
<1> HIDE DEF d
<1> QED BY <1>1, <1>4, SubmitKeeps DEF MixSyncCommittee

LEMMA CheckKeeps ==
    ASSUME CommitteeInv, Ready, NEW c, NEW ok, Check(c, ok), c.kind # "committee"
    PROVE  CommitteeInv' /\ SignersAreMembers'
<1>1. phase = "idle" /\ TypeOK
  BY DEF CommitteeInv, Ready
<1>2. verdict' # "checking" /\ claim' = c /\ UNCHANGED vars
  BY DEF Check
<1>3. TypeOK'
  BY <1>1, <1>2, NextTypeOK
<1>4. phase' = "idle"
  BY <1>1, <1>2 DEF vars
<1>5. CommitteeInv'
  BY <1>2, <1>3, <1>4 DEF CommitteeInv
<1> QED BY <1>2, <1>5 DEF SignersAreMembers

(* The claims that are checked without a loop.                              *)
Checks ==
    \/ ProveLeaf \/ ProveExecutionStateRoot \/ ProveReceiptsRoot \/ ProveFinality
    \/ ProveList \/ ProveKey

LEMMA ChecksAre == Checks => Ready /\ \E c, ok : Check(c, ok) /\ c.kind # "committee"
<1> SUFFICES ASSUME Checks PROVE Ready /\ \E c, ok : Check(c, ok) /\ c.kind # "committee"
  OBVIOUS
<1>1. CASE ProveLeaf
  <2>1. \E t, idx, ok : Check([kind |-> "leaf", tree |-> t, idx |-> idx, honest |-> TRUE], ok)
    BY <1>1 DEF ProveLeaf
  <2> QED BY <1>1, <2>1 DEF ProveLeaf
<1>2. CASE ProveExecutionStateRoot
  <2>1. \E s, l, h, ok :
           Check([kind |-> "stateRoot", source |-> s, leaf |-> l, honest |-> h], ok)
    BY <1>2 DEF ProveExecutionStateRoot
  <2> QED BY <1>2, <2>1 DEF ProveExecutionStateRoot
<1>3. CASE ProveReceiptsRoot
  <2>1. \E s, t, l, h, ok :
           Check([kind |-> "receiptsRoot", source |-> s, target |-> t, leaf |-> l,
                  honest |-> h], ok)
    BY <1>3 DEF ProveReceiptsRoot
  <2> QED BY <1>3, <2>1 DEF ProveReceiptsRoot
<1>4. CASE ProveFinality
  <2>1. \E f, x, h, ok :
           Check([kind |-> "finality", finalized |-> f, header |-> x, honest |-> h], ok)
    BY <1>4 DEF ProveFinality
  <2> QED BY <1>4, <2>1 DEF ProveFinality
<1>5. CASE ProveList
  <2>1. \E l, o, h, ok : Check([kind |-> "list", list |-> l, other |-> o, honest |-> h], ok)
    BY <1>5 DEF ProveList
  <2> QED BY <1>5, <2>1 DEF ProveList
<1>6. CASE ProveKey
  <2>1. \E k, s, h, ok : Check([kind |-> "key", key |-> k, sent |-> s, honest |-> h], ok)
    BY <1>6 DEF ProveKey
  <2> QED BY <1>6, <2>1 DEF ProveKey
<1> QED BY <1>1, <1>2, <1>3, <1>4, <1>5, <1>6 DEF Checks

LEMMA RequireSignaturesKeeps ==
    CommitteeInv /\ RequireSignatures => CommitteeInv' /\ SignersAreMembers'
<1> SUFFICES ASSUME CommitteeInv, RequireSignatures PROVE CommitteeInv' /\ SignersAreMembers'
  OBVIOUS
<1>1. /\ verdict = "checking" /\ claim.kind = "committee" /\ phase = "idle" /\ claim' = claim
      /\ IsCommitteeClaim(claim) /\ TypeOK
  BY DEF CommitteeInv, RequireSignatures, IsCommittee
<1>2. CASE EnoughSignatures(claim.update) /\ MissedAreSent(claim.update)
  <2>1. /\ Call(Missed(claim.update.bitList), LeafHashes(claim.update),
                claim.update.decommitments)
        /\ verdict' = verdict
    BY <1>2 DEF RequireSignatures
  <2>2. TypeOK' /\ IsRestoring(claim, phase', root', decommitments', Queue')
    BY <1>1, <1>2, <2>1, CallRestores
  <2> QED BY <1>1, <2>1, <2>2 DEF CommitteeInv, SignersAreMembers
<1>3. CASE ~(EnoughSignatures(claim.update) /\ MissedAreSent(claim.update))
  <2>1. verdict' = "rejected" /\ UNCHANGED vars
    BY <1>3 DEF RequireSignatures
  <2>2. TypeOK'
    BY <1>1, <2>1, NextTypeOK
  <2>3. phase' = "idle"
    BY <1>1, <2>1 DEF vars
  <2> QED BY <2>1, <2>2, <2>3 DEF CommitteeInv, SignersAreMembers
<1> QED BY <1>2, <1>3

LEMMA RestoreKeysRootKeeps ==
    CommitteeInv /\ RestoreKeysRoot => CommitteeInv' /\ SignersAreMembers'
<1> SUFFICES ASSUME CommitteeInv, RestoreKeysRoot PROVE CommitteeInv' /\ SignersAreMembers'
  OBVIOUS
<1>1. /\ verdict = "checking" /\ claim.kind = "committee" /\ Loop
      /\ claim' = claim /\ verdict' = verdict /\ IsCommitteeClaim(claim) /\ TypeOK
  BY DEF CommitteeInv, RestoreKeysRoot, IsCommittee
<1>2. phase = "loop"
  BY <1>1 DEF Loop, Restored, HashLeft, HashBoth, HashRight, OutOfDecommitments
<1>3. IsRestoring(claim, phase, root, decommitments, Queue)
  BY <1>1, <1>2 DEF CommitteeInv
<1>4. TypeOK' /\ IsRestoring(claim, phase', root', decommitments', Queue')
  BY <1>1, <1>3, LoopRestores
<1> QED BY <1>1, <1>4 DEF CommitteeInv, SignersAreMembers

LEMMA RequireCommitteeKeeps ==
    CommitteeInv /\ RequireCommittee => CommitteeInv' /\ SignersAreMembers'
<1> SUFFICES ASSUME CommitteeInv, RequireCommittee PROVE CommitteeInv' /\ SignersAreMembers'
  OBVIOUS
<1>1. /\ verdict = "checking" /\ claim.kind = "committee" /\ claim' = claim /\ Take
      /\ IsCommitteeClaim(claim) /\ TypeOK
  BY DEF CommitteeInv, RequireCommittee, IsCommittee
<1>2. phase # "idle" /\ phase' = "idle" /\ TypeOK'
  BY <1>1, TakeKeepsType DEF Take
<1>3. IsRestoring(claim, phase, root, decommitments, Queue)
  BY <1>1, <1>2 DEF CommitteeInv
<1>4. verdict' \in {"accepted", "rejected"}
  BY DEF RequireCommittee
<1>5. verdict' = "accepted" =>
         phase = "restored" /\ AcceptsCommittee(claim.stateRoot, claim.next, Committee, claim.branch)
  BY DEF RequireCommittee
<1>6. ASSUME verdict' = "accepted"
      PROVE  LET marked == Marked(claim.update.bitList)
                 keys == KeysOf(claim.state, claim.next)
             IN  /\ claim.update.pubkey = SumOfSome(keys, marked)
                 /\ Len(claim.update.missing) + Cardinality(marked) = Size
                 /\ Cardinality(marked) >= MinParticipants
  <2>1. /\ root \in Digests /\ MissedAreSent(claim.update) /\ EnoughSignatures(claim.update)
        /\ root = KeyNodes(claim)[1] => Agree(Sent(claim.update), KeyNodes(claim))
    BY <1>3, <1>5, <1>6 DEF IsRestoring
  <2>2. AcceptsCommittee(claim.stateRoot, claim.next,
                         HashPair(root, HashG1(AggregatedPK(claim.update))), claim.branch)
    BY <1>5, <1>6 DEF Committee
  <2> QED BY <1>1, <2>1, <2>2, AcceptedKeys
<1>7. CommitteeInv'
  BY <1>2, <1>4 DEF CommitteeInv
<1> QED BY <1>1, <1>6, <1>7 DEF SignersAreMembers

(* While an update is checked, the multiproof's loop works on the keys that  *)
(* the update sends, at the places its bits name, and what has been hashed  *)
(* from them so far, layer by layer (_processUpdate).                       *)
THEOREM CommitteeInvariant == OracleSpec => [](CommitteeInv /\ SignersAreMembers)
<1> DEFINE Inv == CommitteeInv /\ SignersAreMembers
<1>1. OracleInit => Inv
  <2> SUFFICES ASSUME OracleInit PROVE Inv
    OBVIOUS
  <2>1. TypeOK /\ phase = "idle" /\ verdict = "none"
    BY InitTypeOK DEF OracleInit, Init
  <2> QED BY <2>1 DEF CommitteeInv, SignersAreMembers
<1>2. Inv /\ [OracleNext]_oracleVars => Inv'
  <2> SUFFICES ASSUME CommitteeInv, SignersAreMembers, [OracleNext]_oracleVars
               PROVE  CommitteeInv' /\ SignersAreMembers'
    OBVIOUS
  <2>1. CASE Checks
    BY <2>1, ChecksAre, CheckKeeps
  <2>2. CASE ProveSyncCommittee
    BY <2>2, ProveKeeps
  <2>3. CASE MixSyncCommittee
    BY <2>3, MixKeeps
  <2>4. CASE RequireSignatures
    BY <2>4, RequireSignaturesKeeps
  <2>5. CASE RestoreKeysRoot
    BY <2>5, RestoreKeysRootKeeps
  <2>6. CASE RequireCommittee
    BY <2>6, RequireCommitteeKeeps
  <2>7. CASE Done
    <3>1. verdict # "checking" /\ verdict' = "none" /\ UNCHANGED vars
      BY <2>7 DEF Done
    <3>2. TypeOK' /\ phase' = "idle"
      BY <3>1, NextTypeOK DEF CommitteeInv, vars
    <3> QED BY <3>1, <3>2 DEF CommitteeInv, SignersAreMembers
  <2>8. CASE UNCHANGED oracleVars
    <3>1. claim' = claim /\ verdict' = verdict /\ UNCHANGED vars
      BY <2>8 DEF oracleVars
    <3>2. TypeOK'
      BY <3>1, NextTypeOK DEF CommitteeInv
    <3>3. phase' = phase /\ root' = root /\ decommitments' = decommitments /\ Queue' = Queue
      BY <3>1, StandStill DEF vars, calldata
    <3>4. CommitteeInv'
      BY <3>1, <3>2, <3>3 DEF CommitteeInv
    <3> QED BY <3>1, <3>4 DEF SignersAreMembers
  <2> QED BY <2>1, <2>2, <2>3, <2>4, <2>5, <2>6, <2>7, <2>8 DEF OracleNext, Checks
<1> QED BY <1>1, <1>2, PTL DEF OracleSpec

(* For committees of every size, and whatever an update is put together     *)
(* from, what _processUpdate accepts is signed by the members whose bits    *)
(* are set and by nobody else, and they are enough.                         *)
THEOREM AcceptedSignersAreMembers == OracleSpec => []SignersAreMembers
BY CommitteeInvariant, PTL

(* A transaction calls the multiproof with arrays of the same length.       *)
LEMMA CommitteeCall ==
    ASSUME CommitteeInv, RequireSignatures, EnoughSignatures(claim.update),
           MissedAreSent(claim.update)
    PROVE  Abstract!Call
<1> DEFINE is == Missed(claim.update.bitList)
           hs == LeafHashes(claim.update)
           ds == claim.update.decommitments
<1>1. Call(is, hs, ds)
  BY DEF RequireSignatures
<1>2. IsUpdate(claim.update) /\ ds \in Seq(Digests)
  BY DEF CommitteeInv, RequireSignatures, IsCommittee, IsCommitteeClaim, IsUpdate
<1>3. Len(claim.update.missing) = Len(is)
  BY DEF MissedAreSent
<1>4. is \in Seq(Nat) /\ hs \in Seq(Digests) /\ Len(is) = Len(hs)
  BY <1>2, <1>3, SentIs
<1>5. hs \in Seq(Hashes) /\ ds \in Seq(Hashes)
  BY <1>2, <1>4, DigestsAreClosed
<1> HIDE DEF is, hs, ds
<1> QED BY <1>1, <1>4, <1>5, CallIsCall

LEMMA VarsStand == UNCHANGED vars => UNCHANGED Abstract!vars
<1> SUFFICES ASSUME UNCHANGED vars PROVE UNCHANGED Abstract!vars
  OBVIOUS
<1> QED BY StandStill DEF vars, calldata, Abstract!vars

(* In every transaction that checks an update of the light client the loop  *)
(* in place takes the steps of the oracle's loop over a queue.              *)
THEOREM CommitteeChecksImplementHashQueue == OracleSpec => ImplementsHashQueue
<1>1. CommitteeInv /\ [OracleNext]_oracleVars => [Abstract!Next]_(Abstract!vars)
  <2> SUFFICES ASSUME CommitteeInv, [OracleNext]_oracleVars
               PROVE  [Abstract!Next]_(Abstract!vars)
    OBVIOUS
  <2>1. CASE Checks
    <3>1. UNCHANGED vars
      BY <2>1, ChecksAre DEF Check
    <3> QED BY <3>1, VarsStand
  <2>2. CASE ProveSyncCommittee \/ MixSyncCommittee \/ Done
    <3>1. UNCHANGED vars
      BY <2>2 DEF ProveSyncCommittee, MixSyncCommittee, Done, Submit
    <3> QED BY <3>1, VarsStand
  <2>3. CASE RequireSignatures
    <3>1. CASE EnoughSignatures(claim.update) /\ MissedAreSent(claim.update)
      BY <2>3, <3>1, CommitteeCall DEF Abstract!Next
    <3>2. CASE ~(EnoughSignatures(claim.update) /\ MissedAreSent(claim.update))
      <4>1. UNCHANGED vars
        BY <2>3, <3>2 DEF RequireSignatures
      <4> QED BY <4>1, VarsStand
    <3> QED BY <3>1, <3>2
  <2>4. CASE RestoreKeysRoot
    <3>1. TypeOK /\ Loop
      BY <2>4 DEF RestoreKeysRoot, CommitteeInv
    <3> QED BY <3>1, LoopIsLoop DEF Abstract!Next
  <2>5. CASE RequireCommittee
    <3>1. Take
      BY <2>5 DEF RequireCommittee
    <3> QED BY <3>1, TakeIsTake DEF Abstract!Next
  <2>6. CASE UNCHANGED oracleVars
    <3>1. UNCHANGED vars
      BY <2>6 DEF oracleVars
    <3> QED BY <3>1, VarsStand
  <2> QED BY <2>1, <2>2, <2>3, <2>4, <2>5, <2>6 DEF OracleNext, Checks
<1>2. OracleInit => Abstract!Init
  BY InitIsInit DEF OracleInit
<1> QED BY <1>1, <1>2, CommitteeInvariant, PTL
           DEF OracleSpec, ImplementsHashQueue, Abstract!Spec

-----------------------------------------------------------------------------
(* Branches climb from what they prove to the root.                         *)

(* What a path makes of a leaf, step by step.                               *)
Ascends(f, leaf, g, path) ==
    /\ f[0] = leaf
    /\ \A i \in 1..Len(path) : f[i] = Up(g \div TwoTo[i - 1], path[i], f[i - 1])

(* A path leads from what is at the node g to what is at a node above it.   *)
Reaches(leaf, g, path, x, top) ==
    /\ \E f : Ascends(f, leaf, g, path) /\ f[Len(path)] = x
    /\ g \div TwoTo[Len(path)] = top

LEMMA ReachesLeads ==
    ASSUME NEW leaf \in Digests, NEW g \in Nat, NEW path \in Seq(Digests), NEW x,
           Reaches(leaf, g, path, x, 1)
    PROVE  Leads(leaf, g, path, x)
<1> DEFINE m == Len(path)
<1>1. PICK f : Ascends(f, leaf, g, path) /\ f[m] = x
  BY DEF Reaches
<1>2. PICK h : Climbs(h, leaf, g, path) /\ restoreMerkleRoot(leaf, g, path) = h[m]
  BY RestoreIs
<1>3. m \in Nat
  OBVIOUS
<1>4. h[0] = f[0]
  BY <1>1, <1>2 DEF Ascends, Climbs
<1>5. \A i \in 0..(m - 1) : h[i] = f[i] => h[i + 1] = f[i + 1]
  <2> SUFFICES ASSUME NEW i \in 0..(m - 1), h[i] = f[i] PROVE h[i + 1] = f[i + 1]
    OBVIOUS
  <2>1. i + 1 \in 1..m /\ (i + 1) - 1 = i
    BY <1>3
  <2> HIDE DEF m
  <2>2. h[i + 1] = Up(g \div TwoTo[(i + 1) - 1], path[i + 1], h[(i + 1) - 1])
    BY <1>2, <2>1 DEF Climbs, m
  <2>3. f[i + 1] = Up(g \div TwoTo[(i + 1) - 1], path[i + 1], f[(i + 1) - 1])
    BY <1>1, <2>1 DEF Ascends, m
  <2> QED BY <2>1, <2>2, <2>3
<1> HIDE DEF m
<1>6. \A i \in 0..m : h[i] = f[i]
  BY <1>3, <1>4, <1>5, ClimbsAgree, ZenonT(20)
<1>7. h[m] = x
  BY <1>1, <1>3, <1>6
<1>8. IsProofLength(g, path)
  BY DEF IsProofLength, Reaches
<1> QED BY <1>2, <1>7, <1>8 DEF Leads

LEMMA MonotoneTimes == \A a, x, y \in Nat : x <= y => a * x <= a * y
OBVIOUS

LEMMA DivOfDiv ==
    ASSUME NEW g \in Nat, NEW a \in Nat \ {0}, NEW b \in Nat \ {0}
    PROVE  (g \div a) \div b = g \div (a * b)
<1> DEFINE q == g \div a
           p == q \div b
<1>1. q \in Int /\ a * q <= g /\ g < a * q + a
  BY DivBounds
<1>2. q \in Nat
  BY <1>1
<1>3. p \in Int /\ b * p <= q /\ q < b * p + b
  <2> HIDE DEF q
  <2> QED BY <1>2, DivBounds
<1> HIDE DEF q, p
<1>4. p \in Nat /\ b * p \in Nat
  BY <1>2, <1>3
<1>5. a * (b * p) <= a * q
  BY <1>2, <1>3, <1>4, MonotoneTimes
<1>6. a * (q + 1) <= a * (b * p + b)
  <2>1. q + 1 \in Nat /\ b * p + b \in Nat /\ q + 1 <= b * p + b
    BY <1>2, <1>3, <1>4
  <2> QED BY <2>1, MonotoneTimes
<1>7. a * (b * p) = (a * b) * p /\ a * (b * p + b) = (a * b) * p + a * b /\ a * (q + 1) = a * q + a
      /\ a * b \in Nat \ {0} /\ (a * b) * p \in Int
  BY <1>2, <1>4
<1>8. (a * b) * p <= g /\ g < (a * b) * p + a * b
  BY <1>1, <1>2, <1>5, <1>6, <1>7
<1>9. g \div (a * b) = p
  <2> DEFINE c == a * b
  <2>1. c \in Nat \ {0} /\ c * p <= g /\ g < c * p + c /\ g \in Int
    BY <1>7, <1>8
  <2> HIDE DEF c
  <2>2. g \div c = p
    BY <1>4, <2>1, DivIs
  <2> QED BY <2>2 DEF c
<1> QED BY <1>9 DEF p, q

LEMMA ReachesNone == \A x : \A g \in Nat : Reaches(x, g, <<>>, x, g)
<1> SUFFICES ASSUME NEW x, NEW g \in Nat PROVE Reaches(x, g, <<>>, x, g)
  OBVIOUS
<1> DEFINE f == [i \in {0} |-> x]
<1>1. Ascends(f, x, g, <<>>) /\ f[Len(<<>>)] = x
  BY DEF Ascends
<1>2. g \div TwoTo[Len(<<>>)] = g
  <2>1. Len(<<>>) = 0 /\ TwoTo[0] = 1
    BY TwoToEquation
  <2> QED BY <2>1
<1> QED BY <1>1, <1>2 DEF Reaches

LEMMA ReachesOne ==
    ASSUME NEW x, NEW s, NEW g \in Nat
    PROVE  Reaches(x, g, <<s>>, Up(g, s, x), g \div 2)
<1> DEFINE f == [i \in {0, 1} |-> IF i = 0 THEN x ELSE Up(g, s, x)]
           path == <<s>>
<1>1. Len(path) = 1 /\ path[1] = s /\ 1..Len(path) = {1}
  OBVIOUS
<1>2. TwoTo[0] = 1 /\ TwoTo[1] = 2
  BY TwoToEquation, Powers
<1>3. g \div TwoTo[0] = g /\ g \div TwoTo[1] = g \div 2
  BY <1>2
<1>4. f[0] = x /\ f[1] = Up(g, s, x)
  OBVIOUS
<1> HIDE DEF f, path
<1>5. Ascends(f, x, g, path)
  BY <1>1, <1>3, <1>4 DEF Ascends
<1>6. Reaches(x, g, path, Up(g, s, x), g \div 2)
  BY <1>1, <1>3, <1>4, <1>5 DEF Reaches
<1> QED BY <1>6 DEF path

LEMMA ReachesOn ==
    ASSUME NEW S, NEW p \in Seq(S), NEW q \in Seq(S), NEW leaf, NEW g \in Nat, NEW x,
           NEW m \in Nat, NEW r, NEW top, Reaches(leaf, g, p, x, m), Reaches(x, m, q, r, top)
    PROVE  Reaches(leaf, g, p \o q, r, top)
<1> DEFINE a == Len(p)
           b == Len(q)
           path == p \o q
<1>1. PICK f : Ascends(f, leaf, g, p) /\ f[a] = x
  BY DEF Reaches
<1>2. PICK h : Ascends(h, x, m, q) /\ h[b] = r
  BY DEF Reaches
<1>3. /\ a \in Nat /\ b \in Nat /\ Len(path) = a + b
      /\ \A i \in 1..a : path[i] = p[i]
      /\ \A i \in 1..b : path[a + i] = q[i]
  BY ConcatProperties
<1>4. g \div TwoTo[a] = m /\ m \div TwoTo[b] = top
  BY DEF Reaches
<1>5. f[0] = leaf /\ \A i \in 1..a : f[i] = Up(g \div TwoTo[i - 1], p[i], f[i - 1])
  BY <1>1 DEF Ascends
<1>6. h[0] = x /\ \A i \in 1..b : h[i] = Up(m \div TwoTo[i - 1], q[i], h[i - 1])
  BY <1>2 DEF Ascends
<1>7. \A j \in Nat : m \div TwoTo[j] = g \div TwoTo[a + j]
  <2> TAKE j \in Nat
  <2>1. TwoTo[a] \in Nat \ {0} /\ TwoTo[j] \in Nat \ {0}
    BY <1>3, TwoToEquation
  <2>2. (g \div TwoTo[a]) \div TwoTo[j] = g \div (TwoTo[a] * TwoTo[j])
    BY <2>1, DivOfDiv
  <2>3. TwoTo[a + j] = TwoTo[a] * TwoTo[j]
    BY <1>3, TwoToAdds
  <2> QED BY <1>4, <2>2, <2>3
<1> DEFINE e == [i \in 0..(a + b) |-> IF i <= a THEN f[i] ELSE h[i - a]]
<1>8. /\ \A i \in 0..a : e[i] = f[i]
      /\ \A i \in 0..b : e[a + i] = h[i]
  <2>1. \A i \in 0..a : i \in 0..(a + b) /\ i <= a
    BY <1>3
  <2>2. ASSUME NEW i \in 0..b PROVE e[a + i] = h[i]
    <3>1. a + i \in 0..(a + b) /\ (a + i) - a = i /\ (a + i <= a <=> i = 0) /\ a + 0 = a
      BY <1>3
    <3>2. e[a + i] = IF a + i <= a THEN f[a + i] ELSE h[(a + i) - a]
      BY <3>1
    <3> HIDE DEF e, a, b
    <3> QED BY <1>1, <1>6, <3>1, <3>2
  <2> HIDE DEF a, b
  <2> QED BY <2>1, <2>2
<1> HIDE DEF e, a, b, path
<1>9. ASSUME NEW i \in 1..(a + b)
      PROVE  e[i] = Up(g \div TwoTo[i - 1], path[i], e[i - 1])
  <2>1. CASE i <= a
    <3>1. i \in 1..a /\ i \in 0..a /\ i - 1 \in 0..a
      BY <1>3, <2>1
    <3> QED BY <1>3, <1>5, <1>8, <3>1
  <2>2. CASE i > a
    <3> DEFINE j == i - a
    <3>1. j \in 1..b /\ j \in 0..b /\ j - 1 \in 0..b /\ j - 1 \in Nat /\ a + j = i
          /\ a + (j - 1) = i - 1
      BY <1>3, <2>2
    <3> HIDE DEF j
    <3>2. e[i] = h[j] /\ e[i - 1] = h[j - 1] /\ path[i] = q[j]
      BY <1>3, <1>8, <3>1
    <3>3. m \div TwoTo[j - 1] = g \div TwoTo[i - 1]
      BY <1>7, <3>1
    <3> QED BY <1>6, <3>1, <3>2, <3>3
  <2> QED BY <1>3, <2>1, <2>2
<1>10. e[0] = leaf /\ e[a + b] = r
  <2>1. 0 \in 0..a /\ b \in 0..b
    BY <1>3
  <2> QED BY <1>2, <1>5, <1>8, <2>1 DEF b
<1>11. Ascends(e, leaf, g, path)
  BY <1>3, <1>9, <1>10 DEF Ascends
<1>12. g \div TwoTo[a + b] = top
  BY <1>3, <1>4, <1>7
<1> QED BY <1>3, <1>10, <1>11, <1>12 DEF Reaches, path

LEMMA SameSequence ==
    ASSUME NEW S, NEW s \in Seq(S), NEW q \in Seq(S), Len(s) = Len(q),
           \A i \in 1..Len(s) : s[i] = q[i]
    PROVE  s = q
OBVIOUS

LEMMA SliceOfSlice ==
    ASSUME NEW S, NEW leaves \in Seq(S), NEW first \in Nat, NEW m \in Nat \ {0}
    PROVE  /\ Slice(Slice(leaves, first, 2 * m), 0, m) = Slice(leaves, first, m)
           /\ Slice(Slice(leaves, first, 2 * m), m, m) = Slice(leaves, first + m, m)
<1> DEFINE s == Slice(leaves, first, 2 * m)
           a == Slice(s, 0, m)
           b == Slice(s, m, m)
           c == Slice(leaves, first, m)
           d == Slice(leaves, first + m, m)
<1> DEFINE k == 2 * m
<1>0. k \in Nat
  OBVIOUS
<1>1. s \in Seq(S) /\ IsSlice(s, leaves, first, 2 * m)
  <2> HIDE DEF k
  <2>1. Slice(leaves, first, k) \in Seq(S) /\ IsSlice(Slice(leaves, first, k), leaves, first, k)
    BY <1>0, SliceIs
  <2> QED BY <2>1 DEF k
<1> HIDE DEF k
<1>2. 0 \in Nat /\ m \in Nat /\ first + m \in Nat
  OBVIOUS
<1> HIDE DEF s
<1>3. /\ a \in Seq(S) /\ IsSlice(a, s, 0, m)
      /\ b \in Seq(S) /\ IsSlice(b, s, m, m)
  BY <1>1, <1>2, SliceIs
<1>4. /\ c \in Seq(S) /\ IsSlice(c, leaves, first, m)
      /\ d \in Seq(S) /\ IsSlice(d, leaves, first + m, m)
  BY <1>2, SliceIs
<1> HIDE DEF a, b, c, d
<1>5. Len(leaves) \in Nat /\ Len(s) \in Nat /\ Len(a) \in Nat /\ Len(b) \in Nat
      /\ Len(c) \in Nat /\ Len(d) \in Nat /\ Len(<<>>) = 0
  BY <1>1, <1>3, <1>4
<1>6. Len(s) = IF first + 2 * m <= Len(leaves) THEN 2 * m
               ELSE IF first <= Len(leaves) THEN Len(leaves) - first ELSE 0
  BY <1>1, <1>5 DEF IsSlice
<1>7. /\ Len(c) = IF first + m <= Len(leaves) THEN m
                  ELSE IF first <= Len(leaves) THEN Len(leaves) - first ELSE 0
      /\ Len(d) = IF (first + m) + m <= Len(leaves) THEN m
                  ELSE IF first + m <= Len(leaves) THEN Len(leaves) - (first + m) ELSE 0
  BY <1>4, <1>5 DEF IsSlice
<1>8. /\ Len(a) = IF m <= Len(s) THEN m ELSE Len(s)
      /\ Len(b) = IF 2 * m <= Len(s) THEN m ELSE IF m <= Len(s) THEN Len(s) - m ELSE 0
  BY <1>3, <1>5 DEF IsSlice
<1>9. Len(a) = Len(c) /\ Len(b) = Len(d)
  BY <1>5, <1>6, <1>7, <1>8
<1>10. /\ \A i \in 1..Len(s) : s[i] = leaves[first + i]
       /\ \A i \in 1..Len(a) : 0 + i \in 1..Len(s) /\ a[i] = s[0 + i]
       /\ \A i \in 1..Len(b) : m + i \in 1..Len(s) /\ b[i] = s[m + i]
       /\ \A i \in 1..Len(c) : c[i] = leaves[first + i]
       /\ \A i \in 1..Len(d) : d[i] = leaves[(first + m) + i]
  BY <1>1, <1>3, <1>4 DEF IsSlice
<1>11. \A i \in 1..Len(a) : a[i] = c[i]
  <2> TAKE i \in 1..Len(a)
  <2>1. 0 + i = i /\ i \in 1..Len(c)
    BY <1>5, <1>9
  <2> QED BY <1>10, <2>1
<1>12. \A i \in 1..Len(b) : b[i] = d[i]
  <2> TAKE i \in 1..Len(b)
  <2>1. first + (m + i) = (first + m) + i /\ i \in 1..Len(d)
    BY <1>5, <1>9
  <2>2. b[i] = leaves[first + (m + i)]
    BY <1>10
  <2> QED BY <1>10, <2>1, <2>2
<1>13. a = c
  BY <1>3, <1>4, <1>9, <1>11, SameSequence
<1>14. b = d
  BY <1>3, <1>4, <1>9, <1>12, SameSequence
<1> QED BY <1>13, <1>14 DEF a, b, c, d, s

LEMMA SliceOne ==
    ASSUME NEW S, NEW leaves \in Seq(S), NEW i \in 0..(Len(leaves) - 1)
    PROVE  Slice(leaves, i, 1) \in Seq(S) /\ Slice(leaves, i, 1) # <<>>
           /\ Slice(leaves, i, 1)[1] = leaves[i + 1]
<1>1. i \in Nat /\ 1 \in Nat /\ Len(leaves) \in Nat /\ i + 1 <= Len(leaves)
  OBVIOUS
<1>2. Slice(leaves, i, 1) \in Seq(S) /\ IsSlice(Slice(leaves, i, 1), leaves, i, 1)
  BY <1>1, SliceIs
<1> DEFINE s == Slice(leaves, i, 1)
<1> HIDE DEF s
<1>3. s \in Seq(S) /\ IsSlice(s, leaves, i, 1)
  BY <1>2 DEF s
<1>4. Len(s) = 1
  BY <1>1, <1>3 DEF IsSlice
<1>5. 1 \in 1..Len(s) /\ s # <<>>
  <2>1. 1 \in 1..1 /\ Len(<<>>) = 0
    OBVIOUS
  <2> QED BY <1>4, <2>1
<1>6. s[1] = leaves[i + 1]
  BY <1>3, <1>5 DEF IsSlice
<1> QED BY <1>3, <1>5, <1>6 DEF s

LEMMA SliceAll ==
    ASSUME NEW S, NEW leaves \in Seq(S), NEW k \in Nat, Len(leaves) <= k
    PROVE  Slice(leaves, 0, k) = leaves
<1> DEFINE s == Slice(leaves, 0, k)
<1>1. s \in Seq(S) /\ IsSlice(s, leaves, 0, k)
  BY SliceIs
<1>2. Len(leaves) \in Nat /\ 0 + k = k
  OBVIOUS
<1> HIDE DEF s
<1>3. Len(s) = Len(leaves)
  BY <1>1, <1>2 DEF IsSlice
<1>4. \A i \in 1..Len(s) : s[i] = leaves[i]
  <2> TAKE i \in 1..Len(s)
  <2>1. 0 + i = i
    OBVIOUS
  <2> QED BY <1>1, <2>1 DEF IsSlice
<1>5. s = leaves
  BY <1>1, <1>3, <1>4, SameSequence
<1> QED BY <1>5 DEF s

(* The ancestors of a leaf, counted from the leaves of its tree and from    *)
(* those of all trees.                                                      *)
LEMMA BelowDiv ==
    ASSUME NEW g \in Nat, NEW v \in Nat, NEW k \in Nat \ {0}, NEW idx \in Nat
    PROVE  (g * (v * k) + idx) \div k = g * v + idx \div k
<1> DEFINE q == idx \div k
           e == g * v
<1>1. q \in Int /\ k * q <= idx /\ idx < k * q + k
  BY DivBounds
<1>2. e \in Nat
  OBVIOUS
<1>3. g * (v * k) = k * e
  OBVIOUS
<1> HIDE DEF q, e
<1>4. k * (e + q) = k * e + k * q /\ k * e \in Int /\ k * q \in Int /\ e + q \in Int
      /\ k * e + idx \in Int
  BY <1>1, <1>2
<1>5. k * (e + q) <= k * e + idx /\ k * e + idx < k * (e + q) + k
  BY <1>1, <1>4
<1>6. (k * e + idx) \div k = e + q
  <2> DEFINE a == k * e + idx
             d == e + q
  <2>1. a \in Int /\ d \in Int /\ k * d <= a /\ a < k * d + k
    BY <1>4, <1>5
  <2> HIDE DEF a, d
  <2>2. a \div k = d
    BY <2>1, DivIs
  <2> QED BY <2>2 DEF a, d
<1> QED BY <1>3, <1>6 DEF q, e

-----------------------------------------------------------------------------
(* Slices of the leaves, layer by layer.                                    *)

(* Two slices side by side have the digest of both.                         *)
LEMMA HalvesMeet ==
    ASSUME NEW leaves \in Seq(Hashes), NEW k \in Nat \ {0}, NEW first \in Nat
    PROVE  merkle[2 * k][Slice(leaves, first, 2 * k)] =
              HashPair(merkle[k][Slice(leaves, first, k)], merkle[k][Slice(leaves, first + k, k)])
<1> DEFINE m == 2 * k
           s == Slice(leaves, first, m)
<1>1. m \in Nat
  OBVIOUS
<1> HIDE DEF m
<1>2. s \in Seq(Hashes) /\ IsSlice(s, leaves, first, m)
  BY <1>1, SliceIs
<1>3. Len(s) <= m
  <2>1. Len(leaves) \in Nat
    OBVIOUS
  <2> QED BY <1>1, <1>2, <2>1 DEF IsSlice
<1> HIDE DEF s
<1>4. Len(s) <= 2 * k
  BY <1>3 DEF m
<1>5. merkle[2 * k][s] = HashPair(merkle[k][Slice(s, 0, k)], merkle[k][Slice(s, k, k)])
  BY <1>2, <1>4, MerkleHalves
<1>6. Slice(Slice(leaves, first, 2 * k), 0, k) = Slice(leaves, first, k)
      /\ Slice(Slice(leaves, first, 2 * k), k, k) = Slice(leaves, first + k, k)
  BY SliceOfSlice
<1> QED BY <1>5, <1>6 DEF s, m

(* Where the slice below a node begins, and those below its children.       *)
BeginsAt(first, v, k, w) == first = (v \div 2) * (2 * k) - w
HalvesBegin(first, v, k, w) ==
    /\ v % 2 = 0 => v * k - w = first /\ Sibling(v) * k - w = first + k
    /\ v % 2 # 0 => v * k - w = first + k /\ Sibling(v) * k - w = first

LEMMA PlacesOfHalves ==
    ASSUME NEW k \in Nat \ {0}, NEW v \in Nat, NEW w \in Nat, NEW first \in Nat,
           BeginsAt(first, v, k, w)
    PROVE  HalvesBegin(first, v, k, w)
<1> USE DEF BeginsAt, HalvesBegin
<1> DEFINE u == v \div 2
<1>1. u \in Nat /\ (v % 2 = 0 => v = 2 * u) /\ (v % 2 # 0 => v = 2 * u + 1 /\ v % 2 = 1)
  OBVIOUS
<1>2. v % 2 = 0 => Sibling(v) = 2 * u + 1
  BY <1>1 DEF Sibling
<1>3. v % 2 # 0 => Sibling(v) = 2 * u
  BY <1>1 DEF Sibling
<1>4. first = u * (2 * k) - w
  OBVIOUS
<1> HIDE DEF u
<1>5. (2 * u) * k = u * (2 * k) /\ (2 * u + 1) * k = u * (2 * k) + k /\ u * (2 * k) \in Nat
  BY <1>1
<1>6. CASE v % 2 = 0
  <2>1. v * k = u * (2 * k) /\ Sibling(v) * k = u * (2 * k) + k
    BY <1>1, <1>2, <1>5, <1>6
  <2> QED BY <1>4, <1>5, <1>6, <2>1
<1>7. CASE v % 2 # 0
  <2>1. v * k = u * (2 * k) + k /\ Sibling(v) * k = u * (2 * k)
    BY <1>1, <1>3, <1>5, <1>7
  <2> QED BY <1>4, <1>5, <1>7, <2>1
<1> QED BY <1>6, <1>7

(* A proof leads from its leaf to the digest of all.                        *)
LEMMA PathClimbs ==
    ASSUME NEW leaves \in Seq(Hashes), NEW h \in Nat, Len(leaves) <= TwoTo[h],
           NEW idx \in 0..(Len(leaves) - 1), NEW g \in Nat \ {0}
    PROVE  /\ Reaches(leaves[idx + 1], Below(g, TwoTo[h], idx), PathFrom(leaves, TwoTo[h], idx),
                      merkle[TwoTo[h]][leaves], g)
           /\ PathFrom(leaves, TwoTo[h], idx) \in Seq(Hashes)
<1> DEFINE w == TwoTo[h]
           path == PathFrom(leaves, w, idx)
           at(j) == (idx + w) \div TwoTo[j]
           place(j) == at(j) * TwoTo[j] - w
           f == [j \in 0..h |-> merkle[TwoTo[j]][Slice(leaves, place(j), TwoTo[j])]]
           step(j) == LET k == TwoTo[j - 1]
                          sibling == Sibling((idx + w) \div k)
                      IN  merkle[k][Slice(leaves, sibling * k - w, k)]
           node == Below(g, w, idx)
<1>1. w \in Nat \ {0} /\ idx \in Nat /\ Len(leaves) \in Nat /\ Len(leaves) \in Nat \ {0}
  BY TwoToEquation
<1>2. path = [j \in 1..h |-> step(j)]
  BY HeightIs DEF PathFrom
<1>3. Len(path) = h /\ \A j \in 1..h : path[j] = step(j)
  BY <1>2
<1>4. \A j \in 0..h :
         /\ TwoTo[j] \in Nat \ {0} /\ TwoTo[h - j] \in Nat \ {0} /\ w = TwoTo[h - j] * TwoTo[j]
         /\ at(j) = TwoTo[h - j] + idx \div TwoTo[j]
         /\ node \div TwoTo[j] = g * TwoTo[h - j] + idx \div TwoTo[j]
         /\ idx \div TwoTo[j] \in Nat
  <2> SUFFICES ASSUME NEW j \in 0..h
               PROVE  /\ TwoTo[j] \in Nat \ {0} /\ TwoTo[h - j] \in Nat \ {0}
                      /\ w = TwoTo[h - j] * TwoTo[j]
                      /\ at(j) = TwoTo[h - j] + idx \div TwoTo[j]
                      /\ node \div TwoTo[j] = g * TwoTo[h - j] + idx \div TwoTo[j]
                      /\ idx \div TwoTo[j] \in Nat
    OBVIOUS
  <2> DEFINE k == TwoTo[j]
             v == TwoTo[h - j]
  <2>1. h - j \in Nat /\ j \in Nat /\ (h - j) + j = h
    OBVIOUS
  <2>2. k \in Nat \ {0} /\ v \in Nat \ {0} /\ w = v * k
    BY <2>1, TwoToEquation, TwoToAdds
  <2> HIDE DEF k, v, w
  <2>3. (1 * (v * k) + idx) \div k = 1 * v + idx \div k
    BY <1>1, <2>2, BelowDiv
  <2>4. (g * (v * k) + idx) \div k = g * v + idx \div k
    BY <1>1, <2>2, BelowDiv
  <2>5. 1 * (v * k) + idx = idx + w /\ 1 * v = v /\ g * (v * k) + idx = node
    BY <1>1, <2>2 DEF Below
  <2>6. idx \div k \in Nat
    BY <1>1, <2>2
  <2> QED BY <2>2, <2>3, <2>4, <2>5, <2>6 DEF k, v
<1>5. \A j \in 0..h : place(j) \in Nat /\ at(j) \in Nat
  <2> TAKE j \in 0..h
  <2> DEFINE k == TwoTo[j]
             v == TwoTo[h - j]
             q == idx \div TwoTo[j]
  <2>1. k \in Nat \ {0} /\ v \in Nat \ {0} /\ w = v * k /\ at(j) = v + q /\ q \in Nat
    BY <1>4
  <2> HIDE DEF k, v, q, w
  <2>2. (v + q) * k - v * k = q * k /\ q * k \in Nat /\ v + q \in Nat
    BY <2>1
  <2> QED BY <2>1, <2>2 DEF k
<1>6. f[0] = leaves[idx + 1]
  <2>1. TwoTo[0] = 1 /\ 0 \in 0..h
    BY TwoToEquation
  <2>2. place(0) = idx
    BY <1>1, <2>1
  <2>3. f[0] = merkle[1][Slice(leaves, idx, 1)]
    BY <2>1, <2>2
  <2>4. Slice(leaves, idx, 1) \in Seq(Hashes) /\ Slice(leaves, idx, 1) # <<>>
        /\ Slice(leaves, idx, 1)[1] = leaves[idx + 1]
    BY SliceOne
  <2> HIDE DEF f
  <2> QED BY <2>3, <2>4, MerkleOne
<1>7. f[h] = merkle[w][leaves]
  <2>1. h \in 0..h /\ h - h = 0 /\ TwoTo[0] = 1
    BY TwoToEquation
  <2>2. at(h) = 1 + idx \div w /\ idx \div w \in Nat
    BY <1>4, <2>1
  <2>3. idx < w
    BY <1>1
  <2>4. idx \div w = 0
    <3> HIDE DEF w
    <3>1. w * 0 <= idx /\ idx < w * 0 + w /\ idx \in Int /\ 0 \in Int
      BY <1>1, <2>3
    <3> QED BY <1>1, <3>1, DivIs
  <2>5. place(h) = 0
    BY <1>1, <2>2, <2>4
  <2>6. Slice(leaves, 0, w) = leaves
    BY <1>1, SliceAll
  <2> QED BY <2>1, <2>5, <2>6
<1>8. ASSUME NEW j \in 1..h
      PROVE  f[j] = Up(node \div TwoTo[j - 1], path[j], f[j - 1])
  <2> DEFINE k == TwoTo[j - 1]
             v == at(j - 1)
             first == place(j)
             r == TwoTo[h - j]
             q == idx \div k
  <2>1. j - 1 \in 0..h /\ j \in 0..h /\ j - 1 \in Nat /\ (j - 1) + 1 = j /\ h - j \in Nat
        /\ (h - j) + 1 = h - (j - 1)
    OBVIOUS
  <2>2. TwoTo[j] = 2 * k /\ TwoTo[h - (j - 1)] = 2 * r /\ r \in Nat \ {0} /\ k \in Nat \ {0}
    BY <2>1, TwoToEquation
  <2>3. at(j) = v \div 2
    <3>1. idx + w \in Nat
      BY <1>1
    <3> HIDE DEF w
    <3>2. ((idx + w) \div k) \div 2 = (idx + w) \div (2 * k)
      BY <2>2, <3>1, DivHalf
    <3> QED BY <2>2, <3>2
  <2>4. first \in Nat /\ first = (v \div 2) * (2 * k) - w /\ v \in Nat
    BY <1>5, <2>1, <2>2, <2>3
  <2>5. v = 2 * r + q /\ node \div k = g * (2 * r) + q /\ q \in Nat
    BY <1>4, <2>1, <2>2
  <2>6. f[j - 1] = merkle[k][Slice(leaves, v * k - w, k)]
    BY <2>1
  <2>7. path[j] = merkle[k][Slice(leaves, Sibling(v) * k - w, k)]
    BY <1>3
  <2>8. f[j] = merkle[2 * k][Slice(leaves, first, 2 * k)]
    BY <2>1, <2>2
  <2> HIDE DEF k, v, first, r, q, f, path, node, w
  <2>9. f[j] = HashPair(merkle[k][Slice(leaves, first, k)], merkle[k][Slice(leaves, first + k, k)])
    BY <2>2, <2>4, <2>8, HalvesMeet
  <2>10. /\ v % 2 = 0 => v * k - w = first /\ Sibling(v) * k - w = first + k
         /\ v % 2 # 0 => v * k - w = first + k /\ Sibling(v) * k - w = first
    <3>1. w \in Nat /\ v \in Nat /\ first \in Nat /\ k \in Nat \ {0}
      BY <1>1, <2>2, <2>4
    <3>2. BeginsAt(first, v, k, w)
      BY <2>4 DEF BeginsAt
    <3>3. HalvesBegin(first, v, k, w)
      BY <3>1, <3>2, PlacesOfHalves
    <3> QED BY <3>3 DEF HalvesBegin
  <2>11. (node \div k) % 2 = v % 2
    <3>1. g * (2 * r) = 2 * (g * r) /\ g * r \in Nat
      BY <2>2
    <3> DEFINE x == g * r
    <3> HIDE DEF x
    <3>2. x \in Nat /\ node \div k = 2 * x + q
      BY <2>5, <3>1 DEF x
    <3> QED BY <2>2, <2>5, <3>2
  <2>12. f[j] = Up(node \div k, path[j], f[j - 1])
    BY <2>6, <2>7, <2>9, <2>10, <2>11 DEF Up
  <2> QED BY <2>12 DEF k
<1>9. node \div TwoTo[h] = g
  <2>1. h \in 0..h /\ h - h = 0 /\ TwoTo[0] = 1
    BY TwoToEquation
  <2>2. node \div TwoTo[h] = g * 1 + idx \div w /\ idx \div w \in Nat
    BY <1>4, <2>1
  <2>3. idx < w
    BY <1>1
  <2>4. idx \div w = 0
    <3> HIDE DEF w
    <3>1. w * 0 <= idx /\ idx < w * 0 + w /\ idx \in Int /\ 0 \in Int
      BY <1>1, <2>3
    <3> QED BY <1>1, <3>1, DivIs
  <2> QED BY <2>2, <2>4
<1>10. path \in Seq(Hashes)
  <2>1. \A j \in 1..h : step(j) \in Hashes
    <3> TAKE j \in 1..h
    <3> DEFINE k == TwoTo[j - 1]
               first == Sibling((idx + w) \div k) * k - w
    <3>1. k \in Nat \ {0} /\ first \in Nat
      BY <1>1, SiblingIs
    <3> HIDE DEF k, first
    <3>2. Slice(leaves, first, k) \in Seq(Hashes)
      BY <3>1, SliceIs
    <3>3. merkle[k][Slice(leaves, first, k)] \in Hashes
      BY <3>1, <3>2, MerkleIs
    <3> QED BY <3>3 DEF k, first
  <2> HIDE DEF step
  <2> QED BY <1>2, <2>1, SequenceIs
<1>11. Ascends(f, leaves[idx + 1], node, path) /\ f[Len(path)] = merkle[w][leaves]
  <2> HIDE DEF f, path, node, w
  <2> QED BY <1>3, <1>6, <1>7, <1>8 DEF Ascends
<1> HIDE DEF f
<1>12. Reaches(leaves[idx + 1], node, path, merkle[w][leaves], g)
  BY <1>3, <1>9, <1>11 DEF Reaches
<1> QED BY <1>10, <1>12

LeadsUp(x, node, path, y, g) == Reaches(x, node, path, y, g) /\ path \in Seq(Digests)

(* The proof of a leaf of a tree leads from it to the root of the tree,     *)
(* when this is the node g of another tree.                                 *)
Proves(t, idx, x, node, g) == LeadsUp(x, node, MakeProof(t, idx).path, TreeHash(t), g)

LEMMA VectorProves ==
    ASSUME NEW leaves \in Seq(Digests), NEW m, Len(leaves) = m, NEW h \in Nat,
           CeilPow2(m) = TwoTo[h], m <= TwoTo[h], NEW idx \in 0..(m - 1), NEW g \in Nat \ {0}
    PROVE  Proves(NewVectorMerkleTree(leaves), idx, leaves[idx + 1], Below(g, TwoTo[h], idx), g)
<1> DEFINE t == NewVectorMerkleTree(leaves)
           path == MakeProof(t, idx).path
<1>1. TreeHash(t) = merkle[TwoTo[h]][leaves]
  BY DEF TreeHash, NewVectorMerkleTree
<1>2. path = PathFrom(leaves, TwoTo[h], idx)
  BY DEF MakeProof, NewVectorMerkleTree
<1>3. leaves \in Seq(Hashes) /\ idx \in 0..(Len(leaves) - 1) /\ Len(leaves) <= TwoTo[h]
      /\ idx \in Nat
  BY DigestsAreClosed
<1>4. Reaches(leaves[idx + 1], Below(g, TwoTo[h], idx), PathFrom(leaves, TwoTo[h], idx),
              merkle[TwoTo[h]][leaves], g)
  BY <1>3, PathClimbs
<1>5. path \in Seq(Digests)
  BY <1>3, VectorProofIsDigests
<1> QED BY <1>1, <1>2, <1>4, <1>5 DEF Proves, LeadsUp

LEMMA ListProves ==
    ASSUME NEW leaves \in Seq(Digests), NEW h \in Nat, Len(leaves) <= TwoTo[h],
           NEW idx \in 0..(Len(leaves) - 1), NEW g \in Nat \ {0}
    PROVE  Proves(NewListMerkleTree(leaves, TwoTo[h]), idx, leaves[idx + 1],
                  Below(Below(g, 2, 0), TwoTo[h], idx), g)
<1> DEFINE t == NewListMerkleTree(leaves, TwoTo[h])
           path == MakeProof(t, idx).path
           p == PathFrom(leaves, TwoTo[h], idx)
           a == merkle[TwoTo[h]][leaves]
           b == UintToHash(Len(leaves))
           left == Below(g, 2, 0)
           node == Below(left, TwoTo[h], idx)
<1>1. TreeHash(t) = HashPair(a, b)
  BY DEF TreeHash, NewListMerkleTree
<1>2. path = Append(p, b)
  BY DEF MakeProof, NewListMerkleTree
<1>3. leaves \in Seq(Hashes) /\ idx \in Nat
  BY DigestsAreClosed
<1>4. left \in Nat \ {0} /\ left % 2 = 0 /\ left \div 2 = g
  BY DEF Below
<1>5. b \in Digests
  BY DigestsAreClosed, LengthIsNat DEF ClosedUnderHashing
<1>6. p \in Seq(Digests)
  BY <1>3, PathIsDigests
<1>7. path \in Seq(Digests)
  BY <1>3, ListProofIsDigests
<1>8. path = p \o <<b>>
  <2> HIDE DEF p, b, path
  <2> QED BY <1>2, <1>5, <1>6, AppendIsConcat
<1> HIDE DEF left
<1>9. Reaches(leaves[idx + 1], node, p, a, left)
  BY <1>3, <1>4, PathClimbs
<1>10. node \in Nat
  BY <1>3, <1>4, TwoToEquation, IndexIsPositive
<1> HIDE DEF p, a, b, node, path
<1>11. Reaches(a, left, <<b>>, HashPair(a, b), g)
  <2>1. Reaches(a, left, <<b>>, Up(left, b, a), left \div 2)
    BY <1>4, ReachesOne
  <2> QED BY <1>4, <2>1 DEF Up
<1>12. <<b>> \in Seq(Digests)
  BY <1>5
<1>13. Reaches(leaves[idx + 1], node, p \o <<b>>, HashPair(a, b), g)
  <2>1. left \in Nat
    BY <1>4
  <2> QED BY <1>6, <1>9, <1>10, <1>11, <1>12, <2>1, ReachesOn
<1> QED BY <1>1, <1>7, <1>8, <1>13 DEF Proves, LeadsUp, path, node, left

LEMMA FieldProves ==
    ASSUME NEW fields, \A f \in DOMAIN fields : fields[f] \in Digests,
           NEW idx \in DOMAIN fields, idx \in 0..24, NEW g \in Nat \ {0}
    PROVE  Proves(StateTree(fields), idx, fields[idx], Below(g, 32, idx), g)
<1> DEFINE leaf(f) == IF f - 1 \in DOMAIN fields THEN fields[f - 1] ELSE DigestOf(FieldKind, f)
           leaves == [f \in 1..25 |-> leaf(f)]
<1>1. StateTree(fields) = NewVectorMerkleTree(leaves)
  BY DEF StateTree, StateFields
<1>2. \A f \in 1..25 : leaf(f) \in Digests
  BY OpaqueIsDigest, KindsAreInt
<1>3. leaves \in Seq(Digests) /\ Len(leaves) = 25
  <2> HIDE DEF leaf
  <2> QED BY <1>2
<1>4. leaves[idx + 1] = fields[idx]
  OBVIOUS
<1> HIDE DEF leaves, leaf
<1>5. TwoTo[5] = 32 /\ CeilPow2(25) = TwoTo[5] /\ 25 <= TwoTo[5] /\ 5 \in Nat
      /\ idx \in 0..(25 - 1)
  BY Powers, Widths
<1>6. Proves(NewVectorMerkleTree(leaves), idx, leaves[idx + 1], Below(g, TwoTo[5], idx), g)
  BY <1>3, <1>5, VectorProves
<1> QED BY <1>1, <1>4, <1>5, <1>6

LEMMA PayloadProves ==
    ASSUME NEW slot \in Nat, NEW g \in Nat \ {0}
    PROVE  /\ Proves(PayloadTree(slot), PayloadStateRootField, ExecutionStateRoot(slot),
                     Below(g, 16, PayloadStateRootField), g)
           /\ Proves(PayloadTree(slot), PayloadReceiptsRootField, ReceiptsRoot(slot),
                     Below(g, 16, PayloadReceiptsRootField), g)
<1> DEFINE leaf(f) == CASE f - 1 = PayloadStateRootField    -> ExecutionStateRoot(slot)
                        [] f - 1 = PayloadReceiptsRootField -> ReceiptsRoot(slot)
                        [] OTHER                            -> DigestOf(PayloadKind, f)
           leaves == [f \in 1..14 |-> leaf(f)]
<1>1. PayloadTree(slot) = NewVectorMerkleTree(leaves)
  BY DEF PayloadTree, PayloadFields
<1>2. \A f \in 1..14 : leaf(f) \in Digests
  BY OpaqueIsDigest, KindsAreInt DEF ExecutionStateRoot, ReceiptsRoot
<1>3. leaf(3) = ExecutionStateRoot(slot) /\ leaf(4) = ReceiptsRoot(slot)
  BY DEF PayloadStateRootField, PayloadReceiptsRootField
<1> HIDE DEF leaf
<1>4. leaves \in Seq(Digests) /\ Len(leaves) = 14
  BY <1>2
<1>5. leaves[2 + 1] = ExecutionStateRoot(slot) /\ leaves[3 + 1] = ReceiptsRoot(slot)
  BY <1>3
<1> HIDE DEF leaves
<1>6. TwoTo[4] = 16 /\ CeilPow2(14) = TwoTo[4] /\ 14 <= TwoTo[4] /\ 4 \in Nat
      /\ 2 \in 0..(14 - 1) /\ 3 \in 0..(14 - 1)
  BY Powers, Widths
<1>7. Proves(NewVectorMerkleTree(leaves), 2, leaves[2 + 1], Below(g, TwoTo[4], 2), g)
  BY <1>4, <1>6, VectorProves
<1>8. Proves(NewVectorMerkleTree(leaves), 3, leaves[3 + 1], Below(g, TwoTo[4], 3), g)
  BY <1>4, <1>6, VectorProves
<1> QED BY <1>1, <1>5, <1>6, <1>7, <1>8 DEF PayloadStateRootField, PayloadReceiptsRootField

LEMMA RootsProve ==
    ASSUME NEW slot \in Nat, NEW roots, \A q \in 0..(slot - 1) : roots[q] \in Digests,
           NEW q \in 0..(slot - 1), slot <= q + SlotsPerHistoricalRoot, NEW g \in Nat \ {0}
    PROVE  Proves(NewVectorMerkleTree(RootsOfStates(slot, roots)), q % SlotsPerHistoricalRoot,
                  roots[q], InRootsOfStates(g, q), g)
<1> DEFINE leaves == RootsOfStates(slot, roots)
           S == SlotsPerHistoricalRoot
<1>1. leaves \in Seq(Digests) /\ Len(leaves) = S /\ leaves[(q % S) + 1] = roots[q]
  BY RootsOfStatesIs
<1>2. PICK h \in Nat : S = TwoTo[h]
  BY BatchIsPower
<1>3. CeilPow2(S) = TwoTo[h] /\ S \in Nat \ {0} /\ S <= TwoTo[h]
  BY <1>2, Widths, BatchIsPower
<1>4. q \in Int
  OBVIOUS
<1> HIDE DEF leaves, S
<1>5. q % S \in 0..(S - 1)
  BY <1>3, <1>4, DivBounds
<1>6. Proves(NewVectorMerkleTree(leaves), q % S, leaves[(q % S) + 1], Below(g, TwoTo[h], q % S), g)
  BY <1>1, <1>3, <1>5, VectorProves
<1> QED BY <1>1, <1>2, <1>6 DEF InRootsOfStates, S, leaves

-----------------------------------------------------------------------------
(* The branches of the oracle, put together.                                *)

LEMMA LeadsOn ==
    ASSUME NEW x, NEW i \in Nat, NEW p, NEW y, NEW j \in Nat, NEW q, NEW z, NEW g,
           LeadsUp(x, i, p, y, j), LeadsUp(y, j, q, z, g)
    PROVE  LeadsUp(x, i, p \o q, z, g)
<1>1. p \in Seq(Digests) /\ q \in Seq(Digests) /\ p \o q \in Seq(Digests)
  BY Joined DEF LeadsUp
<1>2. Reaches(x, i, p, y, j) /\ Reaches(y, j, q, z, g)
  BY DEF LeadsUp
<1>3. Reaches(x, i, p \o q, z, g)
  BY <1>1, <1>2, ReachesOn
<1> QED BY <1>1, <1>3 DEF LeadsUp

LEMMA LeadsToRoot ==
    ASSUME NEW x \in Digests, NEW i \in Nat, NEW p, NEW y, LeadsUp(x, i, p, y, 1)
    PROVE  Leads(x, i, p, y)
BY ReachesLeads DEF LeadsUp

LEMMA StateProves ==
    ASSUME NEW slot \in 0..LastSlot, NEW roots, \A q \in 0..(slot - 1) : roots[q] \in Digests,
           NEW g \in Nat \ {0}
    PROVE  /\ Proves(BeaconState(slot, roots), StateRootsField,
                     TreeHash(NewVectorMerkleTree(RootsOfStates(slot, roots))),
                     Below(g, 32, StateRootsField), g)
           /\ Proves(BeaconState(slot, roots), HistoricalRootsField,
                     TreeHash(NewListMerkleTree(HistoricalRoots(slot, roots), HistoricalRootsLimit)),
                     Below(g, 32, HistoricalRootsField), g)
           /\ Proves(BeaconState(slot, roots), PayloadHeaderField, TreeHash(PayloadTree(slot)),
                     Below(g, 32, PayloadHeaderField), g)
<1> DEFINE fields == StateFieldsOf(slot, roots)
<1>1. \A f \in DOMAIN fields : fields[f] \in Digests
  BY FieldsAreDigests
<1>2. BeaconState(slot, roots) = StateTree(fields) /\ DOMAIN fields = {6, 7, 24}
  BY FieldsOfState
<1>3. /\ fields[6] = TreeHash(NewVectorMerkleTree(RootsOfStates(slot, roots)))
      /\ fields[7] = TreeHash(NewListMerkleTree(HistoricalRoots(slot, roots), HistoricalRootsLimit))
      /\ fields[24] = TreeHash(PayloadTree(slot))
  BY FieldsOfState
<1> HIDE DEF fields
<1>4. 6 \in DOMAIN fields /\ 7 \in DOMAIN fields /\ 24 \in DOMAIN fields
      /\ 6 \in 0..24 /\ 7 \in 0..24 /\ 24 \in 0..24
  BY <1>2
<1>5. Proves(StateTree(fields), 6, fields[6], Below(g, 32, 6), g)
  BY <1>1, <1>4, FieldProves
<1>6. Proves(StateTree(fields), 7, fields[7], Below(g, 32, 7), g)
  BY <1>1, <1>4, FieldProves
<1>7. Proves(StateTree(fields), 24, fields[24], Below(g, 32, 24), g)
  BY <1>1, <1>4, FieldProves
<1> QED BY <1>2, <1>3, <1>5, <1>6, <1>7
        DEF StateRootsField, HistoricalRootsField, PayloadHeaderField

LEMMA WindowProves ==
    ASSUME NEW source \in 0..LastSlot, NEW target \in 0..(source - 1),
           source <= target + SlotsPerHistoricalRoot,
           NEW roots, \A q \in 0..(source - 1) : roots[q] \in Digests
    PROVE  LeadsUp(roots[target],
                   InRootsOfStates(Below(1, 32, StateRootsField), target),
                   MakeProof(NewVectorMerkleTree(RootsOfStates(source, roots)),
                             target % SlotsPerHistoricalRoot).path
                      \o MakeProof(BeaconState(source, roots), StateRootsField).path,
                   TreeHash(BeaconState(source, roots)), 1)
<1> DEFINE t == NewVectorMerkleTree(RootsOfStates(source, roots))
           i == Below(1, 32, StateRootsField)
           place == target % SlotsPerHistoricalRoot
<1>1. i \in Nat \ {0} /\ 1 \in Nat \ {0} /\ target \in Nat /\ source \in Nat
  BY BoundOfSlots DEF Below, StateRootsField
<1>2. InRootsOfStates(i, target) \in Nat
  BY <1>1, IndexIsPositive
<1> HIDE DEF i
<1>3. Proves(t, place, roots[target], InRootsOfStates(i, target), i)
  BY <1>1, RootsProve
<1>4. Proves(BeaconState(source, roots), StateRootsField, TreeHash(t),
             Below(1, 32, StateRootsField), 1)
  BY <1>1, StateProves
<1> HIDE DEF t, place
<1>5. LeadsUp(roots[target], InRootsOfStates(i, target), MakeProof(t, place).path, TreeHash(t), i)
  BY <1>3 DEF Proves
<1>6. LeadsUp(TreeHash(t), i, MakeProof(BeaconState(source, roots), StateRootsField).path,
              TreeHash(BeaconState(source, roots)), 1)
  BY <1>4 DEF Proves, i
<1>7. i \in Nat
  BY <1>1
<1>8. LeadsUp(roots[target], InRootsOfStates(i, target),
              MakeProof(t, place).path
                 \o MakeProof(BeaconState(source, roots), StateRootsField).path,
              TreeHash(BeaconState(source, roots)), 1)
  BY <1>2, <1>5, <1>6, <1>7, LeadsOn
<1> QED BY <1>8 DEF i, t, place

LEMMA BatchProves ==
    ASSUME NEW source \in 0..LastSlot, NEW target \in Nat, IsAncient(source, target),
           NEW roots, \A q \in 0..(source - 1) : roots[q] \in Digests
    PROVE  LET b == target \div SlotsPerHistoricalRoot
           IN  LeadsUp(roots[target], InBatch(target),
                   MakeProof(NewVectorMerkleTree(RootsOfStates(BatchEnd(b), roots)),
                             target % SlotsPerHistoricalRoot).path
                      \o <<BlockRoots(b)>>
                      \o MakeProof(NewListMerkleTree(HistoricalRoots(source, roots),
                                                     HistoricalRootsLimit), b).path
                      \o MakeProof(BeaconState(source, roots), HistoricalRootsField).path,
                   TreeHash(BeaconState(source, roots)), 1)
<1> DEFINE S == SlotsPerHistoricalRoot
           b == target \div S
           end == BatchEnd(b)
           rootsTree == NewVectorMerkleTree(RootsOfStates(end, roots))
           leaves == HistoricalRoots(source, roots)
           batches == NewListMerkleTree(leaves, HistoricalRootsLimit)
           state == BeaconState(source, roots)
           i == Below(1, 32, HistoricalRootsField)
           j == Below(Below(i, 2, 0), HistoricalRootsLimit, b)
           k == Below(j, 2, 1)
           x == TreeHash(rootsTree)
           y == BlockRoots(b)
           p1 == MakeProof(rootsTree, target % S).path
           p2 == <<y>>
           p3 == MakeProof(batches, b).path
           p4 == MakeProof(state, HistoricalRootsField).path
<1>1. /\ b \in Nat /\ b + 1 \in 1..(source \div S)
      /\ target \in 0..(end - 1) /\ end <= target + S /\ end \in Nat /\ end <= source
  BY AncientBatch
<1>2. /\ leaves \in Seq(Digests) /\ Len(leaves) = source \div S
      /\ BlockRoots((b + 1) - 1) \in Digests
      /\ TreeHash(NewVectorMerkleTree(RootsOfStates(BatchEnd((b + 1) - 1), roots))) \in Digests
      /\ leaves[b + 1] = HashPair(BlockRoots((b + 1) - 1),
                  TreeHash(NewVectorMerkleTree(RootsOfStates(BatchEnd((b + 1) - 1), roots))))
  BY <1>1, HistoricalRootsIs
<1>3. (b + 1) - 1 = b
  BY <1>1
<1>4. y \in Digests /\ x \in Digests /\ leaves[b + 1] = HashPair(y, x)
  <2> HIDE DEF b, leaves
  <2> QED BY <1>2, <1>3
<1>5. source \div S \in 0..HistoricalRootsLimit
  BY BatchesIs
<1>6. PICK h \in Nat : HistoricalRootsLimit = TwoTo[h]
  BY BatchIsPower
<1>7. HistoricalRootsLimit \in Nat \ {0} /\ Len(leaves) <= TwoTo[h] /\ b \in 0..(Len(leaves) - 1)
  <2> HIDE DEF b, leaves, S
  <2> QED BY <1>1, <1>2, <1>5, <1>6, BatchIsPower
<1>8. i \in Nat \ {0} /\ 1 \in Nat \ {0} /\ 2 \in Nat \ {0} /\ 0 \in Nat
  BY DEF Below, HistoricalRootsField
<1> HIDE DEF S, b, end, rootsTree, leaves, batches, state, i, x, y, p1, p2, p3, p4
<1>9. Below(i, 2, 0) \in Nat \ {0}
  BY <1>8, IndexIsPositive
<1>10. j \in Nat \ {0}
  BY <1>1, <1>7, <1>9, IndexIsPositive
<1> HIDE DEF j
<1>11. k \in Nat \ {0} /\ k % 2 # 0 /\ k \div 2 = j
  BY <1>10 DEF Below
<1> HIDE DEF k
<1>12. InBatch(target) = InRootsOfStates(k, target) /\ InRootsOfStates(k, target) \in Nat
  <2>1. InBatch(target) = InRootsOfStates(k, target)
    BY DEF InBatch, k, j, i, b, S
  <2> QED BY <1>11, <2>1, IndexIsPositive
<1>13. LeadsUp(roots[target], InRootsOfStates(k, target), p1, x, k)
  <2>1. \A q \in 0..(end - 1) : roots[q] \in Digests
    <3>1. \A q \in 0..(end - 1) : q \in 0..(source - 1)
      BY <1>1
    <3> QED BY <3>1
  <2>2. Proves(NewVectorMerkleTree(RootsOfStates(end, roots)), target % SlotsPerHistoricalRoot,
               roots[target], InRootsOfStates(k, target), k)
    <3>1. end <= target + SlotsPerHistoricalRoot
      BY <1>1 DEF S
    <3> QED BY <1>1, <1>11, <2>1, <3>1, RootsProve
  <2> QED BY <2>2 DEF Proves, p1, x, rootsTree, S
<1>14. LeadsUp(x, k, p2, HashPair(y, x), j)
  <2>1. Reaches(x, k, <<y>>, Up(k, y, x), k \div 2)
    BY <1>11, ReachesOne
  <2>2. <<y>> \in Seq(Digests)
    BY <1>4
  <2> QED BY <1>11, <2>1, <2>2 DEF LeadsUp, Up, p2
<1>15. LeadsUp(HashPair(y, x), j, p3, TreeHash(batches), i)
  <2>1. Proves(NewListMerkleTree(leaves, TwoTo[h]), b, leaves[b + 1],
               Below(Below(i, 2, 0), TwoTo[h], b), i)
    BY <1>2, <1>7, <1>8, ListProves
  <2> QED BY <1>4, <1>6, <2>1 DEF Proves, batches, p3, j
<1>16. LeadsUp(TreeHash(batches), i, p4, TreeHash(state), 1)
  <2>1. Proves(BeaconState(source, roots), HistoricalRootsField,
               TreeHash(NewListMerkleTree(HistoricalRoots(source, roots), HistoricalRootsLimit)),
               Below(1, 32, HistoricalRootsField), 1)
    BY <1>8, StateProves
  <2> QED BY <2>1 DEF Proves, batches, leaves, state, i, p4
<1>17. i \in Nat /\ j \in Nat /\ k \in Nat
  BY <1>8, <1>10, <1>11
<1>18. LeadsUp(roots[target], InRootsOfStates(k, target), p1 \o p2, HashPair(y, x), j)
  BY <1>12, <1>13, <1>14, <1>17, LeadsOn
<1>19. LeadsUp(roots[target], InRootsOfStates(k, target), (p1 \o p2) \o p3, TreeHash(batches), i)
  BY <1>12, <1>15, <1>17, <1>18, LeadsOn
<1>20. LeadsUp(roots[target], InRootsOfStates(k, target), ((p1 \o p2) \o p3) \o p4,
               TreeHash(state), 1)
  BY <1>12, <1>16, <1>17, <1>19, LeadsOn
<1> QED BY <1>12, <1>20 DEF p1, p2, p3, p4, y, state, batches, leaves, rootsTree, end, b, S

LEMMA TargetProves ==
    ASSUME NEW open, NEW source \in Slots, NEW target \in Slots,
           source \in open, target \in open, target <= source
    PROVE  LET roots == StateRoots(open)
           IN  LeadsUp(TreeHash(BeaconState(target, roots)), TargetIndex(source, target),
                       ProofOfState(source, target, roots), roots[source], 1)
<1> DEFINE roots == StateRoots(open)
<1>1. source \in 0..LastSlot /\ target \in 0..LastSlot /\ target \in Nat /\ source \in Nat
  BY BoundOfSlots DEF Slots
<1>2. /\ \A q \in 0..LastSlot : roots[q] \in Digests
      /\ roots[source] = TreeHash(BeaconState(source, roots))
      /\ roots[target] = TreeHash(BeaconState(target, roots))
  BY <1>1, StateRootsIs
<1> HIDE DEF roots
<1>3. \A q \in 0..(source - 1) : roots[q] \in Digests
  <2>1. \A q \in 0..(source - 1) : q \in 0..LastSlot
    BY <1>1, BoundOfSlots
  <2> QED BY <1>2, <2>1
<1> DEFINE x == roots[target]
           path == ProofOfState(source, target, roots)
<1>4. CASE target = source
  <2>1. TargetIndex(source, target) = 1 /\ path = <<>>
    BY <1>4 DEF TargetIndex, ProofOfState
  <2>2. Reaches(x, 1, <<>>, x, 1)
    BY ReachesNone
  <2>3. LeadsUp(x, 1, <<>>, x, 1)
    BY <2>2 DEF LeadsUp
  <2> QED BY <1>2, <1>4, <2>1, <2>3 DEF roots
<1>5. CASE target # source /\ IsAncient(source, target)
  <2>1. TargetIndex(source, target) = InBatch(target)
    BY <1>5 DEF TargetIndex
  <2>2. ~InWindow(source, target)
    BY <1>1, <1>5, BatchIsPower DEF IsAncient, InWindow
  <2> DEFINE b == target \div SlotsPerHistoricalRoot
             proof == MakeProof(NewVectorMerkleTree(RootsOfStates(BatchEnd(b), roots)),
                                target % SlotsPerHistoricalRoot).path
                         \o <<BlockRoots(b)>>
                         \o MakeProof(NewListMerkleTree(HistoricalRoots(source, roots),
                                                        HistoricalRootsLimit), b).path
                         \o MakeProof(BeaconState(source, roots), HistoricalRootsField).path
  <2>3. path = proof
    BY <1>5, <2>2 DEF ProofOfState
  <2>4. LeadsUp(x, InBatch(target), proof, TreeHash(BeaconState(source, roots)), 1)
    BY <1>1, <1>3, <1>5, BatchProves
  <2> HIDE DEF proof, path
  <2>5. LeadsUp(x, TargetIndex(source, target), path, roots[source], 1)
    BY <1>2, <2>1, <2>3, <2>4
  <2> QED BY <1>2, <2>5 DEF roots, path
<1>6. CASE target # source /\ ~IsAncient(source, target)
  <2>1. TargetIndex(source, target) = InRootsOfStates(Below(1, 32, StateRootsField), target)
    BY <1>6 DEF TargetIndex
  <2>2. InWindow(source, target)
    BY <1>1, <1>6, BatchIsPower DEF IsAncient, InWindow
  <2>3. target \in 0..(source - 1) /\ source <= target + SlotsPerHistoricalRoot
    BY <1>1, <1>6, BatchIsPower DEF IsAncient
  <2> DEFINE proof == MakeProof(NewVectorMerkleTree(RootsOfStates(source, roots)),
                                target % SlotsPerHistoricalRoot).path
                         \o MakeProof(BeaconState(source, roots), StateRootsField).path
  <2>4. path = proof
    BY <1>6, <2>2 DEF ProofOfState
  <2>5. LeadsUp(x, InRootsOfStates(Below(1, 32, StateRootsField), target), proof,
                TreeHash(BeaconState(source, roots)), 1)
    BY <1>1, <1>3, <2>3, WindowProves
  <2> HIDE DEF proof, path
  <2>6. LeadsUp(x, TargetIndex(source, target), path, roots[source], 1)
    BY <1>2, <2>1, <2>4, <2>5
  <2> QED BY <1>2, <2>6 DEF roots, path
<1> QED BY <1>4, <1>5, <1>6

(* From the leaf of a payload to the root of a state.                       *)
LEMMA PayloadOfStateProves ==
    ASSUME NEW slot \in 0..LastSlot, NEW roots, \A q \in 0..(slot - 1) : roots[q] \in Digests,
           NEW g \in Nat \ {0}
    PROVE  /\ LeadsUp(ExecutionStateRoot(slot), InPayload(g, PayloadStateRootField),
                      MakeProof(PayloadTree(slot), PayloadStateRootField).path
                         \o MakeProof(BeaconState(slot, roots), PayloadHeaderField).path,
                      TreeHash(BeaconState(slot, roots)), g)
           /\ LeadsUp(ReceiptsRoot(slot), InPayload(g, PayloadReceiptsRootField),
                      MakeProof(PayloadTree(slot), PayloadReceiptsRootField).path
                         \o MakeProof(BeaconState(slot, roots), PayloadHeaderField).path,
                      TreeHash(BeaconState(slot, roots)), g)
<1> DEFINE i == Below(g, 32, PayloadHeaderField)
           t == PayloadTree(slot)
           state == BeaconState(slot, roots)
           up == MakeProof(state, PayloadHeaderField).path
<1>1. slot \in Nat /\ 32 \in Nat \ {0} /\ 16 \in Nat \ {0}
  BY BoundOfSlots
<1>2. i \in Nat \ {0}
  BY <1>1, FieldsAreNat, IndexIsPositive
<1>3. LeadsUp(TreeHash(t), i, up, TreeHash(state), g)
  BY StateProves DEF Proves
<1> HIDE DEF i
<1>4. /\ LeadsUp(ExecutionStateRoot(slot), Below(i, 16, PayloadStateRootField),
                 MakeProof(t, PayloadStateRootField).path, TreeHash(t), i)
      /\ LeadsUp(ReceiptsRoot(slot), Below(i, 16, PayloadReceiptsRootField),
                 MakeProof(t, PayloadReceiptsRootField).path, TreeHash(t), i)
  BY <1>1, <1>2, PayloadProves DEF Proves
<1>5. /\ Below(i, 16, PayloadStateRootField) \in Nat
      /\ Below(i, 16, PayloadReceiptsRootField) \in Nat
      /\ i \in Nat
  BY <1>1, <1>2, FieldsAreNat, IndexIsPositive
<1> HIDE DEF t, state, up
<1>6. LeadsUp(ExecutionStateRoot(slot), Below(i, 16, PayloadStateRootField),
              MakeProof(t, PayloadStateRootField).path \o up, TreeHash(state), g)
  BY <1>3, <1>4, <1>5, LeadsOn
<1>7. LeadsUp(ReceiptsRoot(slot), Below(i, 16, PayloadReceiptsRootField),
              MakeProof(t, PayloadReceiptsRootField).path \o up, TreeHash(state), g)
  BY <1>3, <1>4, <1>5, LeadsOn
<1> QED BY <1>6, <1>7 DEF i, t, state, up, InPayload

LEMMA StateRootAccepted ==
    ASSUME NEW open, NEW source \in Slots, source \in open
    PROVE  AcceptsStateRoot(StateRoots(open)[source], ExecutionStateRoot(source),
                            MakeExecutionPayloadStateRootProof(source, StateRoots(open)))
<1> DEFINE roots == StateRoots(open)
           path == MakeExecutionPayloadStateRootProof(source, roots)
<1>1. source \in 0..LastSlot /\ \A q \in 0..(source - 1) : q \in 0..LastSlot
  BY BoundOfSlots DEF Slots
<1>2. /\ \A q \in 0..(source - 1) : roots[q] \in Digests
      /\ roots[source] = TreeHash(BeaconState(source, roots))
  BY <1>1, StateRootsIs
<1> HIDE DEF roots
<1>3. 1 \in Nat \ {0}
  OBVIOUS
<1>4. LeadsUp(ExecutionStateRoot(source), InPayload(1, PayloadStateRootField), path,
              roots[source], 1)
  BY <1>1, <1>2, <1>3, PayloadOfStateProves DEF MakeExecutionPayloadStateRootProof
<1> HIDE DEF path
<1>5. InPayload(1, PayloadStateRootField) \in Nat
  BY DEF InPayload, Below, PayloadStateRootField, PayloadHeaderField
<1>6. Leads(ExecutionStateRoot(source), InPayload(1, PayloadStateRootField), path, roots[source])
  BY <1>4, <1>5, LeavesAreDigests, LeadsToRoot
<1> QED BY <1>6 DEF AcceptsStateRoot, StateRootIndex, path, roots

LEMMA ReceiptsRootAccepted ==
    ASSUME NEW open, NEW source \in Slots, NEW target \in Slots, source \in open, target \in open,
           target <= source
    PROVE  AcceptsReceiptsRoot(StateRoots(open)[source], source, target, ReceiptsRoot(target),
               MakeExecutionPayloadReceiptsRootProof(source, target, StateRoots(open)))
<1> DEFINE roots == StateRoots(open)
           g == TargetIndex(source, target)
           p == MakeProof(PayloadTree(target), PayloadReceiptsRootField).path
                   \o MakeProof(BeaconState(target, roots), PayloadHeaderField).path
           q == ProofOfState(source, target, roots)
           x == TreeHash(BeaconState(target, roots))
           i == InPayload(g, PayloadReceiptsRootField)
<1>1. LeadsUp(x, g, q, roots[source], 1)
  BY TargetProves
<1>2. g \in Nat \ {0}
  BY TargetHolds
<1>3. target \in 0..LastSlot /\ \A s \in 0..(target - 1) : s \in 0..LastSlot
  BY BoundOfSlots DEF Slots
<1>4. \A s \in 0..(target - 1) : roots[s] \in Digests
  BY <1>3, StateRootsIs
<1> HIDE DEF roots, g
<1>5. LeadsUp(ReceiptsRoot(target), i, p, x, g)
  BY <1>2, <1>3, <1>4, PayloadOfStateProves
<1>6. i \in Nat /\ g \in Nat
  <2>1. 32 \in Nat \ {0} /\ 16 \in Nat \ {0}
    OBVIOUS
  <2> QED BY <1>2, <2>1, FieldsAreNat, IndexIsPositive DEF InPayload
<1>7. MakeExecutionPayloadReceiptsRootProof(source, target, roots) = p \o q
  BY DEF MakeExecutionPayloadReceiptsRootProof
<1> HIDE DEF p, q, x, i
<1>8. LeadsUp(ReceiptsRoot(target), i, p \o q, roots[source], 1)
  BY <1>1, <1>5, <1>6, LeadsOn
<1>9. Leads(ReceiptsRoot(target), i, p \o q, roots[source])
  BY <1>6, <1>8, LeavesAreDigests, LeadsToRoot
<1> QED BY <1>7, <1>9 DEF AcceptsReceiptsRoot, ReceiptsRootIndex, i, g, roots

LEMMA FinalityAccepted ==
    ASSUME NEW epoch \in Nat, NEW header \in HeadersAre
    PROVE  AcceptsFinality(TreeHash(FinalizedState(epoch, header)), header,
                           MakeFinalityBranch(epoch, header))
<1> DEFINE fields == FinalizedFields(epoch, header)
           r == TreeHash(StateTree(fields))
           a == UintToHash(epoch)
           b == headerRoot(header)
           up == MakeProof(StateTree(fields), 20).path
<1>1. /\ DOMAIN fields = {20} /\ fields[20] = HashPair(a, b)
      /\ \A f \in DOMAIN fields : fields[f] \in Digests
      /\ FinalizedState(epoch, header) = StateTree(fields)
  BY FinalizedFieldsAre
<1>2. a \in Digests /\ b \in Digests
  BY FinalizedFieldsAre, HeaderRootIs
<1>3. MakeFinalityBranch(epoch, header) = <<a>> \o up
  BY <1>1 DEF MakeFinalityBranch, FinalizedCheckpointField
<1> HIDE DEF fields, a, b
<1>4. 20 \in DOMAIN fields /\ 20 \in 0..24 /\ 1 \in Nat \ {0} /\ Below(1, 32, 20) = 52
  BY <1>1 DEF Below
<1>5. LeadsUp(HashPair(a, b), 52, up, r, 1)
  <2>1. Proves(StateTree(fields), 20, fields[20], Below(1, 32, 20), 1)
    BY <1>1, <1>4, FieldProves
  <2> QED BY <1>1, <1>4, <2>1 DEF Proves
<1>6. LeadsUp(b, 105, <<a>>, HashPair(a, b), 52)
  <2>1. 105 \in Nat /\ 105 % 2 # 0 /\ 105 \div 2 = 52
    OBVIOUS
  <2>2. Reaches(b, 105, <<a>>, Up(105, a, b), 105 \div 2)
    BY <2>1, ReachesOne
  <2>3. <<a>> \in Seq(Digests)
    BY <1>2
  <2>4. Up(105, a, b) = HashPair(a, b)
    BY DEF Up
  <2> QED BY <2>1, <2>2, <2>3, <2>4 DEF LeadsUp
<1> HIDE DEF up, r
<1>7. 105 \in Nat /\ 52 \in Nat
  OBVIOUS
<1>8. LeadsUp(b, 105, <<a>> \o up, r, 1)
  BY <1>5, <1>6, <1>7, LeadsOn
<1>9. Leads(b, 105, <<a>> \o up, r)
  BY <1>2, <1>7, <1>8, LeadsToRoot
<1> QED BY <1>1, <1>3, <1>9 DEF AcceptsFinality, FINALIZED_ROOT_INDEX, b, r

-----------------------------------------------------------------------------
(* What the oracle proves is accepted.                                      *)

(* The oracle's own check climbs the same way.                              *)
LEMMA ReachesReconstructs ==
    ASSUME NEW leaf, NEW g \in Nat, NEW S, NEW path \in Seq(S), NEW x, NEW top,
           Reaches(leaf, g, path, x, top)
    PROVE  ReconstructRoot(g, path, leaf) = x
<1> DEFINE m == Len(path)
           above(i, below) ==
               [index |-> below.index \div 2,
                hash |-> IF below.index % 2 = 1 THEN HashPair(path[i], below.hash)
                         ELSE HashPair(below.hash, path[i])]
           body(f, i) == IF i = 0 THEN [index |-> g, hash |-> leaf] ELSE above(i, f[i - 1])
           Is(f) == f = [i \in 0..m |-> body(f, i)]
<1>1. PICK f : Ascends(f, leaf, g, path) /\ f[m] = x
  BY DEF Reaches
<1> DEFINE e == [i \in 0..m |-> [index |-> g \div TwoTo[i], hash |-> f[i]]]
<1>2. m \in Nat
  OBVIOUS
<1>3. /\ f[0] = leaf
      /\ \A i \in 1..m : f[i] = Up(g \div TwoTo[i - 1], path[i], f[i - 1])
  BY <1>1 DEF Ascends
<1> HIDE DEF m
<1>4. \A i \in 0..m : TwoTo[i] \in Nat \ {0} /\ g \div TwoTo[i] \in Nat
  <2> TAKE i \in 0..m
  <2>1. i \in Nat
    BY <1>2
  <2>2. TwoTo[i] \in Nat \ {0}
    BY <2>1, TwoToEquation
  <2> QED BY <2>2
<1>5. ASSUME NEW i \in 1..m
      PROVE  /\ i - 1 \in 0..m /\ i \in 0..m
             /\ e[i] = above(i, e[i - 1])
  <2>1. i - 1 \in 0..m /\ i \in 0..m /\ i - 1 \in Nat /\ (i - 1) + 1 = i
    BY <1>2
  <2> DEFINE v == g \div TwoTo[i - 1]
  <2>2. g \div TwoTo[i] = v \div 2
    <3>1. TwoTo[i] = 2 * TwoTo[i - 1] /\ TwoTo[i - 1] \in Nat \ {0}
      BY <2>1, TwoToEquation
    <3> QED BY <3>1, DivHalf
  <2>3. e[i - 1] = [index |-> v, hash |-> f[i - 1]] /\ e[i] = [index |-> v \div 2, hash |-> f[i]]
    BY <2>1, <2>2
  <2>4. v \in Nat
    BY <1>4, <2>1
  <2> HIDE DEF e, v
  <2>5. v % 2 = 1 <=> v % 2 # 0
    BY <2>4
  <2>6. f[i] = IF v % 2 = 1 THEN HashPair(path[i], f[i - 1]) ELSE HashPair(f[i - 1], path[i])
    BY <1>3, <2>5 DEF Up, v
  <2>7. e[i - 1].index = v /\ e[i - 1].hash = f[i - 1]
    BY <2>3
  <2> QED BY <2>1, <2>3, <2>6, <2>7
<1>6. e[0] = [index |-> g, hash |-> leaf]
  <2>1. TwoTo[0] = 1 /\ g \div 1 = g /\ 0 \in 0..m
    BY <1>2, TwoToEquation
  <2> QED BY <1>3, <2>1
<1>7. Is(e)
  <2>1. \A i \in 0..m : e[i] = body(e, i)
    <3> TAKE i \in 0..m
    <3>1. CASE i = 0
      BY <1>6, <3>1
    <3>2. CASE i # 0
      <4>1. i \in 1..m
        BY <1>2, <3>2
      <4> HIDE DEF above, e
      <4> QED BY <1>5, <3>2, <4>1
    <3> QED BY <3>1, <3>2
  <2>2. e = [i \in 0..m |-> e[i]]
    OBVIOUS
  <2> HIDE DEF body, e
  <2> QED BY <2>1, <2>2
<1> DEFINE c == CHOOSE h : Is(h)
<1>8. Is(c)
  <2> HIDE DEF Is
  <2> QED BY <1>7
<1>9. ReconstructRoot(g, path, leaf) = c[m].hash
  BY DEF ReconstructRoot, m
<1> HIDE DEF c
<1>10. \A i \in 0..m : c[i] = body(c, i)
  <2> HIDE DEF body
  <2> QED BY <1>8
<1> HIDE DEF Is
<1>11. c[0] = e[0]
  <2>1. 0 \in 0..m
    BY <1>2
  <2> QED BY <1>6, <1>10, <2>1
<1>12. \A i \in 0..(m - 1) : c[i] = e[i] => c[i + 1] = e[i + 1]
  <2> SUFFICES ASSUME NEW i \in 0..(m - 1), c[i] = e[i] PROVE c[i + 1] = e[i + 1]
    OBVIOUS
  <2>1. i + 1 \in 1..m /\ (i + 1) - 1 = i /\ i + 1 \in 0..m /\ i + 1 # 0
    BY <1>2
  <2>2. e[i + 1] = above(i + 1, e[i])
    BY <1>5, <2>1, ZenonT(20)
  <2>3. c[i + 1] = body(c, i + 1)
    BY <1>10, <2>1
  <2> HIDE DEF above, e
  <2>4. c[i + 1] = above(i + 1, c[i])
    BY <2>1, <2>3
  <2> QED BY <2>2, <2>4
<1>13. \A i \in 0..m : c[i] = e[i]
  <2> HIDE DEF e, body, above
  <2> QED BY <1>2, <1>11, <1>12, ClimbsAgree, ZenonT(20)
<1>14. c[m].hash = f[m]
  <2>1. m \in 0..m
    BY <1>2
  <2>2. e[m] = [index |-> g \div TwoTo[m], hash |-> f[m]]
    BY <2>1
  <2>3. c[m] = e[m]
    BY <1>13, <2>1
  <2> HIDE DEF e
  <2> QED BY <2>2, <2>3
<1> QED BY <1>1, <1>9, <1>14

(* The leaves of any tree.                                                  *)
LEMMA LeafAccepted ==
    ASSUME NEW t \in Shapes, NEW idx \in 0..(Len(t.leaves) - 1)
    PROVE  LET proof == MakeProof(t, idx)
           IN  /\ IsProofLength(proof.genIndex, proof.path)
               /\ ReconstructRoot(proof.genIndex, proof.path, t.leaves[idx + 1]) = TreeHash(t)
<1> DEFINE leaves == t.leaves
           w == t.limit
           proof == MakeProof(t, idx)
           p == PathFrom(leaves, w, idx)
           a == merkle[w][leaves]
           b == UintToHash(t.length)
           x == leaves[idx + 1]
<1>1. /\ leaves \in Seq(Hashes) /\ Len(leaves) \in 1..w /\ w \in {TwoTo[k] : k \in 0..w}
      /\ t.isList \in BOOLEAN /\ t.length \in Nat
  BY OracleAssumption
<1>2. PICK h \in 0..w : w = TwoTo[h]
  BY <1>1
<1>3. w \in Nat \ {0} /\ h \in Nat /\ Len(leaves) <= TwoTo[h] /\ idx \in Nat
      /\ idx \in 0..(Len(leaves) - 1)
  <2>1. h \in Nat
    OBVIOUS
  <2>2. w \in Nat \ {0}
    BY <1>2, <2>1, TwoToEquation
  <2> HIDE DEF w
  <2> QED BY <1>1, <1>2, <2>1, <2>2
<1>4. x \in Hashes /\ b \in Hashes
  BY <1>1, <1>3 DEF UintToHash, Hashes
<1> HIDE DEF leaves, w
<1>5. /\ p \in Seq(Hashes)
      /\ \A g \in Nat \ {0} : Reaches(x, Below(g, w, idx), p, a, g)
  <2>1. 1 \in Nat \ {0}
    OBVIOUS
  <2> QED BY <1>1, <1>2, <1>3, <2>1, PathClimbs
<1>6. \A g \in Nat \ {0} : Below(g, w, idx) \in Nat
  BY <1>3, IndexIsPositive
<1> HIDE DEF p, a, b, x
<1>7. CASE t.isList
  <2>1. TreeHash(t) = HashPair(a, b) /\ proof.path = Append(p, b) /\ proof.genIndex = idx + w * 2
    BY <1>7 DEF TreeHash, MakeProof, a, b, p, w, leaves
  <2>2. Append(p, b) = p \o <<b>> /\ <<b>> \in Seq(Hashes)
    BY <1>4, <1>5, AppendIsConcat
  <2>3. 2 \in Nat /\ 2 \in Nat \ {0} /\ 2 % 2 = 0 /\ 2 \div 2 = 1
    OBVIOUS
  <2>4. Below(2, w, idx) = idx + w * 2 /\ Below(2, w, idx) \in Nat
    BY <1>3 DEF Below
  <2>5. Reaches(x, Below(2, w, idx), p, a, 2)
    BY <1>5, <2>3
  <2>6. Reaches(a, 2, <<b>>, HashPair(a, b), 1)
    <3>1. Reaches(a, 2, <<b>>, Up(2, b, a), 2 \div 2)
      BY <2>3, ReachesOne
    <3> QED BY <2>3, <3>1 DEF Up
  <2> DEFINE q == <<b>>
             r == HashPair(a, b)
             i == Below(2, w, idx)
  <2> HIDE DEF q, r, i
  <2>7. Reaches(x, i, p \o q, r, 1)
    <3>1. Reaches(x, i, p, a, 2) /\ Reaches(a, 2, q, r, 1) /\ q \in Seq(Hashes) /\ i \in Nat
      BY <2>2, <2>4, <2>5, <2>6 DEF q, r, i
    <3> QED BY <1>5, <2>3, <3>1, ReachesOn
  <2>8. proof.genIndex = i /\ proof.path = p \o q /\ TreeHash(t) = r
    BY <2>1, <2>2, <2>4 DEF q, r, i
  <2>9. p \o q \in Seq(Hashes) /\ i \in Nat
    BY <1>5, <2>2, <2>4, Joined DEF q, i
  <2>10. ReconstructRoot(i, p \o q, x) = r /\ IsProofLength(i, p \o q)
    BY <2>7, <2>9, ReachesReconstructs DEF IsProofLength, Reaches
  <2> HIDE DEF proof
  <2> QED BY <2>8, <2>10 DEF proof, x, leaves
<1>8. CASE ~t.isList
  <2>1. TreeHash(t) = a /\ proof.path = p /\ proof.genIndex = idx + w
    BY <1>8 DEF TreeHash, MakeProof, a, b, p, w, leaves
  <2>2. Below(1, w, idx) = idx + w /\ Below(1, w, idx) \in Nat /\ 1 \in Nat \ {0}
    BY <1>3 DEF Below
  <2>3. Reaches(x, idx + w, p, a, 1) /\ idx + w \in Nat
    BY <1>5, <2>2
  <2>4. ReconstructRoot(idx + w, p, x) = a
    BY <1>5, <2>3, ReachesReconstructs
  <2>5. IsProofLength(idx + w, p)
    BY <2>3 DEF IsProofLength, Reaches
  <2> HIDE DEF proof
  <2> QED BY <2>1, <2>4, <2>5 DEF proof, x, leaves
<1> QED BY <1>7, <1>8

(* Both forms of a key have its digest.                                     *)
LEMMA KeyAccepted ==
    ASSUME NEW p \in Points
    PROVE  hashG1(PkToG1(p)) = Marshal(p) /\ hashG1Compressed(PkToG1Compressed(p)) = Marshal(p)
<1> DEFINE y == p.y
           h == p.x \div 16
           c == y \div 16
<1>1. p.x \in 0..60 /\ y \in 1..60 /\ h \in 0..3 /\ c \in 0..3 /\ y % 16 \in 0..15
  BY DEF Points, P
<1>2. Larger(c, y % 16) <=> y > 30
  BY <1>1 DEF Larger, HalfA, HalfB, High, Low, LowLimb, P
<1>3. Marshal(p) = [high |-> h + 16 + (IF y > 30 THEN 4 ELSE 0), low |-> p.x % 16]
  <2>1. y > 61 - y <=> y > 30
    BY <1>1
  <2> QED BY <2>1 DEF Marshal, High, Low, LowLimb, IsCompressed, IsLarger, P
<1>4. hashG1(PkToG1(p)) = [high |-> WithFlags(h, Larger(c, y % 16)) % 32, low |-> p.x % 16]
  BY DEF hashG1, PkToG1, High, Low, LowLimb, HighLimb
<1>5. hashG1Compressed(PkToG1Compressed(p)) =
         [high |-> WithFlags(c * 32 + h, Larger((c * 32 + h) \div 32, y % 16)) % 32,
          low |-> p.x % 16]
  BY DEF hashG1Compressed, PkToG1Compressed, High, Low, LowLimb, HighLimb
<1>6. Larger(c, y % 16) = (y > 30)
  BY <1>2 DEF Larger
<1> HIDE DEF h, y, c
<1>7. (c * 32 + h) \div 32 = c
  BY <1>1
<1>8. SetBit(h, 16) = h + 16 /\ SetBit(h + 16, 4) = h + 20
  BY <1>1 DEF SetBit
<1>9. SetBit(c * 32 + h, 16) = c * 32 + h + 16 /\ SetBit(c * 32 + h + 16, 4) = c * 32 + h + 20
  BY <1>1 DEF SetBit
<1>10. WithFlags(h, y > 30) = h + 16 + (IF y > 30 THEN 4 ELSE 0)
  BY <1>1, <1>8 DEF WithFlags, IsCompressed, IsLarger
<1>11. WithFlags(c * 32 + h, y > 30) = c * 32 + h + 16 + (IF y > 30 THEN 4 ELSE 0)
  BY <1>1, <1>9 DEF WithFlags, IsCompressed, IsLarger
<1>12. WithFlags(h, y > 30) % 32 = h + 16 + (IF y > 30 THEN 4 ELSE 0)
  BY <1>1, <1>10
<1>13. WithFlags(c * 32 + h, y > 30) % 32 = h + 16 + (IF y > 30 THEN 4 ELSE 0)
  BY <1>1, <1>11
<1> QED BY <1>3, <1>4, <1>5, <1>6, <1>7, <1>12, <1>13

LEMMA HonestCheck ==
    ASSUME NEW c, NEW ok, Check(c, ok), c.honest => ok
    PROVE  HonestProofsAccepted'
<1>1. claim' = c /\ (verdict' = "rejected" => ~ok)
  BY DEF Check
<1> QED BY <1>1 DEF HonestProofsAccepted

LEMMA LeafIsAccepted == ProveLeaf => HonestProofsAccepted'
<1> SUFFICES ASSUME ProveLeaf PROVE HonestProofsAccepted'
  OBVIOUS
<1> DEFINE c(t, idx) == [kind |-> "leaf", tree |-> t, idx |-> idx, honest |-> TRUE]
           ok(t, idx) ==
               LET proof == MakeProof(t, idx)
               IN  /\ IsProofLength(proof.genIndex, proof.path)
                   /\ ReconstructRoot(proof.genIndex, proof.path, t.leaves[idx + 1]) = TreeHash(t)
<1>1. PICK t \in Shapes : \E idx \in 0..(Len(t.leaves) - 1) : Check(c(t, idx), ok(t, idx))
  BY DEF ProveLeaf
<1>2. PICK idx \in 0..(Len(t.leaves) - 1) : Check(c(t, idx), ok(t, idx))
  BY <1>1
<1>3. ok(t, idx)
  BY LeafAccepted
<1> HIDE DEF c, ok
<1> QED BY <1>2, <1>3, HonestCheck

LEMMA StateRootIsAccepted == ProveExecutionStateRoot => HonestProofsAccepted'
<1> SUFFICES ASSUME ProveExecutionStateRoot PROVE HonestProofsAccepted'
  OBVIOUS
<1> DEFINE c(source, leaf) == [kind |-> "stateRoot", source |-> source, leaf |-> leaf,
                               honest |-> leaf = ExecutionStateRoot(source)]
           roots(source, slot) == StateRoots({source, slot})
           ok(source, slot, leaf) ==
               AcceptsStateRoot(roots(source, slot)[source], leaf,
                   MakeExecutionPayloadStateRootProof(slot, roots(source, slot)))
<1>1. PICK source \in Slots, slot \in Slots :
         \E leaf \in {ExecutionStateRoot(slot), ReceiptsRoot(slot)} :
            Check(c(source, leaf), ok(source, slot, leaf))
  BY DEF ProveExecutionStateRoot
<1>2. PICK leaf \in {ExecutionStateRoot(slot), ReceiptsRoot(slot)} :
         Check(c(source, leaf), ok(source, slot, leaf))
  BY <1>1
<1>3. leaf = ExecutionStateRoot(source) => slot = source
  <2> SUFFICES ASSUME leaf = ExecutionStateRoot(source) PROVE slot = source
    OBVIOUS
  <2>1. slot \in Int /\ source \in Int
    BY DEF Slots
  <2>2. ReceiptsRoot(slot) # ExecutionStateRoot(source)
    <3>1. <<-2, 5, slot>>[2] = 5 /\ <<-2, 4, source>>[2] = 4
      OBVIOUS
    <3> QED BY <3>1 DEF ReceiptsRoot, ExecutionStateRoot, DigestOf, ReceiptsRootKind, StateRootKind
  <2>3. DigestOf(StateRootKind, slot) = DigestOf(StateRootKind, source)
    BY <2>2 DEF ExecutionStateRoot
  <2> QED BY <2>1, <2>3, OpaqueTells, KindsAreInt
<1>4. leaf = ExecutionStateRoot(source) => ok(source, slot, leaf)
  <2> SUFFICES ASSUME leaf = ExecutionStateRoot(source) PROVE ok(source, slot, leaf)
    OBVIOUS
  <2> DEFINE open == {source, slot}
  <2>1. source \in open
    OBVIOUS
  <2> HIDE DEF open
  <2>2. AcceptsStateRoot(StateRoots(open)[source], ExecutionStateRoot(source),
                         MakeExecutionPayloadStateRootProof(source, StateRoots(open)))
    BY <2>1, StateRootAccepted
  <2> QED BY <1>3, <2>2 DEF open
<1>5. c(source, leaf).honest => ok(source, slot, leaf)
  BY <1>4
<1> HIDE DEF c, ok
<1> QED BY <1>2, <1>5, HonestCheck

LEMMA ReceiptsRootIsAccepted == ProveReceiptsRoot => HonestProofsAccepted'
<1> SUFFICES ASSUME ProveReceiptsRoot PROVE HonestProofsAccepted'
  OBVIOUS
<1> DEFINE roots(source, target, slot) == StateRoots({source, target, slot})
           c(source, target, slot) ==
               [kind |-> "receiptsRoot", source |-> source, target |-> target,
                leaf |-> ReceiptsRoot(slot), honest |-> slot = target]
           ok(source, target, slot) ==
               AcceptsReceiptsRoot(roots(source, target, slot)[source], source, target,
                   ReceiptsRoot(slot),
                   MakeExecutionPayloadReceiptsRootProof(source, slot, roots(source, target, slot)))
<1>1. PICK source \in Slots, target \in Slots, slot \in Slots :
         slot <= source /\ Check(c(source, target, slot), ok(source, target, slot))
  BY DEF ProveReceiptsRoot
<1>2. slot = target => ok(source, target, slot)
  <2> SUFFICES ASSUME slot = target PROVE ok(source, target, slot)
    OBVIOUS
  <2> DEFINE open == {source, target, slot}
  <2>1. source \in open /\ target \in open /\ target <= source
    BY <1>1
  <2> HIDE DEF open
  <2>2. AcceptsReceiptsRoot(StateRoots(open)[source], source, target, ReceiptsRoot(target),
            MakeExecutionPayloadReceiptsRootProof(source, target, StateRoots(open)))
    BY <2>1, ReceiptsRootAccepted
  <2> QED BY <2>2 DEF open
<1>3. c(source, target, slot).honest => ok(source, target, slot)
  BY <1>2
<1> HIDE DEF c, ok
<1> QED BY <1>1, <1>3, HonestCheck

LEMMA FinalityIsAccepted == ProveFinality => HonestProofsAccepted'
<1> SUFFICES ASSUME ProveFinality PROVE HonestProofsAccepted'
  OBVIOUS
<1> DEFINE c(finalized, header) ==
               [kind |-> "finality", finalized |-> finalized, header |-> header,
                honest |-> finalized = header]
           ok(finalized, header, epoch) ==
               AcceptsFinality(TreeHash(FinalizedState(epoch, finalized)), header,
                               MakeFinalityBranch(epoch, finalized))
<1>1. PICK finalized \in Headers, header \in Headers, epoch \in Slots :
         Check(c(finalized, header), ok(finalized, header, epoch))
  BY DEF ProveFinality
<1>2. finalized \in HeadersAre /\ epoch \in Nat
  BY OracleAssumption DEF HeadersAre, Slots
<1>3. finalized = header => ok(finalized, header, epoch)
  BY <1>2, FinalityAccepted
<1>4. c(finalized, header).honest => ok(finalized, header, epoch)
  BY <1>3
<1> HIDE DEF c, ok
<1> QED BY <1>1, <1>4, HonestCheck

LEMMA ListIsAccepted == ProveList => HonestProofsAccepted'
<1> SUFFICES ASSUME ProveList PROVE HonestProofsAccepted'
  OBVIOUS
<1> DEFINE c(list, other) ==
               [kind |-> "list", list |-> list, other |-> other, honest |-> list = other]
           ok(list, other) == HashPackedList(list) = HashPackedList(other)
<1>1. PICK list \in Lists, other \in Lists : Check(c(list, other), ok(list, other))
  BY DEF ProveList
<1>2. c(list, other).honest => ok(list, other)
  OBVIOUS
<1> HIDE DEF c, ok
<1> QED BY <1>1, <1>2, HonestCheck

LEMMA KeyIsAccepted == ProveKey => HonestProofsAccepted'
<1> SUFFICES ASSUME ProveKey PROVE HonestProofsAccepted'
  OBVIOUS
<1> DEFINE c(p, sent) == [kind |-> "key", key |-> p, sent |-> sent, honest |-> p = sent]
           ok(p, sent) == /\ hashG1(PkToG1(sent)) = Marshal(p)
                          /\ hashG1Compressed(PkToG1Compressed(sent)) = Marshal(p)
<1>1. PICK p \in Points :
         \E sent \in {p, [p EXCEPT !.y = P - p.y]} : Check(c(p, sent), ok(p, sent))
  BY DEF ProveKey
<1>2. PICK sent \in {p, [p EXCEPT !.y = P - p.y]} : Check(c(p, sent), ok(p, sent))
  BY <1>1
<1>3. c(p, sent).honest => ok(p, sent)
  BY KeyAccepted
<1> HIDE DEF c, ok
<1> QED BY <1>2, <1>3, HonestCheck

LEMMA ChecksAccept == Checks => HonestProofsAccepted'
BY LeafIsAccepted, StateRootIsAccepted, ReceiptsRootIsAccepted, FinalityIsAccepted,
   ListIsAccepted, KeyIsAccepted DEF Checks

-----------------------------------------------------------------------------
(* The bits of the signers, reversed twice.                                 *)

LEMMA WordsAre ==
    /\ ByteBits \in Nat \ {0} /\ WordBytes \in Nat \ {0}
    /\ WordBits = WordBytes * ByteBits
    /\ Size \div WordBits \in Nat \ {0} /\ Size = (Size \div WordBits) * WordBits
    /\ Size \div ByteBits = (Size \div WordBits) * WordBytes
<1> DEFINE p == Size \div WordBits
           v == WordBits \div ByteBits
<1>1. /\ Size \in Nat \ {0} /\ WordBits \in Nat \ {0} /\ ByteBits \in Nat \ {0}
      /\ Size % WordBits = 0 /\ WordBits % ByteBits = 0
  BY SyncCommitteeAssumption
<1>2. p \in Int /\ Size = WordBits * p
  <2>1. Size % WordBits = Size - WordBits * (Size \div WordBits) /\ Size \div WordBits \in Int
    BY <1>1, DivBounds
  <2> QED BY <1>1, <2>1
<1>3. v \in Int /\ WordBits = ByteBits * v
  <2>1. WordBits % ByteBits = WordBits - ByteBits * (WordBits \div ByteBits)
        /\ WordBits \div ByteBits \in Int
    BY <1>1, DivBounds
  <2> QED BY <1>1, <2>1
<1> HIDE DEF p, v
<1>4. p \in Nat \ {0}
  <2>1. p <= 0 => WordBits * p <= 0
    BY <1>1, <1>2
  <2> QED BY <1>1, <1>2, <2>1
<1>5. v \in Nat \ {0}
  <2>1. v <= 0 => ByteBits * v <= 0
    BY <1>1, <1>3
  <2> QED BY <1>1, <1>3, <2>1
<1>6. Size \div ByteBits = p * v
  <2>1. Size = ByteBits * (p * v)
    <3>1. (ByteBits * v) * p = ByteBits * (p * v)
      BY <1>1, <1>4, <1>5
    <3> QED BY <1>2, <1>3, <3>1
  <2> DEFINE q == p * v
  <2>2. q \in Int /\ ByteBits * q <= Size /\ Size < ByteBits * q + ByteBits /\ Size \in Int
    <3>1. q \in Int
      BY <1>4, <1>5
    <3> HIDE DEF q
    <3> QED BY <1>1, <2>1, <3>1 DEF q
  <2> HIDE DEF q
  <2>3. Size \div ByteBits = q
    BY <1>1, <2>2, DivIs
  <2> QED BY <2>3 DEF q
<1>7. WordBits * p = p * WordBits /\ ByteBits * v = v * ByteBits
  BY <1>1, <1>4, <1>5
<1> QED BY <1>1, <1>2, <1>3, <1>4, <1>5, <1>6, <1>7 DEF p, v, WordBytes

(* A member's place: its byte, and its word and the byte in that.           *)
LEMMA PlaceOfMember ==
    ASSUME NEW i \in Members
    PROVE  LET w == i \div WordBits
               m == i % WordBits
               k == m \div ByteBits
           IN  /\ w \in 0..((Size \div WordBits) - 1)
               /\ m \in 0..(WordBits - 1)
               /\ k \in 0..(WordBytes - 1)
               /\ i \div ByteBits = w * WordBytes + k
               /\ i \div ByteBits \in 0..((Size \div ByteBits) - 1)
               /\ m % ByteBits = i % ByteBits
               /\ i % ByteBits \in 0..(ByteBits - 1)
               /\ (i \div ByteBits) * ByteBits + (i % ByteBits) = i
<1> DEFINE w == i \div WordBits
           m == i % WordBits
           k == m \div ByteBits
           r == m % ByteBits
           p == Size \div WordBits
           W == WordBits
           B == ByteBits
           V == WordBytes
<1>1. /\ B \in Nat \ {0} /\ V \in Nat \ {0} /\ W = V * B /\ p \in Nat \ {0} /\ Size = p * W
      /\ Size \div B = p * V /\ W \in Nat \ {0}
  BY WordsAre, SizeIs
<1>2. i \in Nat /\ i < Size /\ i \in Int
  BY SizeIs DEF Members
<1>3. w \in Int /\ W * w <= i /\ i < W * w + W /\ m = i - W * w /\ m \in 0..(W - 1)
  BY <1>1, <1>2, DivBounds
<1> HIDE DEF w, m, W, B, V, p
<1>4. w \in 0..(p - 1)
  <2>1. w < 0 => W * w <= - W
    BY <1>1, <1>3
  <2>2. w >= p => W * w >= p * W
    BY <1>1, <1>3
  <2> QED BY <1>1, <1>2, <1>3, <2>1, <2>2
<1>5. k \in Int /\ B * k <= m /\ m < B * k + B /\ r = m - B * k /\ r \in 0..(B - 1)
  <2>1. m \in Int
    BY <1>3
  <2> QED BY <1>1, <2>1, DivBounds DEF B
<1> HIDE DEF k, r
<1>6. k \in 0..(V - 1)
  <2>1. k < 0 => B * k <= - B
    BY <1>1, <1>5
  <2>2. k >= V => B * k >= V * B
    BY <1>1, <1>5
  <2> QED BY <1>1, <1>3, <1>5, <2>1, <2>2
<1> DEFINE q == w * V + k
<1>7. B * q = W * w + B * k
  <2>1. B * (w * V + k) = (V * B) * w + B * k
    BY <1>1, <1>4, <1>6
  <2> QED BY <1>1, <2>1
<1>8. q \in Nat
  BY <1>1, <1>4, <1>6
<1>9. i \div B = q
  <2> HIDE DEF q
  <2>1. B * q \in Int /\ W * w \in Int /\ B * k \in Int
    BY <1>1, <1>4, <1>6, <1>8
  <2>2. q \in Int /\ B * q <= i /\ i < B * q + B
    BY <1>1, <1>2, <1>3, <1>5, <1>7, <1>8, <2>1
  <2> QED BY <1>1, <1>2, <2>2, DivIs
<1>10. q <= p * V - 1
  <2>1. w * V <= (p - 1) * V
    BY <1>1, <1>4
  <2>2. (p - 1) * V = p * V - V
    BY <1>1
  <2>3. w * V \in Int /\ p * V \in Int /\ (p - 1) * V \in Int
    BY <1>1, <1>4
  <2> QED BY <1>1, <1>6, <2>1, <2>2, <2>3
<1>11. i % B = r /\ q * B + r = i
  <2>1. i % B = i - B * (i \div B)
    BY <1>1, <1>2, DivBounds
  <2> HIDE DEF q
  <2>2. B * q = q * B /\ B * q \in Int /\ W * w \in Int /\ B * k \in Int
    BY <1>1, <1>4, <1>6, <1>8
  <2>3. i % B = i - B * q
    BY <1>9, <2>1
  <2>4. B * q = W * w + (m - r)
    BY <1>3, <1>5, <1>7, <2>2
  <2>5. i = W * w + m
    BY <1>2, <1>3, <2>2
  <2>6. m \in Int /\ r \in Int
    BY <1>3, <1>5
  <2> QED BY <1>2, <2>2, <2>3, <2>4, <2>5, <2>6
<1>12. q \in 0..(p * V - 1)
  <2> HIDE DEF q
  <2>1. p * V \in Int
    BY <1>1
  <2> QED BY <1>8, <1>10, <2>1
<1>13. /\ w \in 0..(p - 1) /\ m \in 0..(W - 1) /\ k \in 0..(V - 1)
       /\ i \div B = w * V + k
       /\ i \div B \in 0..((Size \div B) - 1)
       /\ r = i % B
       /\ i % B \in 0..(B - 1)
       /\ (i \div B) * B + (i % B) = i
  <2>1. i \div B = w * V + k
    BY <1>9
  <2> HIDE DEF q
  <2>2. i \div B \in 0..((Size \div B) - 1)
    BY <1>1, <1>9, <1>12
  <2>3. r = i % B /\ i % B \in 0..(B - 1)
    BY <1>5, <1>11
  <2>4. (i \div B) * B + (i % B) = i
    <3> DEFINE y == i \div B
               z == i % B
    <3>1. y = q /\ z = r /\ q * B + r = i
      BY <1>9, <1>11
    <3> HIDE DEF y, z
    <3>2. y * B + z = i
      BY <3>1
    <3> QED BY <1>1, <1>2, <3>2 DEF y, z
  <2> QED BY <1>3, <1>4, <1>6, <2>1, <2>2, <2>3, <2>4
<1> QED BY <1>13 DEF w, m, k, r, p, W, B, V

LEMMA BytesAre ==
    ASSUME NEW signers
    PROVE  /\ Len(SyncCommitteeBits(signers)) = Size \div ByteBits
           /\ \A i \in Members : BitAt(SyncCommitteeBits(signers), i) <=> i \in signers
<1> DEFINE bytes == SyncCommitteeBits(signers)
           l == Size \div ByteBits
           f(j) == {b \in 0..(ByteBits - 1) : (j - 1) * ByteBits + b \in signers}
<1>1. l \in Nat
  BY WordsAre
<1>2. bytes = [j \in 1..l |-> f(j)]
  BY DEF SyncCommitteeBits
<1>3. Len(bytes) = l
  BY <1>1, <1>2
<1>4. ASSUME NEW i \in Members PROVE BitAt(bytes, i) <=> i \in signers
  <2> DEFINE q == i \div ByteBits
             r == i % ByteBits
  <2>1. q \in 0..(l - 1) /\ r \in 0..(ByteBits - 1) /\ q * ByteBits + r = i
    BY PlaceOfMember
  <2> HIDE DEF q, r
  <2>2. q + 1 \in 1..l /\ (q + 1) - 1 = q
    BY <1>1, <2>1
  <2>3. bytes[q + 1] = f(q + 1)
    BY <1>2, <2>2
  <2>4. r \in f(q + 1) <=> (((q + 1) - 1) * ByteBits) + r \in signers
    BY <2>1
  <2>5. r \in bytes[q + 1] <=> i \in signers
    <3> HIDE DEF f, bytes
    <3> QED BY <2>1, <2>2, <2>3, <2>4
  <2> QED BY <2>5 DEF BitAt, q, r
<1> QED BY <1>3, <1>4

(* The byte that comes to a member's place in its word.                     *)
LEMMA SwappedByte ==
    ASSUME NEW signers, NEW w \in 0..((Size \div WordBits) - 1), NEW k \in 0..(WordBytes - 1)
    PROVE  SwapBytes(SyncCommitteeBits(signers))[(w + 1) * WordBytes - k]
              = SyncCommitteeBits(signers)[w * WordBytes + k + 1]
<1> DEFINE bytes == SyncCommitteeBits(signers)
           p == Size \div WordBits
           V == WordBytes
           j == (w + 1) * V - k
           f(i) == bytes[((i - 1) \div V) * V + V - ((i - 1) % V)]
           e == w * V
<1>1. p \in Nat \ {0} /\ V \in Nat \ {0} /\ Len(bytes) = p * V
  BY WordsAre, BytesAre
<1> HIDE DEF bytes, p, V
<1>2. w \in Nat /\ w <= p - 1 /\ k \in 0..(V - 1)
  BY <1>1 DEF p, V
<1>3. j = e + V - k /\ e \in Nat
  BY <1>1, <1>2
<1>4. e + V <= p * V /\ p * V \in Nat
  <2>1. (w + 1) * V <= p * V
    BY <1>1, <1>2
  <2>2. (w + 1) * V = e + V
    BY <1>1, <1>2
  <2> QED BY <1>1, <2>1, <2>2
<1> HIDE DEF j
<1>5. j \in 1..(p * V) /\ j - 1 = e + (V - 1 - k) /\ V - 1 - k \in 0..(V - 1)
  <2> HIDE DEF e
  <2> DEFINE l == p * V
  <2> HIDE DEF l
  <2>1. l \in Nat /\ e + V <= l
    BY <1>4 DEF l
  <2>2. j \in 1..l /\ j - 1 = e + (V - 1 - k) /\ V - 1 - k \in 0..(V - 1)
    BY <1>1, <1>2, <1>3, <2>1
  <2> QED BY <2>2 DEF l
<1>6. (j - 1) \div V = w
  <2>1. V * w = e
    BY <1>1, <1>2
  <2> HIDE DEF e
  <2> DEFINE a == j - 1
  <2>2. a \in Int /\ V * w <= a /\ a < V * w + V /\ w \in Int
    BY <1>1, <1>2, <1>3, <1>5, <2>1
  <2> HIDE DEF a
  <2>3. a \div V = w
    BY <1>1, <2>2, DivIs
  <2> QED BY <2>3 DEF a
<1>7. (j - 1) % V = V - 1 - k
  <2> DEFINE a == j - 1
  <2>1. a \in Int
    BY <1>1, <1>3, <1>5
  <2> HIDE DEF a
  <2>2. a % V = a - V * (a \div V)
    BY <1>1, <2>1, DivBounds
  <2>3. a \div V = w /\ V * w = e
    BY <1>1, <1>2, <1>6 DEF a
  <2>4. a % V = a - e
    BY <2>2, <2>3
  <2> HIDE DEF e
  <2> QED BY <1>1, <1>2, <1>3, <1>5, <2>4 DEF a
<1>8. SwapBytes(bytes) = [i \in 1..(p * V) |-> f(i)]
  BY <1>1 DEF SwapBytes, V
<1>9. SwapBytes(bytes)[j] = f(j)
  BY <1>5, <1>8
<1>10. f(j) = bytes[e + V - (V - 1 - k)]
  BY <1>6, <1>7
<1>11. e + V - (V - 1 - k) = e + k + 1
  <2> HIDE DEF e
  <2> QED BY <1>1, <1>2, <1>3
<1> HIDE DEF f
<1>12. SwapBytes(bytes)[j] = bytes[e + k + 1]
  BY <1>9, <1>10, <1>11
<1> QED BY <1>12 DEF bytes, j, e, V

LEMMA MarkedAreSigners ==
    ASSUME NEW keys, NEW signers \in SUBSET Members
    PROVE  /\ Marked(MakeUpdate(keys, SyncCommitteeBits(signers)).bitList) = signers
           /\ Present(SyncCommitteeBits(signers)) = signers
<1> DEFINE bytes == SyncCommitteeBits(signers)
           swapped == SwapBytes(bytes)
           p == Size \div WordBits
           bitList == [w \in 1..p |-> Word(swapped, w)]
           marked == Marked(bitList)
<1>1. MakeUpdate(keys, bytes).bitList = bitList
  BY DEF MakeUpdate
<1>2. p \in Nat \ {0}
  BY WordsAre
<1>3. ASSUME NEW i \in Members
      PROVE  i \in marked <=> i \in signers
  <2> DEFINE w == i \div WordBits
             m == i % WordBits
             k == m \div ByteBits
             q == i \div ByteBits
             r == i % ByteBits
  <2>1. /\ w \in 0..(p - 1) /\ m \in 0..(WordBits - 1) /\ k \in 0..(WordBytes - 1)
        /\ q = w * WordBytes + k /\ m % ByteBits = r
    BY PlaceOfMember
  <2>2. BitAt(bytes, i) <=> i \in signers
    BY BytesAre
  <2>3. i \in marked <=> m \in bitList[w + 1]
    BY DEF Marked
  <2> HIDE DEF bytes, p, w
  <2>4. w + 1 \in 1..p
    BY <1>2, <2>1
  <2>5. bitList[w + 1] = Word(swapped, w + 1)
    BY <2>4
  <2>6. swapped[(w + 1) * WordBytes - k] = bytes[(w * WordBytes + k) + 1]
    <3>1. SwapBytes(SyncCommitteeBits(signers))[(w + 1) * WordBytes - k]
             = SyncCommitteeBits(signers)[w * WordBytes + k + 1]
      BY <2>1, SwappedByte DEF p
    <3> QED BY <3>1 DEF bytes
  <2>7. m \in Word(swapped, w + 1) <=> m % ByteBits \in swapped[(w + 1) * WordBytes - k]
    BY <2>1 DEF Word
  <2> HIDE DEF marked, bitList, swapped, m, k, q, r
  <2>8. i \in marked <=> r \in bytes[q + 1]
    BY <2>1, <2>3, <2>5, <2>6, <2>7
  <2>9. BitAt(bytes, i) <=> r \in bytes[q + 1]
    BY DEF BitAt, q, r
  <2> QED BY <2>2, <2>8, <2>9
<1>4. marked \subseteq Members
  BY DEF Marked
<1>5. marked = signers
  <2> HIDE DEF marked
  <2> QED BY <1>3, <1>4
<1>6. Present(bytes) = signers
  <2>1. \A i \in Members : BitAt(bytes, i) <=> i \in signers
    BY BytesAre
  <2> QED BY <2>1 DEF Present
<1> QED BY <1>1, <1>5, <1>6

(* The contract counts down the members that the oracle counts up.          *)
Mirrors(a, c, p, k) ==
    /\ Len(a[Size - k]) + Len(c[k]) = Len(p)
    /\ \A j \in 1..Len(a[Size - k]) : a[Size - k][j] = p[j]
    /\ \A j \in 1..Len(c[k]) : c[k][j] = p[Len(p) + 1 - j] + Size

LEMMA CountsUpIs == CountsUp \in [1..Size -> Nat] /\ \A k \in 1..Size : CountsUp[k] = k - 1
<1>1. Size \in Nat
  BY SizeIs
<1>2. \A k \in 1..Size : k - 1 \in Nat
  BY <1>1
<1> QED BY <1>2 DEF CountsUp

LEMMA HeardNext ==
    ASSUME NEW signers, NEW a,
           Collects(a, Size, Heard(SyncCommitteeBits(signers)), CountsUp),
           NEW i \in Members
    PROVE  /\ a[i] \in Seq(Nat) /\ i \in Nat
           /\ i \in signers => a[i + 1] = a[i]
           /\ i \notin signers => a[i + 1] = Append(a[i], i)
<1> DEFINE out == Heard(SyncCommitteeBits(signers))
<1>1. Size \in Nat
  BY SizeIs
<1>2. i + 1 \in 1..Size /\ (i + 1) - 1 = i /\ i \in 0..Size /\ i \in Nat
  BY <1>1 DEF Members
<1>3. Collected(a[i], i, out, CountsUp)
  BY <1>1, <1>2, CountsUpIs, CollectionIs
<1>4. a[i + 1] = IF i + 1 \in out THEN a[i] ELSE Append(a[i], CountsUp[i + 1])
  BY <1>2 DEF Collects
<1>5. i + 1 \in out <=> i \in signers
  BY <1>2, BytesAre DEF Heard
<1>6. CountsUp[i + 1] = i
  BY <1>2, CountsUpIs
<1> QED BY <1>2, <1>3, <1>4, <1>5, <1>6 DEF Collected

LEMMA MirrorsNext ==
    ASSUME NEW signers, NEW bitList, Marked(bitList) = signers,
           NEW a, Collects(a, Size, Heard(SyncCommitteeBits(signers)), CountsUp),
           NEW c, Collects(c, Size, Cleared(bitList), CountsDown),
           NEW p \in Seq(Nat), NEW k \in 0..(Size - 1), Mirrors(a, c, p, k)
    PROVE  Mirrors(a, c, p, k + 1)
<1> DEFINE i == Size - (k + 1)
           x == 2 * Size - (k + 1)
<1>1. Size \in Nat /\ i + 1 = Size - k /\ x = i + Size
  BY SizeIs
<1>2. /\ i \in Members /\ x \in Nat /\ k \in 0..Size
      /\ i \in signers => c[k + 1] = c[k]
      /\ i \notin signers => c[k + 1] = Append(c[k], x)
  BY CountNext
<1>3. c[k] \in Seq(Nat)
  BY <1>2, CountedIs
<1> HIDE DEF i, x
<1>4. /\ a[i] \in Seq(Nat) /\ i \in Nat
      /\ i \in signers => a[i + 1] = a[i]
      /\ i \notin signers => a[i + 1] = Append(a[i], i)
  BY <1>2, HeardNext
<1> DEFINE b == a[i]
           d == c[k]
           b1 == a[i + 1]
           d1 == c[k + 1]
           L == Len(p)
<1>5. /\ Len(b1) + Len(d) = L
      /\ \A j \in 1..Len(b1) : b1[j] = p[j]
      /\ \A j \in 1..Len(d) : d[j] = p[L + 1 - j] + Size
  BY <1>1 DEF Mirrors
<1>6. /\ Len(b) + Len(d1) = L
      /\ \A j \in 1..Len(b) : b[j] = p[j]
      /\ \A j \in 1..Len(d1) : d1[j] = p[L + 1 - j] + Size
  <2>1. CASE i \in signers
    <3>1. b1 = b /\ d1 = d
      BY <1>2, <1>4, <2>1
    <3> HIDE DEF b, d, b1, d1, L
    <3> QED BY <1>5, <3>1
  <2>2. CASE i \notin signers
    <3>1. b1 = Append(b, i) /\ d1 = Append(d, x) /\ b \in Seq(Nat) /\ d \in Seq(Nat)
      BY <1>2, <1>3, <1>4, <2>2
    <3> HIDE DEF b, d, b1, d1
    <3>2. /\ Len(b1) = Len(b) + 1 /\ Len(d1) = Len(d) + 1 /\ Len(b) \in Nat /\ Len(d) \in Nat
          /\ \A j \in 1..Len(b) : b1[j] = b[j]
          /\ b1[Len(b) + 1] = i
          /\ \A j \in 1..Len(d) : d1[j] = d[j]
          /\ d1[Len(d) + 1] = x
      BY <1>2, <1>4, <3>1
    <3>3. L \in Nat
      OBVIOUS
    <3> HIDE DEF L
    <3>4. Len(b) + 1 \in 1..Len(b1) /\ p[Len(b) + 1] = i
      <4>1. Len(b) + 1 \in 1..Len(b1)
        BY <3>2
      <4> QED BY <1>5, <3>2, <4>1
    <3>5. Len(b) + Len(d1) = L /\ L + 1 - Len(d1) = Len(b) + 1
      BY <1>5, <3>2, <3>3
    <3>6. ASSUME NEW j \in 1..Len(b) PROVE b[j] = p[j]
      <4>1. j \in 1..Len(b1)
        BY <3>2
      <4> QED BY <1>5, <3>2, <4>1
    <3>7. ASSUME NEW j \in 1..Len(d1) PROVE d1[j] = p[L + 1 - j] + Size
      <4>1. CASE j = Len(d1)
        BY <1>1, <3>2, <3>4, <3>5, <4>1
      <4>2. CASE j # Len(d1)
        <5>1. j \in 1..Len(d)
          BY <3>2, <4>2
        <5> QED BY <1>5, <3>2, <5>1
      <4> QED BY <4>1, <4>2
    <3> QED BY <3>5, <3>6, <3>7
  <2> QED BY <2>1, <2>2
<1>7. Size - (k + 1) = i
  BY DEF i
<1> HIDE DEF L
<1> QED BY <1>6, <1>7 DEF Mirrors, L

LEMMA MissedIsReversed ==
    ASSUME NEW signers, NEW bitList, Marked(bitList) = signers
    PROVE  LET p == Absent(SyncCommitteeBits(signers))
           IN  /\ p \in Seq(Members)
               /\ Len(Missed(bitList)) = Len(p)
               /\ \A j \in 1..Len(p) : Missed(bitList)[j] = p[Len(p) + 1 - j] + Size
<1> DEFINE bytes == SyncCommitteeBits(signers)
           p == Absent(bytes)
<1>1. PICK a : Collects(a, Size, Heard(bytes), CountsUp) /\ p = a[Size]
  BY AbsentIsLast
<1>2. PICK c : Collects(c, Size, Cleared(bitList), CountsDown) /\ Missed(bitList) = c[Size]
  BY MissedIsLast
<1>3. p \in Seq(Members) /\ Size \in Nat
  BY AbsentIs, SizeIs
<1>4. p \in Seq(Nat) /\ Len(p) \in Nat
  <2> HIDE DEF p
  <2> QED BY <1>3 DEF Members
<1> DEFINE S == {k \in 0..Size : Mirrors(a, c, p, k)}
<1> HIDE DEF p
<1>5. 0 \in S
  <2>1. c[0] = <<>> /\ Size - 0 = Size /\ 0 \in 0..Size
    BY <1>2, <1>3 DEF Collects
  <2>2. Len(c[0]) = 0
    BY <2>1
  <2>3. Mirrors(a, c, p, 0)
    BY <1>1, <1>4, <2>1, <2>2 DEF Mirrors
  <2> QED BY <2>1, <2>3
<1>6. \A k \in 0..(Size - 1) : k \in S => k + 1 \in S
  <2> SUFFICES ASSUME NEW k \in 0..(Size - 1), Mirrors(a, c, p, k)
               PROVE  Mirrors(a, c, p, k + 1)
    BY <1>3
  <2> QED BY <1>1, <1>2, <1>4, MirrorsNext
<1>7. \A k \in 0..Size : k \in S
  <2> HIDE DEF S
  <2> QED BY <1>3, <1>5, <1>6, BoundedInduction
<1>8. Mirrors(a, c, p, Size) /\ Size - Size = 0
  BY <1>3, <1>7
<1>9. a[0] = <<>>
  BY <1>1 DEF Collects
<1>10. Len(c[Size]) = Len(p)
  <2>1. Len(a[0]) = 0 /\ c[Size] \in Seq(Nat) /\ Len(c[Size]) \in Nat
    BY <1>2, <1>3, <1>9, CountedIs
  <2> QED BY <1>4, <1>8, <2>1 DEF Mirrors
<1>11. \A j \in 1..Len(p) : c[Size][j] = p[Len(p) + 1 - j] + Size
  BY <1>8, <1>10 DEF Mirrors
<1> QED BY <1>2, <1>3, <1>10, <1>11 DEF p

LEMMA UpdateShows ==
    ASSUME NEW keys \in CommitteeKeys, NEW signers \in SUBSET Members, NEW update,
           update = MakeUpdate(keys, SyncCommitteeBits(signers))
    PROVE  /\ IsUpdate(update) /\ MissedAreSent(update)
           /\ update.pubkey = SumOfSome(keys, Marked(update.bitList))
           /\ update.missing = KeysAt(keys, Missed(update.bitList))
<1> DEFINE bytes == SyncCommitteeBits(signers)
           p == Absent(bytes)
           q == Missed(update.bitList)
           L == Len(p)
<1>1. /\ Marked(update.bitList) = signers /\ Present(bytes) = signers
  BY MarkedAreSigners
<1>2. IsUpdate(update)
  BY UpdateIs
<1>3. /\ p \in Seq(Members) /\ Len(q) = L
      /\ \A j \in 1..L : q[j] = p[L + 1 - j] + Size
  BY <1>1, MissedIsReversed
<1>4. update.missing = MissingKeys(keys, p) /\ update.pubkey = SumOfSome(keys, Present(bytes))
  BY DEF MakeUpdate
<1>5. L \in Nat /\ Size \in Nat /\ \A j \in 1..L : p[j] \in Int
  <2> HIDE DEF p
  <2> QED BY <1>3, SizeIs DEF Members
<1> HIDE DEF p, q
<1>6. MissingKeys(keys, p) = KeysAt(keys, q)
  <2>1. MissingKeys(keys, p) = [k \in 1..L |-> keys[p[L + 1 - k] + 1]]
    BY DEF MissingKeys
  <2>2. KeysAt(keys, q) = [j \in 1..L |-> keys[q[j] - Size + 1]]
    BY <1>3 DEF KeysAt
  <2>3. \A j \in 1..L : q[j] - Size + 1 = p[L + 1 - j] + 1
    <3> TAKE j \in 1..L
    <3>1. L + 1 - j \in 1..L
      BY <1>5
    <3>2. p[L + 1 - j] \in Int /\ q[j] = p[L + 1 - j] + Size
      BY <1>3, <1>5, <3>1
    <3> QED BY <1>5, <3>2
  <2> QED BY <2>1, <2>2, <2>3
<1>7. Len(KeysAt(keys, q)) = L
  BY <1>3, <1>5 DEF KeysAt
<1>8. MissedAreSent(update)
  BY <1>3, <1>4, <1>6, <1>7 DEF MissedAreSent, q
<1> QED BY <1>1, <1>2, <1>4, <1>6, <1>8 DEF q

(* The oracle's update adds up to the committee's key, and its keys are the *)
(* leaves of the committee's tree that the contract counts.                 *)
LEMMA UpdateAddsUp ==
    ASSUME NEW keys \in CommitteeKeys, NEW update, IsUpdate(update),
           update.pubkey = SumOfSome(keys, Marked(update.bitList)),
           update.missing = KeysAt(keys, Missed(update.bitList)), MissedAreSent(update)
    PROVE  /\ AggregatedPK(update) = Sum(keys)
           /\ Agree(Sent(update), NodeHash(KeysTree(keys)))
<1> DEFINE marked == Marked(update.bitList)
           q == Missed(update.bitList)
           tree == NodeHash(KeysTree(keys))
           missing == update.missing
           l == Len(missing)
<1>1. SumOf(KeysAt(keys, q), Len(q)) + SumOfSome(keys, marked) = Sum(keys)
  BY MissedSum
<1>2. Len(q) = l /\ l \in Nat
  BY DEF MissedAreSent, IsUpdate
<1>3. \A k \in 1..l : q[k] \in Size..(2 * Size - 1)
  BY <1>2, MissedAreLeaves
<1>4. AggregatedPK(update) = Sum(keys)
  <2>1. Sum(missing) = SumOf(KeysAt(keys, q), Len(q))
    BY <1>2 DEF Sum
  <2>2. Sum(missing) \in Int
    <3>1. \A k \in 1..l : missing[k] \in Int
      BY DEF IsUpdate
    <3>2. l \in 0..l
      BY <1>2
    <3> HIDE DEF missing
    <3>3. SumOf(missing, l) \in Int
      BY <1>2, <3>1, <3>2, SumOfEquation
    <3> QED BY <3>3 DEF Sum
  <2>3. update.pubkey = SumOfSome(keys, marked) /\ SumOfSome(keys, marked) \in Int
    BY SumsAreInt
  <2> HIDE DEF q, marked
  <2> DEFINE a == SumOf(KeysAt(keys, q), Len(q))
             b == SumOfSome(keys, marked)
  <2>4. AggregatedPK(update) = b + a /\ a \in Int /\ b \in Int /\ a + b = Sum(keys)
    BY <1>1, <2>1, <2>2, <2>3 DEF AggregatedPK
  <2> HIDE DEF a, b
  <2> QED BY <2>4
<1>5. ASSUME NEW k \in 1..l
      PROVE  Sent(update)[k].hash = tree[Sent(update)[k].index]
  <2>1. Sent(update)[k].index = q[k] /\ Sent(update)[k].hash = HashG1(missing[k])
    BY SentIs
  <2>2. tree[q[k]] = HashG1(keys[q[k] - Size + 1])
    BY <1>3, KeysTreeIs
  <2>3. missing[k] = keys[q[k] - Size + 1]
    <3> HIDE DEF q, l, missing
    <3>1. missing = KeysAt(keys, q)
      BY DEF missing, q
    <3> QED BY <1>2, <3>1 DEF KeysAt
  <2> QED BY <2>1, <2>2, <2>3
<1>6. Len(Sent(update)) = l
  BY SentIs
<1>7. Agree(Sent(update), tree)
  <2> HIDE DEF l, tree
  <2> QED BY <1>5, <1>6 DEF Agree
<1> QED BY <1>4, <1>7

(* The branch leads from the committee's root to the root of the state.     *)
LEMMA CommitteeAccepted ==
    ASSUME NEW c, ArePairs(c), NEW next_ \in BOOLEAN
    PROVE  AcceptsCommittee(TreeHash(StateOf(c)), next_, CommitteeRoot(KeysOf(c, next_)),
                            Branch(c, next_))
<1> DEFINE a == CommitteeRoot(c.current)
           b == CommitteeRoot(c.next)
           fields == CommitteeFields(a, b)
           leaf == CommitteeRoot(KeysOf(c, next_))
           idx == IF next_ THEN 23 ELSE 22
           r == TreeHash(StateTree(fields))
           path == MakeProof(StateTree(fields), idx).path
           g == IF next_ THEN 55 ELSE 54
<1>1. a \in Digests /\ b \in Digests
  BY CommitteeRootIs DEF ArePairs
<1>2. StateOf(c) = StateTree(fields)
  BY DEF StateOf, CommitteeState, CommitteeFields
<1>3. /\ DOMAIN fields = {22, 23} /\ fields[22] = a /\ fields[23] = b
      /\ \A f \in DOMAIN fields : fields[f] \in Digests
  BY <1>1 DEF CommitteeFields, CurrentSyncCommitteeField, NextSyncCommitteeField
<1>4. fields[idx] = leaf /\ leaf \in Digests
  BY <1>1, <1>3 DEF KeysOf
<1>5. Branch(c, next_) = path
  BY <1>2 DEF Branch, NextSyncCommitteeField, CurrentSyncCommitteeField
<1>6. idx \in DOMAIN fields /\ idx \in 0..24 /\ 1 \in Nat \ {0} /\ Below(1, 32, idx) = g
  BY <1>3 DEF Below
<1> HIDE DEF fields, idx, g, leaf
<1>7. LeadsUp(leaf, g, path, r, 1)
  <2>1. Proves(StateTree(fields), idx, fields[idx], Below(1, 32, idx), 1)
    BY <1>3, <1>6, FieldProves
  <2> QED BY <1>4, <1>6, <2>1 DEF Proves
<1>8. g \in Nat
  BY DEF g
<1> HIDE DEF path, r
<1>9. Leads(leaf, g, path, r)
  BY <1>4, <1>7, <1>8, LeadsToRoot
<1> QED BY <1>2, <1>5, <1>9
        DEF AcceptsCommittee, NEXT_SYNC_COMMITTEE_INDEX, CURRENT_SYNC_COMMITTEE_INDEX, g, leaf, r

-----------------------------------------------------------------------------
(* The multiproof has all that the loop takes.                              *)

(* The nodes above the leaves that are shown.                               *)
Spreads(known, w) ==
    /\ \A g \in 1..(2 * w - 1) : known[g] \in BOOLEAN
    /\ \A g \in 1..(w - 1) : known[g] <=> known[2 * g] \/ known[2 * g + 1]

(* The queue holds those of them that come before the children of p - 1,    *)
(* as the tree has them.                                                    *)
HoldsLayer(q, tree, known, p) ==
    /\ Descending(q)
    /\ \A k \in 1..Len(q) : /\ q[k].index \in (p + 1)..(2 * p + 1)
                            /\ known[q[k].index] /\ q[k].hash = tree[q[k].index]
    /\ \A y \in (p + 1)..(2 * p + 1) : known[y] => \E k \in 1..Len(q) : q[k].index = y

LEMMA SkipLayer ==
    ASSUME NEW w \in Nat \ {0}, NEW known, Spreads(known, w), NEW tree, NEW q,
           NEW p \in 1..(w - 1), ~known[2 * p], ~known[2 * p + 1],
           HoldsLayer(q, tree, known, p)
    PROVE  HoldsLayer(q, tree, known, p - 1)
<1>1. p \in Nat /\ (p - 1) + 1 = p /\ 2 * (p - 1) + 1 = 2 * p - 1
  OBVIOUS
<1>2. ~known[p]
  BY DEF Spreads
<1>3. ASSUME NEW k \in 1..Len(q)
      PROVE  /\ q[k].index \in p..(2 * p - 1)
             /\ known[q[k].index] /\ q[k].hash = tree[q[k].index]
  <2>1. q[k].index \in (p + 1)..(2 * p + 1) /\ known[q[k].index] /\ q[k].hash = tree[q[k].index]
    BY DEF HoldsLayer
  <2>2. q[k].index # 2 * p /\ q[k].index # 2 * p + 1
    BY <2>1
  <2> QED BY <1>1, <2>1, <2>2
<1>4. ASSUME NEW y \in p..(2 * p - 1), known[y] PROVE \E k \in 1..Len(q) : q[k].index = y
  <2>1. y # p
    BY <1>2, <1>4
  <2>2. y \in (p + 1)..(2 * p + 1)
    BY <1>1, <2>1
  <2> QED BY <1>4, <2>2 DEF HoldsLayer
<1>5. Descending(q)
  BY DEF HoldsLayer
<1> QED BY <1>1, <1>3, <1>4, <1>5 DEF HoldsLayer

(* The first of the queue, when one of the children of p is in it.          *)
LEMMA FirstOfLayer ==
    ASSUME NEW p \in Nat \ {0}, NEW known, NEW tree, NEW q, Len(q) \in Nat,
           HoldsLayer(q, tree, known, p), known[2 * p] \/ known[2 * p + 1]
    PROVE  /\ Len(q) >= 1 /\ q[1].index = IF known[2 * p + 1] THEN 2 * p + 1 ELSE 2 * p
           /\ known[2 * p] /\ known[2 * p + 1] => Len(q) > 1 /\ q[2].index = 2 * p
           /\ ~(known[2 * p] /\ known[2 * p + 1]) => \A k \in 2..Len(q) : q[k].index < 2 * p
           /\ \A k \in 3..Len(q) : q[k].index < 2 * p
<1>1. /\ \A k \in 1..Len(q) : /\ q[k].index \in Int /\ q[k].index <= 2 * p + 1
                              /\ known[q[k].index]
      /\ \A j, k \in 1..Len(q) : j < k => q[j].index > q[k].index
  BY DEF HoldsLayer, Descending
<1>2. /\ known[2 * p] => \E k \in 1..Len(q) : q[k].index = 2 * p
      /\ known[2 * p + 1] => \E k \in 1..Len(q) : q[k].index = 2 * p + 1
  <2>1. 2 * p \in (p + 1)..(2 * p + 1) /\ 2 * p + 1 \in (p + 1)..(2 * p + 1)
    OBVIOUS
  <2> QED BY <2>1 DEF HoldsLayer
<1>3. Len(q) >= 1 /\ 1 \in 1..Len(q)
  BY <1>2
<1>4. \A k \in 2..Len(q) : k \in 1..Len(q) /\ q[1].index > q[k].index
  <2> TAKE k \in 2..Len(q)
  <2>1. k \in 1..Len(q) /\ 1 < k
    OBVIOUS
  <2> QED BY <1>1, <1>3, <2>1
<1>5. q[1].index = IF known[2 * p + 1] THEN 2 * p + 1 ELSE 2 * p
  <2>1. CASE known[2 * p + 1]
    <3>1. PICK k \in 1..Len(q) : q[k].index = 2 * p + 1
      BY <1>2, <2>1
    <3>2. k = 1
      <4>1. k \notin 2..Len(q)
        BY <1>1, <1>3, <1>4, <3>1
      <4> QED BY <4>1
    <3> QED BY <2>1, <3>1, <3>2
  <2>2. CASE ~known[2 * p + 1]
    <3>1. PICK k \in 1..Len(q) : q[k].index = 2 * p
      BY <1>2, <2>2
    <3>2. q[1].index # 2 * p + 1 /\ q[1].index <= 2 * p
      BY <1>1, <1>3, <2>2
    <3>3. k = 1
      <4>1. k \notin 2..Len(q)
        BY <1>1, <1>3, <1>4, <3>1, <3>2
      <4> QED BY <4>1
    <3> QED BY <2>2, <3>1, <3>3
  <2> QED BY <2>1, <2>2
<1>6. ASSUME known[2 * p], known[2 * p + 1] PROVE Len(q) > 1 /\ q[2].index = 2 * p
  <2>1. PICK k \in 1..Len(q) : q[k].index = 2 * p
    BY <1>2, <1>6
  <2>2. k # 1 /\ k \in 2..Len(q) /\ 2 \in 2..Len(q) /\ 2 \in 1..Len(q) /\ Len(q) > 1
    BY <1>5, <1>6, <2>1
  <2>3. q[2].index \in Int /\ q[2].index < 2 * p + 1
    BY <1>1, <1>4, <1>5, <1>6, <2>2
  <2>4. CASE k = 2
    BY <2>1, <2>2, <2>4
  <2>5. CASE k # 2
    <3>1. 2 < k
      BY <2>2, <2>5
    <3>2. q[2].index > 2 * p
      BY <1>1, <2>1, <2>2, <3>1
    <3> QED BY <2>3, <3>2
  <2> QED BY <2>4, <2>5
<1>7. ASSUME ~(known[2 * p] /\ known[2 * p + 1]), NEW k \in 2..Len(q) PROVE q[k].index < 2 * p
  <2>1. q[k].index \in Int /\ known[q[k].index] /\ q[k].index < q[1].index
    BY <1>1, <1>4
  <2>2. CASE known[2 * p + 1]
    <3>1. q[k].index # 2 * p
      BY <1>7, <2>1, <2>2
    <3> QED BY <1>5, <2>1, <2>2, <3>1
  <2>3. CASE ~known[2 * p + 1]
    BY <1>5, <2>1, <2>3
  <2> QED BY <2>2, <2>3
<1>8. ASSUME NEW k \in 3..Len(q) PROVE q[k].index < 2 * p
  <2>1. k \in 2..Len(q)
    OBVIOUS
  <2>2. CASE known[2 * p] /\ known[2 * p + 1]
    <3>1. 2 \in 1..Len(q) /\ k \in 1..Len(q) /\ 2 < k
      OBVIOUS
    <3> QED BY <1>1, <1>6, <2>2, <3>1
  <2>3. CASE ~(known[2 * p] /\ known[2 * p + 1])
    BY <1>7, <2>1, <2>3
  <2> QED BY <2>2, <2>3
<1> QED BY <1>3, <1>5, <1>6, <1>7, <1>8

(* The first d nodes give way to their parent.                              *)
LEMMA RaisedHolds ==
    ASSUME NEW w \in Nat \ {0}, NEW known, Spreads(known, w), NEW tree, NEW q, Len(q) \in Nat,
           NEW p \in 1..(w - 1), HoldsLayer(q, tree, known, p), known[p],
           NEW d \in 1..Len(q), \A k \in 1..d : q[k].index >= 2 * p,
           \A k \in (d + 1)..Len(q) : q[k].index < 2 * p,
           q[1].index \div 2 = p, NEW t, Raised(q, d, tree[p], t)
    PROVE  HoldsLayer(t, tree, known, p - 1)
<1> DEFINE m == Len(q)
           l == m - d + 1
<1>0. m \in Nat /\ d \in 1..m
  OBVIOUS
<1>r. /\ Len(t) = m - d + 1 /\ \A k \in 1..(m - d) : t[k] = q[k + d]
      /\ t[Len(t)] = [index |-> p, hash |-> tree[p]]
  BY DEF Raised
<1> HIDE DEF m
<1>1. /\ p \in Nat /\ (p - 1) + 1 = p /\ 2 * (p - 1) + 1 = 2 * p - 1
      /\ m \in Nat /\ d \in Nat /\ 1 <= d /\ d <= m /\ l \in Nat /\ l >= 1 /\ l - 1 = m - d
  BY <1>0
<1>2. /\ Len(t) = l /\ t[l].index = p /\ t[l].hash = tree[p]
      /\ \A k \in 1..(l - 1) : t[k] = q[k + d] /\ k + d \in (d + 1)..m /\ k + d \in 1..m
  <2>1. Len(t) = l /\ t[l] = [index |-> p, hash |-> tree[p]]
    BY <1>r
  <2>2. t[l].index = p /\ t[l].hash = tree[p]
    BY <2>1
  <2>3. \A k \in 1..(l - 1) : t[k] = q[k + d] /\ k + d \in (d + 1)..m /\ k + d \in 1..m
    BY <1>r, <1>1
  <2> QED BY <2>1, <2>2, <2>3
<1>3. /\ \A k \in 1..m : /\ q[k].index \in (p + 1)..(2 * p + 1)
                         /\ known[q[k].index] /\ q[k].hash = tree[q[k].index]
      /\ \A j, k \in 1..m : j < k => q[j].index > q[k].index
      /\ \A y \in (p + 1)..(2 * p + 1) : known[y] => \E k \in 1..m : q[k].index = y
  BY DEF HoldsLayer, Descending, m
<1> HIDE DEF l
<1>4. ASSUME NEW k \in 1..(l - 1)
      PROVE  /\ t[k].index \in (p + 1)..(2 * p - 1)
             /\ known[t[k].index] /\ t[k].hash = tree[t[k].index]
  <2>1. t[k] = q[k + d] /\ k + d \in (d + 1)..m /\ k + d \in 1..m
    BY <1>2
  <2>2. q[k + d].index < 2 * p
    BY <2>1 DEF m
  <2>3. q[k + d].index \in (p + 1)..(2 * p + 1)
    BY <1>3, <2>1
  <2>4. q[k + d].index \in (p + 1)..(2 * p - 1)
    BY <1>1, <2>2, <2>3
  <2> QED BY <1>3, <2>1, <2>4
<1>5. \A k \in 1..l : k = l \/ k \in 1..(l - 1)
  BY <1>1
<1>6. ASSUME NEW k \in 1..l
      PROVE  /\ t[k].index \in p..(2 * p - 1)
             /\ known[t[k].index] /\ t[k].hash = tree[t[k].index]
  <2>1. CASE k = l
    BY <1>1, <1>2, <2>1
  <2>2. CASE k # l
    <3>1. k \in 1..(l - 1)
      BY <1>5, <2>2
    <3> QED BY <1>1, <1>4, <3>1
  <2> QED BY <2>1, <2>2
<1>7. ASSUME NEW j \in 1..l, NEW k \in 1..l, j < k PROVE t[j].index > t[k].index
  <2>1. j \in 1..(l - 1)
    BY <1>1, <1>7
  <2>2. CASE k = l
    <3>1. t[j].index \in (p + 1)..(2 * p - 1)
      BY <1>4, <2>1
    <3> QED BY <1>1, <1>2, <2>2, <3>1
  <2>3. CASE k # l
    <3>1. k \in 1..(l - 1) /\ j + d < k + d
      BY <1>1, <1>5, <1>7, <2>3
    <3> QED BY <1>2, <1>3, <2>1, <3>1
  <2> QED BY <2>2, <2>3
<1>8. ASSUME NEW y \in p..(2 * p - 1), known[y] PROVE \E k \in 1..l : t[k].index = y
  <2>1. CASE y = p
    <3>1. l \in 1..l
      BY <1>1
    <3> QED BY <1>2, <2>1, <3>1
  <2>2. CASE y # p
    <3>1. y \in (p + 1)..(2 * p + 1) /\ y < 2 * p
      BY <1>1, <2>2
    <3>2. PICK k \in 1..m : q[k].index = y
      BY <1>3, <1>8, <3>1
    <3>3. k \notin 1..d
      BY <1>1, <3>1, <3>2
    <3>4. k - d \in 1..(l - 1) /\ (k - d) + d = k /\ k - d \in 1..l
      BY <1>1, <3>3
    <3>5. t[k - d] = q[k]
      BY <1>2, <3>4
    <3> QED BY <3>2, <3>4, <3>5
  <2> QED BY <2>1, <2>2
<1> QED BY <1>1, <1>2, <1>6, <1>7, <1>8 DEF HoldsLayer, Descending

(* The sibling that the oracle sends for the children of p, if it does, and *)
(* what it sends from there up to the root.                                 *)
Beside(tree, known, p) ==
    IF known[2 * p] /\ ~known[2 * p + 1] THEN <<tree[2 * p + 1]>>
    ELSE IF ~known[2 * p] /\ known[2 * p + 1] THEN <<tree[2 * p]>>
    ELSE <<>>

IsRest(rest, tree, known, w) ==
    /\ rest \in [0..(w - 1) -> Seq(Digests)] /\ rest[0] = <<>>
    /\ \A p \in 1..(w - 1) : rest[p] = Beside(tree, known, p) \o rest[p - 1]

LEMMA OneBefore ==
    ASSUME NEW S, NEW x \in S, NEW s \in Seq(S)
    PROVE  LET t == <<x>> \o s IN t # <<>> /\ t[1] = x /\ Tail(t) = s
<1> DEFINE t == <<x>> \o s
<1>1. /\ t \in Seq(S) /\ Len(t) = Len(s) + 1 /\ Len(s) \in Nat /\ t[1] = x
      /\ \A k \in 1..Len(s) : t[k + 1] = s[k]
  OBVIOUS
<1> HIDE DEF t
<1>2. /\ Tail(t) \in Seq(S) /\ Len(Tail(t)) = Len(s)
      /\ \A k \in 1..Len(s) : Tail(t)[k] = t[k + 1]
  BY <1>1
<1>3. Tail(t) = s
  BY <1>1, <1>2, SeqEqual
<1> QED BY <1>1, <1>3 DEF t

LEMMA NoneBefore == \A S : \A s \in Seq(S) : <<>> \o s = s
OBVIOUS

LEMMA RestAt ==
    ASSUME NEW w \in Nat \ {0}, NEW tree, IsTree(tree, w), NEW known,
           NEW rest, IsRest(rest, tree, known, w), NEW p \in 1..(w - 1)
    PROVE  /\ (known[2 * p] <=> known[2 * p + 1]) => rest[p] = rest[p - 1]
           /\ known[2 * p] /\ ~known[2 * p + 1] =>
                 rest[p] # <<>> /\ rest[p][1] = tree[2 * p + 1] /\ Tail(rest[p]) = rest[p - 1]
           /\ ~known[2 * p] /\ known[2 * p + 1] =>
                 rest[p] # <<>> /\ rest[p][1] = tree[2 * p] /\ Tail(rest[p]) = rest[p - 1]
<1> DEFINE x == tree[2 * p]
           y == tree[2 * p + 1]
           s == rest[p - 1]
<1>1. p - 1 \in 0..(w - 1) /\ 2 * p \in 1..(2 * w - 1) /\ 2 * p + 1 \in 1..(2 * w - 1)
  OBVIOUS
<1>2. s \in Seq(Digests) /\ rest[p] = Beside(tree, known, p) \o s
  BY <1>1 DEF IsRest
<1>3. x \in Digests /\ y \in Digests
  BY <1>1 DEF IsTree
<1> HIDE DEF s
<1>4. ASSUME known[2 * p] <=> known[2 * p + 1] PROVE rest[p] = s
  <2>1. Beside(tree, known, p) = <<>>
    BY <1>4 DEF Beside
  <2> QED BY <1>2, <2>1, NoneBefore
<1>5. ASSUME known[2 * p], ~known[2 * p + 1] PROVE rest[p] = <<y>> \o s
  BY <1>2, <1>5 DEF Beside
<1>6. ASSUME ~known[2 * p], known[2 * p + 1] PROVE rest[p] = <<x>> \o s
  BY <1>2, <1>6 DEF Beside
<1> HIDE DEF x, y
<1>7. /\ <<y>> \o s # <<>> /\ (<<y>> \o s)[1] = y /\ Tail(<<y>> \o s) = s
      /\ <<x>> \o s # <<>> /\ (<<x>> \o s)[1] = x /\ Tail(<<x>> \o s) = s
  BY <1>2, <1>3, OneBefore
<1> QED BY <1>4, <1>5, <1>6, <1>7 DEF x, y, s

(* Between two rounds: what is in the queue, and what is sent for it.       *)
Climbing(q, siblings, tree, known, rest, p) ==
    HoldsLayer(q, tree, known, p) /\ siblings = rest[p]

Restores(q, siblings, tree, known, rest, w) ==
    \E p \in 0..(w - 1) : Climbing(q, siblings, tree, known, rest, p)

LEMMA LowestLayer ==
    ASSUME NEW w \in Nat \ {0}, NEW tree, IsTree(tree, w), NEW known, Spreads(known, w),
           NEW rest, IsRest(rest, tree, known, w), NEW q, NEW siblings,
           Restores(q, siblings, tree, known, rest, w)
    PROVE  \E p \in 0..(w - 1) : /\ Climbing(q, siblings, tree, known, rest, p)
                                 /\ p = 0 \/ known[2 * p] \/ known[2 * p + 1]
<1> DEFINE At0(p) == Climbing(q, siblings, tree, known, rest, p)
           Goal == \E p \in 0..(w - 1) : At0(p) /\ (p = 0 \/ known[2 * p] \/ known[2 * p + 1])
           m == w - 1
           S == {p \in 0..m : At0(p) => Goal}
<1>0. ASSUME NEW r \in 1..(w - 1), ~known[2 * r], ~known[2 * r + 1]
      PROVE  rest[r] = rest[r - 1]
  <2>1. known[2 * r] <=> known[2 * r + 1]
    BY <1>0
  <2> HIDE DEF At0, Goal, m, S
  <2> QED BY <2>1, RestAt
<1>1. m \in Nat /\ 0 \in 0..m
  OBVIOUS
<1>2. 0 \in S
  BY <1>1
<1>3. \A p \in 0..(m - 1) : p \in S => p + 1 \in S
  <2> SUFFICES ASSUME NEW p \in 0..(m - 1), p \in S, At0(p + 1) PROVE Goal
    BY <1>1
  <2> DEFINE r == p + 1
  <2>1. r \in 1..(w - 1) /\ r - 1 = p /\ r \in 0..(w - 1)
    OBVIOUS
  <2>2. CASE known[2 * r] \/ known[2 * r + 1]
    BY <2>1, <2>2
  <2>3. CASE ~known[2 * r] /\ ~known[2 * r + 1]
    <3> HIDE DEF r
    <3>0. Climbing(q, siblings, tree, known, rest, r)
      BY DEF r
    <3>1. HoldsLayer(q, tree, known, r - 1)
      BY <2>1, <2>3, <3>0, SkipLayer DEF Climbing
    <3>2. rest[r] = rest[r - 1]
      BY <1>0, <2>1, <2>3
    <3>3. At0(p)
      BY <2>1, <3>0, <3>1, <3>2 DEF Climbing
    <3> QED BY <3>3
  <2> QED BY <2>2, <2>3
<1>4. \A p \in 0..m : p \in S
  <2> HIDE DEF S, m
  <2> QED BY <1>1, <1>2, <1>3, BoundedInduction
<1>5. PICK p \in 0..(w - 1) : At0(p)
  BY DEF Restores
<1>6. Goal
  BY <1>4, <1>5
<1> QED BY <1>6

(* The parent of p's children takes their place.                            *)
LEMMA ClimbOn ==
    ASSUME NEW w \in Nat \ {0}, NEW tree, IsTree(tree, w), NEW known, Spreads(known, w),
           NEW rest, NEW q, Len(q) \in Nat, NEW p \in 1..(w - 1), HoldsLayer(q, tree, known, p),
           known[2 * p] \/ known[2 * p + 1],
           NEW d, d = (IF known[2 * p] /\ known[2 * p + 1] THEN 2 ELSE 1),
           NEW t, Raised(q, d, HashPair(tree[2 * p], tree[2 * p + 1]), t)
    PROVE  Restores(t, rest[p - 1], tree, known, rest, w)
<1>1. p \in Nat \ {0} /\ p - 1 \in 0..(w - 1) /\ (2 * p) \div 2 = p /\ (2 * p + 1) \div 2 = p
  OBVIOUS
<1>2. /\ Len(q) >= 1 /\ q[1].index = IF known[2 * p + 1] THEN 2 * p + 1 ELSE 2 * p
      /\ known[2 * p] /\ known[2 * p + 1] => Len(q) > 1 /\ q[2].index = 2 * p
      /\ ~(known[2 * p] /\ known[2 * p + 1]) => \A k \in 2..Len(q) : q[k].index < 2 * p
      /\ \A k \in 3..Len(q) : q[k].index < 2 * p
  BY <1>1, FirstOfLayer
<1>3. known[p] /\ tree[p] = HashPair(tree[2 * p], tree[2 * p + 1])
  BY DEF Spreads, IsTree
<1>4. q[1].index \div 2 = p /\ q[1].index >= 2 * p
  BY <1>1, <1>2
<1>5. /\ d \in 1..Len(q) /\ \A k \in 1..d : q[k].index >= 2 * p
      /\ \A k \in (d + 1)..Len(q) : q[k].index < 2 * p
  <2>1. CASE known[2 * p] /\ known[2 * p + 1]
    <3>1. d = 2 /\ \A k \in 1..2 : k = 1 \/ k = 2
      BY <2>1
    <3>2. Len(q) > 1 /\ q[2].index = 2 * p /\ 2 * p >= 2 * p
      BY <1>1, <1>2, <2>1
    <3>3. \A k \in 1..2 : q[k].index >= 2 * p
      BY <1>4, <3>1, <3>2
    <3>4. 2 \in 1..Len(q) /\ 2 + 1 = 3
      BY <3>2
    <3> QED BY <1>2, <3>1, <3>3, <3>4
  <2>2. CASE ~(known[2 * p] /\ known[2 * p + 1])
    <3>1. d = 1 /\ \A k \in 1..1 : k = 1
      BY <2>2
    <3> QED BY <1>2, <1>4, <2>2, <3>1
  <2> QED BY <2>1, <2>2
<1>6. HoldsLayer(t, tree, known, p - 1)
  BY <1>3, <1>4, <1>5, RaisedHolds
<1> QED BY <1>1, <1>6 DEF Restores, Climbing

LEMMA RoundRestores ==
    ASSUME NEW w \in Nat \ {0}, NEW tree, IsTree(tree, w), NEW known, Spreads(known, w),
           NEW rest, IsRest(rest, tree, known, w), NEW q \in Seq(Nodes), Len(q) >= 1,
           NEW siblings, Restores(q, siblings, tree, known, rest, w), q[1].index # 1
    PROVE  LET paired == Len(q) > 1 /\ q[2].index = q[1].index - 1
               Parent(h) == [index |-> q[1].index \div 2, hash |-> h]
           IN  /\ q[1].index % 2 = 0 =>
                     /\ siblings # <<>>
                     /\ Restores(Append(Tail(q), Parent(HashPair(q[1].hash, siblings[1]))),
                                 Tail(siblings), tree, known, rest, w)
               /\ q[1].index % 2 # 0 /\ paired =>
                     Restores(Append(Tail(Tail(q)), Parent(HashPair(q[2].hash, q[1].hash))),
                              siblings, tree, known, rest, w)
               /\ q[1].index % 2 # 0 /\ ~paired =>
                     /\ siblings # <<>>
                     /\ Restores(Append(Tail(q), Parent(HashPair(siblings[1], q[1].hash))),
                                 Tail(siblings), tree, known, rest, w)
<1> DEFINE paired == Len(q) > 1 /\ q[2].index = q[1].index - 1
           Parent(h) == [index |-> q[1].index \div 2, hash |-> h]
<1>1. PICK p \in 0..(w - 1) : /\ Climbing(q, siblings, tree, known, rest, p)
                              /\ p = 0 \/ known[2 * p] \/ known[2 * p + 1]
  BY LowestLayer
<1>2. HoldsLayer(q, tree, known, p) /\ siblings = rest[p] /\ Len(q) \in Nat /\ 1 \in 1..Len(q)
  BY <1>1 DEF Climbing
<1>3. /\ \A k \in 1..Len(q) : /\ q[k].index \in (p + 1)..(2 * p + 1)
                              /\ known[q[k].index] /\ q[k].hash = tree[q[k].index]
  BY <1>2 DEF HoldsLayer
<1>4. p \in 1..(w - 1) /\ (known[2 * p] \/ known[2 * p + 1])
  <2>1. q[1].index \in (p + 1)..(2 * p + 1)
    BY <1>2, <1>3
  <2>2. p # 0
    BY <2>1
  <2> QED BY <1>1, <2>2
<1> DEFINE x == tree[2 * p]
           y == tree[2 * p + 1]
           h == HashPair(x, y)
<1>5. /\ p \in Nat \ {0} /\ (2 * p) \div 2 = p /\ (2 * p + 1) \div 2 = p
      /\ (2 * p) % 2 = 0 /\ (2 * p + 1) % 2 # 0 /\ (2 * p + 1) - 1 = 2 * p
      /\ 2 * p \in 1..(2 * w - 1) /\ 2 * p + 1 \in 1..(2 * w - 1)
  BY <1>4
<1>6. /\ q[1].index = IF known[2 * p + 1] THEN 2 * p + 1 ELSE 2 * p
      /\ known[2 * p] /\ known[2 * p + 1] => Len(q) > 1 /\ q[2].index = 2 * p
  BY <1>2, <1>4, <1>5, FirstOfLayer
<1>7. Parent(h) \in Nodes /\ q[1].index \div 2 = p
  <2>1. x \in Digests /\ y \in Digests /\ h \in Digests
    BY <1>5, PairIsDigest DEF IsTree
  <2>2. h \in Hashes
    BY <2>1, DigestsAreClosed
  <2>3. q[1].index \div 2 = p
    BY <1>5, <1>6
  <2> HIDE DEF h
  <2> QED BY <1>5, <2>2, <2>3 DEF Nodes
<1>8. Raised(q, 1, h, Append(Tail(q), Parent(h)))
  <2> HIDE DEF h
  <2> QED BY <1>7, RaisedByOne
<1>9. Len(q) >= 2 => Raised(q, 2, h, Append(Tail(Tail(q)), Parent(h)))
  <2> HIDE DEF h
  <2> QED BY <1>7, RaisedByTwo
<1> DEFINE one == Append(Tail(q), Parent(h))
           two == Append(Tail(Tail(q)), Parent(h))
<1>10. ~(known[2 * p] /\ known[2 * p + 1]) => Restores(one, rest[p - 1], tree, known, rest, w)
  <2> HIDE DEF one, two
  <2> QED BY <1>2, <1>4, <1>8, ClimbOn DEF one
<1>11. known[2 * p] /\ known[2 * p + 1] => Restores(two, rest[p - 1], tree, known, rest, w)
  <2> HIDE DEF one, two
  <2>1. known[2 * p] /\ known[2 * p + 1] => Len(q) >= 2
    BY <1>2, <1>6
  <2> QED BY <1>2, <1>4, <1>9, <2>1, ClimbOn DEF two
<1>12. /\ (known[2 * p] <=> known[2 * p + 1]) => rest[p] = rest[p - 1]
       /\ known[2 * p] /\ ~known[2 * p + 1] =>
             rest[p] # <<>> /\ rest[p][1] = y /\ Tail(rest[p]) = rest[p - 1]
       /\ ~known[2 * p] /\ known[2 * p + 1] =>
             rest[p] # <<>> /\ rest[p][1] = x /\ Tail(rest[p]) = rest[p - 1]
  BY <1>4, RestAt
<1>13. q[1].hash = IF known[2 * p + 1] THEN y ELSE x
  BY <1>2, <1>3, <1>6
<1>14. paired /\ known[2 * p + 1] => known[2 * p] /\ q[2].hash = x
  <2> SUFFICES ASSUME paired, known[2 * p + 1] PROVE known[2 * p] /\ q[2].hash = x
    OBVIOUS
  <2>1. 2 \in 1..Len(q) /\ q[2].index = 2 * p
    BY <1>2, <1>5, <1>6
  <2> QED BY <1>3, <2>1
<1>15. ASSUME q[1].index % 2 = 0
       PROVE  /\ siblings # <<>>
              /\ Restores(Append(Tail(q), Parent(HashPair(q[1].hash, siblings[1]))),
                          Tail(siblings), tree, known, rest, w)
  <2>1. ~known[2 * p + 1] /\ known[2 * p]
    BY <1>4, <1>5, <1>6, <1>15
  <2>2. siblings # <<>> /\ siblings[1] = y /\ Tail(siblings) = rest[p - 1] /\ q[1].hash = x
    BY <1>2, <1>12, <1>13, <2>1
  <2> QED BY <1>10, <2>1, <2>2
<1>16. ASSUME q[1].index % 2 # 0, paired
       PROVE  Restores(Append(Tail(Tail(q)), Parent(HashPair(q[2].hash, q[1].hash))),
                       siblings, tree, known, rest, w)
  <2>1. known[2 * p + 1] /\ known[2 * p] /\ q[2].hash = x /\ q[1].hash = y
    BY <1>5, <1>6, <1>13, <1>14, <1>16
  <2>2. siblings = rest[p - 1]
    BY <1>2, <1>12, <2>1
  <2> QED BY <1>11, <2>1, <2>2
<1>17. ASSUME q[1].index % 2 # 0, ~paired
       PROVE  /\ siblings # <<>>
              /\ Restores(Append(Tail(q), Parent(HashPair(siblings[1], q[1].hash))),
                          Tail(siblings), tree, known, rest, w)
  <2>1. known[2 * p + 1] /\ ~known[2 * p]
    BY <1>5, <1>6, <1>17
  <2>2. siblings # <<>> /\ siblings[1] = x /\ Tail(siblings) = rest[p - 1] /\ q[1].hash = y
    BY <1>2, <1>12, <1>13, <2>1
  <2> QED BY <1>10, <2>1, <2>2
<1> HIDE DEF paired
<1> QED BY <1>15, <1>16, <1>17 DEF paired

(* No round runs out of siblings, and the last one comes to the root.       *)
LEMMA LoopAdvances ==
    ASSUME NEW w \in Nat \ {0}, NEW tree, IsTree(tree, w), NEW known, Spreads(known, w),
           NEW rest, IsRest(rest, tree, known, w), TypeOK, Loop,
           Restores(Queue, Siblings, tree, known, rest, w)
    PROVE  /\ phase' \in {"loop", "restored"}
           /\ phase' = "loop" => Restores(Queue', Siblings', tree, known, rest, w)
           /\ phase' = "restored" => root' = tree[1]
<1>1. phase = "loop"
  BY DEF Loop, Restored, HashLeft, HashBoth, HashRight, OutOfDecommitments
<1>2. /\ Queue \in Seq(Nodes) /\ Len(Queue) \in Nat /\ Len(Queue) >= 1
  BY <1>1, QueueIs, LengthIsNat
<1> DEFINE paired == Len(Queue) > 1 /\ Queue[2].index = Queue[1].index - 1
           Parent(h) == [index |-> Queue[1].index \div 2, hash |-> h]
<1>3. /\ \A k : Abstract!BelowRoot(k) <=> k.index # 1
      /\ \A k : Abstract!IsLeft(k) <=> k.index % 2 = 0
      /\ Abstract!SiblingIsNext <=> paired
      /\ \A h : Abstract!Parent(h) = Parent(h)
      /\ \A a, b : Abstract!HashPair(a, b) = HashPair(a, b)
  BY SameDigests DEF Abstract!BelowRoot, Abstract!IsLeft, Abstract!SiblingIsNext, Abstract!Parent
<1>4. Queue[1].index # 1 =>
         /\ Queue[1].index % 2 = 0 =>
               /\ Siblings # <<>>
               /\ Restores(Append(Tail(Queue), Parent(HashPair(Queue[1].hash, Siblings[1]))),
                           Tail(Siblings), tree, known, rest, w)
         /\ Queue[1].index % 2 # 0 /\ paired =>
               Restores(Append(Tail(Tail(Queue)), Parent(HashPair(Queue[2].hash, Queue[1].hash))),
                        Siblings, tree, known, rest, w)
         /\ Queue[1].index % 2 # 0 /\ ~paired =>
               /\ Siblings # <<>>
               /\ Restores(Append(Tail(Queue), Parent(HashPair(Siblings[1], Queue[1].hash))),
                           Tail(Siblings), tree, known, rest, w)
  BY <1>2, RoundRestores
<1> HIDE DEF paired
<1>5. CASE Abstract!Restored
  <2>1. Queue[1].index = 1 /\ root' = Queue[1].hash /\ phase' = "restored"
    BY <1>3, <1>5 DEF Abstract!Restored
  <2>2. PICK p \in 0..(w - 1) : HoldsLayer(Queue, tree, known, p)
    BY DEF Restores, Climbing
  <2>3. 1 \in 1..Len(Queue)
    BY <1>2
  <2> QED BY <2>1, <2>2, <2>3 DEF HoldsLayer
<1>6. CASE Abstract!HashLeft
  <2>1. /\ Queue[1].index # 1 /\ Queue[1].index % 2 = 0
        /\ Queue' = Append(Tail(Queue), Parent(HashPair(Queue[1].hash, Siblings[1])))
        /\ Siblings' = Tail(Siblings) /\ phase' = phase
    BY <1>3, <1>6 DEF Abstract!HashLeft
  <2> QED BY <1>1, <1>4, <2>1
<1>7. CASE Abstract!HashBoth
  <2>1. /\ Queue[1].index # 1 /\ Queue[1].index % 2 # 0 /\ paired
        /\ Queue' = Append(Tail(Tail(Queue)), Parent(HashPair(Queue[2].hash, Queue[1].hash)))
        /\ Siblings' = Siblings /\ phase' = phase
    BY <1>3, <1>7 DEF Abstract!HashBoth
  <2> QED BY <1>1, <1>4, <2>1
<1>8. CASE Abstract!HashRight
  <2>1. /\ Queue[1].index # 1 /\ Queue[1].index % 2 # 0 /\ ~paired
        /\ Queue' = Append(Tail(Queue), Parent(HashPair(Siblings[1], Queue[1].hash)))
        /\ Siblings' = Tail(Siblings) /\ phase' = phase
    BY <1>3, <1>8 DEF Abstract!HashRight
  <2> QED BY <1>1, <1>4, <2>1
<1>9. CASE Abstract!OutOfSiblings
  <2>1. /\ Queue[1].index # 1 /\ Siblings = <<>>
        /\ Queue[1].index % 2 = 0 \/ ~paired
    BY <1>3, <1>9 DEF Abstract!OutOfSiblings
  <2>2. FALSE
    BY <1>4, <2>1
  <2> QED BY <2>2
<1> QED BY <1>5, <1>6, <1>7, <1>8, <1>9, LoopIsLoop DEF Abstract!Loop

LEMMA KnownIs ==
    ASSUME NEW t, NEW w \in Nat \ {0}, t.limit = w, NEW idxs
    PROVE  /\ Spreads(Known(t, idxs), w)
           /\ \A g \in w..(2 * w - 1) : Known(t, idxs)[g] <=> g - w \in Range(idxs)
<1> DEFINE N == 1..(2 * w - 1)
           last == 2 * w - 1
           leaf(g) == g - w \in Range(idxs)
           body(f, g) == IF g < w THEN f[2 * g] \/ f[2 * g + 1] ELSE leaf(g)
           Is(f) == f = [g \in N |-> body(f, g)]
           D == [p \in Nat \X [Nat -> BOOLEAN] |->
                    IF last - p[1] \in 1..(w - 1)
                    THEN p[2][last - 2 * (last - p[1])] \/ p[2][last - (2 * (last - p[1]) + 1)]
                    ELSE leaf(last - p[1])]
<1>2. \A g : leaf(g) \in BOOLEAN
  OBVIOUS
<1> HIDE DEF leaf
<1>3. \A g \in 1..(w - 1) : /\ 2 * g \in N /\ 2 * g + 1 \in N
                            /\ last - 2 * g \in 0..(last - g - 1)
                            /\ last - (2 * g + 1) \in 0..(last - g - 1)
  OBVIOUS
<1>4. D \in [Nat \X [Nat -> BOOLEAN] -> BOOLEAN]
  <2> HIDE DEF last
  <2> QED BY <1>2
<1>5. ASSUME NEW m \in Nat, NEW f \in [Nat -> BOOLEAN], NEW g \in [Nat -> BOOLEAN],
             \A k \in 0..(m - 1) : f[k] = g[k]
      PROVE  D[<<m, f>>] = D[<<m, g>>]
  <2>1. last - m \in 1..(w - 1) =>
           last - 2 * (last - m) \in 0..(m - 1) /\ last - (2 * (last - m) + 1) \in 0..(m - 1)
    OBVIOUS
  <2> HIDE DEF last
  <2> QED BY <1>5, <2>1
<1>6. \A f \in [Nat -> BOOLEAN], g \in N :
         D[<<last - g, f>>] = IF g < w THEN f[last - 2 * g] \/ f[last - (2 * g + 1)] ELSE leaf(g)
  <2> TAKE f \in [Nat -> BOOLEAN], g \in N
  <2>1. last - g \in Nat /\ last - (last - g) = g
    OBVIOUS
  <2>2. g < w <=> g \in 1..(w - 1)
    OBVIOUS
  <2> HIDE DEF last
  <2> QED BY <2>1, <2>2
<1> HIDE DEF D
<1>7. PICK f \in [Nat -> BOOLEAN] : FromPast(f, D)
  <2> DEFINE v == FALSE
             B == BOOLEAN
  <2>1. v \in B
    OBVIOUS
  <2>2. PastOnly(D, B)
    BY <1>5 DEF PastOnly
  <2>3. D \in [Nat \X [Nat -> B] -> B]
    BY <1>4
  <2> HIDE DEF v, B, Is, body, last, N
  <2>4. \E f \in [Nat -> B] : FromPast(f, D)
    BY <2>1, <2>2, <2>3, HistoryRecursion
  <2> QED BY <2>4 DEF B
<1> DEFINE h == [g \in N |-> f[last - g]]
<1>8. Is(h)
  <2>1. ASSUME NEW g \in N PROVE f[last - g] = body(h, g)
    <3>1. last - g \in Nat
      OBVIOUS
    <3>2. f[last - g] = IF g < w THEN f[last - 2 * g] \/ f[last - (2 * g + 1)] ELSE leaf(g)
      BY <1>6, <1>7, <3>1 DEF FromPast
    <3>3. g < w => g \in 1..(w - 1)
      OBVIOUS
    <3>4. g < w => h[2 * g] = f[last - 2 * g] /\ h[2 * g + 1] = f[last - (2 * g + 1)]
      BY <1>3, <3>3
    <3> HIDE DEF h
    <3> QED BY <3>2, <3>4
  <2> QED BY <2>1
<1> DEFINE c == CHOOSE x : Is(x)
<1>9. Known(t, idxs) = c
  BY DEF Known, leaf
<1>10. Is(c)
  <2> HIDE DEF h, Is
  <2> QED BY <1>8
<1> HIDE DEF c
<1>11. \A g \in N : c[g] = body(c, g)
  BY <1>10
<1>12. \A g \in 1..(w - 1) : c[g] = (c[2 * g] \/ c[2 * g + 1])
  <2> TAKE g \in 1..(w - 1)
  <2>1. g \in N /\ g < w
    OBVIOUS
  <2> QED BY <1>11, <2>1
<1>13. \A g \in w..last : c[g] = leaf(g)
  <2> TAKE g \in w..last
  <2>1. g \in N /\ ~(g < w)
    OBVIOUS
  <2> QED BY <1>11, <2>1
<1>14. \A g \in N : c[g] \in BOOLEAN
  <2> TAKE g \in N
  <2>1. g \in 1..(w - 1) \/ g \in w..last
    OBVIOUS
  <2> QED BY <1>2, <1>12, <1>13, <2>1
<1>15. Spreads(c, w)
  BY <1>12, <1>14 DEF Spreads
<1>16. \A g \in w..last : c[g] <=> g - w \in Range(idxs)
  BY <1>13 DEF leaf
<1> QED BY <1>9, <1>15, <1>16

LEMMA BesideIs ==
    ASSUME NEW w \in Nat \ {0}, NEW tree, IsTree(tree, w), NEW known
    PROVE  \A p \in 1..(w - 1) : Beside(tree, known, p) \in Seq(Digests)
<1> SUFFICES ASSUME NEW p \in 1..(w - 1) PROVE Beside(tree, known, p) \in Seq(Digests)
  OBVIOUS
<1> DEFINE x == tree[2 * p]
           y == tree[2 * p + 1]
<1>1. x \in Digests /\ y \in Digests
  <2>1. 2 * p \in 1..(2 * w - 1) /\ 2 * p + 1 \in 1..(2 * w - 1)
    OBVIOUS
  <2> QED BY <2>1 DEF IsTree
<1>2. Beside(tree, known, p) \in {<<x>>, <<y>>, <<>>}
  BY DEF Beside
<1> HIDE DEF x, y
<1>3. <<x>> \in Seq(Digests) /\ <<y>> \in Seq(Digests) /\ <<>> \in Seq(Digests)
  BY <1>1
<1> QED BY <1>2, <1>3

LEMMA RestExists ==
    ASSUME NEW w \in Nat \ {0}, NEW tree, IsTree(tree, w), NEW known
    PROVE  \E rest : IsRest(rest, tree, known, w)
<1> DEFINE S == Seq(Digests)
           m == w - 1
           step == [x \in Nat \X S |-> IF x[1] \in 1..m THEN Beside(tree, known, x[1]) \o x[2]
                                       ELSE x[2]]
           a == <<>>
<1>1. m \in Nat /\ a \in S /\ \A p \in 1..m : Beside(tree, known, p) \in S
  BY BesideIs
<1> HIDE DEF m
<1>2. \A x \in Nat \X S : x[1] \in 1..m => Beside(tree, known, x[1]) \o x[2] \in S
  BY <1>1, Joined
<1> HIDE DEF S
<1>3. step \in [Nat \X S -> S]
  BY <1>2
<1>4. \A p \in 1..m, s \in S : step[<<p, s>>] = Beside(tree, known, p) \o s
  <2> TAKE p \in 1..m, s \in S
  <2>1. <<p, s>> \in Nat \X S
    BY <1>1
  <2> QED BY <2>1
<1> HIDE DEF step
<1>5. PICK f \in [0..m -> S] : Rounds(a, step, f, m)
  <2> HIDE DEF a
  <2> QED BY <1>1, <1>3, LoopExists
<1>6. \A p \in 1..m : p - 1 \in 0..m /\ f[p - 1] \in S
  BY <1>1, <1>5
<1>7. f[0] = <<>> /\ \A p \in 1..m : f[p] = Beside(tree, known, p) \o f[p - 1]
  BY <1>4, <1>5, <1>6 DEF Rounds
<1>8. IsRest(f, tree, known, w)
  BY <1>5, <1>7 DEF IsRest, S, m
<1> QED BY <1>8

LEMMA JoinedThree ==
    ASSUME NEW S, NEW a \in Seq(S), NEW b \in Seq(S), NEW c \in Seq(S)
    PROVE  a \o (b \o c) = (a \o b) \o c
BY ConcatAssociative

(* What the oracle sends, from the last leaf up, is what is to be sent from *)
(* the leaves up.                                                           *)
LEMMA MultiProofIsRest ==
    ASSUME NEW t, NEW w \in Nat \ {0}, t.limit = w, IsTree(NodeHash(t), w),
           NEW idxs, idxs # <<>>,
           NEW rest, IsRest(rest, NodeHash(t), Known(t, idxs), w)
    PROVE  MakeMultiProof(t, idxs).decommitments = rest[w - 1]
<1> DEFINE h == NodeHash(t)
           known == Known(t, idxs)
           sibling(i) == IF known[i - 1] /\ ~known[i] THEN <<h[i]>>
                         ELSE IF ~known[i - 1] /\ known[i] THEN <<h[i - 1]>>
                         ELSE <<>>
           at(j) == sibling(2 * w + 1 - 2 * j)
           m == w - 1
           Is(f) == f = [j \in 0..m |-> IF j = 0 THEN <<>> ELSE f[j - 1] \o at(j)]
           S == Seq(Digests)
           c == CHOOSE f : Is(f)
<1>1. MakeMultiProof(t, idxs).decommitments = c[m]
  BY DEF MakeMultiProof
<1>2. m \in Nat /\ m \in 0..m
  OBVIOUS
<1>3. \A p \in 1..m : Beside(h, known, p) \in S
  <2> HIDE DEF h, known
  <2> QED BY BesideIs DEF h
<1>4. \A p \in 1..m : at(w - p) = Beside(h, known, p)
  <2> TAKE p \in 1..m
  <2>1. 2 * w + 1 - 2 * (w - p) = 2 * p + 1 /\ (2 * p + 1) - 1 = 2 * p
    OBVIOUS
  <2> HIDE DEF h, known
  <2> QED BY <2>1 DEF Beside
<1> HIDE DEF at, h, known, c
<1>5. \A j \in 1..m : at(j) \in S
  <2> TAKE j \in 1..m
  <2>1. w - j \in 1..m /\ w - (w - j) = j
    OBVIOUS
  <2>2. at(w - (w - j)) = Beside(h, known, w - j)
    BY <1>4, <2>1
  <2> QED BY <1>3, <2>1, <2>2
<1> DEFINE step == [x \in Nat \X S |-> IF x[1] \in 1..m THEN x[2] \o at(x[1]) ELSE x[2]]
           a == <<>>
<1>6. \E f \in [0..m -> S] : Is(f)
  <2>1. \A x \in Nat \X S : x[1] \in 1..m => x[2] \o at(x[1]) \in S
    BY <1>5, Joined
  <2>2. a \in S
    OBVIOUS
  <2> HIDE DEF S, m, Is
  <2>3. step \in [Nat \X S -> S]
    BY <2>1
  <2>4. \A j \in 1..m, q \in S : step[<<j, q>>] = q \o at(j)
    <3> TAKE j \in 1..m, q \in S
    <3>1. <<j, q>> \in Nat \X S
      BY <1>2
    <3> QED BY <3>1
  <2> HIDE DEF step
  <2>5. PICK f \in [0..m -> S] : Rounds(a, step, f, m)
    <3> HIDE DEF a
    <3> QED BY <1>2, <2>2, <2>3, LoopExists
  <2>6. \A j \in 1..m : j - 1 \in 0..m /\ f[j - 1] \in S
    BY <1>2, <2>5
  <2>7. f[0] = <<>> /\ \A j \in 1..m : f[j] = f[j - 1] \o at(j)
    BY <2>4, <2>5, <2>6 DEF Rounds
  <2>8. \A j \in 0..m : j # 0 => j \in 1..m
    BY <1>2
  <2>9. Is(f)
    BY <2>5, <2>7, <2>8 DEF Is
  <2> QED BY <2>9
<1>7. Is(c)
  <2> HIDE DEF Is
  <2> QED BY <1>6 DEF c
<1>8. c[0] = <<>> /\ \A j \in 1..m : c[j] = c[j - 1] \o at(j)
  <2>1. \A j \in 0..m : c[j] = IF j = 0 THEN <<>> ELSE c[j - 1] \o at(j)
    BY <1>7
  <2>2. 0 \in 0..m /\ \A j \in 1..m : j \in 0..m /\ j # 0
    BY <1>2
  <2> HIDE DEF Is, m
  <2> QED BY <2>1, <2>2
<1>9. \A j \in 0..m : c[j] \in S
  <2> DEFINE T == {j \in 0..m : c[j] \in S}
  <2> HIDE DEF m, Is
  <2>0. <<>> \in S /\ 0 \in 0..m
    BY <1>2
  <2>1. 0 \in T
    BY <1>8, <2>0
  <2>2. \A j \in 0..(m - 1) : j \in T => j + 1 \in T
    <3> SUFFICES ASSUME NEW j \in 0..(m - 1), c[j] \in S PROVE c[j + 1] \in S
      BY <1>2
    <3>1. j + 1 \in 1..m /\ (j + 1) - 1 = j
      BY <1>2
    <3>2. c[j + 1] = c[j] \o at(j + 1) /\ at(j + 1) \in S
      BY <1>5, <1>8, <3>1
    <3>3. c[j] \o at(j + 1) \in S
      BY <3>2, Joined
    <3> QED BY <3>2, <3>3
  <2> HIDE DEF T
  <2>3. \A j \in 0..m : j \in T
    BY <1>2, <2>1, <2>2, BoundedInduction
  <2> QED BY <2>3 DEF T
<1>10. /\ \A p \in 0..m : rest[p] \in S
       /\ rest[0] = <<>> /\ \A p \in 1..m : rest[p] = Beside(h, known, p) \o rest[p - 1]
  BY DEF IsRest, h, known
<1> DEFINE U == {p \in 0..m : c[m - p] \o rest[p] = c[m]}
<1>11. 0 \in U
  <2> HIDE DEF m, Is
  <2>1. c[m] \in S /\ m - 0 = m /\ 0 \in 0..m
    BY <1>2, <1>9
  <2>2. c[m] \o <<>> = c[m]
    BY <2>1
  <2> QED BY <1>10, <2>1, <2>2
<1>12. \A p \in 0..(m - 1) : p \in U => p + 1 \in U
  <2> HIDE DEF m, Is
  <2> SUFFICES ASSUME NEW p \in 0..(m - 1), c[m - p] \o rest[p] = c[m]
               PROVE  c[m - (p + 1)] \o rest[p + 1] = c[m]
    <3>1. \A p \in 0..(m - 1) : p + 1 \in 0..m
      BY <1>2
    <3> QED BY <3>1
  <2> DEFINE r == p + 1
             j == m - p
  <2>1. /\ r \in 1..m /\ r - 1 = p /\ j \in 1..m /\ j - 1 = m - r /\ w - r = j
        /\ m - r \in 0..m /\ p \in 0..m
    <3>1. m = w - 1
      BY DEF m
    <3> QED BY <1>2, <3>1
  <2> HIDE DEF r, j
  <2>2. rest[r] = Beside(h, known, r) \o rest[p] /\ rest[p] \in S
    BY <1>10, <2>1
  <2>3. c[j] = c[m - r] \o at(j) /\ at(j) = Beside(h, known, r)
    BY <1>4, <1>8, <2>1
  <2>4. c[m - r] \in S /\ Beside(h, known, r) \in S
    BY <1>3, <1>9, <2>1
  <2> DEFINE x == c[m - r]
             y == Beside(h, known, r)
             z == rest[p]
  <2>5. x \o (y \o z) = (x \o y) \o z
    <3>1. x \in Seq(Digests) /\ y \in Seq(Digests) /\ z \in Seq(Digests)
      BY <2>2, <2>4
    <3> HIDE DEF x, y, z
    <3> QED BY <3>1, JoinedThree
  <2> QED BY <2>2, <2>3, <2>5 DEF r, j
<1>13. \A p \in 0..m : p \in U
  <2> HIDE DEF U, m, Is
  <2> QED BY <1>2, <1>11, <1>12, BoundedInduction
<1>14. c[m - m] \o rest[m] = c[m] /\ m - m = 0
  <2> HIDE DEF m, Is, U
  <2>1. m \in U /\ m - m = 0
    BY <1>2, <1>13
  <2>2. c[m - m] \o rest[m] = c[m]
    BY <2>1 DEF U
  <2> QED BY <2>1, <2>2
<1>15. c[m] = rest[m]
  <2> HIDE DEF m, Is
  <2>1. rest[m] \in S /\ <<>> \o rest[m] = c[m]
    BY <1>2, <1>8, <1>10, <1>14
  <2> QED BY <2>1, NoneBefore
<1> QED BY <1>1, <1>15

-----------------------------------------------------------------------------
(* Honest claims about committees are accepted.                             *)

(* The claim that the oracle makes about a committee: the branch of the     *)
(* committee it is checked against, and the update of some signers.         *)
IsHonestClaim(c) ==
    /\ IsCommitteeClaim(c)
    /\ c.branch = Branch(c.state, c.next)
    /\ \E signers \in SUBSET Members : c.update = Update(c.state, c.next, signers)

(* The loop is on its way to the root of the keys.                          *)
HonestClimb(c, at, restored, q, siblings) ==
    /\ at # "reverted"
    /\ at = "restored" => restored = KeyNodes(c)[1]
    /\ at = "loop" => \E known, rest : /\ Spreads(known, Size)
                                       /\ IsRest(rest, KeyNodes(c), known, Size)
                                       /\ Restores(q, siblings, KeyNodes(c), known, rest, Size)

LEMMA HonestUpdate ==
    ASSUME NEW c, IsHonestClaim(c)
    PROVE  LET keys == KeysOf(c.state, c.next)
           IN  /\ keys \in CommitteeKeys
               /\ IsUpdate(c.update) /\ MissedAreSent(c.update)
               /\ AggregatedPK(c.update) = Sum(keys)
               /\ Agree(Sent(c.update), NodeHash(KeysTree(keys)))
<1> DEFINE keys == KeysOf(c.state, c.next)
           u == c.update
<1>1. IsCommitteeClaim(c)
  BY DEF IsHonestClaim
<1>2. keys \in CommitteeKeys
  BY <1>1, KeyNodesAre
<1>3. PICK signers \in SUBSET Members : u = MakeUpdate(keys, SyncCommitteeBits(signers))
  BY DEF IsHonestClaim, Update
<1> HIDE DEF keys, u
<1>4. /\ IsUpdate(u) /\ MissedAreSent(u) /\ u.pubkey = SumOfSome(keys, Marked(u.bitList))
      /\ u.missing = KeysAt(keys, Missed(u.bitList))
  BY <1>2, <1>3, UpdateShows
<1>5. AggregatedPK(u) = Sum(keys) /\ Agree(Sent(u), NodeHash(KeysTree(keys)))
  BY <1>2, <1>4, UpdateAddsUp
<1> QED BY <1>2, <1>4, <1>5 DEF keys, u

(* The leaves that are sent are the lowest layer.                           *)
LEMMA LeavesHoldLayer ==
    ASSUME NEW q, AreLeaves(q, Size), NEW tree, Agree(q, tree), NEW idxs, NEW known,
           Len(idxs) \in Nat, DOMAIN idxs = 1..Len(idxs), Len(q) = Len(idxs),
           \A j \in 1..Len(idxs) : idxs[j] \in Int,
           \A j \in 1..Len(idxs) : q[j].index = idxs[Len(idxs) + 1 - j] + Size,
           \A g \in Size..(2 * Size - 1) : known[g] <=> g - Size \in Range(idxs)
    PROVE  HoldsLayer(q, tree, known, Size - 1)
<1> DEFINE l == Len(idxs)
<1>1. Size \in Nat \ {0} /\ (Size - 1) + 1 = Size /\ 2 * (Size - 1) + 1 = 2 * Size - 1
  BY SizeIs
<1>2. \A j \in 1..l : l + 1 - j \in 1..l /\ l + 1 - (l + 1 - j) = j
  OBVIOUS
<1>3. Descending(q) /\ \A k \in 1..l : q[k].index \in Size..(2 * Size - 1)
  BY DEF AreLeaves
<1>4. \A k \in 1..l : q[k].hash = tree[q[k].index]
  BY DEF Agree
<1>5. \A x : x \in Range(idxs) <=> \E j \in 1..l : x = idxs[j]
  BY DEF Range
<1> HIDE DEF l
<1>6. ASSUME NEW k \in 1..l PROVE known[q[k].index]
  <2>1. q[k].index - Size = idxs[l + 1 - k]
    <3>1. idxs[l + 1 - k] \in Int /\ q[k].index = idxs[l + 1 - k] + Size
      BY <1>2 DEF l
    <3> QED BY <1>1, <3>1
  <2>2. q[k].index - Size \in Range(idxs)
    BY <1>2, <1>5, <2>1
  <2> QED BY <1>3, <2>2
<1>7. ASSUME NEW y \in Size..(2 * Size - 1), known[y] PROVE \E k \in 1..l : q[k].index = y
  <2>1. PICK j \in 1..l : y - Size = idxs[j]
    BY <1>5, <1>7
  <2>2. l + 1 - j \in 1..l /\ q[l + 1 - j].index = idxs[j] + Size
    BY <1>2 DEF l
  <2>3. idxs[j] + Size = y
    BY <1>1, <2>1
  <2> QED BY <2>2, <2>3
<1> QED BY <1>1, <1>3, <1>4, <1>6, <1>7 DEF HoldsLayer, l

LEMMA CallClimbs ==
    ASSUME NEW c, IsHonestClaim(c),
           Call(Missed(c.update.bitList), LeafHashes(c.update), c.update.decommitments)
    PROVE  HonestClimb(c, phase', root', Queue', Siblings')
<1> DEFINE keys == KeysOf(c.state, c.next)
           u == c.update
           t == KeysTree(keys)
           tree == NodeHash(t)
           is == Missed(u.bitList)
           hs == LeafHashes(u)
           ds == u.decommitments
           s == Sent(u)
<1>1. /\ keys \in CommitteeKeys /\ IsUpdate(u) /\ MissedAreSent(u) /\ Agree(s, tree)
  BY HonestUpdate
<1>2. PICK signers \in SUBSET Members : u = MakeUpdate(keys, SyncCommitteeBits(signers))
  BY DEF IsHonestClaim, Update
<1> DEFINE idxs == Absent(SyncCommitteeBits(signers))
           l == Len(idxs)
           known == Known(t, idxs)
<1>3. ds = MakeMultiProof(t, idxs).decommitments
  BY <1>2 DEF MakeUpdate
<1>4. /\ idxs \in Seq(Members) /\ Len(is) = l
      /\ \A j \in 1..l : is[j] = idxs[l + 1 - j] + Size
  <2>1. Marked(u.bitList) = signers
    BY <1>2, MarkedAreSigners
  <2> QED BY <2>1, MissedIsReversed
<1>5. KeyNodes(c) = tree
  BY DEF KeyNodes
<1>6. t.limit = Size /\ IsTree(tree, Size) /\ tree[1] = TreeHash(t) /\ Size \in Nat \ {0}
  BY <1>1, KeysTreeIs, SizeIs
<1>7. /\ is \in Seq(Nat) /\ hs \in Seq(Digests) /\ Len(is) = Len(hs)
      /\ AreLeaves(s, Size) /\ Len(s) = Len(is)
      /\ \A k \in 1..Len(is) : s[k].index = is[k]
      /\ s = [k \in 1..Len(is) |-> [index |-> is[k], hash |-> hs[k]]]
  <2>1. Len(u.missing) = Len(is)
    BY <1>1 DEF MissedAreSent
  <2>2. s = [k \in 1..Len(is) |-> [index |-> is[k], hash |-> hs[k]]]
    BY DEF Sent
  <2> HIDE DEF u, is, hs, s
  <2> QED BY <1>1, <2>1, <2>2, SentIs DEF is, hs, s
<1>8. hs \in Seq(Hashes) /\ ds \in Seq(Hashes)
  <2>1. ds \in Seq(Digests)
    BY <1>1 DEF IsUpdate
  <2> QED BY <1>7, <2>1, DigestsAreClosed
<1>9. Call(is, hs, ds)
  OBVIOUS
<1> HIDE DEF keys, u, is, hs, ds, s, idxs, tree, t
<1>10. Queue' = s /\ Siblings' = ds
  BY <1>7, <1>8, <1>9, CallQueues
<1>11. l \in Nat /\ DOMAIN idxs = 1..l /\ \A j \in 1..l : idxs[j] \in Int
  BY <1>4, SizeIs DEF Members
<1>12. CASE idxs = <<>>
  <2>1. is = <<>> /\ ds = <<TreeHash(t)>>
    <3>1. Len(is) = 0
      BY <1>4, <1>12
    <3>2. ds = <<TreeHash(t)>>
      BY <1>3, <1>12 DEF MakeMultiProof
    <3> QED BY <1>7, <3>1, <3>2
  <2>2. phase' = "restored" /\ root' = TreeHash(t)
    BY <1>9, <2>1 DEF Call
  <2> QED BY <1>5, <1>6, <2>2 DEF HonestClimb
<1>13. CASE idxs # <<>>
  <2>1. is # <<>>
    <3>1. Len(idxs) > 0
      BY <1>4, <1>13
    <3> QED BY <1>4, <3>1
  <2>2. phase' = "loop"
    BY <1>9, <2>1 DEF Call
  <2>3. /\ Spreads(known, Size)
        /\ \A g \in Size..(2 * Size - 1) : known[g] <=> g - Size \in Range(idxs)
    BY <1>6, KnownIs
  <2>4. PICK rest : IsRest(rest, tree, known, Size)
    BY <1>6, RestExists
  <2>5. ds = rest[Size - 1]
    <3>1. IsTree(NodeHash(t), Size) /\ IsRest(rest, NodeHash(t), Known(t, idxs), Size)
      BY <1>6, <2>4 DEF tree
    <3>2. MakeMultiProof(t, idxs).decommitments = rest[Size - 1]
      BY <1>6, <1>13, <3>1, MultiProofIsRest
    <3> QED BY <1>3, <3>2
  <2> HIDE DEF known
  <2>6. HoldsLayer(s, tree, known, Size - 1)
    <3>1. Len(s) = Len(idxs) /\ \A j \in 1..Len(idxs) : s[j].index = idxs[Len(idxs) + 1 - j] + Size
      BY <1>4, <1>7
    <3> QED BY <1>1, <1>7, <1>11, <2>3, <3>1, LeavesHoldLayer
  <2>7. Size - 1 \in 0..(Size - 1)
    BY <1>6
  <2>8. Restores(s, ds, tree, known, rest, Size)
    BY <2>5, <2>6, <2>7 DEF Restores, Climbing
  <2> QED BY <1>5, <1>10, <2>2, <2>3, <2>4, <2>8 DEF HonestClimb
<1> QED BY <1>12, <1>13

(* What an honest claim about a committee needs to be accepted.             *)
HonestInv ==
    verdict = "checking" /\ claim.kind = "committee" /\ claim.honest =>
        /\ IsHonestClaim(claim)
        /\ phase # "idle" => HonestClimb(claim, phase, root, Queue, Siblings)

LEMMA ProveIsHonest ==
    CommitteeInv /\ ProveSyncCommittee => HonestInv' /\ HonestProofsAccepted'
<1> SUFFICES ASSUME CommitteeInv, ProveSyncCommittee PROVE HonestInv' /\ HonestProofsAccepted'
  OBVIOUS
<1> DEFINE d(c, signers, made, checked) ==
               Claim(c, made, checked, Update(c, made, signers), made = checked)
<1>1. PICK c \in Committees, signers \in Signers, made \in BOOLEAN, checked \in BOOLEAN :
         Submit(d(c, signers, made, checked))
  BY DEF ProveSyncCommittee
<1> DEFINE e == d(c, signers, made, checked)
<1>2. ArePairs(c) /\ signers \in SUBSET Members
  BY CommitteesAre, OracleAssumption
<1>3. IsCommitteeClaim(e)
  BY <1>2, UpdatesAre, ClaimIs
<1>4. e.state = c /\ e.next = checked /\ e.branch = Branch(c, made)
      /\ e.update = Update(c, made, signers) /\ (e.honest <=> made = checked)
  BY DEF Claim
<1> HIDE DEF e
<1>5. e.honest => IsHonestClaim(e)
  BY <1>2, <1>3, <1>4 DEF IsHonestClaim
<1>6. verdict' = "checking" /\ claim' = e /\ UNCHANGED vars
  BY <1>1 DEF Submit, e
<1>7. phase = "idle"
  BY DEF CommitteeInv, ProveSyncCommittee, Ready
<1>8. phase' = "idle"
  BY <1>6, <1>7 DEF vars
<1>9. claim'.honest => IsHonestClaim(claim')
  BY <1>5, <1>6
<1> QED BY <1>6, <1>8, <1>9 DEF HonestInv, HonestProofsAccepted

LEMMA MixIsNot == MixSyncCommittee => HonestInv' /\ HonestProofsAccepted'
<1> SUFFICES ASSUME MixSyncCommittee PROVE HonestInv' /\ HonestProofsAccepted'
  OBVIOUS
<1> DEFINE mixed(c, mix, parts) ==
               LET mine == Update(c, FALSE, mix[1])
                   other == Update(c, FALSE, mix[2])
               IN  [p \in Parts |-> IF p \in parts THEN other[p] ELSE mine[p]]
           d(c, mix, parts) == Claim(c, FALSE, FALSE, mixed(c, mix, parts), FALSE)
<1>1. PICK c \in Committees, mix \in Mixes, parts \in SUBSET Parts : Submit(d(c, mix, parts))
  BY DEF MixSyncCommittee
<1> HIDE DEF mixed
<1>2. verdict' = "checking" /\ claim' = d(c, mix, parts)
  BY <1>1 DEF Submit
<1>3. d(c, mix, parts).honest = FALSE
  BY DEF Claim
<1> HIDE DEF d
<1> QED BY <1>2, <1>3 DEF HonestInv, HonestProofsAccepted

(* Honest updates are turned away only for want of signers.                 *)
LEMMA RequireSignaturesClimbs ==
    CommitteeInv /\ HonestInv /\ RequireSignatures => HonestInv' /\ HonestProofsAccepted'
<1> SUFFICES ASSUME CommitteeInv, HonestInv, RequireSignatures
             PROVE  HonestInv' /\ HonestProofsAccepted'
  OBVIOUS
<1>1. verdict = "checking" /\ claim.kind = "committee" /\ claim' = claim
  BY DEF RequireSignatures, IsCommittee
<1>2. claim.honest => IsHonestClaim(claim)
  BY <1>1 DEF HonestInv
<1>3. CASE EnoughSignatures(claim.update) /\ MissedAreSent(claim.update)
  <2>1. /\ Call(Missed(claim.update.bitList), LeafHashes(claim.update),
                claim.update.decommitments)
        /\ verdict' = verdict
    BY <1>3 DEF RequireSignatures
  <2>2. claim.honest => HonestClimb(claim, phase', root', Queue', Siblings')
    BY <1>2, <2>1, CallClimbs
  <2> QED BY <1>1, <1>2, <2>1, <2>2 DEF HonestInv, HonestProofsAccepted
<1>4. CASE ~(EnoughSignatures(claim.update) /\ MissedAreSent(claim.update))
  <2>1. verdict' = "rejected"
    BY <1>4 DEF RequireSignatures
  <2>2. claim.honest => MissedAreSent(claim.update)
    BY <1>2, HonestUpdate
  <2> QED BY <1>1, <1>4, <2>1, <2>2 DEF HonestInv, HonestProofsAccepted
<1> QED BY <1>3, <1>4

LEMMA RestoreKeysRootClimbs ==
    CommitteeInv /\ HonestInv /\ RestoreKeysRoot => HonestInv' /\ HonestProofsAccepted'
<1> SUFFICES ASSUME CommitteeInv, HonestInv, RestoreKeysRoot
             PROVE  HonestInv' /\ HonestProofsAccepted'
  OBVIOUS
<1>1. /\ verdict = "checking" /\ claim.kind = "committee" /\ Loop
      /\ claim' = claim /\ verdict' = verdict /\ IsCommitteeClaim(claim) /\ TypeOK
  BY DEF CommitteeInv, RestoreKeysRoot, IsCommittee
<1>2. phase = "loop"
  BY <1>1 DEF Loop, Restored, HashLeft, HashBoth, HashRight, OutOfDecommitments
<1>3. ASSUME claim.honest
      PROVE  IsHonestClaim(claim) /\ HonestClimb(claim, phase', root', Queue', Siblings')
  <2> DEFINE tree == KeyNodes(claim)
  <2>1. IsHonestClaim(claim) /\ HonestClimb(claim, phase, root, Queue, Siblings)
    BY <1>1, <1>2, <1>3 DEF HonestInv
  <2>2. IsTree(tree, Size) /\ Size \in Nat \ {0}
    BY <1>1, KeyNodesAre, SizeIs
  <2>3. \E known, rest : /\ Spreads(known, Size) /\ IsRest(rest, tree, known, Size)
                         /\ Restores(Queue, Siblings, tree, known, rest, Size)
    BY <1>2, <2>1 DEF HonestClimb
  <2> HIDE DEF tree
  <2>4. PICK known, rest : /\ Spreads(known, Size) /\ IsRest(rest, tree, known, Size)
                           /\ Restores(Queue, Siblings, tree, known, rest, Size)
    BY <2>3
  <2>5. /\ phase' \in {"loop", "restored"}
        /\ phase' = "loop" => Restores(Queue', Siblings', tree, known, rest, Size)
        /\ phase' = "restored" => root' = tree[1]
    BY <1>1, <2>2, <2>4, LoopAdvances
  <2> QED BY <2>1, <2>4, <2>5 DEF HonestClimb, tree
<1> QED BY <1>1, <1>3 DEF HonestInv, HonestProofsAccepted

LEMMA RequireCommitteeAccepts ==
    CommitteeInv /\ HonestInv /\ RequireCommittee => HonestInv' /\ HonestProofsAccepted'
<1> SUFFICES ASSUME CommitteeInv, HonestInv, RequireCommittee
             PROVE  HonestInv' /\ HonestProofsAccepted'
  OBVIOUS
<1>1. /\ verdict = "checking" /\ claim.kind = "committee" /\ claim' = claim /\ Take
      /\ IsCommitteeClaim(claim)
  BY DEF CommitteeInv, RequireCommittee, IsCommittee
<1>2. phase \in {"restored", "reverted"}
  BY <1>1 DEF Take
<1>3. verdict' = IF /\ phase = "restored"
                    /\ AcceptsCommittee(claim.stateRoot, claim.next, Committee, claim.branch)
                 THEN "accepted" ELSE "rejected"
  BY DEF RequireCommittee
<1> DEFINE keys == KeysOf(claim.state, claim.next)
<1>4. ASSUME claim.honest
      PROVE  /\ phase = "restored"
             /\ AcceptsCommittee(claim.stateRoot, claim.next, Committee, claim.branch)
  <2>1. IsHonestClaim(claim) /\ HonestClimb(claim, phase, root, Queue, Siblings)
    BY <1>1, <1>2, <1>4 DEF HonestInv
  <2>2. phase = "restored"
    BY <1>2, <2>1 DEF HonestClimb
  <2>3. root = TreeHash(KeysTree(keys))
    BY <1>1, <2>1, <2>2, KeyNodesAre DEF HonestClimb
  <2>4. AggregatedPK(claim.update) = Sum(keys)
    BY <2>1, HonestUpdate
  <2>5. Committee = CommitteeRoot(keys)
    BY <2>3, <2>4 DEF Committee, CommitteeRoot
  <2>6. /\ ArePairs(claim.state) /\ claim.next \in BOOLEAN
        /\ claim.stateRoot = TreeHash(StateOf(claim.state))
        /\ claim.branch = Branch(claim.state, claim.next)
    BY <1>1, <2>1 DEF IsCommitteeClaim, IsHonestClaim
  <2>7. AcceptsCommittee(TreeHash(StateOf(claim.state)), claim.next, CommitteeRoot(keys),
                         Branch(claim.state, claim.next))
    BY <2>6, CommitteeAccepted
  <2> HIDE DEF keys
  <2> QED BY <2>2, <2>5, <2>6, <2>7
<1> HIDE DEF keys
<1>5. verdict' \in {"accepted", "rejected"} /\ (claim.honest => verdict' = "accepted")
  BY <1>3, <1>4
<1> QED BY <1>1, <1>5 DEF HonestInv, HonestProofsAccepted

(* Every proof that the oracle makes is accepted by whom it is made for:    *)
(* for trees and committees of every size, for any signers whose bits go    *)
(* through two reversals, for targets on either side of the window of       *)
(* roots, and for keys in either form.  Only an update with too few         *)
(* signers is turned away.                                                  *)
THEOREM HonestProofsAreAccepted == OracleSpec => []HonestProofsAccepted
<1> DEFINE Inv == HonestInv /\ HonestProofsAccepted
<1>1. OracleInit => Inv
  BY DEF OracleInit, HonestInv, HonestProofsAccepted
<1>2. CommitteeInv /\ Inv /\ [OracleNext]_oracleVars => Inv'
  <2> SUFFICES ASSUME CommitteeInv, HonestInv, HonestProofsAccepted, [OracleNext]_oracleVars
               PROVE  HonestInv' /\ HonestProofsAccepted'
    OBVIOUS
  <2>1. CASE Checks
    <3>1. verdict' # "checking"
      BY <2>1, ChecksAre DEF Check
    <3>2. HonestProofsAccepted'
      BY <2>1, ChecksAccept
    <3> QED BY <3>1, <3>2 DEF HonestInv
  <2>2. CASE ProveSyncCommittee
    BY <2>2, ProveIsHonest
  <2>3. CASE MixSyncCommittee
    BY <2>3, MixIsNot
  <2>4. CASE RequireSignatures
    BY <2>4, RequireSignaturesClimbs
  <2>5. CASE RestoreKeysRoot
    BY <2>5, RestoreKeysRootClimbs
  <2>6. CASE RequireCommittee
    BY <2>6, RequireCommitteeAccepts
  <2>7. CASE Done
    BY <2>7 DEF Done, HonestInv, HonestProofsAccepted
  <2>8. CASE UNCHANGED oracleVars
    <3>1. claim' = claim /\ verdict' = verdict /\ UNCHANGED vars
      BY <2>8 DEF oracleVars
    <3>2. phase' = phase /\ root' = root /\ Queue' = Queue /\ Siblings' = Siblings
      BY <3>1, StandStill DEF vars, calldata
    <3>3. HonestInv'
      BY <3>1, <3>2 DEF HonestInv
    <3> QED BY <3>1, <3>3 DEF HonestProofsAccepted
  <2> QED BY <2>1, <2>2, <2>3, <2>4, <2>5, <2>6, <2>7, <2>8 DEF OracleNext, Checks
<1>3. OracleSpec => []CommitteeInv
  BY CommitteeInvariant, PTL
<1> QED BY <1>1, <1>2, <1>3, PTL DEF OracleSpec
=============================================================================
