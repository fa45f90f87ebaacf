----------------------- MODULE FindBeaconBlockProofs -----------------------
(***************************************************************************)
(* The search returns the right block on every chain.  Its inner loop has  *)
(* looked at the slots next to m on one side, and the middle it set out    *)
(* from can be told from m and s.                                          *)
(***************************************************************************)
EXTENDS FindBeaconBlock, TLAPS

Below(n) == \A q \in Slots : q < n => chain[q] < target

(* What lies before l is too early, and r is not.                           *)
Bounds ==
    /\ l <= r
    /\ chain[r] # Missed /\ chain[r] >= target
    /\ ~faulty => Below(l)

(* The slots that were tried since the interval was halved.                 *)
Tried == IF s % 2 = 1 THEN (m - s + 1)..(m - 1) ELSE (m + 1)..(m + s - 1)

Zigzag ==
    /\ l < r /\ s >= 1
    /\ Tried \subseteq l..r
    /\ ~faulty => \A q \in Tried : chain[q] = Missed
    /\ s % 2 = 1 => 2 * m - s + 1 <= l + r /\ l + r <= 2 * m - s + 2
    /\ s % 2 = 0 => 2 * m + s <= l + r /\ l + r <= 2 * m + s + 1

IInv ==
    /\ TypeOK
    /\ pc \in {"halve", "probe", "done"} => Bounds
    /\ pc = "start" => l = First
    /\ pc = "done" => l = r
    /\ pc = "probe" => Zigzag

LEMMA ChainFacts ==
    ASSUME TypeOK
    PROVE  /\ chain \in [Slots -> Int]
           /\ \A a \in Slots : chain[a] >= Missed
           /\ \A a, b \in Slots : a < b /\ chain[b] # Missed => chain[a] <= chain[b]
           /\ First \in Nat /\ Last \in Nat
           /\ target \in Nat \ {0}
BY ChainsAssumption, SearchAssumption DEF TypeOK

LEMMA InitIInv == Init => IInv
<1> SUFFICES ASSUME Init PROVE IInv
  OBVIOUS
<1>1. First \in Slots
  BY SearchAssumption DEF Init, Slots
<1>2. TypeOK
  <2>1. chain \in Chains
    BY DEF Init
  <2>2. m \in Int /\ s \in Nat
    BY SearchAssumption DEF Init
  <2> QED BY <1>1, <2>1, <2>2 DEF Init, TypeOK
<1>3. pc = "start" /\ l = First
  BY DEF Init
<1> QED BY <1>2, <1>3 DEF IInv

LEMMA StartKeeps == IInv /\ Start => IInv'
<1> SUFFICES ASSUME IInv, Start PROVE IInv'
  OBVIOUS
<1>0. /\ chain \in [Slots -> Int] /\ First \in Nat /\ Last \in Nat
      /\ target \in Nat \ {0}
  BY ChainFacts DEF IInv
<1>1. PICK h \in Slots : /\ IsHead(h)
                         /\ IF chain[h] < target
                            THEN pc' = "failed" /\ UNCHANGED r
                            ELSE pc' = "halve" /\ r' = h
  BY DEF Start
<1>2. TypeOK'
  BY <1>1 DEF Start, IInv, TypeOK
<1>3. pc' = "halve" => Bounds'
  BY <1>0, <1>1 DEF Start, IInv, TypeOK, Bounds, Below, IsHead, Slots
<1> QED BY <1>1, <1>2, <1>3 DEF Start, IInv

LEMMA HalveKeeps == IInv /\ Halve => IInv'
<1> SUFFICES ASSUME IInv, Halve PROVE IInv'
  OBVIOUS
<1>0. /\ chain \in [Slots -> Int] /\ First \in Nat /\ Last \in Nat
      /\ l \in Int /\ r \in Int
  BY ChainFacts DEF IInv, TypeOK, Slots
<1>1. TypeOK'
  BY <1>0 DEF Halve, Middle, IInv, TypeOK
<1>2. Bounds'
  BY DEF Halve, IInv, Bounds, Below
<1>3. ASSUME l < r PROVE Zigzag'
  <2>1. m' = (l + r) \div 2 /\ s' = 1 /\ UNCHANGED <<l, r, chain, faulty>>
    BY <1>3 DEF Halve, Middle
  <2>2. Tried' = {}
    BY <2>1, <1>0, <1>1 DEF Tried, TypeOK
  <2>3. 2 * m' <= l + r /\ l + r <= 2 * m' + 1
    BY <2>1, <1>0
  <2> QED BY <1>0, <1>1, <1>3, <2>1, <2>2, <2>3 DEF Zigzag, TypeOK
<1>4. pc' = "probe" => l < r
  BY DEF Halve
<1>5. pc' = "done" => l' = r'
  <2>1. l <= r
    BY DEF Halve, IInv, Bounds
  <2> QED BY <2>1, <1>0 DEF Halve
<1>6. pc' # "start"
  BY DEF Halve
<1> QED BY <1>1, <1>2, <1>3, <1>4, <1>5, <1>6 DEF IInv

LEMMA StepAsideKeeps == IInv /\ StepAside => IInv'
<1> SUFFICES ASSUME IInv, StepAside PROVE IInv'
  OBVIOUS
<1>0. /\ chain \in [Slots -> Int] /\ First \in Nat /\ Last \in Nat
      /\ l \in Int /\ r \in Int /\ m \in Int /\ s \in Nat
      /\ m >= l /\ m <= r /\ Zigzag /\ faulty \in BOOLEAN
      /\ s' = s + 1 /\ UNCHANGED <<l, r, chain, pc, target>> /\ pc = "probe"
  BY ChainFacts DEF IInv, TypeOK, Slots, StepAside, InRange
<1>1. TypeOK'
  BY <1>0 DEF StepAside, Aside, IInv, TypeOK
<1>2. Bounds'
  BY DEF StepAside, IInv, Bounds, Below
<1>3. Tried' = Tried \cup {m}
  <2>1. CASE s % 2 = 0
    <3>1. m' = m + s /\ s' % 2 = 1
      BY <1>0, <2>1 DEF StepAside, Aside
    <3>2. Tried = (m + 1)..(m + s - 1) /\ Tried' = m..(m + s - 1)
      BY <3>1, <2>1, <1>0 DEF Tried
    <3> QED BY <3>2, <1>0 DEF Zigzag
  <2>2. CASE s % 2 = 1
    <3>1. m' = m - s /\ s' % 2 = 0
      BY <1>0, <2>2 DEF StepAside, Aside
    <3>2. Tried = (m - s + 1)..(m - 1) /\ Tried' = (m - s + 1)..m
      BY <3>1, <2>2, <1>0 DEF Tried
    <3> QED BY <3>2, <1>0 DEF Zigzag
  <2> QED BY <2>1, <2>2, <1>0
<1>4. ~faulty' => ~faulty /\ chain[m] = Missed
  BY <1>0 DEF StepAside
<1>5. /\ s' % 2 = 1 => 2 * m' - s' + 1 <= l + r /\ l + r <= 2 * m' - s' + 2
      /\ s' % 2 = 0 => 2 * m' + s' <= l + r /\ l + r <= 2 * m' + s' + 1
  <2>1. CASE s % 2 = 0
    <3>1. m' = m + s /\ s' % 2 = 1
      BY <1>0, <2>1 DEF StepAside, Aside
    <3> QED BY <3>1, <2>1, <1>0 DEF Zigzag
  <2>2. CASE s % 2 = 1
    <3>1. m' = m - s /\ s' % 2 = 0
      BY <1>0, <2>2 DEF StepAside, Aside
    <3> QED BY <3>1, <2>2, <1>0 DEF Zigzag
  <2> QED BY <2>1, <2>2, <1>0
<1>6. Zigzag'
  BY <1>0, <1>3, <1>4, <1>5 DEF Zigzag
<1> QED BY <1>0, <1>1, <1>2, <1>6 DEF IInv

LEMMA ProbeKeeps == IInv /\ Probe => IInv'
<1> SUFFICES ASSUME IInv, Probe PROVE IInv'
  OBVIOUS
<1>0. /\ chain \in [Slots -> Int] /\ First \in Nat /\ Last \in Nat
      /\ l \in Slots /\ r \in Slots /\ m \in Int /\ target \in Nat \ {0}
      /\ m >= l /\ m <= r /\ Bounds /\ pc' = "halve"
      /\ chain[m] # Missed /\ UNCHANGED <<chain, target, m, s, faulty>>
  BY ChainFacts DEF IInv, TypeOK, Probe, InRange
<1>1. m \in Slots
  BY <1>0 DEF Slots
<1>2. CASE chain[m] < target
  <2>1. l' = m + 1 /\ r' = r
    BY <1>2 DEF Probe, Narrow
  <2>2. m # r
    BY <1>2, <1>0, <1>1 DEF Bounds
  <2>3. m + 1 \in Slots /\ m + 1 <= r
    BY <2>2, <1>0, <1>1 DEF Slots
  <2>4. Below(m + 1)
    <3> SUFFICES ASSUME NEW q \in Slots, q < m + 1 PROVE chain[q] < target
      BY DEF Below
    <3>1. q = m \/ q < m
      BY <1>0 DEF Slots
    <3>2. q < m => chain[q] <= chain[m]
      BY <1>0, <1>1, ChainFacts DEF IInv
    <3> QED BY <3>1, <3>2, <1>0, <1>1, <1>2
  <2>5. Bounds'
    BY <2>1, <2>3, <2>4, <1>0 DEF Bounds, Below
  <2>6. TypeOK'
    BY <2>1, <2>3, <1>0 DEF IInv, TypeOK
  <2> QED BY <2>5, <2>6, <1>0 DEF IInv
<1>3. CASE ~(chain[m] < target)
  <2>1. l' = l /\ r' = m
    BY <1>3 DEF Probe, Narrow
  <2>2. chain[m] >= target
    BY <1>3, <1>0, <1>1
  <2>3. Bounds'
    BY <2>1, <2>2, <1>0 DEF Bounds, Below
  <2>4. TypeOK'
    BY <2>1, <1>0, <1>1 DEF IInv, TypeOK
  <2> QED BY <2>3, <2>4, <1>0 DEF IInv
<1> QED BY <1>2, <1>3

(* Out of range means to have tried every slot before r.                    *)
LEMMA OutOfRangeKeeps == IInv /\ OutOfRange => IInv'
<1> SUFFICES ASSUME IInv, OutOfRange PROVE IInv'
  OBVIOUS
<1>0. /\ chain \in [Slots -> Int] /\ First \in Nat /\ Last \in Nat
      /\ l \in Slots /\ r \in Slots /\ m \in Int /\ s \in Nat
      /\ l \in Int /\ r \in Int
      /\ target \in Nat \ {0} /\ ~(m >= l /\ m <= r) /\ Bounds /\ Zigzag
      /\ pc' = "done" /\ l' = r /\ UNCHANGED <<chain, target, r, m, s, faulty>>
  BY ChainFacts DEF IInv, TypeOK, OutOfRange, InRange, Slots
<1>1. TypeOK'
  BY <1>0 DEF IInv, TypeOK
<1>2. l..(r - 1) \subseteq Tried
  <2>1. CASE s % 2 = 0
    <3>1. Tried = (m + 1)..(m + s - 1)
      BY <2>1, <1>0 DEF Tried
    <3>2. m < l
      <4> SUFFICES ASSUME m > r PROVE FALSE
        BY <1>0
      <4> QED BY <2>1, <1>0 DEF Zigzag
    <3>3. r - 1 <= m + s - 1
      <4>1. s # 0 /\ s >= 2
        BY <2>1, <1>0 DEF Zigzag
      <4>2. m + 1 >= l
        <5>1. m + 1 \in Tried
          BY <3>1, <4>1, <1>0
        <5> QED BY <5>1, <1>0 DEF Zigzag
      <4> QED BY <2>1, <3>2, <4>2, <1>0 DEF Zigzag
    <3> QED BY <3>1, <3>2, <3>3, <1>0
  <2>2. CASE s % 2 = 1
    <3>1. Tried = (m - s + 1)..(m - 1)
      BY <2>2, <1>0 DEF Tried
    <3>2. m > r
      <4> SUFFICES ASSUME m < l PROVE FALSE
        BY <1>0
      <4> QED BY <2>2, <1>0 DEF Zigzag
    <3>3. m - s + 1 <= l
      BY <2>2, <3>2, <1>0 DEF Zigzag
    <3> QED BY <3>1, <3>2, <3>3, <1>0
  <2> QED BY <2>1, <2>2, <1>0
<1>3. ~faulty => Below(r)
  <2> SUFFICES ASSUME ~faulty, NEW q \in Slots, q < r PROVE chain[q] < target
    BY DEF Below
  <2>1. CASE q < l
    BY <2>1 , <1>0 DEF Bounds, Below
  <2>2. CASE q >= l
    <3>1. q \in l..(r - 1)
      BY <2>2, <1>0 DEF Slots
    <3>2. chain[q] = Missed
      BY <3>1, <1>2, <1>0 DEF Zigzag
    <3> QED BY <3>2, <1>0 DEF Missed
  <2> QED BY <2>1, <2>2, <1>0 DEF Slots
<1>4. Bounds'
  BY <1>0, <1>3 DEF Bounds, Below
<1> QED BY <1>0, <1>1, <1>4 DEF IInv

LEMMA SearchInvariant == Spec => []IInv
<1>1. IInv /\ [Next]_vars => IInv'
  <2> SUFFICES ASSUME IInv, [Next]_vars PROVE IInv'
    OBVIOUS
  <2>1. CASE UNCHANGED vars
    BY <2>1 DEF vars, IInv, TypeOK, Bounds, Below, Zigzag, Tried
  <2> QED BY <2>1, StartKeeps, HalveKeeps, StepAsideKeeps, ProbeKeeps, OutOfRangeKeeps DEF Next
<1> QED BY <1>1, InitIInv, PTL DEF Spec

(* The variables of the search keep their types: l and r are slots.         *)
THEOREM TypeCorrect == Spec => []TypeOK
<1>1. IInv => TypeOK
  BY DEF IInv
<1> QED BY <1>1, SearchInvariant, PTL

(* On every chain, FindBeaconBlockByExecutionBlockNumber returns the first  *)
(* block with the number or a greater one, if every request was served.     *)
THEOREM ReturnsFirst == Spec => []ResultIsFirst
<1>1. IInv => ResultIsFirst
  BY DEF IInv, Bounds, Below, ResultIsFirst
<1> QED BY <1>1, SearchInvariant, PTL

(* It never returns an earlier block, whatever requests fail.               *)
THEOREM ReturnsNoEarlier == Spec => []NeverTooEarly
<1>1. IInv => NeverTooEarly
  BY DEF IInv, Bounds, NeverTooEarly
<1> QED BY <1>1, SearchInvariant, PTL
=============================================================================
