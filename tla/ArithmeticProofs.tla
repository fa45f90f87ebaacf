-------------------------- MODULE ArithmeticProofs --------------------------
(***************************************************************************)
(* What the recursive functions of module Arithmetic compute.              *)
(*                                                                         *)
(* Induction and recursion are stated over sets and functions, instead of  *)
(* operators: a lemma with an operator for a parameter cannot be applied   *)
(* by the provers.                                                         *)
(***************************************************************************)
EXTENDS Arithmetic, FiniteSets, TLAPS, FiniteSetTheorems, WellFoundedInduction

(* Of the sets 0..n, n \in T, one has no other as a subset.                 *)
LEMMA LeastNat ==
    ASSUME NEW T \in SUBSET Nat, T # {}
    PROVE  \E x \in T : \A y \in T : x <= y
<1> DEFINE Below == {0..n : n \in T}
<1>1. Below \subseteq FiniteSubsetsOf(Nat)
  <2>1. \A n \in T : 0..n \subseteq Nat /\ IsFiniteSet(0..n)
    BY FS_Interval
  <2> QED BY <2>1, Zenon DEF FiniteSubsetsOf
<1>2. PICK B \in Below : \A C \in Below : <<C, B>> \notin StrictSubsetOrdering(Nat)
  <2>1. IsWellFoundedOn(StrictSubsetOrdering(Nat), FiniteSubsetsOf(Nat))
    BY FS_StrictSubsetOrderingWellFounded
  <2>2. Below # {}
    OBVIOUS
  <2> QED BY <1>1, <2>1, <2>2, WFMin
<1>3. PICK x \in T : B = 0..x
  OBVIOUS
<1>4. ASSUME NEW y \in T, y < x
      PROVE  FALSE
  <2>1. /\ 0..y \in Below /\ 0..y \subseteq 0..x /\ 0..y # 0..x
        /\ 0..y \subseteq Nat /\ 0..x \subseteq Nat
    BY <1>4
  <2>2. <<0..y, 0..x>> \in StrictSubsetOrdering(Nat)
    BY <2>1 DEF StrictSubsetOrdering
  <2> QED BY <1>2, <1>3, <2>1, <2>2
<1> QED BY <1>3, <1>4

LEMMA GreatestNat ==
    ASSUME NEW n \in Nat, NEW T \in SUBSET (0..n), T # {}
    PROVE  \E x \in T : \A y \in T : y <= x
<1> DEFINE Distances == {d \in Nat : n - d \in T}
<1>1. \A x \in T : x \in Nat /\ n - x \in Nat /\ n - (n - x) = x
  OBVIOUS
<1>2. \A x \in T : n - x \in Distances
  BY <1>1
<1>3. Distances \in SUBSET Nat /\ Distances # {}
  BY <1>2
<1>4. PICK d \in Distances : \A e \in Distances : d <= e
  BY <1>3, LeastNat
<1>5. n - d \in T /\ d \in Nat
  BY <1>4
<1>6. \A y \in T : d <= n - y
  BY <1>2, <1>4
<1>7. \A y \in T : y <= n - d
  BY <1>1, <1>5, <1>6
<1> QED BY <1>5, <1>7

LEMMA NatInductionOverSet ==
    ASSUME NEW S, 0 \in S, \A n \in Nat : n \in S => n + 1 \in S
    PROVE  \A n \in Nat : n \in S
<1>1. SUFFICES ASSUME NEW z \in Nat, z \notin S PROVE FALSE
  OBVIOUS
<1>2. PICK x \in Nat \ S : \A y \in Nat \ S : x <= y
  BY <1>1, LeastNat
<1>3. x # 0 /\ x - 1 \in Nat
  BY <1>2
<1>4. x - 1 \in S
  BY <1>2, <1>3
<1> QED BY <1>2, <1>3, <1>4

-----------------------------------------------------------------------------
(* h begins with a and follows step as far as n.                            *)
Follows(a, step, h, n) ==
    /\ h[0] = a
    /\ \A i \in 0..(n - 1) : h[i + 1] = step[<<i, h[i]>>]

LEMMA FollowsExists ==
    ASSUME NEW S, NEW a \in S, NEW step \in [Nat \X S -> S]
    PROVE  \A n \in Nat : \E h \in [Nat -> S] : Follows(a, step, h, n)
<1> DEFINE T == {n \in Nat : \E h \in [Nat -> S] : Follows(a, step, h, n)}
<1>1. 0 \in T
  <2>1. [i \in Nat |-> a] \in [Nat -> S] /\ Follows(a, step, [i \in Nat |-> a], 0)
    BY DEF Follows
  <2> QED BY <2>1
<1>2. ASSUME NEW n \in Nat, n \in T
      PROVE  n + 1 \in T
  <2>1. PICK h \in [Nat -> S] : Follows(a, step, h, n)
    BY <1>2
  <2> DEFINE g == [h EXCEPT ![n + 1] = step[<<n, h[n]>>]]
  <2>2. g \in [Nat -> S]
    OBVIOUS
  <2>3. Follows(a, step, g, n + 1)
    <3>1. g[0] = a /\ g[n + 1] = step[<<n, g[n]>>]
      BY <2>1 DEF Follows
    <3>2. ASSUME NEW i \in 0..n, i # n
          PROVE  g[i + 1] = step[<<i, g[i]>>]
      <4>1. i \in 0..(n - 1) /\ g[i + 1] = h[i + 1] /\ g[i] = h[i]
        BY <3>2
      <4> QED BY <2>1, <4>1 DEF Follows
    <3> QED BY <3>1, <3>2 DEF Follows
  <2> HIDE DEF g
  <2> QED BY <2>2, <2>3
<1>3. \A n \in Nat : n \in T
  BY <1>1, <1>2, NatInductionOverSet
<1> QED BY <1>3

LEMMA FollowsUnique ==
    ASSUME NEW a, NEW step, NEW m \in Nat, NEW g, NEW h,
           Follows(a, step, g, m), Follows(a, step, h, m)
    PROVE  \A n \in 0..m : g[n] = h[n]
<1> DEFINE T == {n \in Nat : n <= m => g[n] = h[n]}
<1>1. 0 \in T
  BY DEF Follows
<1>2. ASSUME NEW n \in Nat, n \in T
      PROVE  n + 1 \in T
  <2>1. CASE n + 1 <= m
    <3>1. n \in 0..(m - 1) /\ g[n] = h[n]
      BY <1>2, <2>1
    <3>2. g[n + 1] = h[n + 1]
      BY <3>1 DEF Follows
    <3> QED BY <3>2
  <2>2. CASE ~(n + 1 <= m)
    BY <2>2
  <2> QED BY <2>1, <2>2
<1>3. \A n \in Nat : n \in T
  BY <1>1, <1>2, NatInductionOverSet
<1> QED BY <1>3

(* Primitive recursion has a solution.                                      *)
LEMMA PrimitiveRecursion ==
    ASSUME NEW S, NEW a \in S, NEW step \in [Nat \X S -> S]
    PROVE  \E h \in [Nat -> S] : \A n \in Nat : Follows(a, step, h, n)
<1> DEFINE Until(n) == CHOOSE h \in [Nat -> S] : Follows(a, step, h, n)
           h == [n \in Nat |-> Until(n)[n]]
<1>1. \A n \in Nat : Until(n) \in [Nat -> S] /\ Follows(a, step, Until(n), n)
  BY FollowsExists
<1> HIDE DEF Until
<1>2. h \in [Nat -> S] /\ \A n \in Nat : h[n] = Until(n)[n]
  BY <1>1
<1>3. h[0] = a
  BY <1>1, <1>2 DEF Follows
<1>4. ASSUME NEW n \in Nat
      PROVE  h[n + 1] = step[<<n, h[n]>>]
  <2>1. Follows(a, step, Until(n + 1), n) /\ n \in 0..n /\ n + 1 \in Nat
    BY <1>1 DEF Follows
  <2>2. Until(n + 1)[n] = Until(n)[n]
    BY <1>1, <2>1, FollowsUnique
  <2>3. Until(n + 1)[n + 1] = step[<<n, Until(n + 1)[n]>>]
    BY <1>1, <2>1 DEF Follows
  <2> QED BY <1>2, <2>1, <2>2, <2>3
<1> HIDE DEF h
<1>5. \A n \in Nat : Follows(a, step, h, n)
  BY <1>3, <1>4 DEF Follows
<1> QED BY <1>2, <1>5
-----------------------------------------------------------------------------
LEMMA TenToEquation ==
    /\ TenTo \in [Nat -> Nat \ {0}]
    /\ TenTo[0] = 1
    /\ \A n \in Nat : TenTo[n + 1] = 10 * TenTo[n]
<1> DEFINE S == Nat \ {0}
           step == [p \in Nat \X S |-> 10 * p[2]]
           Is(f) == f = [n \in Nat |-> IF n = 0 THEN 1 ELSE 10 * f[n - 1]]
<1>1. step \in [Nat \X S -> S] /\ 1 \in S
  OBVIOUS
<1> HIDE DEF S
<1>2. PICK h \in [Nat -> S] : \A n \in Nat : Follows(1, step, h, n)
  <2> HIDE DEF step
  <2> QED BY <1>1, PrimitiveRecursion
<1>3. h[0] = 1 /\ \A n \in Nat : h[n + 1] = 10 * h[n]
  <2>1. \A n \in Nat : n \in 0..((n + 1) - 1) /\ n + 1 \in Nat
    OBVIOUS
  <2>2. \A n \in Nat : h[n + 1] = step[<<n, h[n]>>]
    BY <1>2, <2>1 DEF Follows
  <2>3. \A n \in Nat : step[<<n, h[n]>>] = 10 * h[n]
    BY <1>2
  <2> QED BY <1>2, <2>2, <2>3 DEF Follows
<1>4. Is(h)
  <2>1. ASSUME NEW n \in Nat
        PROVE  h[n] = IF n = 0 THEN 1 ELSE 10 * h[n - 1]
    <3>1. n # 0 => n - 1 \in Nat /\ (n - 1) + 1 = n
      OBVIOUS
    <3> QED BY <1>3, <3>1
  <2> QED BY <1>2, <2>1
<1>5. Is(TenTo)
  BY <1>4 DEF TenTo
<1>6. \A n \in Nat : TenTo[n] = IF n = 0 THEN 1 ELSE 10 * TenTo[n - 1]
  BY <1>5
<1>7. TenTo[0] = 1 /\ \A n \in Nat : TenTo[n + 1] = 10 * TenTo[n]
  <2>1. \A n \in Nat : n + 1 \in Nat /\ n + 1 # 0 /\ (n + 1) - 1 = n
    OBVIOUS
  <2> QED BY <1>6, <2>1
<1>8. \A n \in Nat : TenTo[n] \in S
  <2> DEFINE T == {n \in Nat : TenTo[n] \in S}
  <2>1. 0 \in T /\ \A n \in Nat : n \in T => n + 1 \in T
    BY <1>7 DEF S
  <2>2. \A n \in Nat : n \in T
    BY <2>1, NatInductionOverSet
  <2> QED BY <2>2
<1> QED BY <1>5, <1>7, <1>8 DEF S

-----------------------------------------------------------------------------
(* h[i] is the sum of the first i.                                          *)
Sums(f, h, n) == h[0] = 0 /\ \A i \in 0..(n - 1) : h[i + 1] = h[i] + f[i + 1]

LEMMA SumOfIsLast ==
    ASSUME NEW n \in Nat, NEW f, \A i \in 1..n : f[i] \in Int
    PROVE  \E h \in [Nat -> Int] :
              Sums(f, h, n) /\ \A m \in 0..n : SumOf(f, m) = h[m]
<1> DEFINE g == [i \in Nat |-> IF i \in 1..n THEN f[i] ELSE 0]
           step == [p \in Nat \X Int |-> p[2] + g[p[1] + 1]]
<1>1. step \in [Nat \X Int -> Int]
  <2>1. g \in [Nat -> Int]
    OBVIOUS
  <2>2. \A p \in Nat \X Int : p[2] + g[p[1] + 1] \in Int
    <3> HIDE DEF g
    <3> QED BY <2>1
  <2> HIDE DEF g
  <2> QED BY <2>2
<1>2. PICK h \in [Nat -> Int] : \A i \in Nat : Follows(0, step, h, i)
  <2> DEFINE S == Int
             a == 0
  <2>1. step \in [Nat \X S -> S] /\ a \in S
    BY <1>1
  <2> HIDE DEF step, S, a
  <2>2. \E h \in [Nat -> S] : \A i \in Nat : Follows(a, step, h, i)
    BY <2>1, PrimitiveRecursion
  <2> QED BY <2>2 DEF S, a
<1>3. Sums(f, h, n)
  <2>1. ASSUME NEW i \in 0..(n - 1)
        PROVE  h[i + 1] = h[i] + f[i + 1]
    <3>1. h[i + 1] = step[<<i, h[i]>>]
      BY <1>2 DEF Follows
    <3>2. step[<<i, h[i]>>] = h[i] + g[i + 1]
      BY <1>2
    <3> QED BY <3>1, <3>2
  <2> QED BY <1>2, <2>1 DEF Sums, Follows
<1> HIDE DEF step, g
<1>4. ASSUME NEW m \in 0..n
      PROVE  SumOf(f, m) = h[m]
  <2> DEFINE Is(s) == s = [i \in 0..m |-> IF i = 0 THEN 0 ELSE s[i - 1] + f[i]]
             k == [i \in 0..m |-> h[i]]
             sum == CHOOSE s : Is(s)
  <2>1. Is(k)
    <3>1. ASSUME NEW i \in 0..m
          PROVE  h[i] = IF i = 0 THEN 0 ELSE k[i - 1] + f[i]
      <4>1. CASE i = 0
        BY <1>3, <4>1 DEF Sums
      <4>2. CASE i # 0
        <5>1. i - 1 \in 0..(n - 1) /\ i - 1 \in 0..m /\ (i - 1) + 1 = i
          BY <4>2
        <5> QED BY <1>3, <4>2, <5>1 DEF Sums
      <4> QED BY <4>1, <4>2
    <3> QED BY <3>1
  <2>2. Is(sum)
    <3> HIDE DEF k
    <3> QED BY <2>1
  <2>3. SumOf(f, m) = sum[m]
    BY DEF SumOf
  <2> HIDE DEF sum, k
  <2>4. \A i \in 0..m : sum[i] = IF i = 0 THEN 0 ELSE sum[i - 1] + f[i]
    BY <2>2
  <2> DEFINE T == {i \in Nat : i <= m => sum[i] = h[i]}
  <2>5. 0 \in T
    BY <1>3, <2>4 DEF Sums
  <2>6. ASSUME NEW i \in Nat, i \in T
        PROVE  i + 1 \in T
    <3>1. CASE i + 1 <= m
      <4>1. i \in 0..(n - 1) /\ i + 1 \in 0..m /\ i + 1 # 0 /\ (i + 1) - 1 = i /\ sum[i] = h[i]
        BY <2>6, <3>1
      <4>2. sum[i + 1] = h[i + 1]
        BY <1>3, <2>4, <4>1 DEF Sums
      <4> QED BY <4>2
    <3>2. CASE ~(i + 1 <= m)
      BY <3>2
    <3> QED BY <3>1, <3>2
  <2>7. \A i \in Nat : i \in T
    BY <2>5, <2>6, NatInductionOverSet
  <2> QED BY <2>3, <2>7
<1> QED BY <1>3, <1>4

LEMMA SumOfEquation ==
    ASSUME NEW n \in Nat, NEW f, \A i \in 1..n : f[i] \in Int
    PROVE  /\ SumOf(f, 0) = 0
           /\ \A m \in 0..n : SumOf(f, m) \in Int
           /\ \A m \in 0..(n - 1) : SumOf(f, m + 1) = SumOf(f, m) + f[m + 1]
<1>1. PICK h \in [Nat -> Int] : Sums(f, h, n) /\ \A m \in 0..n : SumOf(f, m) = h[m]
  BY SumOfIsLast
<1>2. 0 \in 0..n /\ \A m \in 0..(n - 1) : m \in 0..n /\ m + 1 \in 0..n
  OBVIOUS
<1> QED BY <1>1, <1>2 DEF Sums

(* An induction on the summands.                                            *)
LEMMA SumOfChange ==
    ASSUME NEW n \in Nat, NEW f, NEW g,
           \A i \in 1..n : f[i] \in Int /\ g[i] \in Int,
           NEW k \in 1..n, \A i \in 1..n : i # k => g[i] = f[i]
    PROVE  SumOf(g, n) = SumOf(f, n) - f[k] + g[k]
<1> DEFINE T == {m \in Nat : m <= n =>
                    SumOf(g, m) = SumOf(f, m) + (IF m < k THEN 0 ELSE g[k] - f[k])}
<1>1. /\ SumOf(f, 0) = 0 /\ SumOf(g, 0) = 0
      /\ \A m \in 0..n : SumOf(f, m) \in Int /\ SumOf(g, m) \in Int
      /\ \A m \in 0..(n - 1) : /\ SumOf(f, m + 1) = SumOf(f, m) + f[m + 1]
                              /\ SumOf(g, m + 1) = SumOf(g, m) + g[m + 1]
  BY SumOfEquation
<1>2. 0 \in T
  BY <1>1
<1>3. ASSUME NEW m \in Nat, m \in T
      PROVE  m + 1 \in T
  <2> SUFFICES ASSUME m + 1 <= n
               PROVE  SumOf(g, m + 1) = SumOf(f, m + 1) + (IF m + 1 < k THEN 0 ELSE g[k] - f[k])
    OBVIOUS
  <2>1. m \in 0..(n - 1) /\ m \in 0..n /\ m + 1 \in 1..n
    OBVIOUS
  <2>2. SumOf(g, m) = SumOf(f, m) + (IF m < k THEN 0 ELSE g[k] - f[k])
    BY <1>3
  <2>3. /\ SumOf(f, m + 1) = SumOf(f, m) + f[m + 1] /\ SumOf(g, m + 1) = SumOf(g, m) + g[m + 1]
        /\ SumOf(f, m) \in Int /\ SumOf(g, m) \in Int
        /\ f[m + 1] \in Int /\ g[m + 1] \in Int /\ f[k] \in Int /\ g[k] \in Int
    BY <1>1, <2>1
  <2>4. m + 1 # k => g[m + 1] = f[m + 1]
    BY <2>1
  <2> QED BY <2>2, <2>3, <2>4
<1>4. \A m \in Nat : m \in T
  BY <1>2, <1>3, NatInductionOverSet
<1>5. SumOf(g, n) = SumOf(f, n) + (IF n < k THEN 0 ELSE g[k] - f[k])
  BY <1>4
<1> QED BY <1>1, <1>5

LEMMA SumOfSame ==
    ASSUME NEW n \in Nat, NEW f, NEW g,
           \A i \in 1..n : f[i] \in Int /\ g[i] = f[i]
    PROVE  SumOf(g, n) = SumOf(f, n)
<1>1. CASE n = 0
  BY <1>1, SumOfEquation
<1>2. CASE n # 0
  <2>1. n \in 1..n
    BY <1>2
  <2>2. SumOf(g, n) = SumOf(f, n) - f[n] + g[n]
    BY <2>1, SumOfChange
  <2>3. SumOf(f, n) \in Int /\ f[n] \in Int /\ g[n] = f[n]
    BY <2>1, SumOfEquation
  <2> QED BY <2>2, <2>3
<1> QED BY <1>1, <1>2

(* A sum of natural numbers is no less than any of them.                    *)
LEMMA SumOfAtLeast ==
    ASSUME NEW n \in Nat, NEW f, \A i \in 1..n : f[i] \in Nat
    PROVE  /\ SumOf(f, n) \in Nat
           /\ \A k \in 1..n : f[k] <= SumOf(f, n)
<1> DEFINE T == {m \in Nat : m <= n =>
                    SumOf(f, m) \in Nat /\ \A k \in 1..m : f[k] <= SumOf(f, m)}
<1>1. /\ SumOf(f, 0) = 0
      /\ \A m \in 0..(n - 1) : SumOf(f, m + 1) = SumOf(f, m) + f[m + 1]
  BY SumOfEquation
<1>2. 0 \in T
  BY <1>1
<1>3. ASSUME NEW m \in Nat, m \in T
      PROVE  m + 1 \in T
  <2>1. CASE m + 1 <= n
    <3>1. /\ SumOf(f, m) \in Nat /\ \A k \in 1..m : f[k] <= SumOf(f, m)
          /\ SumOf(f, m + 1) = SumOf(f, m) + f[m + 1]
          /\ \A k \in 1..(m + 1) : f[k] \in Nat
      BY <1>1, <1>3, <2>1
    <3>2. \A k \in 1..(m + 1) : k \in 1..m \/ k = m + 1
      OBVIOUS
    <3>3. SumOf(f, m + 1) \in Nat /\ \A k \in 1..(m + 1) : f[k] <= SumOf(f, m + 1)
      BY <3>1, <3>2
    <3> QED BY <3>3
  <2>2. CASE ~(m + 1 <= n)
    BY <2>2
  <2> QED BY <2>1, <2>2
<1>4. \A m \in Nat : m \in T
  BY <1>2, <1>3, NatInductionOverSet
<1> QED BY <1>4

LEMMA SumOfConstant ==
    ASSUME NEW n \in Nat, NEW q \in Int
    PROVE  SumOf([i \in 1..n |-> q], n) = n * q
<1> DEFINE f == [i \in 1..n |-> q]
           T == {m \in Nat : m <= n => SumOf(f, m) = m * q}
<1>1. /\ SumOf(f, 0) = 0
      /\ \A m \in 0..(n - 1) : SumOf(f, m + 1) = SumOf(f, m) + q
  <2>1. /\ SumOf(f, 0) = 0
        /\ \A m \in 0..(n - 1) : SumOf(f, m + 1) = SumOf(f, m) + f[m + 1]
    BY SumOfEquation
  <2> QED BY <2>1
<1> HIDE DEF f
<1>2. 0 \in T
  BY <1>1
<1>3. ASSUME NEW m \in Nat, m \in T
      PROVE  m + 1 \in T
  <2> SUFFICES ASSUME m + 1 <= n PROVE SumOf(f, m + 1) = (m + 1) * q
    OBVIOUS
  <2>1. SumOf(f, m + 1) = m * q + q
    BY <1>1, <1>3
  <2>2. (m + 1) * q = m * q + q
    OBVIOUS
  <2> QED BY <2>1, <2>2
<1>4. \A m \in Nat : m \in T
  BY <1>2, <1>3, NatInductionOverSet
<1> QED BY <1>4 DEF f

-----------------------------------------------------------------------------
LEMMA BoundedInduction ==
    ASSUME NEW m \in Nat, NEW S, 0 \in S, \A i \in 0..(m - 1) : i \in S => i + 1 \in S
    PROVE  \A i \in 0..m : i \in S
<1> DEFINE T == {i \in Nat : i <= m => i \in S}
<1>1. 0 \in T
  OBVIOUS
<1>2. \A i \in Nat : i \in T => i + 1 \in T
  OBVIOUS
<1>3. \A i \in Nat : i \in T
  BY <1>1, <1>2, NatInductionOverSet
<1> QED BY <1>3

LEMMA StrongInduction ==
    ASSUME NEW S, \A m \in Nat : (\A k \in 0..(m - 1) : k \in S) => m \in S
    PROVE  \A m \in Nat : m \in S
<1> DEFINE T == {m \in Nat : \A k \in 0..m : k \in S}
<1>1. 0 \in T
  OBVIOUS
<1>2. ASSUME NEW m \in Nat, m \in T PROVE m + 1 \in T
  <2>1. \A k \in 0..((m + 1) - 1) : k \in S
    BY <1>2
  <2>2. m + 1 \in S
    BY <2>1
  <2> QED BY <1>2, <2>2
<1>3. \A m \in Nat : m \in T
  BY <1>1, <1>2, NatInductionOverSet
<1> QED BY <1>3

LEMMA DivIs ==
    ASSUME NEW a \in Int, NEW b \in Nat \ {0}, NEW q \in Int, b * q <= a, a < b * q + b
    PROVE  a \div b = q
OBVIOUS

LEMMA DivBounds ==
    ASSUME NEW a \in Int, NEW b \in Nat \ {0}
    PROVE  /\ a \div b \in Int /\ b * (a \div b) <= a /\ a < b * (a \div b) + b
           /\ a % b = a - b * (a \div b)
           /\ a % b \in 0..(b - 1)
OBVIOUS

LEMMA DivHalf ==
    ASSUME NEW g \in Nat, NEW p \in Nat \ {0}
    PROVE  /\ (g \div p) \div 2 = g \div (2 * p)
           /\ (g \div 2) \div p = g \div (2 * p)
OBVIOUS

(* A loop of m rounds, with the values of S for its state.                  *)
Rounds(a, step, h, m) ==
    h[0] = a /\ \A i \in 1..m : h[i] = step[<<i, h[i - 1]>>]

LEMMA LoopExists ==
    ASSUME NEW S, NEW m \in Nat, NEW a \in S, NEW step \in [Nat \X S -> S]
    PROVE  \E h \in [0..m -> S] : Rounds(a, step, h, m)
<1> DEFINE later == [p \in Nat \X S |-> step[<<p[1] + 1, p[2]>>]]
<1>1. later \in [Nat \X S -> S]
  OBVIOUS
<1>2. \A i \in 1..m, x \in S : later[<<i - 1, x>>] = step[<<i, x>>]
  <2> TAKE i \in 1..m, x \in S
  <2>1. <<i - 1, x>> \in Nat \X S /\ (i - 1) + 1 = i
    OBVIOUS
  <2> QED BY <2>1
<1> HIDE DEF later
<1>3. PICK g \in [Nat -> S] : \A i \in Nat : Follows(a, later, g, i)
  BY <1>1, PrimitiveRecursion
<1>4. g[0] = a
  BY <1>3 DEF Follows
<1>5. ASSUME NEW i \in 1..m
      PROVE  g[i] = step[<<i, g[i - 1]>>]
  <2>1. i - 1 \in 0..(m - 1) /\ (i - 1) + 1 = i /\ i - 1 \in Nat
    OBVIOUS
  <2>2. g[i] = later[<<i - 1, g[i - 1]>>]
    BY <1>3, <2>1 DEF Follows
  <2>3. g[i - 1] \in S
    BY <1>3, <2>1
  <2> QED BY <1>2, <2>2, <2>3
<1> DEFINE h == [i \in 0..m |-> g[i]]
<1>6. h \in [0..m -> S] /\ h[0] = a
  BY <1>3, <1>4
<1>7. \A i \in 1..m : h[i] = step[<<i, h[i - 1]>>]
  BY <1>5
<1> QED BY <1>6, <1>7 DEF Rounds

(* A function each value of which depends on those at smaller numbers.      *)
PastOnly(D, V) ==
    \A m \in Nat : \A f, g \in [Nat -> V] :
       (\A k \in 0..(m - 1) : f[k] = g[k]) => D[<<m, f>>] = D[<<m, g>>]

FromPast(f, D) == \A m \in Nat : f[m] = D[<<m, f>>]

LEMMA HistoryRecursion ==
    ASSUME NEW V, NEW v \in V, NEW D \in [Nat \X [Nat -> V] -> V], PastOnly(D, V)
    PROVE  \E f \in [Nat -> V] : FromPast(f, D)
<1> DEFINE S == [Nat -> V]
           a == [k \in Nat |-> v]
           step == [p \in Nat \X S |-> [p[2] EXCEPT ![p[1]] = D[p]]]
<1>1. a \in S /\ step \in [Nat \X S -> S]
  OBVIOUS
<1>2. \A m \in Nat, f \in S : step[<<m, f>>] = [f EXCEPT ![m] = D[<<m, f>>]]
  OBVIOUS
<1> HIDE DEF step, a
<1>3. PICK h \in [Nat -> S] : \A m \in Nat : Follows(a, step, h, m)
  <2> HIDE DEF S
  <2> QED BY <1>1, PrimitiveRecursion
<1>4. ASSUME NEW m \in Nat
      PROVE  /\ h[m + 1] \in S /\ h[m] \in S
             /\ h[m + 1][m] = D[<<m, h[m]>>]
             /\ \A k \in Nat : k # m => h[m + 1][k] = h[m][k]
  <2>1. m \in 0..((m + 1) - 1) /\ m + 1 \in Nat
    OBVIOUS
  <2>2. h[m + 1] = step[<<m, h[m]>>]
    BY <1>3, <2>1 DEF Follows
  <2>3. h[m] \in S /\ h[m + 1] \in S
    BY <1>3, <2>1
  <2>4. h[m + 1] = [h[m] EXCEPT ![m] = D[<<m, h[m]>>]]
    BY <1>2, <2>2, <2>3
  <2> QED BY <2>3, <2>4
<1> DEFINE f == [k \in Nat |-> h[k + 1][k]]
<1>5. \A m \in Nat : \A k \in 0..(m - 1) : h[m][k] = f[k]
  <2> DEFINE T == {m \in Nat : \A k \in 0..(m - 1) : h[m][k] = f[k]}
  <2>1. 0 \in T
    OBVIOUS
  <2>2. ASSUME NEW m \in Nat, m \in T PROVE m + 1 \in T
    <3>1. ASSUME NEW k \in 0..((m + 1) - 1) PROVE h[m + 1][k] = f[k]
      <4>1. CASE k = m
        BY <4>1
      <4>2. CASE k # m
        <5>1. k \in 0..(m - 1) /\ k \in Nat
          <6> HIDE DEF T, f, S
          <6> QED BY <4>2
        <5> QED BY <1>4, <2>2, <4>2, <5>1
      <4> QED BY <4>1, <4>2
    <3> QED BY <3>1
  <2>3. \A m \in Nat : m \in T
    BY <2>1, <2>2, NatInductionOverSet
  <2> QED BY <2>3
<1>6. f \in [Nat -> V]
  <2>1. \A k \in Nat : k + 1 \in Nat /\ h[k + 1] \in S
    BY <1>4
  <2> QED BY <2>1
<1>7. ASSUME NEW m \in Nat PROVE f[m] = D[<<m, f>>]
  <2>1. f[m] = D[<<m, h[m]>>]
    BY <1>4
  <2>2. h[m] \in [Nat -> V] /\ \A k \in 0..(m - 1) : h[m][k] = f[k]
    BY <1>4, <1>5
  <2> HIDE DEF f
  <2> QED BY <1>6, <2>1, <2>2 DEF PastOnly
<1> QED BY <1>6, <1>7 DEF FromPast

LEMMA TwoToEquation ==
    /\ TwoTo \in [Nat -> Nat \ {0}]
    /\ TwoTo[0] = 1
    /\ \A m \in Nat : TwoTo[m + 1] = 2 * TwoTo[m]
<1> DEFINE S == Nat \ {0}
           step == [p \in Nat \X S |-> 2 * p[2]]
           Is(f) == f = [m \in Nat |-> IF m = 0 THEN 1 ELSE 2 * f[m - 1]]
<1>1. step \in [Nat \X S -> S] /\ 1 \in S
  OBVIOUS
<1> HIDE DEF S
<1>2. PICK h \in [Nat -> S] : \A m \in Nat : Follows(1, step, h, m)
  <2> HIDE DEF step
  <2> QED BY <1>1, PrimitiveRecursion
<1>3. h[0] = 1 /\ \A m \in Nat : h[m + 1] = 2 * h[m]
  <2>1. \A m \in Nat : m \in 0..((m + 1) - 1) /\ m + 1 \in Nat
    OBVIOUS
  <2>2. \A m \in Nat : h[m + 1] = step[<<m, h[m]>>]
    BY <1>2, <2>1 DEF Follows
  <2>3. \A m \in Nat : step[<<m, h[m]>>] = 2 * h[m]
    BY <1>2
  <2> QED BY <1>2, <2>2, <2>3 DEF Follows
<1>4. Is(h)
  <2>1. ASSUME NEW m \in Nat
        PROVE  h[m] = IF m = 0 THEN 1 ELSE 2 * h[m - 1]
    <3>1. m # 0 => m - 1 \in Nat /\ (m - 1) + 1 = m
      OBVIOUS
    <3> QED BY <1>3, <3>1
  <2> QED BY <1>2, <2>1
<1>5. Is(TwoTo)
  BY <1>4 DEF TwoTo
<1>6. \A m \in Nat : TwoTo[m] = IF m = 0 THEN 1 ELSE 2 * TwoTo[m - 1]
  BY <1>5
<1>7. TwoTo[0] = 1 /\ \A m \in Nat : TwoTo[m + 1] = 2 * TwoTo[m]
  <2>1. \A m \in Nat : m + 1 \in Nat /\ m + 1 # 0 /\ (m + 1) - 1 = m
    OBVIOUS
  <2> QED BY <1>6, <2>1
<1>8. \A m \in Nat : TwoTo[m] \in S
  <2> DEFINE T == {m \in Nat : TwoTo[m] \in S}
  <2>1. 0 \in T /\ \A m \in Nat : m \in T => m + 1 \in T
    BY <1>7 DEF S
  <2>2. \A m \in Nat : m \in T
    BY <2>1, NatInductionOverSet
  <2> QED BY <2>2
<1> QED BY <1>5, <1>7, <1>8 DEF S

LEMMA TwoToGrows ==
    /\ \A k, d \in Nat : TwoTo[k] <= TwoTo[k + d]
    /\ \A k \in Nat : k < TwoTo[k]
    /\ \A k, m \in Nat : k < m => 2 * TwoTo[k] <= TwoTo[m]
<1>1. \A k, d \in Nat : TwoTo[k] <= TwoTo[k + d]
  <2> TAKE k \in Nat
  <2> DEFINE T == {d \in Nat : TwoTo[k] <= TwoTo[k + d]}
  <2>1. 0 \in T
    BY TwoToEquation
  <2>2. ASSUME NEW d \in Nat, d \in T PROVE d + 1 \in T
    <3>1. k + (d + 1) = (k + d) + 1 /\ k + d \in Nat
      OBVIOUS
    <3>2. TwoTo[k + d] \in Nat /\ TwoTo[k] \in Nat /\ TwoTo[(k + d) + 1] = 2 * TwoTo[k + d]
      BY <3>1, TwoToEquation
    <3>3. TwoTo[k] <= TwoTo[(k + d) + 1]
      BY <2>2, <3>2
    <3> QED BY <3>1, <3>3
  <2>3. \A d \in Nat : d \in T
    BY <2>1, <2>2, NatInductionOverSet
  <2> QED BY <2>3
<1>2. \A k \in Nat : k < TwoTo[k]
  <2> DEFINE T == {k \in Nat : k < TwoTo[k]}
  <2>1. 0 \in T
    BY TwoToEquation
  <2>2. ASSUME NEW k \in Nat, k \in T PROVE k + 1 \in T
    <3>1. TwoTo[k] \in Nat /\ TwoTo[k + 1] = 2 * TwoTo[k]
      BY TwoToEquation
    <3> QED BY <2>2, <3>1
  <2>3. \A k \in Nat : k \in T
    BY <2>1, <2>2, NatInductionOverSet
  <2> QED BY <2>3
<1>3. ASSUME NEW k \in Nat, NEW m \in Nat, k < m PROVE 2 * TwoTo[k] <= TwoTo[m]
  <2>1. m - (k + 1) \in Nat /\ k + 1 \in Nat /\ (k + 1) + (m - (k + 1)) = m
    BY <1>3
  <2>2. TwoTo[k + 1] <= TwoTo[m]
    BY <1>1, <2>1
  <2> QED BY <2>2, TwoToEquation
<1> QED BY <1>1, <1>2, <1>3

LEMMA TwoToAdds == \A a, b \in Nat : TwoTo[a + b] = TwoTo[a] * TwoTo[b]
<1> SUFFICES ASSUME NEW a \in Nat PROVE \A b \in Nat : TwoTo[a + b] = TwoTo[a] * TwoTo[b]
  OBVIOUS
<1> DEFINE S == {b \in Nat : TwoTo[a + b] = TwoTo[a] * TwoTo[b]}
<1>1. 0 \in S
  BY TwoToEquation
<1>2. ASSUME NEW b \in Nat, b \in S PROVE b + 1 \in S
  <2>1. a + b \in Nat /\ (a + b) + 1 = a + (b + 1)
    OBVIOUS
  <2>2. TwoTo[(a + b) + 1] = 2 * TwoTo[a + b] /\ TwoTo[b + 1] = 2 * TwoTo[b]
    BY <2>1, TwoToEquation
  <2>3. TwoTo[a] \in Nat /\ TwoTo[b] \in Nat /\ TwoTo[a + b] = TwoTo[a] * TwoTo[b]
    BY <1>2, TwoToEquation
  <2>4. 2 * (TwoTo[a] * TwoTo[b]) = TwoTo[a] * (2 * TwoTo[b])
    BY <2>3
  <2> QED BY <2>1, <2>2, <2>3, <2>4
<1>3. \A b \in Nat : b \in S
  <2> HIDE DEF S
  <2> QED BY <1>1, <1>2, NatInductionOverSet
<1> QED BY <1>3
=============================================================================
