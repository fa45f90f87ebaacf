----------------------------- MODULE Arithmetic -----------------------------
(***************************************************************************)
(* Sums and powers as recursive functions, which can be proved about.      *)
(***************************************************************************)
EXTENDS Integers

(* f[1] + f[2] + ... + f[n].                                                *)
SumOf(f, n) ==
    LET sum[i \in 0..n] == IF i = 0 THEN 0 ELSE sum[i - 1] + f[i]
    IN  sum[n]

(* 10 ** n and 2 ** n.                                                      *)
TenTo[n \in Nat] == IF n = 0 THEN 1 ELSE 10 * TenTo[n - 1]
TwoTo[n \in Nat] == IF n = 0 THEN 1 ELSE 2 * TwoTo[n - 1]
=============================================================================
