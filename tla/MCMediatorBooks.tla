-------------------------- MODULE MCMediatorBooks --------------------------
(***************************************************************************)
(* One token of three decimals where the defaults are meant for four, so   *)
(* that its limits are a tenth of the defaults.  With the first defaults 1 *)
(* or 2 may leave in a transfer and 3 in a day, and as much come back; the *)
(* smallest amount is rounded down to zero and raised.  The second ones    *)
(* are wide; scaled to fewer decimals they take every way of raising them. *)
(* The fee is a half, so that one account of two is paid what is left over.*)
(***************************************************************************)
EXTENDS MediatorBooks, TLC

MCTokens == {Token}
MCDecimals == [t \in MCTokens |-> 3]
MCFullDecimals == 4
MCInitialLimits ==
    {[daily |-> 39, max |-> 20, min |-> 9, execDaily |-> 39, execMax |-> 20],
     [daily |-> 20000, max |-> 150, min |-> 70, execDaily |-> 20000, execMax |-> 150]}
MCLimitValues == {0, 2}

MCFeeRates == {0, 2}
MCInitialRates == {2}
MCInitialRewards == {list \in RewardAccounts \X RewardAccounts : IsInjective(list)}
MCMaxFee == 4
MCMaxRewardAccounts == 2
Symmetry == Permutations(RewardAccounts)

MCValues == 1..2
MCMinCashes == 0..1
=============================================================================
