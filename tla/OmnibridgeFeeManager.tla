------------------------ MODULE OmnibridgeFeeManager ------------------------
(***************************************************************************)
(* The fee manager of the home mediator, OmnibridgeFeeManager.sol: what a  *)
(* transfer pays in either direction, and among whom it is divided.        *)
(***************************************************************************)
EXTENDS Integers, SequencesExt, Functions, Arithmetic

CONSTANTS
    MaxFee,             \* MAX_FEE, the rate that is the whole value
    FeeRates,           \* the rates the owner may set
    InitialRates,       \* the rates the constructor may be given
    InitialRewards,     \* the lists of accounts the constructor may be given
    RewardAccounts,     \* the accounts that may be rewarded
    MaxRewardAccounts   \* MAX_REWARD_ACCOUNTS

ASSUME FeeAssumption ==
    /\ MaxFee \in Nat \ {0}
    /\ FeeRates \subseteq 0..(MaxFee - 1)
    /\ InitialRates \subseteq FeeRates
    /\ \A list \in InitialRewards :
          /\ list \in Seq(RewardAccounts) /\ IsInjective(list)
          /\ Len(list) <= MaxRewardAccounts
    /\ MaxRewardAccounts \in Nat

Directions == {"HOME_TO_FOREIGN_FEE", "FOREIGN_TO_HOME_FEE"}
FeeKinds == {"default", "token"}

VARIABLES
    fees,              \* fees[dir][kind]: one more than the rate, 0 if there is none
    rewardAddresses    \* the accounts rewarded, in the order of the list

feeVars == <<fees, rewardAddresses>>

InitFees ==
    /\ \E rate \in [Directions -> InitialRates] :
          fees = [dir \in Directions |-> [kind \in FeeKinds |->
                    IF kind = "default" THEN 1 + rate[dir] ELSE 0]]
    /\ rewardAddresses \in InitialRewards

GetFee(dir) == (IF fees[dir]["token"] > 0 THEN fees[dir]["token"] ELSE fees[dir]["default"]) - 1

IsRewardAddress(a) == Contains(rewardAddresses, a)

CalculateFee(dir, v) ==
    IF rewardAddresses = <<>> THEN 0 ELSE (v * GetFee(dir)) \div MaxFee

(* Mutant: what is left over is paid to nobody.                             *)
Payments_Even(total, lucky) ==
    [i \in 1..Len(rewardAddresses) |-> total \div Len(rewardAddresses)]
(* distributeFee: all that the manager holds is divided evenly, and one     *)
(* account, which the last block's hash draws, gets what is left over.      *)
Payments(total, lucky) ==
    [i \in 1..Len(rewardAddresses) |->
        total \div Len(rewardAddresses)
            + (IF i = lucky THEN total % Len(rewardAddresses) ELSE 0)]

PaidOut(payments) == SumOf(payments, Len(payments))

-----------------------------------------------------------------------------
SetFee(dir, kind, rate) ==
    /\ fees' = [fees EXCEPT ![dir][kind] = 1 + rate]
    /\ UNCHANGED rewardAddresses

AddRewardAddress(a) ==
    /\ ~IsRewardAddress(a)
    /\ Len(rewardAddresses) < MaxRewardAccounts
    /\ rewardAddresses' = Append(rewardAddresses, a)
    /\ UNCHANGED fees

(* The last account takes the place of the one removed.                     *)
RemoveRewardAddress(a) ==
    /\ IsRewardAddress(a)
    /\ rewardAddresses' =
         LET i == CHOOSE j \in DOMAIN rewardAddresses : rewardAddresses[j] = a
         IN  Front([rewardAddresses EXCEPT ![i] = Last(rewardAddresses)])
    /\ UNCHANGED fees

SetFees ==
    \/ \E dir \in Directions, kind \in FeeKinds, rate \in FeeRates : SetFee(dir, kind, rate)
    \/ \E a \in RewardAccounts : AddRewardAddress(a) \/ RemoveRewardAddress(a)

FeesTypeOK ==
    /\ fees \in [Directions -> [FeeKinds -> 0..MaxFee]]
    /\ rewardAddresses \in Seq(RewardAccounts) /\ IsInjective(rewardAddresses)
=============================================================================
