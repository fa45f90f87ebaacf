--------------------------- MODULE MediatorBooks ---------------------------
(***************************************************************************)
(* One mediator and one token in detail: the lock under which relayTokens  *)
(* measures what arrives (TokensRelayer), limits, fees (on home), interest *)
(* on locked tokens (on foreign), and the code of others that runs in the  *)
(* middle of it, since moving a token may call anybody.                    *)
(*                                                                         *)
(* The other mediator and the bridge are reduced to owed: the amount of    *)
(* the token that is on the other side or on its way, if the token is      *)
(* native here, and that came from there and has not left, if it is a      *)
(* bridged one.  Which messages are executed, and which failed ones fixed, *)
(* is a choice of amounts; module Omnibridge has the messages.             *)
(***************************************************************************)
EXTENDS TokensBridgeLimits, OmnibridgeFeeManager

CONSTANTS
    Token,        \* the token
    User,         \* an account that no fee is waived for
    Values,       \* the amounts of transfers
    MinCashes,    \* the amounts the owner may keep from being invested
    FixCashes,    \* those with which a transfer is fixed while another is relayed
    MaxOwed,      \* bound: the amount bridged at a time
    MaxBalance,   \* bound: what the mediator holds of the token
    MaxPerDay,    \* bound: what leaves, and what arrives, in a day
    MaxSettings   \* bound: the calls of the owner

ASSUME BooksAssumption ==
    /\ Token \in Tokens
    /\ User \notin RewardAccounts
    /\ Values \subseteq Nat \ {0}
    /\ MinCashes \subseteq Nat /\ FixCashes \subseteq MinCashes
    /\ MaxOwed \in Nat /\ MaxBalance \in Nat /\ MaxPerDay \in Nat
    /\ MaxSettings \in Nat

VARIABLES
    isHome,           \* HomeOmnibridge or ForeignOmnibridge
    isNative,         \* the token is native to this side
    lock,             \* the lock of ReentrancyGuard
    balance,          \* balanceOf(mediator)
    mediatorBalance,  \* mediatorBalance(token), for a native token
    supply,           \* totalSupply, for a bridged token
    owed,             \* see above
    investedAmount,   \* investedAmount(token) of the interest implementation
    interest,         \* is there an interest implementation
    minCash,          \* minCashThreshold(token)
    feesHeld,         \* balanceOf(fee manager)
    frames,           \* the calls in progress, the innermost one last
    settings          \* the calls of the owner so far

sideVars == <<isHome, isNative>>
ownerVars == <<interest, minCash, settings>>
balanceVars == <<balance, mediatorBalance, supply, owed, investedAmount, feesHeld>>
vars == <<limitVars, feeVars, sideVars, ownerVars, balanceVars, lock, frames>>

Init ==
    /\ InitLimits
    /\ InitFees                             \* foreign has no fee manager
    /\ isHome \in BOOLEAN /\ isNative \in BOOLEAN
    /\ lock = FALSE
    /\ balance = 0 /\ mediatorBalance = 0 /\ supply = 0 /\ owed = 0
    /\ investedAmount = 0 /\ interest = FALSE /\ minCash = 0
    /\ feesHeld = 0
    /\ frames = <<>>
    /\ settings = 0

-----------------------------------------------------------------------------
(* Calls.  A call that reverts leaves everything as it was before it, for   *)
(* the calls around it too: it is as if it had not been made, and a call    *)
(* that cannot return stands for one that does.                             *)

InCall == frames # <<>>
Innermost(op) == InCall /\ Last(frames).op = op
(* The bridge executes one message at a time.                               *)
BridgeIsBusy == \E i \in DOMAIN frames : frames[i].op = "release"

(* relayTokens, waiting for transferFrom: before is the balance it read,    *)
(* arrived what others have sent since.                                     *)
RelayFrame(from, v) ==
    [op |-> "relay", from |-> from, value |-> v, before |-> balance, moved |-> FALSE,
     arrived |-> 0]
(* An execution, waiting for the token's transfer and for the receiver;     *)
(* due is still to be taken off mediatorBalance.                            *)
ReleaseFrame(due) == [op |-> "release", due |-> due]

(* The frames when others send x.                                           *)
Arrives(f, x) ==
    [i \in DOMAIN f |-> IF f[i].op = "relay" THEN [f[i] EXCEPT !.arrived = @ + x] ELSE f[i]]

-----------------------------------------------------------------------------
(* From this side to the other.                                             *)

RelayFee(from, v) ==
    IF isHome /\ ~IsRewardAddress(from) THEN CalculateFee("HOME_TO_FOREIGN_FEE", v) ELSE 0

(* The fee manager receives fee, and divides it at once.                    *)
DistributeFee(fee) ==
    IF fee = 0 THEN UNCHANGED feesHeld
    ELSE \E lucky \in DOMAIN rewardAddresses :
            feesHeld' = feesHeld + fee - PaidOut(Payments(feesHeld + fee, lucky))

(* _prepareMessage: value is locked, or burnt.                              *)
PrepareMessage(value) ==
    IF isNative
    THEN /\ mediatorBalance' = mediatorBalance + value
         /\ owed' = owed + value
         /\ UNCHANGED supply
    ELSE /\ supply' = supply - value
         /\ owed' = owed - value
         /\ UNCHANGED mediatorBalance

(* bridgeSpecificActionsOnTokenTransfer: v tokens of from have come, which  *)
(* makes b.                                                                 *)
BridgeTokens(from, v, b) ==
    LET fee == RelayFee(from, v)
        value == v - fee
    IN  /\ Register(Token)
        /\ WithinLimit(Token, v) /\ spent[Token] + v <= MaxPerDay
        /\ AddTotalSpentPerDay(Token, v)
        /\ isNative => owed + value <= MaxOwed
        /\ PrepareMessage(value)
        /\ balance' = IF isNative THEN b - fee ELSE b - fee - value
        /\ DistributeFee(fee)
        /\ UNCHANGED <<executed, investedAmount>>

(* On home it matters whether the sender is rewarded.                       *)
Senders == {User} \cup (IF isHome THEN Range(rewardAddresses) ELSE {})

(* What others than the mediator can send of the token.                     *)
CanCome(v) ==
    /\ balance + v <= MaxBalance
    /\ ~isNative => v <= supply - balance

(* relayTokens and relayTokensAndCall, up to the call of transferFrom.      *)
RelayTokens(from, v) ==
    /\ from \in Senders
    /\ ~lock
    /\ Len(frames) < 2
    /\ lock' = TRUE
    /\ frames' = Append(frames, RelayFrame(from, v))
    /\ UNCHANGED <<limitVars, feeVars, sideVars, ownerVars, balanceVars>>

(* The token moves a, which a token that takes a share makes less than the  *)
(* value.                                                                   *)
TransferFrom(a) ==
    LET f == Last(frames) IN
    /\ Innermost("relay") /\ ~f.moved
    /\ a <= f.value /\ (~isNative => a = f.value)
    /\ CanCome(a)
    /\ balance' = balance + a
    /\ frames' = Arrives([frames EXCEPT ![Len(frames)].moved = TRUE], a)
    /\ UNCHANGED <<limitVars, feeVars, sideVars, ownerVars, mediatorBalance, supply, owed,
                   investedAmount, feesHeld, lock>>

(* The rest of it: the difference of the balances is what is bridged.       *)
RelayReturns ==
    LET f == Last(frames)
        diff == balance - f.before
    IN  /\ Innermost("relay") /\ f.moved
        /\ diff >= 0 /\ diff <= f.value
        /\ lock' = FALSE
        /\ frames' = Front(frames)
        /\ BridgeTokens(f.from, diff, balance)
        /\ UNCHANGED <<feeVars, sideVars, ownerVars>>

(* Mutant: the callback of the transfer is taken for a transfer of its own. *)
CallbackIsRelay_Always == TRUE
CallbackIsRelay == ~lock

(* v tokens are sent to the mediator, and the token calls onTokenTransfer,  *)
(* which returns at once while the mediator itself is fetching tokens.      *)
OnTokenTransfer(from, v) ==
    /\ from \in Senders
    /\ CanCome(v)
    /\ IF CallbackIsRelay
       THEN BridgeTokens(from, v, balance + v) /\ UNCHANGED frames
       ELSE /\ balance' = balance + v
            /\ frames' = Arrives(frames, v)
            /\ UNCHANGED <<limitVars, mediatorBalance, supply, owed, investedAmount, feesHeld>>
    /\ UNCHANGED <<feeVars, sideVars, ownerVars, lock>>

(* v tokens are sent without a call.                                        *)
Transfer(v) ==
    /\ CanCome(v)
    /\ balance' = balance + v
    /\ frames' = Arrives(frames, v)
    /\ UNCHANGED <<limitVars, feeVars, sideVars, ownerVars, mediatorBalance, supply, owed,
                   investedAmount, feesHeld, lock>>

-----------------------------------------------------------------------------
(* From the other side to this one.                                         *)

(* withdraw of the interest implementation gives what is asked for, or all  *)
(* there is.                                                                *)
Redeemed(amount) == IF amount > investedAmount THEN investedAmount ELSE amount

(* Mutant: what is lent out counts as available.                            *)
Withdrawn_BeyondLocked(v) ==
    IF ~interest \/ v <= mediatorBalance THEN 0
    ELSE Redeemed(v - mediatorBalance + minCash)
(* What _releaseTokens withdraws.                                           *)
Withdrawn(v) ==
    LET available == mediatorBalance - investedAmount
    IN  IF ~interest \/ v <= available THEN 0 ELSE Redeemed(v - available + minCash)

(* _releaseTokens, to the call of the token: v is paid out, fee is already. *)
(* On home a native token is sent first and taken off the books later.      *)
ReleaseTokens(v, fee) ==
    LET w == IF isHome THEN 0 ELSE Withdrawn(v)
        paid == IF isNative THEN w - v ELSE 0
    IN  /\ balance + paid >= 0
        /\ balance' = balance + paid
        /\ investedAmount' = investedAmount - w
        /\ IF isNative
           THEN /\ mediatorBalance >= v
                /\ mediatorBalance' = IF isHome THEN mediatorBalance ELSE mediatorBalance - v
                /\ owed' = owed - v
                /\ UNCHANGED supply
           ELSE /\ supply' = supply + (v - fee) + fee
                /\ owed' = owed + v
                /\ UNCHANGED mediatorBalance
        /\ DistributeFee(fee)

(* Amounts the other side may send here, or take back.                      *)
CanReturn(v) == IF isNative THEN v <= owed ELSE owed + v <= MaxOwed

(* Mutant: no regard to the lock.                                           *)
MayWithdraw_Always == TRUE
MayWithdraw == ~lock

(* A fee that cannot be collected is waived.                                *)
ReleaseFees(v) == IF isHome THEN {0, CalculateFee("FOREIGN_TO_HOME_FEE", v)} ELSE {0}

(* _handleTokens, as part of any of the handlers.                           *)
HandleTokens(v) ==
    /\ ~BridgeIsBusy
    /\ MayWithdraw
    /\ CanReturn(v)
    /\ IF isNative THEN UNCHANGED limits ELSE Register(Token)
    /\ WithinExecutionLimit(Token, v) /\ executed[Token] + v <= MaxPerDay
    /\ AddTotalExecutedPerDay(Token, v)
    /\ \E fee \in ReleaseFees(v) : ReleaseTokens(v, fee)
    /\ frames' = Append(frames, ReleaseFrame(IF isHome /\ isNative THEN v ELSE 0))
    /\ UNCHANGED <<spent, feeVars, sideVars, ownerVars, lock>>

(* fixFailedMessage and executeActionOnFixedTokens, for a transfer of v     *)
(* from here that failed there.  There is no limit, and no regard to the    *)
(* lock: FixCashes only says how much of that is explored.                  *)
FixFailedMessage(v) ==
    /\ ~BridgeIsBusy
    /\ CanReturn(v)
    /\ IsTokenRegistered(Token)
    /\ lock => minCash \in FixCashes
    /\ ReleaseTokens(v, 0)
    /\ frames' = Append(frames, ReleaseFrame(IF isHome /\ isNative THEN v ELSE 0))
    /\ UNCHANGED <<limitVars, feeVars, sideVars, ownerVars, lock>>

(* The token's transfer, and the receiver's callback, return.               *)
ReleaseReturns ==
    LET due == Last(frames).due IN
    /\ Innermost("release")
    /\ mediatorBalance >= due
    /\ mediatorBalance' = mediatorBalance - due
    /\ frames' = Front(frames)
    /\ UNCHANGED <<limitVars, feeVars, sideVars, ownerVars, balance, supply, owed,
                   investedAmount, feesHeld, lock>>

-----------------------------------------------------------------------------
(* Interest, on foreign.                                                    *)

Investable == mediatorBalance - investedAmount - minCash

(* Anyone may call it, at any time.                                         *)
Invest ==
    /\ interest
    /\ Investable > 0 /\ balance >= Investable
    /\ balance' = balance - Investable
    /\ investedAmount' = investedAmount + Investable
    /\ UNCHANGED <<limitVars, feeVars, sideVars, ownerVars, mediatorBalance, supply, owed,
                   feesHeld, lock, frames>>

InitializeInterest(threshold) ==
    /\ ~isHome /\ isNative /\ ~interest
    /\ interest' = TRUE
    /\ minCash' = threshold
    /\ UNCHANGED <<limitVars, feeVars, balanceVars>>

SetMinCashThreshold(threshold) ==
    /\ ~isHome /\ isNative
    /\ minCash' = threshold
    /\ UNCHANGED <<limitVars, feeVars, balanceVars, interest>>

(* All that was lent comes back first.                                      *)
DisableInterest ==
    /\ interest
    /\ balance' = balance + Redeemed(investedAmount)
    /\ investedAmount' = investedAmount - Redeemed(investedAmount)
    /\ interest' = FALSE
    /\ UNCHANGED <<limitVars, feeVars, minCash, mediatorBalance, supply, owed, feesHeld>>

-----------------------------------------------------------------------------
UnaccountedBalance == balance - (mediatorBalance - investedAmount)

(* The administrator bridges tokens that were sent without a call.          *)
FixMediatorBalance ==
    \E diff \in 1..UnaccountedBalance :
        /\ isNative /\ IsTokenRegistered(Token)
        /\ diff = IF UnaccountedBalance > MaxAvailablePerTx(Token)
                  THEN MaxAvailablePerTx(Token) ELSE UnaccountedBalance
        /\ owed + diff <= MaxOwed
        /\ AddTotalSpentPerDay(Token, diff) /\ spent[Token] + diff <= MaxPerDay
        /\ PrepareMessage(diff)
        /\ UNCHANGED <<limits, executed, feeVars, interest, minCash, balance, investedAmount,
                       feesHeld>>

(* The owners act in transactions of their own.                             *)
OwnerActs ==
    /\ ~InCall
    /\ settings < MaxSettings
    /\ \/ SetLimit /\ UNCHANGED <<feeVars, balanceVars, interest, minCash>>
       \/ isHome /\ SetFees /\ UNCHANGED <<limitVars, balanceVars, interest, minCash>>
       \/ \E threshold \in MinCashes :
             InitializeInterest(threshold) \/ SetMinCashThreshold(threshold)
       \/ DisableInterest
       \/ FixMediatorBalance
    /\ settings' = settings + 1
    /\ UNCHANGED <<sideVars, lock, frames>>

DayPasses ==
    /\ ~InCall
    /\ NextDay
    /\ UNCHANGED <<feeVars, sideVars, ownerVars, balanceVars, lock, frames>>

Next ==
    \/ \E from \in {User} \cup RewardAccounts, v \in Values :
          RelayTokens(from, v) \/ OnTokenTransfer(from, v)
    \/ \E a \in Values \cup {0} : TransferFrom(a)
    \/ RelayReturns
    \/ Transfer(1)
    \/ \E v \in Values : HandleTokens(v) \/ FixFailedMessage(v)
    \/ ReleaseReturns
    \/ Invest
    \/ OwnerActs
    \/ DayPasses

Spec == Init /\ [][Next]_vars

-----------------------------------------------------------------------------
BooksTypeOK ==
    /\ LimitsTypeOK
    /\ FeesTypeOK
    /\ isHome \in BOOLEAN /\ isNative \in BOOLEAN /\ lock \in BOOLEAN /\ interest \in BOOLEAN
    /\ \A n \in {balance, mediatorBalance, supply, owed, investedAmount, minCash, feesHeld,
                 settings} : n \in Nat
    /\ \A i \in DOMAIN frames : frames[i].op \in {"relay", "release"}

(* When no call is in progress, whatever calls were made in the middle of   *)
(* others: what is locked for the other side is what the other side may ask *)
(* for, and it is there, at hand or lent out; what is lent out is locked;   *)
(* of a bridged token there is just what came.                              *)
BooksBalance ==
    ~InCall =>
        /\ isNative => /\ mediatorBalance = owed
                       /\ balance + investedAmount >= mediatorBalance
                       /\ interest => investedAmount <= mediatorBalance
        /\ ~isNative => supply = owed

(* While relayTokens fetches tokens, the balance grows by no more than what *)
(* others send: withdrawals from the interest implementation, other relays  *)
(* and callbacks in between are not taken for tokens of the sender.         *)
RelayCountsArrivals ==
    \A i \in DOMAIN frames :
        frames[i].op = "relay" => balance - frames[i].before <= frames[i].arrived

(* No fee stays with the fee manager, however the owner changes the list of *)
(* accounts and whatever is left over by the division.                      *)
FeesArePaidOut == feesHeld = 0

(* Every amount up to what is locked can be paid out, however much of it is *)
(* lent, and whatever tokens were sent without a call.                      *)
LockedIsPayable ==
    ~InCall /\ ~isHome /\ isNative =>
        \A v \in 1..mediatorBalance : v <= balance + Withdrawn(v)
=============================================================================
