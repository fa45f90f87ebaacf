----------------------------- MODULE Omnibridge -----------------------------
(***************************************************************************)
(* The two token mediators, HomeOmnibridge and ForeignOmnibridge, over the *)
(* message channel that the two TrustlessAMB contracts are.                *)
(*                                                                         *)
(* One step is one transaction.  A mediator sends at most one message per  *)
(* transaction, so the nonce that the channel gives a message on a chain   *)
(* identifies it there: it stands for the message id, which is the hash of *)
(* the nonce with the rest.  Each token is native to one chain (Home[t])   *)
(* and bridged on the other.                                               *)
(*                                                                         *)
(* Which amounts the limits let through, and when they refuse one, is a    *)
(* choice: a relay has any value, and an execution may revert whatever     *)
(* else holds (MayRevert), as it also may for lack of gas or by the token  *)
(* contract's refusal.                                                     *)
(***************************************************************************)
EXTENDS Integers, FiniteSets, Arithmetic

CONSTANTS
    Chains,         \* the two chains
    Other,          \* Other[c] is the chain across the bridge
    HomeChain,      \* the chain of HomeOmnibridge, which takes fees
    Tokens,         \* the tokens that are bridged
    Home,           \* Home[t]: the chain that token t was issued on
    NoToken,        \* the zero address
    Values,         \* the amounts that a message can carry
    Fees,           \* the fees, besides none, a relay from home can pay
    MayRevert,      \* the calls that may revert for a reason outside the mediator
    StrangerCalls,  \* the calls that anyone sends through the bridge to a mediator
    MaxMessages,    \* bound: the messages sent on each chain
    MaxRelays,      \* bound: the transfers started on each chain
    MaxStrangers,   \* bound: the messages of others on each chain
    MaxFixRequests, \* bound: the requests, from each chain, to fix one failed transfer
    MaxFixesOfFixes,\* bound: the requests to fix one failed request
    MaxForced       \* bound: unaccounted tokens, when more are forced in

ASSUME ChainsAssumption ==
    /\ Other \in [Chains -> Chains]
    /\ \A c, d \in Chains : d # c <=> d = Other[c]

ASSUME TokensAssumption ==
    /\ Home \in [Tokens -> Chains]
    /\ NoToken \notin Tokens
    /\ Values \subseteq Nat \ {0}
    /\ Fees \subseteq Nat
    /\ MaxMessages \in Nat

TransferKinds == {"deployAndHandleBridgedTokens", "handleBridgedTokens", "handleNativeTokens"}
Nonces == 0..(MaxMessages - 1)
TransferCalls == [kind : TransferKinds, token : Tokens, value : Values]
FixCalls == [kind : {"fixFailedMessage"}, of : Nonces]
Calls == TransferCalls \cup FixCalls
NoCall == [kind |-> "none"]

ASSUME StrangersAssumption == StrangerCalls \subseteq Calls

Record(t, v) == [token |-> t, value |-> v]
NoRecord == Record(NoToken, 0)

VARIABLES
    nonce,           \* nonce[c]: the number of messages sent on chain c
    outcome,         \* outcome[c][n]: what became on chain c of message n of Other[c]
    call,            \* call[c][n]: what message n of chain c calls
    fromMediator,    \* fromMediator[c]: the messages that the mediator of c sent
    messageRecord,   \* messageRecord[c][n]: messageToken and messageValue
    messageFixed,    \* messageFixed[c]: the messages of c that were fixed
    mediatorBalance, \* mediatorBalance[t] on Home[t]
    held,            \* the balance of t that the mediator on Home[t] really has
    supply,          \* the amount of the bridged token of t that exists
    ackDeploy,       \* the tokens whose bridged token is known deployed
    bridgedToken,    \* the bridged token contract of t, if there is one
    registered       \* registered[c]: the tokens that have limits on chain c

channelVars == <<nonce, outcome, call, fromMediator>>
balanceVars == <<mediatorBalance, held, supply>>
vars == <<channelVars, messageRecord, messageFixed, balanceVars, ackDeploy,
          bridgedToken, registered>>

ChannelSent == [c \in Chains |-> 0..(nonce[c] - 1)]
Channel == INSTANCE MessageChannel WITH Messages <- Nonces, sent <- ChannelSent

Init ==
    /\ nonce = [c \in Chains |-> 0]
    /\ Channel!Init
    /\ call = [c \in Chains |-> [n \in Nonces |-> NoCall]]
    /\ fromMediator = [c \in Chains |-> {}]
    /\ messageRecord = [c \in Chains |-> [n \in Nonces |-> NoRecord]]
    /\ messageFixed = [c \in Chains |-> {}]
    /\ mediatorBalance = [t \in Tokens |-> 0]
    /\ held = [t \in Tokens |-> 0]
    /\ supply = [t \in Tokens |-> 0]
    /\ ackDeploy = {}
    /\ bridgedToken = [t \in Tokens |-> "none"]
    /\ registered = [c \in Chains |-> {}]

-----------------------------------------------------------------------------
(* Sending.                                                                 *)

IsNative(c, t) == c = Home[t]

(* Mutant: the nonce is advanced before the message is stored.              *)
PassMessage_PreIncrement(c, m) ==
    /\ nonce[c] < MaxMessages
    /\ call' = [call EXCEPT ![c][nonce[c] + 1] = m]
    /\ nonce' = [nonce EXCEPT ![c] = @ + 1]
    /\ Channel!Send(c)

PassMessage(c, m) ==
    /\ nonce[c] < MaxMessages
    /\ call' = [call EXCEPT ![c][nonce[c]] = m]
    /\ nonce' = [nonce EXCEPT ![c] = @ + 1]
    /\ Channel!Send(c)

RecordBridgeOperation(c, t, v) ==
    messageRecord' = [messageRecord EXCEPT ![c][nonce[c]] = Record(t, v)]

(* Mutant: the short call for every token registered on this side.          *)
TransferCall_WhenRegistered(c, t, v) ==
    [kind |-> IF ~IsNative(c, t) THEN "handleNativeTokens"
              ELSE IF t \in registered[c] THEN "handleBridgedTokens"
              ELSE "deployAndHandleBridgedTokens",
     token |-> t, value |-> v]
(* The call that brings v of token t to the other side.                     *)
TransferCall(c, t, v) ==
    [kind |-> IF ~IsNative(c, t) THEN "handleNativeTokens"
              ELSE IF t \in ackDeploy THEN "handleBridgedTokens"
              ELSE "deployAndHandleBridgedTokens",
     token |-> t, value |-> v]

PrepareMessage(c, t, v) ==
    IF IsNative(c, t)
    THEN mediatorBalance' = [mediatorBalance EXCEPT ![t] = @ + v] /\ UNCHANGED supply
    ELSE supply' = [supply EXCEPT ![t] = @ - v] /\ UNCHANGED mediatorBalance

MediatorSends(c, m) ==
    /\ PassMessage(c, m)
    /\ fromMediator' = [fromMediator EXCEPT ![c] = @ \cup {nonce[c]}]

Transfers(c) == {n \in fromMediator[c] : call[c][n] \in TransferCalls}

(* The fee manager's share of a relay, which stays on this side.            *)
FeesOn(c, v) == IF c = HomeChain THEN {0} \cup {fee \in Fees : fee < v} ELSE {0}
(* Mutant: the fee is taken and bridged too.                                *)
ValueToBridge_Gross(v, fee) == v
ValueToBridge(v, fee) == v - fee

(* relayTokens, relayTokensAndCall and onTokenTransfer: the tokens are in   *)
(* the mediator's hands and v is what really arrived.                       *)
RelayTokens(c, t, v, fee) ==
    LET value == ValueToBridge(v, fee) IN
    /\ Cardinality(Transfers(c)) < MaxRelays[c]
    /\ IsNative(c, t) \/ supply[t] >= v
    /\ value \in Values
    /\ registered' = [registered EXCEPT ![c] = @ \cup {t}]
    /\ PrepareMessage(c, t, value)
    /\ held' = IF IsNative(c, t) THEN [held EXCEPT ![t] = @ + (v - fee)] ELSE held
    /\ MediatorSends(c, TransferCall(c, t, value))
    /\ RecordBridgeOperation(c, t, value)
    /\ UNCHANGED <<messageFixed, ackDeploy, bridgedToken>>

(* Tokens that reached the mediator without a call are not in its books.    *)
UnaccountedBalance(t) == held[t] - mediatorBalance[t]

(* The administrator sends them, up to what the limits leave, across.       *)
FixMediatorBalance(t, diff) ==
    LET c == Home[t] IN
    /\ Cardinality(Transfers(c)) < MaxRelays[c]
    /\ t \in registered[c]
    /\ diff <= UnaccountedBalance(t)
    /\ PrepareMessage(c, t, diff)
    /\ MediatorSends(c, TransferCall(c, t, diff))
    /\ RecordBridgeOperation(c, t, diff)
    /\ UNCHANGED <<messageFixed, held, ackDeploy, bridgedToken, registered>>

-----------------------------------------------------------------------------
(* Executing a message.                                                     *)

(* Mutant: whoever sent the message.                                        *)
OnlyMediator_AnySender(c, n) == n \in ChannelSent[Other[c]]
(* Message n, executing on chain c, was sent by the mediator on the other   *)
(* side.                                                                    *)
OnlyMediator(c, n) == n \in fromMediator[Other[c]]

(* Message n of the other side is for chain c to execute.                   *)
Executable(c, n) == n \in ChannelSent[Other[c]] /\ outcome[c][n] = "NOT_EXECUTED"

CanRelease(isNative, t, v) ==
    isNative => mediatorBalance[t] >= v /\ held[t] >= v

ReleaseTokens(isNative, t, v) ==
    IF isNative
    THEN /\ mediatorBalance' = [mediatorBalance EXCEPT ![t] = @ - v]
         /\ held' = [held EXCEPT ![t] = @ - v]
         /\ UNCHANGED supply
    ELSE /\ supply' = [supply EXCEPT ![t] = @ + v]
         /\ UNCHANGED <<mediatorBalance, held>>

(* A bridged token set in advance must have the decimals of the native one. *)
CanDeploy(c, m) ==
    /\ m.kind = "deployAndHandleBridgedTokens"
    /\ bridgedToken[m.token] = "otherDecimals" => m.token \in registered[c]

DeployAndHandleBridgedTokens(c, m) ==
    /\ CanDeploy(c, m)
    /\ bridgedToken' = [bridgedToken EXCEPT ![m.token] =
                          IF @ = "none" THEN "sameDecimals" ELSE @]
    /\ registered' = [registered EXCEPT ![c] = @ \cup {m.token}]
    /\ ReleaseTokens(FALSE, m.token, m.value)
    /\ UNCHANGED <<messageFixed, ackDeploy>>

CanHandleBridged(c, m) == m.kind = "handleBridgedTokens" /\ m.token \in registered[c]

HandleBridgedTokens(c, m) ==
    /\ CanHandleBridged(c, m)
    /\ ReleaseTokens(FALSE, m.token, m.value)
    /\ UNCHANGED <<messageFixed, ackDeploy, bridgedToken, registered>>

CanHandleNative(m) ==
    m.kind = "handleNativeTokens" /\ CanRelease(TRUE, m.token, m.value)

HandleNativeTokens(m) ==
    /\ CanHandleNative(m)
    /\ ackDeploy' = ackDeploy \cup {m.token}
    /\ ReleaseTokens(TRUE, m.token, m.value)
    /\ UNCHANGED <<messageFixed, bridgedToken, registered>>

NotFixed(c, n) == n \notin messageFixed[c]

(* Mutant: only tokens known to be deployed on the other side are returned. *)
CanFix_Acknowledged(c, m) ==
    /\ m.kind = "fixFailedMessage"
    /\ NotFixed(c, m.of)
    /\ LET r == messageRecord[c][m.of] IN
         r.token \in ackDeploy /\ CanRelease(IsNative(c, r.token), r.token, r.value)
CanFix(c, m) ==
    /\ m.kind = "fixFailedMessage"
    /\ NotFixed(c, m.of)
    /\ LET r == messageRecord[c][m.of] IN
         r.token # NoToken /\ CanRelease(IsNative(c, r.token), r.token, r.value)

FixFailedMessage(c, m) ==
    LET r == messageRecord[c][m.of] IN
    /\ CanFix(c, m)
    /\ messageFixed' = [messageFixed EXCEPT ![c] = @ \cup {m.of}]
    /\ ReleaseTokens(IsNative(c, r.token), r.token, r.value)
    /\ UNCHANGED <<ackDeploy, bridgedToken, registered>>

(* The call of message n to the mediator of chain c succeeds.               *)
Handle(c, n) ==
    LET m == call[Other[c]][n] IN
    /\ OnlyMediator(c, n)
    /\ \/ DeployAndHandleBridgedTokens(c, m)
       \/ HandleBridgedTokens(c, m)
       \/ HandleNativeTokens(m)
       \/ FixFailedMessage(c, m)
    /\ UNCHANGED <<nonce, call, fromMediator, messageRecord>>
    /\ Channel!Deliver(c, n)

(* It reverts, and must when a condition of the handler does not hold.      *)
MustRevert(c, n) ==
    LET m == call[Other[c]][n] IN
    \/ ~OnlyMediator(c, n)
    \/ ~(CanDeploy(c, m) \/ CanHandleBridged(c, m) \/ CanHandleNative(m) \/ CanFix(c, m))

Revert(c, n) ==
    /\ MustRevert(c, n) \/ call[Other[c]][n].kind \in MayRevert
    /\ UNCHANGED <<nonce, call, fromMediator, messageRecord, messageFixed, balanceVars,
                   ackDeploy, bridgedToken, registered>>
    /\ Channel!Fail(c, n)

-----------------------------------------------------------------------------
(* Failed messages.                                                         *)

(* Mutant: a message not executed yet counts as failed.                     *)
HasFailed_NotSucceeded(c, n) == outcome[c][n] # "EXECUTION_SUCCEEDED"
HasFailed(c, n) == outcome[c][n] = "EXECUTION_FAILED"

FixRequests(c, n) == {k \in fromMediator[c] : call[c][k] = [kind |-> "fixFailedMessage", of |-> n]}

FixRequestsAllowed(c, n) ==
    IF n \in Transfers(Other[c]) THEN MaxFixRequests[c]
    ELSE IF call[Other[c]][n].of \in Transfers(c) THEN MaxFixesOfFixes ELSE 0

(* Anyone may request it, again and again.                                  *)
RequestFailedMessageFix(c, n) ==
    /\ n \in ChannelSent[Other[c]]
    /\ HasFailed(c, n)
    /\ OnlyMediator(c, n)
    /\ Cardinality(FixRequests(c, n)) < FixRequestsAllowed(c, n)
    /\ MediatorSends(c, [kind |-> "fixFailedMessage", of |-> n])
    /\ UNCHANGED <<messageRecord, messageFixed, balanceVars, ackDeploy, bridgedToken, registered>>

-----------------------------------------------------------------------------
(* The administrators, and everybody else.                                  *)

SetCustomTokenAddressPair(t, contract) ==
    /\ bridgedToken[t] = "none"
    /\ bridgedToken' = [bridgedToken EXCEPT ![t] = contract]
    /\ UNCHANGED <<channelVars, messageRecord, messageFixed, balanceVars, ackDeploy, registered>>

(* Only a token that was never bridged can be claimed.                      *)
Claimable(t) == t \notin registered[Home[t]]

ClaimTokens(t) ==
    /\ Claimable(t)
    /\ held[t] > 0
    /\ held' = [held EXCEPT ![t] = 0]
    /\ UNCHANGED <<channelVars, messageRecord, messageFixed, mediatorBalance, supply,
                   ackDeploy, bridgedToken, registered>>

(* A transfer of the token itself, without a call to the mediator.          *)
ForceTokens(t) ==
    /\ UnaccountedBalance(t) < MaxForced
    /\ held' = [held EXCEPT ![t] = @ + 1]
    /\ UNCHANGED <<channelVars, messageRecord, messageFixed, mediatorBalance, supply,
                   ackDeploy, bridgedToken, registered>>

(* Any account sends the mediator on the other side any call.               *)
StrangerSends(c, m) ==
    /\ nonce[c] - Cardinality(fromMediator[c]) < MaxStrangers[c]
    /\ PassMessage(c, m)
    /\ UNCHANGED <<fromMediator, messageRecord, messageFixed, balanceVars, ackDeploy,
                   bridgedToken, registered>>

-----------------------------------------------------------------------------
Execute(c, n) == Handle(c, n) \/ Revert(c, n)

Next ==
    \/ \E c \in Chains, t \in Tokens, v \in Values :
          \E fee \in FeesOn(c, v) : RelayTokens(c, t, v, fee)
    \/ \E t \in Tokens, diff \in Values : FixMediatorBalance(t, diff)
    \/ \E c \in Chains, n \in Nonces : Handle(c, n)
    \/ \E c \in Chains, n \in Nonces : Revert(c, n)
    \/ \E c \in Chains, n \in Nonces : RequestFailedMessageFix(c, n)
    \/ \E t \in Tokens, contract \in {"sameDecimals", "otherDecimals"} :
          SetCustomTokenAddressPair(t, contract)
    \/ \E t \in Tokens : ClaimTokens(t)
    \/ \E t \in Tokens : ForceTokens(t)
    \/ \E c \in Chains, m \in StrangerCalls : StrangerSends(c, m)

Spec == Init /\ [][Next]_vars

(* Messages are executed, and failures reported, sooner or later: anyone    *)
(* can do both.                                                             *)
Fairness ==
    \A c \in Chains, n \in Nonces :
        WF_vars(Execute(c, n)) /\ WF_vars(RequestFailedMessageFix(c, n))

FairSpec == Spec /\ Fairness

-----------------------------------------------------------------------------
(* What became of message n of chain c, if it is a transfer.                *)
TransferStatus(c, n) ==
    IF n \notin Transfers(c) THEN "none"
    ELSE IF n \in messageFixed[c] THEN "refunded"
    ELSE IF outcome[Other[c]][n] = "EXECUTION_SUCCEEDED" THEN "delivered"
    ELSE "pending"

(* What message n of chain c has taken of t that is not given on any chain. *)
Amount(c, n, t) ==
    IF TransferStatus(c, n) = "pending" /\ call[c][n].token = t THEN call[c][n].value ELSE 0

(* The amount of t that was taken on one chain and not given on any.        *)
InTransit(t) ==
    LET from(c) == SumOf([i \in 1..MaxMessages |-> Amount(c, i - 1, t)], MaxMessages)
    IN  from(Home[t]) + from(Other[Home[t]])

(* The state has the types of the contracts' storage, unsigned amounts      *)
(* included, and the nonces below the next one are those of messages sent.  *)
TypeOK ==
    /\ nonce \in [Chains -> 0..MaxMessages]
    /\ outcome \in [Chains -> [Nonces -> {"NOT_EXECUTED", "EXECUTION_FAILED",
                                          "EXECUTION_SUCCEEDED"}]]
    /\ call \in [Chains -> [Nonces -> Calls \cup {NoCall}]]
    /\ \A c \in Chains, n \in Nonces : n < nonce[c] <=> call[c][n] # NoCall
    /\ fromMediator \in [Chains -> SUBSET Nonces]
    /\ messageRecord \in [Chains -> [Nonces -> [token : Tokens \cup {NoToken},
                                                value : Values \cup {0}]]]
    /\ messageFixed \in [Chains -> SUBSET Nonces]
    /\ mediatorBalance \in [Tokens -> Nat]
    /\ held \in [Tokens -> Nat]
    /\ supply \in [Tokens -> Nat]
    /\ ackDeploy \subseteq Tokens
    /\ bridgedToken \in [Tokens -> {"none", "sameDecimals", "otherDecimals"}]
    /\ registered \in [Chains -> SUBSET Tokens]

(* What a mediator has locked of a token is what exists of it as a bridged  *)
(* token and what is on its way, through every failure, fix and fee.        *)
LockedCoversBridged == \A t \in Tokens : mediatorBalance[t] = supply[t] + InTransit(t)

(* The mediator has the tokens that its books say are locked, whatever the  *)
(* administrators claim or send across.                                     *)
LockedIsHeld == \A t \in Tokens : held[t] >= mediatorBalance[t]

(* The short call, which deploys nothing, is made only for tokens that are  *)
(* deployed and registered on the other side, in whatever order messages    *)
(* are executed and whichever of them fail.                                 *)
AcknowledgedIsDeployed ==
    \A c \in Chains : \A n \in Transfers(Other[c]) :
        call[Other[c]][n].kind = "handleBridgedTokens" => CanHandleBridged(c, call[Other[c]][n])

(* Every transfer is delivered or refunded in the end: of the transfers     *)
(* started, which are finitely many, none stays pending.                    *)
SomePending ==
    \E c \in Chains, n \in Nonces : TransferStatus(c, n) = "pending"
TransferCompletes == SomePending ~> ~SomePending

Transfer == INSTANCE TokenTransfer WITH
    status <- [c \in Chains |-> [n \in Nonces |-> TransferStatus(c, n)]],
    record <- messageRecord,
    locked <- mediatorBalance,
    bridged <- supply

(* A transfer is delivered or refunded, never both and never twice, for the *)
(* amount that was taken, and no other call moves locked or bridged tokens. *)
ImplementsTokenTransfer == Transfer!Spec
=============================================================================
