-------------------------- MODULE OmnibridgeProofs --------------------------
(***************************************************************************)
(* Proofs about the two mediators, for any tokens, amounts and bounds.     *)
(***************************************************************************)
EXTENDS Omnibridge, ArithmeticProofs

(* What is recorded of a message is what it asks the other side to give,    *)
(* and only transfers have a record.                                        *)
RecordsAgree ==
    \A c \in Chains, n \in Nonces :
        messageRecord[c][n] = IF n \in Transfers(c)
                              THEN Record(call[c][n].token, call[c][n].value)
                              ELSE NoRecord

(* Only messages that were sent have an outcome or come from the mediator.  *)
SentOnly ==
    \A c \in Chains, n \in Nonces :
        n \in fromMediator[c] \/ outcome[Other[c]][n] # "NOT_EXECUTED" => n < nonce[c]

(* A fix is requested only for what failed, and only what failed is fixed.  *)
FixesOfFailed ==
    \A c \in Chains :
        /\ \A n \in fromMediator[c] : call[c][n] \in FixCalls => HasFailed(c, call[c][n].of)
        /\ \A n \in messageFixed[c] : n \in Transfers(c) /\ HasFailed(Other[c], n)

(* Tokens are handled as native where they are, and a bridged token that    *)
(* was sent back is registered where it was sent from.                      *)
Sides ==
    \A c \in Chains : \A n \in Transfers(c) :
        LET m == call[c][n] IN
        IF c = Home[m.token] THEN m.kind # "handleNativeTokens"
        ELSE m.kind = "handleNativeTokens" /\ m.token \in registered[c]

(* What an acknowledgement means, and what no registration means.           *)
Registration ==
    \A t \in Tokens :
        /\ t \in ackDeploy => t \in registered[Other[Home[t]]]
        /\ t \notin registered[Home[t]] => mediatorBalance[t] = 0

IInv == /\ TypeOK
        /\ RecordsAgree
        /\ SentOnly
        /\ FixesOfFailed
        /\ Sides
        /\ Registration
        /\ AcknowledgedIsDeployed
        /\ LockedIsHeld

-----------------------------------------------------------------------------
LEMMA TwoChains ==
    ASSUME NEW c \in Chains
    PROVE  /\ Other[c] \in Chains /\ Other[c] # c /\ Other[Other[c]] = c
           /\ \A d \in Chains : d # c => d = Other[c]
BY ChainsAssumption

(* The two sorts of call are told apart by what they call.                  *)
LEMMA CallKinds ==
    ASSUME NEW m \in Calls
    PROVE  /\ m \in TransferCalls <=> m.kind \in TransferKinds
           /\ m \in FixCalls <=> m.kind = "fixFailedMessage"
           /\ m \in TransferCalls => m.token \in Tokens /\ m.value \in Values
           /\ m \in FixCalls => m.of \in Nonces
           /\ m # NoCall
BY DEF Calls, TransferCalls, FixCalls, TransferKinds, NoCall

(* The nonce of a message to be sent is free in every respect.              *)
LEMMA PassMessageEffect ==
    ASSUME TypeOK, SentOnly, NEW c \in Chains, NEW m \in Calls, PassMessage(c, m)
    PROVE  /\ nonce[c] \in Nonces /\ nonce[c] \notin fromMediator[c]
           /\ call[c][nonce[c]] = NoCall
           /\ outcome[Other[c]][nonce[c]] = "NOT_EXECUTED"
           /\ nonce' = [nonce EXCEPT ![c] = @ + 1] /\ nonce'[c] = nonce[c] + 1
           /\ nonce' \in [Chains -> 0..MaxMessages]
           /\ call' = [call EXCEPT ![c][nonce[c]] = m] /\ call'[c][nonce[c]] = m
           /\ \A d \in Chains, k \in Nonces :
                 ~(d = c /\ k = nonce[c]) => call'[d][k] = call[d][k]
           /\ call' \in [Chains -> [Nonces -> Calls \cup {NoCall}]]
           /\ \A d \in Chains, k \in Nonces : k < nonce'[d] <=> call'[d][k] # NoCall
           /\ outcome' = outcome
<1>1. /\ nonce[c] < MaxMessages /\ outcome' = outcome
      /\ nonce' = [nonce EXCEPT ![c] = @ + 1]
      /\ call' = [call EXCEPT ![c][nonce[c]] = m]
  BY DEF PassMessage, Channel!Send
<1>2. nonce[c] \in Nonces /\ MaxMessages \in Nat /\ nonce \in [Chains -> 0..MaxMessages]
  BY <1>1, TokensAssumption DEF TypeOK, Nonces
<1>3. /\ nonce[c] \notin fromMediator[c] /\ outcome[Other[c]][nonce[c]] = "NOT_EXECUTED"
      /\ call[c][nonce[c]] = NoCall
  <2>1. ~(nonce[c] < nonce[c])
    BY <1>2
  <2> QED BY <1>2, <2>1 DEF SentOnly, TypeOK
<1>4. nonce' \in [Chains -> 0..MaxMessages] /\ nonce'[c] = nonce[c] + 1
  BY <1>1, <1>2
<1>5. /\ call' \in [Chains -> [Nonces -> Calls \cup {NoCall}]] /\ call'[c][nonce[c]] = m
      /\ \A d \in Chains, k \in Nonces :
            ~(d = c /\ k = nonce[c]) => call'[d][k] = call[d][k]
  BY <1>1, <1>2 DEF TypeOK
<1>6. ASSUME NEW d \in Chains, NEW k \in Nonces
      PROVE  k < nonce'[d] <=> call'[d][k] # NoCall
  <2>1. k < nonce[d] <=> call[d][k] # NoCall
    BY DEF TypeOK
  <2>2. CASE d = c /\ k = nonce[c]
    BY <1>2, <1>4, <1>5, <2>2, CallKinds
  <2>3. CASE d = c /\ k # nonce[c]
    <3>1. k < nonce[c] + 1 <=> k < nonce[c]
      BY <1>2, <2>3 DEF Nonces
    <3> QED BY <1>4, <1>5, <2>1, <2>3, <3>1
  <2>4. CASE d # c
    BY <1>1, <1>2, <1>5, <2>1, <2>4
  <2> QED BY <2>2, <2>3, <2>4
<1> QED BY <1>1, <1>2, <1>3, <1>4, <1>5, <1>6

Records == [token : Tokens \cup {NoToken}, value : Values \cup {0}]

(* The part of the invariant that says what messages there are.             *)
Ledger == RecordsAgree /\ SentOnly /\ FixesOfFailed /\ Sides

LedgerTypes ==
    /\ nonce \in [Chains -> 0..MaxMessages]
    /\ outcome \in [Chains -> [Nonces -> {"NOT_EXECUTED", "EXECUTION_FAILED",
                                          "EXECUTION_SUCCEEDED"}]]
    /\ call \in [Chains -> [Nonces -> Calls \cup {NoCall}]]
    /\ \A c \in Chains, n \in Nonces : n < nonce[c] <=> call[c][n] # NoCall
    /\ fromMediator \in [Chains -> SUBSET Nonces]
    /\ messageRecord \in [Chains -> [Nonces -> Records]]
    /\ messageFixed \in [Chains -> SUBSET Nonces]

(* A message joins the ledger: of the mediator, S being its nonce, or of a  *)
(* stranger, S being empty.                                                 *)
LEMMA SendKeepsLedger ==
    ASSUME TypeOK, Ledger, NEW c \in Chains, NEW m \in Calls, PassMessage(c, m),
           NEW S, S = {nonce[c]} \/ S = {},
           fromMediator' = [fromMediator EXCEPT ![c] = @ \cup S],
           NEW r \in Records, messageRecord' = [messageRecord EXCEPT ![c][nonce[c]] = r],
           r = IF m \in TransferCalls /\ S # {} THEN Record(m.token, m.value) ELSE NoRecord,
           messageFixed' = messageFixed,
           S # {} /\ m \in FixCalls => HasFailed(c, m.of),
           \A d \in Chains : registered[d] \subseteq registered'[d],
           S # {} /\ m \in TransferCalls =>
               IF c = Home[m.token] THEN m.kind # "handleNativeTokens"
               ELSE m.kind = "handleNativeTokens" /\ m.token \in registered'[c]
    PROVE  /\ Ledger' /\ LedgerTypes'
           /\ Transfers(c)' = Transfers(c) \cup (IF m \in TransferCalls THEN S ELSE {})
           /\ \A d \in Chains : d # c => Transfers(d)' = Transfers(d)
           /\ \A d \in Chains : \A k \in Transfers(d) : call'[d][k] = call[d][k]
<1> DEFINE n == nonce[c]
<1>1. /\ n \in Nonces /\ n \notin fromMediator[c]
      /\ outcome[Other[c]][n] = "NOT_EXECUTED"
      /\ nonce' = [nonce EXCEPT ![c] = @ + 1] /\ nonce'[c] = n + 1
      /\ nonce' \in [Chains -> 0..MaxMessages]
      /\ call'[c][n] = m
      /\ \A d \in Chains, k \in Nonces : ~(d = c /\ k = n) => call'[d][k] = call[d][k]
      /\ call' \in [Chains -> [Nonces -> Calls \cup {NoCall}]]
      /\ \A d \in Chains, k \in Nonces : k < nonce'[d] <=> call'[d][k] # NoCall
      /\ outcome' = outcome
  BY PassMessageEffect DEF Ledger
<1>2. /\ fromMediator'[c] = fromMediator[c] \cup S
      /\ \A d \in Chains : d # c => fromMediator'[d] = fromMediator[d]
      /\ fromMediator \in [Chains -> SUBSET Nonces]
      /\ fromMediator' \in [Chains -> SUBSET Nonces]
  BY <1>1 DEF TypeOK
<1>3. /\ messageRecord'[c][n] = r
      /\ \A d \in Chains, k \in Nonces :
            ~(d = c /\ k = n) => messageRecord'[d][k] = messageRecord[d][k]
      /\ messageRecord' \in [Chains -> [Nonces -> Records]]
  BY <1>1 DEF TypeOK, Records
<1> HIDE DEF n
<1>4. LedgerTypes'
  BY <1>1, <1>2, <1>3 DEF LedgerTypes, TypeOK
<1>5. /\ Transfers(c)' = Transfers(c) \cup (IF m \in TransferCalls THEN S ELSE {})
      /\ \A d \in Chains : d # c => Transfers(d)' = Transfers(d)
      /\ \A d \in Chains : \A k \in fromMediator[d] : call'[d][k] = call[d][k]
  <2>1. S = {n} \/ S = {}
    BY DEF n
  <2>2. \A d \in Chains : \A k \in fromMediator[d] : k \in Nonces /\ call'[d][k] = call[d][k]
    BY <1>1, <1>2
  <2>3. Transfers(c)' = {k \in fromMediator[c] \cup S : call'[c][k] \in TransferCalls}
    BY <1>2 DEF Transfers
  <2>4. Transfers(c)' = Transfers(c) \cup (IF m \in TransferCalls THEN S ELSE {})
    BY <1>1, <2>1, <2>2, <2>3 DEF Transfers
  <2>5. ASSUME NEW d \in Chains, d # c
        PROVE  Transfers(d)' = Transfers(d)
    BY <1>2, <2>2, <2>5 DEF Transfers
  <2> QED BY <2>2, <2>4, <2>5
<1>6. RecordsAgree'
  <2> SUFFICES ASSUME NEW d \in Chains, NEW k \in Nonces
               PROVE  messageRecord'[d][k] = IF k \in Transfers(d)'
                                             THEN Record(call'[d][k].token, call'[d][k].value)
                                             ELSE NoRecord
    BY DEF RecordsAgree, Record, NoRecord
  <2>1. messageRecord[d][k] = IF k \in Transfers(d)
                              THEN Record(call[d][k].token, call[d][k].value)
                              ELSE NoRecord
    BY DEF Ledger, RecordsAgree
  <2>2. CASE d = c /\ k = n
    <3>1. n \in Transfers(c)' <=> m \in TransferCalls /\ S # {}
      BY <1>1, <1>5 DEF Transfers, n
    <3> QED BY <1>1, <1>3, <2>2, <3>1
  <2>3. CASE ~(d = c /\ k = n)
    <3>1. k \in Transfers(d)' <=> k \in Transfers(d)
      BY <1>5, <2>3 DEF n
    <3> QED BY <1>1, <1>3, <2>1, <2>3, <3>1
  <2> QED BY <2>2, <2>3
<1>7. SentOnly'
  <2> SUFFICES ASSUME NEW d \in Chains, NEW k \in Nonces,
                      k \in fromMediator'[d] \/ outcome[Other[d]][k] # "NOT_EXECUTED"
               PROVE  k < nonce'[d]
    BY <1>1 DEF SentOnly
  <2>1. CASE d = c /\ k = n
    BY <1>1, <2>1 DEF Nonces
  <2>2. CASE ~(d = c /\ k = n)
    <3>1. k \in fromMediator[d] \/ outcome[Other[d]][k] # "NOT_EXECUTED"
      BY <1>2, <2>2 DEF n
    <3>2. k < nonce[d]
      BY <3>1 DEF Ledger, SentOnly
    <3>3. call'[d][k] # NoCall
      BY <1>1, <2>2, <3>2 DEF TypeOK
    <3> QED BY <1>1, <3>3
  <2> QED BY <2>1, <2>2
<1>8. FixesOfFailed'
  <2>1. ASSUME NEW d \in Chains, NEW k \in fromMediator'[d], call'[d][k] \in FixCalls
        PROVE  outcome'[d][call'[d][k].of] = "EXECUTION_FAILED"
    <3>1. CASE d = c /\ k \in S
      BY <1>1, <2>1, <3>1 DEF HasFailed, n
    <3>2. CASE k \in fromMediator[d]
      BY <1>1, <1>5, <2>1, <3>2 DEF HasFailed, Ledger, FixesOfFailed
    <3> QED BY <1>2, <3>1, <3>2
  <2>2. ASSUME NEW d \in Chains, NEW k \in messageFixed[d]
        PROVE  k \in Transfers(d)' /\ HasFailed(Other[d], k)'
    BY <1>1, <1>5 DEF HasFailed, Ledger, FixesOfFailed
  <2> QED BY <2>1, <2>2 DEF FixesOfFailed, HasFailed
<1>9. Sides'
  <2> SUFFICES ASSUME NEW d \in Chains, NEW k \in Transfers(d)'
               PROVE  IF d = Home[call'[d][k].token]
                      THEN call'[d][k].kind # "handleNativeTokens"
                      ELSE /\ call'[d][k].kind = "handleNativeTokens"
                           /\ call'[d][k].token \in registered'[d]
    BY DEF Sides
  <2>1. CASE k \in Transfers(d)
    <3>1. call'[d][k] = call[d][k]
      BY <1>5, <2>1 DEF Transfers
    <3> QED BY <2>1, <3>1 DEF Ledger, Sides
  <2>2. CASE k \notin Transfers(d)
    <3>1. d = c /\ k \in S /\ m \in TransferCalls
      BY <1>5, <2>2
    <3> QED BY <1>1, <3>1 DEF n
  <2> QED BY <2>1, <2>2
<1> QED BY <1>4, <1>5, <1>6, <1>7, <1>8, <1>9 DEF Ledger, Transfers

(* A message of the other side gets its outcome on chain c.                 *)
LEMMA OutcomeKeepsLedger ==
    ASSUME TypeOK, Ledger, NEW c \in Chains, NEW n \in Nonces,
           NEW result \in {"EXECUTION_FAILED", "EXECUTION_SUCCEEDED"},
           n \in ChannelSent[Other[c]], outcome[c][n] = "NOT_EXECUTED",
           outcome' = [outcome EXCEPT ![c][n] = result],
           UNCHANGED <<nonce, call, fromMediator, messageRecord>>,
           messageFixed' \in [Chains -> SUBSET Nonces],
           \A d \in Chains : \A k \in messageFixed'[d] :
               k \in messageFixed[d] \/ (k \in Transfers(d) /\ HasFailed(Other[d], k)),
           \A d \in Chains : registered[d] \subseteq registered'[d]
    PROVE  /\ Ledger' /\ LedgerTypes'
           /\ \A d \in Chains : Transfers(d)' = Transfers(d)
           /\ outcome'[c][n] = result
           /\ \A d \in Chains, k \in Nonces :
                 ~(d = c /\ k = n) => outcome'[d][k] = outcome[d][k]
<1>1. /\ outcome'[c][n] = result
      /\ \A d \in Chains, k \in Nonces :
            ~(d = c /\ k = n) => outcome'[d][k] = outcome[d][k]
      /\ outcome' \in [Chains -> [Nonces -> {"NOT_EXECUTED", "EXECUTION_FAILED",
                                             "EXECUTION_SUCCEEDED"}]]
  BY DEF TypeOK
<1>2. \A d \in Chains : Transfers(d)' = Transfers(d)
  BY DEF Transfers
<1>3. \A d \in Chains, k \in Nonces : HasFailed(d, k) => outcome'[d][k] = "EXECUTION_FAILED"
  BY <1>1 DEF HasFailed
<1>4. LedgerTypes'
  BY <1>1 DEF LedgerTypes, TypeOK, Records
<1>5. RecordsAgree'
  BY <1>2 DEF Ledger, RecordsAgree, Record, NoRecord
<1>6. SentOnly'
  <2> SUFFICES ASSUME NEW d \in Chains, NEW k \in Nonces,
                      k \in fromMediator[d] \/ outcome'[Other[d]][k] # "NOT_EXECUTED"
               PROVE  k < nonce[d]
    BY DEF SentOnly
  <2>1. CASE Other[d] = c /\ k = n
    <3>1. d = Other[c] /\ nonce[d] \in Nat
      BY <2>1, TwoChains DEF TypeOK
    <3>2. n \in 0..(nonce[d] - 1)
      BY <3>1 DEF ChannelSent
    <3> QED BY <2>1, <3>1, <3>2
  <2>2. CASE ~(Other[d] = c /\ k = n)
    BY <1>1, <2>2, TwoChains DEF Ledger, SentOnly
  <2> QED BY <2>1, <2>2
<1>7. FixesOfFailed'
  <2>1. ASSUME NEW d \in Chains, NEW k \in fromMediator[d], call[d][k] \in FixCalls
        PROVE  outcome'[d][call[d][k].of] = "EXECUTION_FAILED"
    <3>1. call[d][k].of \in Nonces
      BY <2>1, CallKinds DEF Calls
    <3> QED BY <1>3, <2>1, <3>1 DEF Ledger, FixesOfFailed
  <2>2. ASSUME NEW d \in Chains, NEW k \in messageFixed'[d]
        PROVE  k \in Transfers(d) /\ outcome'[Other[d]][k] = "EXECUTION_FAILED"
    <3>1. k \in Transfers(d) /\ HasFailed(Other[d], k) /\ k \in Nonces
      BY <2>2 DEF Ledger, FixesOfFailed
    <3> QED BY <1>3, <3>1, TwoChains
  <2> QED BY <1>2, <2>1, <2>2 DEF FixesOfFailed, HasFailed
<1>8. Sides'
  BY <1>2 DEF Ledger, Sides, Transfers
<1> QED BY <1>1, <1>2, <1>4, <1>5, <1>6, <1>7, <1>8 DEF Ledger

-----------------------------------------------------------------------------
(* What the handlers see of a message that is theirs to execute.            *)
LEMMA ExecutedIsCall ==
    ASSUME TypeOK, NEW c \in Chains, NEW n \in Nonces, n \in ChannelSent[Other[c]]
    PROVE  call[Other[c]][n] \in Calls
<1>1. Other[c] \in Chains /\ n \in 0..(nonce[Other[c]] - 1)
  BY TwoChains DEF ChannelSent
<1>2. nonce[Other[c]] \in Nat
  BY <1>1 DEF TypeOK
<1>3. n < nonce[Other[c]]
  BY <1>1, <1>2
<1> QED BY <1>1, <1>3 DEF TypeOK

(* Releasing keeps amounts natural and never takes more from the mediator   *)
(* than from its books.                                                     *)
LEMMA ReleaseEffect ==
    ASSUME TypeOK, LockedIsHeld, NEW isNative \in BOOLEAN, NEW t \in Tokens, NEW v \in Values,
           CanRelease(isNative, t, v), ReleaseTokens(isNative, t, v)
    PROVE  /\ mediatorBalance' \in [Tokens -> Nat] /\ held' \in [Tokens -> Nat]
           /\ supply' \in [Tokens -> Nat]
           /\ \A u \in Tokens : mediatorBalance[u] = 0 => mediatorBalance'[u] = 0
           /\ LockedIsHeld'
<1>1. v \in Nat \ {0}
  BY TokensAssumption
<1>2. CASE isNative
  <2>1. /\ mediatorBalance[t] >= v /\ held[t] >= v /\ supply' = supply
        /\ mediatorBalance' = [mediatorBalance EXCEPT ![t] = @ - v]
        /\ held' = [held EXCEPT ![t] = @ - v]
    BY <1>2 DEF CanRelease, ReleaseTokens
  <2>2. ASSUME NEW u \in Tokens
        PROVE  /\ mediatorBalance'[u] \in Nat /\ held'[u] \in Nat
               /\ mediatorBalance[u] = 0 => mediatorBalance'[u] = 0
               /\ held'[u] >= mediatorBalance'[u]
    BY <1>1, <2>1 DEF TypeOK, LockedIsHeld
  <2> QED BY <2>1, <2>2 DEF TypeOK, LockedIsHeld
<1>3. CASE ~isNative
  <2>1. /\ supply' = [supply EXCEPT ![t] = @ + v]
        /\ mediatorBalance' = mediatorBalance /\ held' = held
    BY <1>3 DEF ReleaseTokens
  <2> QED BY <1>1, <2>1 DEF TypeOK, LockedIsHeld
<1> QED BY <1>2, <1>3

(* A handler, whatever it handles, gives t in the amount v, and marks only  *)
(* failed transfers of its own chain as fixed.                              *)
LEMMA HandlingPreserves ==
    ASSUME IInv, NEW c \in Chains, NEW n \in Nonces,
           UNCHANGED <<nonce, call, fromMediator, messageRecord>>, Channel!Deliver(c, n),
           NEW isNative \in BOOLEAN, NEW t \in Tokens, NEW v \in Values,
           CanRelease(isNative, t, v), ReleaseTokens(isNative, t, v),
           messageFixed' \in [Chains -> SUBSET Nonces],
           \A d \in Chains : \A k \in messageFixed'[d] :
               k \in messageFixed[d] \/ (k \in Transfers(d) /\ HasFailed(Other[d], k)),
           bridgedToken' \in [Tokens -> {"none", "sameDecimals", "otherDecimals"}],
           registered' \in [Chains -> SUBSET Tokens],
           \A d \in Chains : registered[d] \subseteq registered'[d],
           ackDeploy' = ackDeploy \/
               (ackDeploy' = ackDeploy \cup {t} /\ t \in registered[Other[Home[t]]])
    PROVE  IInv'
<1>1. /\ n \in ChannelSent[Other[c]] /\ outcome[c][n] = "NOT_EXECUTED"
      /\ outcome' = [outcome EXCEPT ![c][n] = "EXECUTION_SUCCEEDED"]
  BY DEF Channel!Deliver
<1>2. TypeOK /\ Ledger /\ Registration /\ AcknowledgedIsDeployed /\ LockedIsHeld
  BY DEF IInv, Ledger
<1>4. Ledger' /\ LedgerTypes' /\ \A d \in Chains : Transfers(d)' = Transfers(d)
  BY <1>1, <1>2, OutcomeKeepsLedger
<1>5. /\ mediatorBalance' \in [Tokens -> Nat] /\ held' \in [Tokens -> Nat]
      /\ supply' \in [Tokens -> Nat]
      /\ \A u \in Tokens : mediatorBalance[u] = 0 => mediatorBalance'[u] = 0
      /\ LockedIsHeld'
  BY <1>2, ReleaseEffect
<1>6. ackDeploy' \subseteq Tokens
  BY <1>2 DEF TypeOK
<1>7. TypeOK'
  BY <1>4, <1>5, <1>6 DEF TypeOK, LedgerTypes, Records
<1>8. Registration'
  <2> SUFFICES ASSUME NEW u \in Tokens
               PROVE  /\ u \in ackDeploy' => u \in registered'[Other[Home[u]]]
                      /\ u \notin registered'[Home[u]] => mediatorBalance'[u] = 0
    BY DEF Registration
  <2>1. Home[u] \in Chains /\ Other[Home[u]] \in Chains
    BY TwoChains, TokensAssumption
  <2> QED BY <1>2, <1>5, <2>1 DEF Registration
<1>9. AcknowledgedIsDeployed'
  BY <1>2, <1>4, TwoChains DEF AcknowledgedIsDeployed, CanHandleBridged
<1> QED BY <1>4, <1>5, <1>7, <1>8, <1>9 DEF IInv, Ledger

(* A record with a token is that of a transfer.                             *)
LEMMA RecordOfTransfer ==
    ASSUME IInv, NEW c \in Chains, NEW k \in Nonces, messageRecord[c][k].token # NoToken
    PROVE  /\ k \in Transfers(c) /\ call[c][k] \in TransferCalls
           /\ messageRecord[c][k].token = call[c][k].token
           /\ messageRecord[c][k].value = call[c][k].value
           /\ call[c][k].token \in Tokens /\ call[c][k].value \in Values
<1>1. messageRecord[c][k] = IF k \in Transfers(c)
                            THEN Record(call[c][k].token, call[c][k].value) ELSE NoRecord
  BY DEF IInv, RecordsAgree
<1>2. messageRecord[c][k] # NoRecord
  BY DEF NoRecord, Record
<1>3. k \in Transfers(c) /\ messageRecord[c][k] = Record(call[c][k].token, call[c][k].value)
  BY <1>1, <1>2
<1>4. call[c][k] \in TransferCalls
  BY <1>3 DEF Transfers
<1> QED BY <1>3, <1>4 DEF Record, TransferCalls

LEMMA HandlePreserves ==
    ASSUME IInv, NEW c \in Chains, NEW n \in Nonces, Handle(c, n)
    PROVE  IInv'
<1> DEFINE m == call[Other[c]][n]
<1>1. /\ n \in fromMediator[Other[c]] /\ Channel!Deliver(c, n)
      /\ UNCHANGED <<nonce, call, fromMediator, messageRecord>>
      /\ n \in ChannelSent[Other[c]] /\ Other[c] \in Chains
  BY TwoChains DEF Handle, OnlyMediator, Channel!Deliver
<1>2. TypeOK /\ m \in Calls
  BY <1>1, ExecutedIsCall DEF IInv
<1>3. m.kind \in TransferKinds => n \in Transfers(Other[c]) /\ m.token \in Tokens /\ m.value \in Values
  BY <1>1, <1>2, CallKinds DEF Transfers
<1>4. /\ messageFixed \in [Chains -> SUBSET Nonces]
      /\ registered \in [Chains -> SUBSET Tokens]
      /\ bridgedToken \in [Tokens -> {"none", "sameDecimals", "otherDecimals"}]
  BY <1>2 DEF TypeOK
<1>5. CASE DeployAndHandleBridgedTokens(c, m)
  <2>1. /\ m.kind \in TransferKinds /\ ReleaseTokens(FALSE, m.token, m.value)
        /\ registered' = [registered EXCEPT ![c] = @ \cup {m.token}]
        /\ bridgedToken' = [bridgedToken EXCEPT ![m.token] =
                               IF @ = "none" THEN "sameDecimals" ELSE @]
        /\ messageFixed' = messageFixed /\ ackDeploy' = ackDeploy
    BY <1>5 DEF DeployAndHandleBridgedTokens, CanDeploy, TransferKinds
  <2>2. /\ registered' \in [Chains -> SUBSET Tokens]
        /\ \A d \in Chains : registered[d] \subseteq registered'[d]
        /\ bridgedToken' \in [Tokens -> {"none", "sameDecimals", "otherDecimals"}]
    BY <1>2, <1>3, <2>1 DEF TypeOK
  <2>3. CanRelease(FALSE, m.token, m.value)
    BY DEF CanRelease
  <2> HIDE DEF m
  <2> QED BY <1>1, <1>3, <1>4, <2>1, <2>2, <2>3, HandlingPreserves
<1>6. CASE HandleBridgedTokens(c, m)
  <2>1. /\ m.kind \in TransferKinds /\ ReleaseTokens(FALSE, m.token, m.value)
        /\ UNCHANGED <<messageFixed, ackDeploy, bridgedToken, registered>>
    BY <1>6 DEF HandleBridgedTokens, CanHandleBridged, TransferKinds
  <2>2. CanRelease(FALSE, m.token, m.value)
    BY DEF CanRelease
  <2> HIDE DEF m
  <2> QED BY <1>1, <1>3, <1>4, <2>1, <2>2, HandlingPreserves
<1>7. CASE HandleNativeTokens(m)
  <2>1. /\ m.kind = "handleNativeTokens" /\ m.kind \in TransferKinds
        /\ CanRelease(TRUE, m.token, m.value) /\ ReleaseTokens(TRUE, m.token, m.value)
        /\ ackDeploy' = ackDeploy \cup {m.token}
        /\ UNCHANGED <<messageFixed, bridgedToken, registered>>
    BY <1>7 DEF HandleNativeTokens, CanHandleNative, TransferKinds
  <2>2. Other[c] # Home[m.token] /\ m.token \in registered[Other[c]]
    BY <1>1, <1>3, <2>1 DEF IInv, Sides
  <2>3. Home[m.token] = c
    BY <1>3, <2>1, <2>2, TwoChains, TokensAssumption
  <2> HIDE DEF m
  <2> QED BY <1>1, <1>3, <1>4, <2>1, <2>2, <2>3, HandlingPreserves
<1>8. CASE FixFailedMessage(c, m)
  <2> DEFINE r == messageRecord[c][m.of]
  <2>1. /\ m.kind = "fixFailedMessage" /\ r.token # NoToken
        /\ CanRelease(IsNative(c, r.token), r.token, r.value)
        /\ ReleaseTokens(IsNative(c, r.token), r.token, r.value)
        /\ messageFixed' = [messageFixed EXCEPT ![c] = @ \cup {m.of}]
        /\ UNCHANGED <<ackDeploy, bridgedToken, registered>>
    BY <1>8 DEF FixFailedMessage, CanFix
  <2>2. m \in FixCalls /\ m.of \in Nonces
    BY <1>2, <2>1, CallKinds
  <2>3. m.of \in Transfers(c) /\ r.token \in Tokens /\ r.value \in Values
    BY <2>1, <2>2, RecordOfTransfer
  <2>4. HasFailed(Other[c], m.of)
    BY <1>1, <2>2 DEF IInv, FixesOfFailed
  <2>5. IsNative(c, r.token) \in BOOLEAN
    BY DEF IsNative
  <2>6. /\ messageFixed' \in [Chains -> SUBSET Nonces]
        /\ \A d \in Chains : \A k \in messageFixed'[d] :
              k \in messageFixed[d] \/ (k \in Transfers(d) /\ HasFailed(Other[d], k))
    BY <1>4, <2>1, <2>2, <2>3, <2>4
  <2> HIDE DEF m, r
  <2> QED BY <1>1, <1>4, <2>1, <2>3, <2>5, <2>6, HandlingPreserves
<1> QED BY <1>5, <1>6, <1>7, <1>8 DEF Handle

LEMMA RevertPreserves ==
    ASSUME IInv, NEW c \in Chains, NEW n \in Nonces, Revert(c, n)
    PROVE  IInv'
<1>1. /\ n \in ChannelSent[Other[c]] /\ outcome[c][n] = "NOT_EXECUTED"
      /\ outcome' = [outcome EXCEPT ![c][n] = "EXECUTION_FAILED"]
      /\ UNCHANGED <<nonce, call, fromMediator, messageRecord, messageFixed>>
      /\ UNCHANGED <<mediatorBalance, held, supply, ackDeploy, bridgedToken, registered>>
  BY DEF Revert, balanceVars, Channel!Fail
<1>2. TypeOK /\ Ledger
  BY DEF IInv, Ledger
<1>3. Ledger' /\ LedgerTypes' /\ \A d \in Chains : Transfers(d)' = Transfers(d)
  <2>1. messageFixed' \in [Chains -> SUBSET Nonces]
    BY <1>1, <1>2 DEF TypeOK
  <2> QED BY <1>1, <1>2, <2>1, OutcomeKeepsLedger
<1>4. TypeOK'
  BY <1>1, <1>2, <1>3 DEF TypeOK, LedgerTypes, Records
<1>5. AcknowledgedIsDeployed'
  BY <1>1, <1>3, TwoChains DEF IInv, AcknowledgedIsDeployed, CanHandleBridged
<1> QED BY <1>1, <1>3, <1>4, <1>5 DEF IInv, Ledger, Registration, LockedIsHeld

-----------------------------------------------------------------------------
LEMMA TransferCallEffect ==
    ASSUME IInv, NEW c \in Chains, NEW t \in Tokens, NEW v \in Values
    PROVE  /\ TransferCall(c, t, v) \in TransferCalls /\ TransferCall(c, t, v) \in Calls
           /\ TransferCall(c, t, v).token = t /\ TransferCall(c, t, v).value = v
           /\ IF c = Home[t] THEN TransferCall(c, t, v).kind # "handleNativeTokens"
              ELSE TransferCall(c, t, v).kind = "handleNativeTokens"
           /\ TransferCall(c, t, v).kind = "handleBridgedTokens" => t \in registered[Other[c]]
<1>1. TransferCall(c, t, v).kind = "handleBridgedTokens" => t \in ackDeploy /\ c = Home[t]
  BY DEF TransferCall, IsNative
<1>2. t \in ackDeploy => t \in registered[Other[Home[t]]]
  BY DEF IInv, Registration
<1> QED BY <1>1, <1>2 DEF TransferCall, TransferCalls, Calls, TransferKinds, IsNative

(* What a step that starts a transfer of v of token t does on chain c.      *)
Started(c, t, v) ==
    /\ v \in Values /\ PrepareMessage(c, t, v)
    /\ IsNative(c, t) \/ supply[t] >= v
    /\ RecordBridgeOperation(c, t, v)
    /\ nonce[c] \in Nonces
    /\ nonce[c] \notin Transfers(c) /\ nonce[c] \notin messageFixed[c]
    /\ Transfers(c)' = Transfers(c) \cup {nonce[c]}
    /\ \A d \in Chains : d # c => Transfers(d)' = Transfers(d)
    /\ messageFixed' = messageFixed
    /\ outcome' = outcome /\ outcome[Other[c]][nonce[c]] = "NOT_EXECUTED"

(* A transfer starts: its tokens are taken, its message is sent, and the    *)
(* mediator has whatever else that makes it lock.                           *)
LEMMA StartPreserves ==
    ASSUME IInv, NEW c \in Chains, NEW t \in Tokens, NEW v \in Values,
           MediatorSends(c, TransferCall(c, t, v)), RecordBridgeOperation(c, t, v),
           PrepareMessage(c, t, v), IsNative(c, t) \/ supply[t] >= v,
           registered' \in [Chains -> SUBSET Tokens], t \in registered'[c],
           \A d \in Chains : registered[d] \subseteq registered'[d],
           held' \in [Tokens -> Nat],
           \A u \in Tokens : held'[u] >= mediatorBalance'[u],
           UNCHANGED <<messageFixed, ackDeploy, bridgedToken>>
    PROVE  IInv' /\ Started(c, t, v)
<1> DEFINE m == TransferCall(c, t, v)
<1>1. /\ PassMessage(c, m) /\ fromMediator' = [fromMediator EXCEPT ![c] = @ \cup {nonce[c]}]
      /\ messageRecord' = [messageRecord EXCEPT ![c][nonce[c]] = Record(t, v)]
  BY DEF MediatorSends, RecordBridgeOperation
<1>2. /\ m \in TransferCalls /\ m \in Calls /\ m.token = t /\ m.value = v
      /\ IF c = Home[t] THEN m.kind # "handleNativeTokens" ELSE m.kind = "handleNativeTokens"
      /\ m.kind = "handleBridgedTokens" => t \in registered[Other[c]]
  BY TransferCallEffect
<1> HIDE DEF m
<1>3. Record(t, v) \in Records /\ m \notin FixCalls
  BY <1>2, CallKinds DEF Record, Records, TransferKinds
<1>4. TypeOK /\ Ledger /\ Registration /\ AcknowledgedIsDeployed
  BY DEF IInv, Ledger
<1>5. /\ Ledger' /\ LedgerTypes'
      /\ Transfers(c)' = Transfers(c) \cup {nonce[c]}
      /\ \A d \in Chains : d # c => Transfers(d)' = Transfers(d)
      /\ \A d \in Chains : \A k \in Transfers(d) : call'[d][k] = call[d][k]
  <2> DEFINE S == {nonce[c]}
  <2>1. S = {nonce[c]} \/ S = {}
    OBVIOUS
  <2>2. S # {} /\ fromMediator' = [fromMediator EXCEPT ![c] = @ \cup S]
    BY <1>1
  <2> HIDE DEF S
  <2>3. /\ Ledger' /\ LedgerTypes' /\ Transfers(c)' = Transfers(c) \cup S
        /\ \A d \in Chains : d # c => Transfers(d)' = Transfers(d)
        /\ \A d \in Chains : \A k \in Transfers(d) : call'[d][k] = call[d][k]
    BY <1>1, <1>2, <1>3, <1>4, <2>1, <2>2, SendKeepsLedger, ZenonT(20)
  <2> QED BY <2>3 DEF S
<1>6. /\ nonce[c] \in Nonces /\ nonce[c] \notin fromMediator[c]
      /\ call'[c][nonce[c]] = m /\ outcome' = outcome
      /\ outcome[Other[c]][nonce[c]] = "NOT_EXECUTED"
  BY <1>1, <1>2, <1>4, PassMessageEffect DEF Ledger
<1>7. v \in Nat
  BY TokensAssumption
<1>8. /\ mediatorBalance' \in [Tokens -> Nat] /\ supply' \in [Tokens -> Nat]
      /\ \A u \in Tokens : mediatorBalance'[u] = mediatorBalance[u] \/ (u = t /\ c = Home[u])
  <2>1. CASE IsNative(c, t)
    <3>1. mediatorBalance' = [mediatorBalance EXCEPT ![t] = @ + v] /\ supply' = supply
      BY <2>1 DEF PrepareMessage
    <3>2. c = Home[t]
      BY <2>1 DEF IsNative
    <3> QED BY <1>4, <1>7, <3>1, <3>2 DEF TypeOK
  <2>2. CASE ~IsNative(c, t)
    <3>1. mediatorBalance' = mediatorBalance /\ supply[t] >= v
          /\ supply' = [supply EXCEPT ![t] = @ - v]
      BY <2>2 DEF PrepareMessage
    <3>2. supply[t] - v \in Nat
      BY <1>4, <1>7, <3>1 DEF TypeOK
    <3> QED BY <1>4, <3>1, <3>2 DEF TypeOK
  <2> QED BY <2>1, <2>2
<1>9. TypeOK'
  BY <1>4, <1>5, <1>8 DEF TypeOK, LedgerTypes, Records
<1>10. Registration'
  <2> SUFFICES ASSUME NEW u \in Tokens
               PROVE  /\ u \in ackDeploy => u \in registered'[Other[Home[u]]]
                      /\ u \notin registered'[Home[u]] => mediatorBalance'[u] = 0
    BY DEF Registration
  <2>1. Home[u] \in Chains /\ Other[Home[u]] \in Chains
    BY TwoChains, TokensAssumption
  <2> QED BY <1>4, <1>8, <2>1 DEF Registration
<1>11. AcknowledgedIsDeployed'
  <2> SUFFICES ASSUME NEW d \in Chains, NEW k \in Transfers(Other[d])',
                      call'[Other[d]][k].kind = "handleBridgedTokens"
               PROVE  call'[Other[d]][k].token \in registered'[d]
    BY DEF AcknowledgedIsDeployed, CanHandleBridged
  <2>1. Other[d] \in Chains /\ Other[Other[d]] = d
    BY TwoChains
  <2>2. CASE k \in Transfers(Other[d])
    BY <1>4, <1>5, <2>1, <2>2 DEF AcknowledgedIsDeployed, CanHandleBridged
  <2>3. CASE k \notin Transfers(Other[d])
    <3>1. Other[d] = c /\ k = nonce[c]
      BY <1>5, <2>1, <2>3
    <3>2. d = Other[c] /\ call'[Other[d]][k] = m
      BY <1>6, <2>1, <3>1
    <3> QED BY <1>2, <3>2
  <2> QED BY <2>2, <2>3
<1>12. nonce[c] \notin messageFixed[c] /\ nonce[c] \notin Transfers(c)
  BY <1>4, <1>6 DEF Ledger, FixesOfFailed, Transfers
<1> QED BY <1>5, <1>6, <1>9, <1>10, <1>11, <1>12 DEF IInv, Ledger, LockedIsHeld, Started

(* What a relay that goes through has taken.                                *)
LEMMA RelayPreserves ==
    ASSUME IInv, NEW c \in Chains, NEW t \in Tokens, NEW v \in Values,
           NEW fee \in FeesOn(c, v), RelayTokens(c, t, v, fee)
    PROVE  IInv' /\ Started(c, t, v - fee)
<1>1. /\ v - fee \in Values /\ PrepareMessage(c, t, v - fee)
      /\ IsNative(c, t) \/ supply[t] >= v
      /\ registered' = [registered EXCEPT ![c] = @ \cup {t}]
      /\ held' = IF IsNative(c, t) THEN [held EXCEPT ![t] = @ + (v - fee)] ELSE held
      /\ MediatorSends(c, TransferCall(c, t, v - fee))
      /\ RecordBridgeOperation(c, t, v - fee)
      /\ UNCHANGED <<messageFixed, ackDeploy, bridgedToken>>
  BY DEF RelayTokens, ValueToBridge
<1>2. v \in Nat /\ fee \in Nat /\ v - fee \in Nat
  BY <1>1, TokensAssumption DEF FeesOn
<1>3. TypeOK /\ LockedIsHeld
  BY DEF IInv
<1>4. IsNative(c, t) \/ supply[t] >= v - fee
  BY <1>1, <1>2, <1>3 DEF TypeOK
<1>5. /\ registered' \in [Chains -> SUBSET Tokens] /\ t \in registered'[c]
      /\ \A d \in Chains : registered[d] \subseteq registered'[d]
  BY <1>1, <1>3 DEF TypeOK
<1>6. held' \in [Tokens -> Nat] /\ \A u \in Tokens : held'[u] >= mediatorBalance'[u]
  <2>1. CASE IsNative(c, t)
    <3>1. /\ held' = [held EXCEPT ![t] = @ + (v - fee)]
          /\ mediatorBalance' = [mediatorBalance EXCEPT ![t] = @ + (v - fee)]
      BY <1>1, <2>1 DEF PrepareMessage
    <3> QED BY <1>2, <1>3, <3>1 DEF TypeOK, LockedIsHeld
  <2>2. CASE ~IsNative(c, t)
    BY <1>1, <1>3, <2>2 DEF PrepareMessage, TypeOK, LockedIsHeld
  <2> QED BY <2>1, <2>2
<1> QED BY <1>1, <1>4, <1>5, <1>6, StartPreserves

LEMMA FixBalancePreserves ==
    ASSUME IInv, NEW t \in Tokens, NEW diff \in Values, FixMediatorBalance(t, diff)
    PROVE  IInv' /\ Started(Home[t], t, diff)
<1> DEFINE c == Home[t]
<1>1. /\ c \in Chains /\ t \in registered[c] /\ diff <= held[t] - mediatorBalance[t]
      /\ PrepareMessage(c, t, diff) /\ MediatorSends(c, TransferCall(c, t, diff))
      /\ RecordBridgeOperation(c, t, diff) /\ IsNative(c, t)
      /\ UNCHANGED <<messageFixed, held, ackDeploy, bridgedToken, registered>>
  BY TokensAssumption DEF FixMediatorBalance, UnaccountedBalance, IsNative
<1> HIDE DEF c
<1>2. TypeOK /\ LockedIsHeld /\ diff \in Nat
  BY TokensAssumption DEF IInv
<1>3. held' \in [Tokens -> Nat] /\ \A u \in Tokens : held'[u] >= mediatorBalance'[u]
  <2>1. mediatorBalance' = [mediatorBalance EXCEPT ![t] = @ + diff]
    BY <1>1 DEF PrepareMessage
  <2>2. ASSUME NEW u \in Tokens
        PROVE  held[u] >= mediatorBalance'[u]
    BY <1>1, <1>2, <2>1, <2>2 DEF TypeOK, LockedIsHeld
  <2> QED BY <1>1, <1>2, <2>2 DEF TypeOK
<1>4. /\ registered' \in [Chains -> SUBSET Tokens] /\ t \in registered'[c]
      /\ \A d \in Chains : registered[d] \subseteq registered'[d]
  BY <1>1, <1>2 DEF TypeOK
<1> QED BY <1>1, <1>3, <1>4, StartPreserves DEF c

(* A message that is no transfer leaves the transfers and balances alone.   *)
LEMMA RequestPreserves ==
    ASSUME IInv, NEW c \in Chains, NEW n \in Nonces, RequestFailedMessageFix(c, n)
    PROVE  IInv' /\ \A d \in Chains : Transfers(d)' = Transfers(d)
<1> DEFINE m == [kind |-> "fixFailedMessage", of |-> n]
           S == {nonce[c]}
<1>1. /\ PassMessage(c, m) /\ HasFailed(c, n)
      /\ fromMediator' = [fromMediator EXCEPT ![c] = @ \cup S]
      /\ UNCHANGED <<messageRecord, messageFixed, mediatorBalance, held, supply, ackDeploy,
                     bridgedToken, registered>>
  BY DEF RequestFailedMessageFix, MediatorSends, balanceVars
<1>2. m \in FixCalls /\ m \in Calls /\ m \notin TransferCalls /\ m.of = n
  BY DEF FixCalls, Calls, TransferCalls, TransferKinds
<1> HIDE DEF m
<1>3. TypeOK /\ Ledger
  BY DEF IInv, Ledger
<1>4. NoRecord \in Records
  BY DEF NoRecord, Record, Records
<1>5. messageRecord' = [messageRecord EXCEPT ![c][nonce[c]] = NoRecord]
  <2>1. nonce[c] \in Nonces /\ nonce[c] \notin Transfers(c)
    BY <1>1, <1>2, <1>3, PassMessageEffect DEF Ledger, Transfers
  <2>2. messageRecord[c][nonce[c]] = NoRecord
    BY <1>3, <2>1 DEF Ledger, RecordsAgree
  <2> QED BY <1>1, <1>3, <2>1, <2>2 DEF TypeOK
<1>6. S = {nonce[c]} \/ S = {}
  OBVIOUS
<1>7. S # {} => HasFailed(c, m.of)
  BY <1>1, <1>2
<1> HIDE DEF S
<1>8. /\ Ledger' /\ LedgerTypes'
      /\ \A d \in Chains : Transfers(d)' = Transfers(d)
      /\ \A d \in Chains : \A k \in Transfers(d) : call'[d][k] = call[d][k]
  BY <1>1, <1>2, <1>3, <1>4, <1>5, <1>6, <1>7, SendKeepsLedger
<1>9. TypeOK'
  BY <1>1, <1>3, <1>8 DEF TypeOK, LedgerTypes, Records
<1>10. AcknowledgedIsDeployed'
  BY <1>1, <1>8, TwoChains DEF IInv, AcknowledgedIsDeployed, CanHandleBridged
<1> QED BY <1>1, <1>8, <1>9, <1>10 DEF IInv, Ledger, Registration, LockedIsHeld

LEMMA StrangerPreserves ==
    ASSUME IInv, NEW c \in Chains, NEW m \in StrangerCalls, StrangerSends(c, m)
    PROVE  IInv' /\ \A d \in Chains : Transfers(d)' = Transfers(d)
<1> DEFINE S == {}
<1>1. /\ PassMessage(c, m) /\ fromMediator' = fromMediator /\ m \in Calls
      /\ UNCHANGED <<messageRecord, messageFixed, mediatorBalance, held, supply, ackDeploy,
                     bridgedToken, registered>>
  BY StrangersAssumption DEF StrangerSends, balanceVars
<1>2. TypeOK /\ Ledger
  BY DEF IInv, Ledger
<1>3. NoRecord \in Records
  BY DEF NoRecord, Record, Records
<1>4. messageRecord' = [messageRecord EXCEPT ![c][nonce[c]] = NoRecord]
  <2>1. nonce[c] \in Nonces /\ nonce[c] \notin Transfers(c)
    BY <1>1, <1>2, PassMessageEffect DEF Ledger, Transfers
  <2>2. messageRecord[c][nonce[c]] = NoRecord
    BY <1>2, <2>1 DEF Ledger, RecordsAgree
  <2> QED BY <1>1, <1>2, <2>1, <2>2 DEF TypeOK
<1>5. /\ S = {nonce[c]} \/ S = {}
      /\ fromMediator' = [fromMediator EXCEPT ![c] = @ \cup S]
  BY <1>1, <1>2 DEF TypeOK
<1>6. S = {}
  OBVIOUS
<1> HIDE DEF S
<1>7. /\ Ledger' /\ LedgerTypes'
      /\ \A d \in Chains : Transfers(d)' = Transfers(d)
      /\ \A d \in Chains : \A k \in Transfers(d) : call'[d][k] = call[d][k]
  BY <1>1, <1>2, <1>3, <1>4, <1>5, <1>6, SendKeepsLedger
<1>8. TypeOK'
  BY <1>1, <1>2, <1>7 DEF TypeOK, LedgerTypes, Records
<1>9. AcknowledgedIsDeployed'
  BY <1>1, <1>7, TwoChains DEF IInv, AcknowledgedIsDeployed, CanHandleBridged
<1> QED BY <1>1, <1>7, <1>8, <1>9 DEF IInv, Ledger, Registration, LockedIsHeld

(* What administrators and depositors do by themselves.                     *)
LEMMA OthersPreserve ==
    ASSUME IInv,
           \/ \E t \in Tokens, contract \in {"sameDecimals", "otherDecimals"} :
                 SetCustomTokenAddressPair(t, contract)
           \/ \E t \in Tokens : ClaimTokens(t)
           \/ \E t \in Tokens : ForceTokens(t)
    PROVE  IInv'
<1>1. /\ UNCHANGED <<nonce, outcome, call, fromMediator, messageRecord, messageFixed>>
      /\ UNCHANGED <<mediatorBalance, supply, ackDeploy, registered>>
  BY DEF SetCustomTokenAddressPair, ClaimTokens, ForceTokens, channelVars, balanceVars
<1>2. TypeOK /\ Registration /\ LockedIsHeld
  BY DEF IInv
<1> DEFINE Backed ==
             /\ held' \in [Tokens -> Nat]
             /\ \A u \in Tokens : held'[u] >= mediatorBalance[u]
             /\ bridgedToken' \in [Tokens -> {"none", "sameDecimals", "otherDecimals"}]
<1>3. Backed
  <2>1. ASSUME NEW t \in Tokens, NEW contract \in {"sameDecimals", "otherDecimals"},
               SetCustomTokenAddressPair(t, contract)
        PROVE  Backed
    BY <1>2, <2>1 DEF SetCustomTokenAddressPair, balanceVars, TypeOK, LockedIsHeld
  <2>2. ASSUME NEW t \in Tokens, ClaimTokens(t)
        PROVE  Backed
    <3>1. mediatorBalance[t] = 0
      BY <1>2, <2>2 DEF ClaimTokens, Claimable, Registration
    <3>2. held' = [held EXCEPT ![t] = 0] /\ bridgedToken' = bridgedToken
      BY <2>2 DEF ClaimTokens
    <3> QED BY <1>2, <3>1, <3>2 DEF TypeOK, LockedIsHeld
  <2>3. ASSUME NEW t \in Tokens, ForceTokens(t)
        PROVE  Backed
    <3>1. held' = [held EXCEPT ![t] = @ + 1] /\ bridgedToken' = bridgedToken
      BY <2>3 DEF ForceTokens
    <3> QED BY <1>2, <3>1 DEF TypeOK, LockedIsHeld
  <2> QED BY <2>1, <2>2, <2>3
<1>4. TypeOK'
  BY <1>1, <1>2, <1>3 DEF TypeOK
<1>5. /\ Registration' /\ LockedIsHeld' /\ SentOnly'
  BY <1>1, <1>2, <1>3 DEF IInv, Registration, LockedIsHeld, SentOnly
<1>6. \A d \in Chains : Transfers(d)' = Transfers(d)
  BY <1>1 DEF Transfers
<1>7. RecordsAgree' /\ AcknowledgedIsDeployed'
  BY <1>1, <1>6, TwoChains
  DEF IInv, RecordsAgree, Record, NoRecord, AcknowledgedIsDeployed, CanHandleBridged
<1>8. FixesOfFailed' /\ Sides'
  BY <1>1, <1>6 DEF IInv, FixesOfFailed, HasFailed, Sides
<1> QED BY <1>4, <1>5, <1>7, <1>8 DEF IInv

-----------------------------------------------------------------------------
LEMMA InitEstablishes == Init => IInv
<1> SUFFICES ASSUME Init PROVE IInv
  OBVIOUS
<1>1. outcome = [c \in Chains |-> [n \in Nonces |-> "NOT_EXECUTED"]]
  BY DEF Init, Channel!Init
<1>2. \A c \in Chains : Transfers(c) = {}
  BY DEF Init, Transfers
<1>3. NoRecord \in Records
  BY DEF NoRecord, Record, Records
<1>4. TypeOK
  <2>1. \A c \in Chains, n \in Nonces : ~(n < nonce[c]) /\ call[c][n] = NoCall
    BY TokensAssumption DEF Init, Nonces
  <2> QED BY <1>1, <1>3, <2>1, TokensAssumption DEF Init, TypeOK, Records
<1>5. RecordsAgree
  BY <1>2 DEF Init, RecordsAgree
<1>6. SentOnly /\ FixesOfFailed
  BY <1>1, TwoChains DEF Init, SentOnly, FixesOfFailed
<1>7. Sides /\ AcknowledgedIsDeployed
  BY <1>2, TwoChains DEF Sides, AcknowledgedIsDeployed
<1>8. Registration /\ LockedIsHeld
  BY DEF Init, Registration, LockedIsHeld
<1> QED BY <1>4, <1>5, <1>6, <1>7, <1>8 DEF IInv

LEMMA NextPreserves == IInv /\ [Next]_vars => IInv'
<1> SUFFICES ASSUME IInv, [Next]_vars PROVE IInv'
  OBVIOUS
<1>1. ASSUME NEW c \in Chains, NEW t \in Tokens, NEW v \in Values, NEW fee \in FeesOn(c, v),
             RelayTokens(c, t, v, fee)
      PROVE  IInv'
  BY <1>1, RelayPreserves
<1>2. ASSUME NEW t \in Tokens, NEW diff \in Values, FixMediatorBalance(t, diff)
      PROVE  IInv'
  BY <1>2, FixBalancePreserves
<1>3. ASSUME NEW c \in Chains, NEW n \in Nonces, Handle(c, n)
      PROVE  IInv'
  BY <1>3, HandlePreserves
<1>4. ASSUME NEW c \in Chains, NEW n \in Nonces, Revert(c, n)
      PROVE  IInv'
  BY <1>4, RevertPreserves
<1>5. ASSUME NEW c \in Chains, NEW n \in Nonces, RequestFailedMessageFix(c, n)
      PROVE  IInv'
  BY <1>5, RequestPreserves
<1>6. CASE \/ \E t \in Tokens, contract \in {"sameDecimals", "otherDecimals"} :
                 SetCustomTokenAddressPair(t, contract)
           \/ \E t \in Tokens : ClaimTokens(t)
           \/ \E t \in Tokens : ForceTokens(t)
  BY <1>6, OthersPreserve
<1>7. ASSUME NEW c \in Chains, NEW m \in StrangerCalls, StrangerSends(c, m)
      PROVE  IInv'
  BY <1>7, StrangerPreserves
<1>8. CASE UNCHANGED vars
  <2>1. /\ UNCHANGED <<nonce, outcome, call, fromMediator, messageRecord, messageFixed>>
        /\ UNCHANGED <<mediatorBalance, held, supply, ackDeploy, bridgedToken, registered>>
    BY <1>8 DEF vars, channelVars, balanceVars
  <2>2. \A d \in Chains : Transfers(d)' = Transfers(d)
    BY <2>1 DEF Transfers
  <2>3. TypeOK' /\ Registration' /\ LockedIsHeld' /\ SentOnly'
    BY <2>1 DEF IInv, TypeOK, Registration, LockedIsHeld, SentOnly
  <2>4. RecordsAgree' /\ AcknowledgedIsDeployed'
    BY <2>1, <2>2, TwoChains
    DEF IInv, RecordsAgree, Record, NoRecord, AcknowledgedIsDeployed, CanHandleBridged
  <2>5. FixesOfFailed' /\ Sides'
    BY <2>1, <2>2 DEF IInv, FixesOfFailed, HasFailed, Sides
  <2> QED BY <2>3, <2>4, <2>5 DEF IInv
<1> QED BY <1>1, <1>2, <1>3, <1>4, <1>5, <1>6, <1>7, <1>8 DEF Next

(* The books of the mediators stay in agreement: records with messages,     *)
(* fixes with failures, registrations with balances and acknowledgements.   *)
THEOREM MediatorInvariant == Spec => []IInv
BY InitEstablishes, NextPreserves, PTL DEF Spec

(* The state keeps its types; balances and supplies never go below zero.    *)
THEOREM TypeCorrect == Spec => []TypeOK
<1>1. IInv => TypeOK
  BY DEF IInv
<1> QED BY <1>1, MediatorInvariant, PTL

(* Whatever is claimed, fixed, released or sent across, the mediator holds  *)
(* the tokens its books say are locked.                                     *)
THEOREM LockedIsBacked == Spec => []LockedIsHeld
<1>1. IInv => LockedIsHeld
  BY DEF IInv
<1> QED BY <1>1, MediatorInvariant, PTL

(* Every short call in the channel finds its token deployed and registered  *)
(* on the other side, so that no order of execution makes it revert.        *)
THEOREM DeployedBeforeShortCall == Spec => []AcknowledgedIsDeployed
<1>1. IInv => AcknowledgedIsDeployed
  BY DEF IInv
<1> QED BY <1>1, MediatorInvariant, PTL

-----------------------------------------------------------------------------
(* The status of every transfer, as the abstract specification sees it.     *)
Status == [c \in Chains |-> [n \in Nonces |-> TransferStatus(c, n)]]

(* One transfer changes its status.                                         *)
LEMMA StatusStep ==
    ASSUME NEW c \in Chains, NEW n \in Nonces, NEW new, TransferStatus(c, n)' = new,
           \A d \in Chains, k \in Nonces :
               ~(d = c /\ k = n) => TransferStatus(d, k)' = TransferStatus(d, k)
    PROVE  Status' = [Status EXCEPT ![c][n] = new]
BY DEF Status

LEMMA StartRefines ==
    ASSUME IInv, NEW c \in Chains, NEW t \in Tokens, NEW v, Started(c, t, v)
    PROVE  Transfer!Next
<1>1. PICK n \in Nonces : n = nonce[c]
  BY DEF Started
<1>2. /\ v \in Values
      /\ messageRecord' = [messageRecord EXCEPT ![c][n] = Record(t, v)]
      /\ n \notin Transfers(c) /\ n \notin messageFixed[c]
      /\ Transfers(c)' = Transfers(c) \cup {n}
      /\ \A d \in Chains : d # c => Transfers(d)' = Transfers(d)
      /\ messageFixed' = messageFixed /\ outcome' = outcome
      /\ outcome[Other[c]][n] = "NOT_EXECUTED"
  BY <1>1 DEF Started, RecordBridgeOperation
<1>3. TransferStatus(c, n) = "none" /\ TransferStatus(c, n)' = "pending"
  BY <1>2 DEF TransferStatus
<1>4. \A d \in Chains, k \in Nonces :
          ~(d = c /\ k = n) => TransferStatus(d, k)' = TransferStatus(d, k)
  BY <1>2 DEF TransferStatus
<1>5. Status' = [Status EXCEPT ![c][n] = "pending"]
  BY <1>3, <1>4, StatusStep
<1>6. Status[c][n] = "none"
  BY <1>3 DEF Status
<1>7. Transfer!Take(c, t, v)
  BY DEF Started, PrepareMessage, IsNative, Transfer!Take
<1>8. Transfer!Start(c, n, t, v)
  BY <1>2, <1>5, <1>6, <1>7 DEF Transfer!Start, Status, Record
<1> QED BY <1>2, <1>8 DEF Transfer!Next

LEMMA DeliveryRefines ==
    ASSUME IInv, NEW c \in Chains, NEW n \in Nonces, Channel!Deliver(c, n),
           n \in Transfers(Other[c]),
           NEW t, t = call[Other[c]][n].token, NEW v, v = call[Other[c]][n].value,
           NEW isNative \in BOOLEAN, isNative <=> c = Home[t],
           CanRelease(isNative, t, v), ReleaseTokens(isNative, t, v),
           UNCHANGED <<call, fromMediator, messageRecord, messageFixed>>
    PROVE  Transfer!Next
<1>1. /\ outcome[c][n] = "NOT_EXECUTED" /\ TypeOK
      /\ outcome' = [outcome EXCEPT ![c][n] = "EXECUTION_SUCCEEDED"]
  BY DEF Channel!Deliver, IInv
<1>2. /\ outcome'[c][n] = "EXECUTION_SUCCEEDED"
      /\ \A d \in Chains, k \in Nonces : ~(d = c /\ k = n) => outcome'[d][k] = outcome[d][k]
  BY <1>1 DEF TypeOK
<1>3. \A d \in Chains : Transfers(d)' = Transfers(d)
  BY DEF Transfers
<1>4. Other[c] \in Chains /\ Other[Other[c]] = c
  BY TwoChains
<1>5. n \notin messageFixed[Other[c]]
  BY <1>1, <1>4 DEF IInv, FixesOfFailed, HasFailed
<1>6. TransferStatus(Other[c], n) = "pending" /\ TransferStatus(Other[c], n)' = "delivered"
  BY <1>1, <1>2, <1>3, <1>4, <1>5 DEF TransferStatus
<1>7. ASSUME NEW d \in Chains, NEW k \in Nonces, ~(d = Other[c] /\ k = n)
      PROVE  TransferStatus(d, k)' = TransferStatus(d, k)
  <2>1. Other[d] \in Chains /\ ~(Other[d] = c /\ k = n)
    BY <1>4, <1>7, TwoChains
  <2>2. outcome'[Other[d]][k] = outcome[Other[d]][k]
    BY <1>2, <2>1
  <2> QED BY <1>3, <2>2 DEF TransferStatus
<1>8. Status' = [Status EXCEPT ![Other[c]][n] = "delivered"]
  BY <1>4, <1>6, <1>7, StatusStep
<1>9. Status[Other[c]][n] = "pending"
  BY <1>4, <1>6 DEF Status
<1>10. messageRecord[Other[c]][n] = Record(t, v)
  BY <1>4 DEF IInv, RecordsAgree
<1>11. Transfer!Give(c, t, v)
  BY DEF CanRelease, ReleaseTokens, Transfer!Give
<1>12. Transfer!Complete(Other[c], n, c, "delivered")
  BY <1>8, <1>9, <1>10, <1>11 DEF Transfer!Complete, Status, Record
<1>13. c \in Chains \ {Other[c]}
  BY TwoChains
<1> QED BY <1>4, <1>12, <1>13 DEF Transfer!Next

LEMMA FixRefines ==
    ASSUME IInv, NEW c \in Chains, NEW n \in Nonces, Channel!Deliver(c, n),
           n \notin Transfers(Other[c]), NEW of \in Nonces, NotFixed(c, of),
           HasFailed(Other[c], of), messageRecord[c][of].token # NoToken,
           NEW t, t = messageRecord[c][of].token, NEW v, v = messageRecord[c][of].value,
           CanRelease(IsNative(c, t), t, v), ReleaseTokens(IsNative(c, t), t, v),
           messageFixed' = [messageFixed EXCEPT ![c] = @ \cup {of}],
           UNCHANGED <<call, fromMediator, messageRecord>>
    PROVE  Transfer!Next
<1>1. /\ outcome[c][n] = "NOT_EXECUTED" /\ TypeOK
      /\ outcome' = [outcome EXCEPT ![c][n] = "EXECUTION_SUCCEEDED"]
  BY DEF Channel!Deliver, IInv
<1>2. \A d \in Chains, k \in Nonces : ~(d = c /\ k = n) => outcome'[d][k] = outcome[d][k]
  BY <1>1 DEF TypeOK
<1>3. /\ messageFixed'[c] = messageFixed[c] \cup {of}
      /\ \A d \in Chains : d # c => messageFixed'[d] = messageFixed[d]
  BY <1>1 DEF TypeOK
<1>4. \A d \in Chains : Transfers(d)' = Transfers(d)
  BY DEF Transfers
<1>5. Other[c] \in Chains /\ Other[Other[c]] = c /\ Other[c] # c
  BY TwoChains
<1>6. of \in Transfers(c)
  BY RecordOfTransfer
<1>7. TransferStatus(c, of) = "pending" /\ TransferStatus(c, of)' = "refunded"
  BY <1>3, <1>4, <1>6 DEF TransferStatus, NotFixed, HasFailed
<1>8. ASSUME NEW d \in Chains, NEW k \in Nonces, ~(d = c /\ k = of)
      PROVE  TransferStatus(d, k)' = TransferStatus(d, k)
  <2>1. k \in messageFixed'[d] <=> k \in messageFixed[d]
    BY <1>3, <1>8
  <2>2. k \in Transfers(d) => outcome'[Other[d]][k] = outcome[Other[d]][k]
    <3>1. k \in Transfers(d) => ~(Other[d] = c /\ k = n) /\ Other[d] \in Chains
      BY TwoChains
    <3> QED BY <1>2, <3>1
  <2> QED BY <1>4, <2>1, <2>2 DEF TransferStatus
<1>9. Status' = [Status EXCEPT ![c][of] = "refunded"]
  BY <1>7, <1>8, StatusStep
<1>10. Status[c][of] = "pending"
  BY <1>7 DEF Status
<1>11. Transfer!Give(c, t, v)
  BY DEF CanRelease, ReleaseTokens, IsNative, Transfer!Give
<1>12. Transfer!Complete(c, of, c, "refunded")
  BY <1>9, <1>10, <1>11 DEF Transfer!Complete, Status
<1> QED BY <1>12 DEF Transfer!Next

LEMMA HandleRefines ==
    ASSUME IInv, NEW c \in Chains, NEW n \in Nonces, Handle(c, n)
    PROVE  Transfer!Next
<1> DEFINE m == call[Other[c]][n]
<1>1. /\ n \in fromMediator[Other[c]] /\ Channel!Deliver(c, n)
      /\ UNCHANGED <<call, fromMediator, messageRecord>>
      /\ n \in ChannelSent[Other[c]] /\ Other[c] \in Chains
  BY TwoChains DEF Handle, OnlyMediator, Channel!Deliver
<1>2. m \in Calls
  BY <1>1, ExecutedIsCall DEF IInv
<1>3. m.kind \in TransferKinds =>
          /\ n \in Transfers(Other[c]) /\ m.token \in Tokens
          /\ Home[m.token] = IF m.kind = "handleNativeTokens" THEN c ELSE Other[c]
  <2> SUFFICES ASSUME m.kind \in TransferKinds
               PROVE  /\ n \in Transfers(Other[c]) /\ m.token \in Tokens
                      /\ Home[m.token] = IF m.kind = "handleNativeTokens" THEN c ELSE Other[c]
    OBVIOUS
  <2>1. n \in Transfers(Other[c]) /\ m.token \in Tokens
    BY <1>1, <1>2, CallKinds DEF Transfers
  <2>2. IF Other[c] = Home[m.token] THEN m.kind # "handleNativeTokens"
        ELSE m.kind = "handleNativeTokens"
    BY <1>1, <2>1 DEF IInv, Sides
  <2>3. Home[m.token] = c \/ Home[m.token] = Other[c]
    BY <2>1, TwoChains, TokensAssumption
  <2> QED BY <2>1, <2>2, <2>3, TwoChains
<1>4. CASE DeployAndHandleBridgedTokens(c, m) \/ HandleBridgedTokens(c, m)
  <2>1. /\ m.kind \in TransferKinds /\ m.kind # "handleNativeTokens"
        /\ ReleaseTokens(FALSE, m.token, m.value) /\ messageFixed' = messageFixed
    BY <1>4 DEF DeployAndHandleBridgedTokens, HandleBridgedTokens, CanDeploy,
                CanHandleBridged, TransferKinds
  <2>2. CanRelease(FALSE, m.token, m.value) /\ c # Home[m.token]
    BY <1>3, <2>1, TwoChains DEF CanRelease
  <2>3. n \in Transfers(Other[c])
    BY <1>3, <2>1
  <2>4. PICK t, v : t = m.token /\ v = m.value
    OBVIOUS
  <2>5. PICK isNative \in BOOLEAN : isNative = FALSE
    OBVIOUS
  <2>6. /\ isNative <=> c = Home[t]
        /\ CanRelease(isNative, t, v) /\ ReleaseTokens(isNative, t, v)
        /\ UNCHANGED <<call, fromMediator, messageRecord, messageFixed>>
    BY <1>1, <2>1, <2>2, <2>4, <2>5
  <2> HIDE DEF IInv
  <2> QED BY <1>1, <2>3, <2>4, <2>6, DeliveryRefines
<1>5. CASE HandleNativeTokens(m)
  <2>1. /\ m.kind \in TransferKinds /\ m.kind = "handleNativeTokens"
        /\ CanRelease(TRUE, m.token, m.value) /\ ReleaseTokens(TRUE, m.token, m.value)
        /\ messageFixed' = messageFixed
    BY <1>5 DEF HandleNativeTokens, CanHandleNative, TransferKinds
  <2> QED BY <1>1, <1>3, <2>1, DeliveryRefines
<1>6. CASE FixFailedMessage(c, m)
  <2> DEFINE r == messageRecord[c][m.of]
  <2>1. /\ m.kind = "fixFailedMessage" /\ NotFixed(c, m.of) /\ r.token # NoToken
        /\ CanRelease(IsNative(c, r.token), r.token, r.value)
        /\ ReleaseTokens(IsNative(c, r.token), r.token, r.value)
        /\ messageFixed' = [messageFixed EXCEPT ![c] = @ \cup {m.of}]
    BY <1>6 DEF FixFailedMessage, CanFix
  <2>2. /\ m \in FixCalls /\ m.of \in Nonces /\ m \notin TransferCalls
    BY <1>2, <2>1, CallKinds DEF TransferKinds
  <2>3. HasFailed(Other[c], m.of) /\ n \notin Transfers(Other[c])
    BY <1>1, <2>2 DEF IInv, FixesOfFailed, Transfers
  <2>4. PICK of \in Nonces : of = m.of
    BY <2>2
  <2> HIDE DEF m
  <2> QED BY <1>1, <2>1, <2>3, <2>4, FixRefines
<1> QED BY <1>4, <1>5, <1>6 DEF Handle

LEMMA OthersStutter ==
    ASSUME IInv, \A d \in Chains : Transfers(d)' = Transfers(d), messageFixed' = messageFixed,
           \A d \in Chains : \A k \in Nonces :
               outcome'[d][k] = "EXECUTION_SUCCEEDED" <=> outcome[d][k] = "EXECUTION_SUCCEEDED",
           UNCHANGED <<messageRecord, mediatorBalance, supply>>
    PROVE  UNCHANGED Transfer!vars
<1>1. \A d \in Chains, k \in Nonces : TransferStatus(d, k)' = TransferStatus(d, k)
  BY TwoChains DEF TransferStatus
<1>2. Status' = Status
  BY <1>1 DEF Status
<1> QED BY <1>2 DEF Transfer!vars, Status

LEMMA StepRefines ==
    IInv /\ [Next]_vars => [Transfer!Next]_(Transfer!vars)
<1> SUFFICES ASSUME IInv, [Next]_vars PROVE Transfer!Next \/ UNCHANGED Transfer!vars
  OBVIOUS
<1>1. ASSUME NEW c \in Chains, NEW t \in Tokens, NEW v \in Values, NEW fee \in FeesOn(c, v),
             RelayTokens(c, t, v, fee)
      PROVE  Transfer!Next
  <2>1. PICK value : value = v - fee
    OBVIOUS
  <2> QED BY <1>1, <2>1, RelayPreserves, StartRefines
<1>2. ASSUME NEW t \in Tokens, NEW diff \in Values, FixMediatorBalance(t, diff)
      PROVE  Transfer!Next
  BY <1>2, FixBalancePreserves, StartRefines, TokensAssumption
<1>3. ASSUME NEW c \in Chains, NEW n \in Nonces, Handle(c, n)
      PROVE  Transfer!Next
  BY <1>3, HandleRefines
<1>4. ASSUME NEW c \in Chains, NEW n \in Nonces, Revert(c, n)
      PROVE  UNCHANGED Transfer!vars
  <2>1. /\ outcome[c][n] = "NOT_EXECUTED"
        /\ outcome' = [outcome EXCEPT ![c][n] = "EXECUTION_FAILED"]
        /\ UNCHANGED <<call, fromMediator, messageRecord, messageFixed, mediatorBalance, supply>>
    BY <1>4 DEF Revert, Channel!Fail, balanceVars
  <2>2. \A d \in Chains : Transfers(d)' = Transfers(d)
    BY <2>1 DEF Transfers
  <2>3. \A d \in Chains : \A k \in Nonces :
            outcome'[d][k] = "EXECUTION_SUCCEEDED" <=> outcome[d][k] = "EXECUTION_SUCCEEDED"
    BY <2>1 DEF IInv, TypeOK
  <2> QED BY <2>1, <2>2, <2>3, OthersStutter
<1>5. ASSUME NEW c \in Chains, NEW n \in Nonces, RequestFailedMessageFix(c, n)
      PROVE  UNCHANGED Transfer!vars
  <2>1. /\ UNCHANGED <<messageRecord, messageFixed, mediatorBalance, supply>>
        /\ outcome' = outcome
    BY <1>5 DEF RequestFailedMessageFix, MediatorSends, PassMessage, Channel!Send, balanceVars
  <2> QED BY <1>5, <2>1, RequestPreserves, OthersStutter
<1>6. CASE \/ \E t \in Tokens, contract \in {"sameDecimals", "otherDecimals"} :
                 SetCustomTokenAddressPair(t, contract)
           \/ \E t \in Tokens : ClaimTokens(t)
           \/ \E t \in Tokens : ForceTokens(t)
           \/ UNCHANGED vars
  <2>1. /\ UNCHANGED <<outcome, call, fromMediator, messageRecord, messageFixed>>
        /\ UNCHANGED <<mediatorBalance, supply>>
    BY <1>6 DEF SetCustomTokenAddressPair, ClaimTokens, ForceTokens, vars, channelVars,
                balanceVars
  <2>2. \A d \in Chains : Transfers(d)' = Transfers(d)
    BY <2>1 DEF Transfers
  <2> QED BY <2>1, <2>2, OthersStutter
<1>7. ASSUME NEW c \in Chains, NEW m \in StrangerCalls, StrangerSends(c, m)
      PROVE  UNCHANGED Transfer!vars
  <2>1. /\ UNCHANGED <<messageRecord, messageFixed, mediatorBalance, supply>>
        /\ outcome' = outcome
    BY <1>7 DEF StrangerSends, PassMessage, Channel!Send, balanceVars
  <2> QED BY <1>7, <2>1, StrangerPreserves, OthersStutter
<1> QED BY <1>1, <1>2, <1>3, <1>4, <1>5, <1>6, <1>7 DEF Next

LEMMA InitRefines == Init => Transfer!Init
<1> SUFFICES ASSUME Init PROVE Transfer!Init
  OBVIOUS
<1>1. \A c \in Chains, n \in Nonces : TransferStatus(c, n) = "none"
  BY DEF Init, TransferStatus, Transfers
<1> QED BY <1>1 DEF Init, Transfer!Init, NoRecord, Record

(* Every transfer through the two mediators is one of TokenTransfer: taken  *)
(* once, then delivered or refunded at most once, never both, always in the *)
(* amount that was taken, whatever fails and whoever sends messages.        *)
THEOREM MediatorsImplementTokenTransfer == Spec => ImplementsTokenTransfer
BY InitRefines, StepRefines, MediatorInvariant, PTL
DEF Spec, ImplementsTokenTransfer, Transfer!Spec

-----------------------------------------------------------------------------
(* What is in transit is told by the abstract specification's variables.    *)
AmountsFollowRecords ==
    \A c \in Chains, n \in Nonces, t \in Tokens :
        /\ Amount(c, n, t) \in Nat
        /\ Amount(c, n, t) = IF Status[c][n] = "pending" /\ messageRecord[c][n].token = t
                             THEN messageRecord[c][n].value ELSE 0

LEMMA AmountOfRecord == IInv => AmountsFollowRecords
<1> SUFFICES ASSUME IInv, NEW c \in Chains, NEW n \in Nonces, NEW t \in Tokens
             PROVE  /\ Amount(c, n, t) \in Nat
                    /\ Amount(c, n, t) =
                         IF Status[c][n] = "pending" /\ messageRecord[c][n].token = t
                         THEN messageRecord[c][n].value ELSE 0
  BY DEF AmountsFollowRecords
<1>1. Status[c][n] = TransferStatus(c, n)
  BY DEF Status
<1>2. CASE n \in Transfers(c)
  <2>1. messageRecord[c][n] = Record(call[c][n].token, call[c][n].value)
    BY <1>2 DEF IInv, RecordsAgree
  <2>2. call[c][n].value \in Nat
    <3>1. call[c][n] \in TransferCalls
      BY <1>2 DEF Transfers
    <3> QED BY <3>1, TokensAssumption DEF TransferCalls
  <2> QED BY <1>1, <2>1, <2>2 DEF Amount, Record
<1>3. CASE n \notin Transfers(c)
  BY <1>1, <1>3 DEF Amount, TransferStatus
<1> QED BY <1>2, <1>3

LEMMA AmountOfRecordNext == IInv' => AmountsFollowRecords'
BY AmountOfRecord, PTL

LEMMA TransitIsNat ==
    ASSUME IInv, NEW t \in Tokens
    PROVE  /\ InTransit(t) \in Nat
           /\ \A c \in Chains, n \in Nonces : Amount(c, n, t) <= InTransit(t)
<1> DEFINE f(c) == [i \in 1..MaxMessages |-> Amount(c, i - 1, t)]
<1>1. MaxMessages \in Nat
  BY TokensAssumption
<1>2. ASSUME NEW c \in Chains
      PROVE  /\ SumOf(f(c), MaxMessages) \in Nat
             /\ \A n \in Nonces : Amount(c, n, t) <= SumOf(f(c), MaxMessages)
  <2>1. \A i \in 1..MaxMessages : i - 1 \in Nonces
    BY <1>1 DEF Nonces
  <2>2. \A i \in 1..MaxMessages : f(c)[i] = Amount(c, i - 1, t) /\ f(c)[i] \in Nat
    BY <2>1, AmountOfRecord DEF AmountsFollowRecords
  <2> HIDE DEF f
  <2>3. /\ SumOf(f(c), MaxMessages) \in Nat
        /\ \A i \in 1..MaxMessages : f(c)[i] <= SumOf(f(c), MaxMessages)
    BY <1>1, <2>2, SumOfAtLeast
  <2>4. \A n \in Nonces : n + 1 \in 1..MaxMessages /\ (n + 1) - 1 = n
    BY <1>1 DEF Nonces
  <2> QED BY <2>2, <2>3, <2>4
<1>3. Home[t] \in Chains /\ Other[Home[t]] \in Chains
  BY TwoChains, TokensAssumption
<1>4. InTransit(t) = SumOf(f(Home[t]), MaxMessages) + SumOf(f(Other[Home[t]]), MaxMessages)
  BY DEF InTransit
<1> HIDE DEF f
<1>5. \A c \in Chains : c = Home[t] \/ c = Other[Home[t]]
  BY <1>3, TwoChains
<1>6. ASSUME NEW c \in Chains, NEW n \in Nonces
      PROVE  Amount(c, n, t) <= InTransit(t)
  <2>1. Amount(c, n, t) \in Nat
    BY AmountOfRecord DEF AmountsFollowRecords
  <2> QED BY <1>2, <1>3, <1>4, <1>5, <2>1
<1> QED BY <1>2, <1>3, <1>4, <1>6

(* At most one message of one chain changes what is in transit.             *)
LEMMA TransitChange ==
    ASSUME IInv, IInv', NEW t \in Tokens, NEW c \in Chains, NEW n \in Nonces,
           \A d \in Chains, k \in Nonces :
               ~(d = c /\ k = n) => Amount(d, k, t)' = Amount(d, k, t)
    PROVE  InTransit(t)' = InTransit(t) - Amount(c, n, t) + Amount(c, n, t)'
<1> DEFINE f(d) == [i \in 1..MaxMessages |-> Amount(d, i - 1, t)]
           g(d) == [i \in 1..MaxMessages |-> Amount(d, i - 1, t)']
<1>1. MaxMessages \in Nat /\ \A i \in 1..MaxMessages : i - 1 \in Nonces
  BY TokensAssumption DEF Nonces
<1>2. \A d \in Chains, k \in Nonces : Amount(d, k, t) \in Nat /\ Amount(d, k, t)' \in Nat
  BY AmountOfRecord, AmountOfRecordNext DEF AmountsFollowRecords
<1>3. \A d \in Chains : \A i \in 1..MaxMessages :
          /\ f(d)[i] = Amount(d, i - 1, t) /\ g(d)[i] = Amount(d, i - 1, t)'
          /\ f(d)[i] \in Int /\ g(d)[i] \in Int
  BY <1>1, <1>2
<1>4. /\ InTransit(t) = SumOf(f(Home[t]), MaxMessages) + SumOf(f(Other[Home[t]]), MaxMessages)
      /\ InTransit(t)' = SumOf(g(Home[t]), MaxMessages) + SumOf(g(Other[Home[t]]), MaxMessages)
  BY DEF InTransit
<1> HIDE DEF f, g
<1>5. \A d \in Chains : SumOf(f(d), MaxMessages) \in Int /\ SumOf(g(d), MaxMessages) \in Int
  <2>1. MaxMessages \in 0..MaxMessages
    BY <1>1
  <2> QED BY <1>1, <1>3, <2>1, SumOfEquation
<1>6. SumOf(g(c), MaxMessages) = SumOf(f(c), MaxMessages) - Amount(c, n, t) + Amount(c, n, t)'
  <2>1. PICK j \in 1..MaxMessages : j - 1 = n
    <3>1. n + 1 \in 1..MaxMessages /\ (n + 1) - 1 = n
      BY <1>1 DEF Nonces
    <3> QED BY <3>1
  <2>2. \A i \in 1..MaxMessages : i # j => g(c)[i] = f(c)[i]
    <3>1. \A i \in 1..MaxMessages : i # j => i - 1 # n
      BY <1>1, <2>1
    <3> QED BY <1>1, <1>3, <3>1
  <2>3. SumOf(g(c), MaxMessages) = SumOf(f(c), MaxMessages) - f(c)[j] + g(c)[j]
    BY <1>1, <1>3, <2>2, SumOfChange
  <2> QED BY <1>3, <2>1, <2>3
<1>7. ASSUME NEW d \in Chains, d # c
      PROVE  SumOf(g(d), MaxMessages) = SumOf(f(d), MaxMessages)
  <2>1. \A i \in 1..MaxMessages : g(d)[i] = f(d)[i]
    BY <1>1, <1>3, <1>7
  <2> QED BY <1>1, <1>3, <2>1, SumOfSame
<1>8. /\ Home[t] \in Chains /\ Other[Home[t]] \in Chains /\ Other[Home[t]] # Home[t]
      /\ c = Home[t] \/ c = Other[Home[t]]
  BY TwoChains, TokensAssumption
<1>9. Amount(c, n, t) \in Int /\ Amount(c, n, t)' \in Int
  BY <1>2
<1> QED BY <1>4, <1>5, <1>6, <1>7, <1>8, <1>9

LEMMA TransitOfRecord ==
    ASSUME IInv, IInv', NEW c \in Chains, NEW n \in Nonces,
           \A d \in Chains, k \in Nonces :
               ~(d = c /\ k = n) => /\ Status'[d][k] = Status[d][k]
                                    /\ messageRecord'[d][k] = messageRecord[d][k]
    PROVE  \A t \in Tokens :
               /\ InTransit(t) \in Nat
               /\ InTransit(t)' = InTransit(t)
                    - (IF Status[c][n] = "pending" /\ messageRecord[c][n].token = t
                       THEN messageRecord[c][n].value ELSE 0)
                    + (IF Status'[c][n] = "pending" /\ messageRecord'[c][n].token = t
                       THEN messageRecord'[c][n].value ELSE 0)
<1> TAKE t \in Tokens
<1>1. \A d \in Chains, k \in Nonces :
          Amount(d, k, t) = IF Status[d][k] = "pending" /\ messageRecord[d][k].token = t
                            THEN messageRecord[d][k].value ELSE 0
  BY AmountOfRecord DEF AmountsFollowRecords
<1>2. \A d \in Chains, k \in Nonces :
          Amount(d, k, t)' = IF Status'[d][k] = "pending" /\ messageRecord'[d][k].token = t
                             THEN messageRecord'[d][k].value ELSE 0
  BY AmountOfRecordNext DEF AmountsFollowRecords
<1>3. InTransit(t) \in Nat
  BY TransitIsNat
<1> HIDE DEF IInv, Amount, InTransit, Status
<1>5. InTransit(t)' = InTransit(t) - Amount(c, n, t) + Amount(c, n, t)'
  BY <1>1, <1>2, TransitChange
<1> QED BY <1>1, <1>2, <1>3, <1>5

(* Whatever the abstract specification does leaves the locked tokens equal  *)
(* to those that exist on the other side and those in transit.              *)
LEMMA TransferKeepsCover ==
    ASSUME IInv, IInv', LockedCoversBridged, Transfer!Next
    PROVE  LockedCoversBridged'
<1>1. /\ mediatorBalance \in [Tokens -> Nat] /\ supply \in [Tokens -> Nat]
      /\ messageRecord \in [Chains -> [Nonces -> Records]]
  BY DEF IInv, TypeOK, Records
<1>2. ASSUME NEW c \in Chains, NEW n \in Nonces, NEW t \in Tokens, NEW v \in Values,
             Transfer!Start(c, n, t, v)
      PROVE  LockedCoversBridged'
  <2>1. /\ Status[c][n] = "none" /\ Status' = [Status EXCEPT ![c][n] = "pending"]
        /\ messageRecord' = [messageRecord EXCEPT ![c][n] = Record(t, v)]
        /\ Transfer!Take(c, t, v)
    BY <1>2 DEF Transfer!Start, Status, Record
  <2>2. /\ Status'[c][n] = "pending" /\ messageRecord'[c][n] = Record(t, v)
        /\ \A d \in Chains, k \in Nonces :
              ~(d = c /\ k = n) => /\ Status'[d][k] = Status[d][k]
                                   /\ messageRecord'[d][k] = messageRecord[d][k]
    <3>1. Status \in [Chains -> [Nonces -> {"none", "pending", "delivered", "refunded"}]]
      BY DEF Status, TransferStatus
    <3> HIDE DEF Status
    <3> QED BY <1>1, <2>1, <3>1
  <2> HIDE DEF IInv, InTransit, Status
  <2>3. \A u \in Tokens :
            /\ InTransit(u) \in Nat
            /\ InTransit(u)' = InTransit(u) + (IF u = t THEN v ELSE 0)
    <3>1. v \in Nat /\ Record(t, v).token = t /\ Record(t, v).value = v
      BY TokensAssumption DEF Record
    <3> QED BY <2>1, <2>2, <3>1, TransitOfRecord
  <2>4. \A u \in Tokens : /\ mediatorBalance[u] = supply[u] + InTransit(u)
                          /\ mediatorBalance[u] \in Nat /\ supply[u] \in Nat /\ v \in Nat
    BY <1>1, TokensAssumption DEF LockedCoversBridged
  <2>5. \A u \in Tokens :
            mediatorBalance'[u] - supply'[u]
              = mediatorBalance[u] - supply[u] + (IF u = t THEN v ELSE 0)
    BY <1>1, <2>1, <2>4 DEF Transfer!Take
  <2>6. \A u \in Tokens : mediatorBalance'[u] \in Int /\ supply'[u] \in Int
    BY <1>1, <2>1, <2>4 DEF Transfer!Take
  <2> QED BY <2>3, <2>4, <2>5, <2>6 DEF LockedCoversBridged
<1>3. ASSUME NEW c \in Chains, NEW n \in Nonces, NEW d \in Chains,
             NEW result \in {"delivered", "refunded"}, Transfer!Complete(c, n, d, result)
      PROVE  LockedCoversBridged'
  <2> DEFINE t == messageRecord[c][n].token
             v == messageRecord[c][n].value
  <2>1. /\ Status[c][n] = "pending" /\ Status' = [Status EXCEPT ![c][n] = result]
        /\ messageRecord' = messageRecord /\ Transfer!Give(d, t, v)
    BY <1>3 DEF Transfer!Complete, Status
  <2>2. /\ Status'[c][n] # "pending"
        /\ \A e \in Chains, k \in Nonces :
              ~(e = c /\ k = n) => /\ Status'[e][k] = Status[e][k]
                                   /\ messageRecord'[e][k] = messageRecord[e][k]
    <3>1. Status \in [Chains -> [Nonces -> {"none", "pending", "delivered", "refunded"}]]
      BY DEF Status, TransferStatus
    <3> HIDE DEF Status
    <3> QED BY <2>1, <3>1
  <2>3. v \in Nat
    <3>1. messageRecord[c][n] \in Records /\ Values \cup {0} \subseteq Nat
      BY <1>1, TokensAssumption
    <3> QED BY <3>1 DEF Records
  <2> HIDE DEF IInv, InTransit, Status
  <2>4. \A u \in Tokens :
            /\ InTransit(u) \in Nat
            /\ InTransit(u)' = InTransit(u) - (IF u = t THEN v ELSE 0)
    BY <2>1, <2>2, <2>3, TransitOfRecord
  <2>5. \A u \in Tokens : /\ mediatorBalance[u] = supply[u] + InTransit(u)
                          /\ mediatorBalance[u] \in Nat /\ supply[u] \in Nat
    BY <1>1 DEF LockedCoversBridged
  <2> HIDE DEF t, v
  <2>6. \A u \in Tokens :
            mediatorBalance'[u] - supply'[u]
              = mediatorBalance[u] - supply[u] - (IF u = t THEN v ELSE 0)
    BY <1>1, <2>1, <2>3, <2>5 DEF Transfer!Give
  <2>7. \A u \in Tokens : mediatorBalance'[u] \in Int /\ supply'[u] \in Int
    BY <1>1, <2>1, <2>3, <2>5 DEF Transfer!Give
  <2> QED BY <2>3, <2>4, <2>5, <2>6, <2>7 DEF LockedCoversBridged
<1> QED BY <1>2, <1>3 DEF Transfer!Next

LEMMA StutterKeepsCover ==
    ASSUME IInv, IInv', LockedCoversBridged, UNCHANGED Transfer!vars
    PROVE  LockedCoversBridged'
<1>1. /\ UNCHANGED <<messageRecord, mediatorBalance, supply>>
      /\ Status' = Status
  BY DEF Transfer!vars, Status
<1>2. ASSUME NEW t \in Tokens
      PROVE  InTransit(t)' = InTransit(t)
  <2>1. \A c \in Chains, n \in Nonces :
            Amount(c, n, t) = IF Status[c][n] = "pending" /\ messageRecord[c][n].token = t
                              THEN messageRecord[c][n].value ELSE 0
    BY AmountOfRecord DEF AmountsFollowRecords
  <2>2. \A c \in Chains, n \in Nonces :
            Amount(c, n, t)' = IF Status'[c][n] = "pending" /\ messageRecord'[c][n].token = t
                               THEN messageRecord'[c][n].value ELSE 0
    BY AmountOfRecordNext DEF AmountsFollowRecords
  <2>3. \A c \in Chains, n \in Nonces : Amount(c, n, t)' = Amount(c, n, t)
    <3> HIDE DEF Amount, Status
    <3> QED BY <1>1, <2>1, <2>2
  <2>4. \A i \in 1..MaxMessages : i - 1 \in Nonces
    BY TokensAssumption DEF Nonces
  <2>5. Home[t] \in Chains /\ Other[Home[t]] \in Chains
    BY TwoChains, TokensAssumption
  <2> HIDE DEF Amount
  <2> QED BY <2>3, <2>4, <2>5 DEF InTransit
<1> QED BY <1>1, <1>2 DEF LockedCoversBridged

LEMMA InitIsCovered == Init => LockedCoversBridged
<1> SUFFICES ASSUME Init, NEW t \in Tokens
             PROVE  mediatorBalance[t] = supply[t] + InTransit(t)
  BY DEF LockedCoversBridged
<1> DEFINE f(c) == [i \in 1..MaxMessages |-> Amount(c, i - 1, t)]
<1>1. MaxMessages \in Nat /\ 0 \in Int /\ \A i \in 1..MaxMessages : i - 1 \in Nonces
  BY TokensAssumption DEF Nonces
<1>2. \A c \in Chains, n \in Nonces : Amount(c, n, t) = 0
  <2>1. \A c \in Chains, n \in Nonces : TransferStatus(c, n) = "none"
    BY DEF Init, TransferStatus, Transfers
  <2> QED BY <2>1 DEF Amount
<1>3. ASSUME NEW c \in Chains
      PROVE  SumOf(f(c), MaxMessages) = 0
  <2> DEFINE zero == [i \in 1..MaxMessages |-> 0]
  <2>1. f(c) = zero
    <3> HIDE DEF Amount
    <3> QED BY <1>1, <1>2
  <2>2. SumOf(zero, MaxMessages) = MaxMessages * 0
    BY <1>1, SumOfConstant
  <2> HIDE DEF f, zero
  <2> QED BY <1>1, <2>1, <2>2
<1>4. InTransit(t) = SumOf(f(Home[t]), MaxMessages) + SumOf(f(Other[Home[t]]), MaxMessages)
  BY DEF InTransit
<1>5. Home[t] \in Chains /\ Other[Home[t]] \in Chains
  BY TwoChains, TokensAssumption
<1>6. InTransit(t) = 0
  <2> HIDE DEF f
  <2> QED BY <1>3, <1>4, <1>5
<1> QED BY <1>6 DEF Init

(* What a mediator has locked is what exists across the bridge and what is  *)
(* on its way, for any number of messages, however they fail and are fixed. *)
THEOREM LockedIsCovered == Spec => []LockedCoversBridged
<1>1. Init => LockedCoversBridged
  BY InitIsCovered
<1>2. IInv /\ IInv' /\ LockedCoversBridged /\ [Next]_vars => LockedCoversBridged'
  BY StepRefines, TransferKeepsCover, StutterKeepsCover
<1> QED BY <1>1, <1>2, MediatorInvariant, PTL DEF Spec

(* A transfer that is neither delivered nor refunded yet can be: the tokens *)
(* that it took are still in the books of the mediator, and in its hands.   *)
PendingIsCovered ==
    \A c \in Chains, n \in Nonces :
        TransferStatus(c, n) = "pending" =>
            CanRelease(TRUE, call[c][n].token, call[c][n].value)

(* Neither the delivery of a native token nor its refund ever reverts for   *)
(* want of locked tokens, whichever of the pending ones come first.         *)
THEOREM PendingCanBeGiven == Spec => []PendingIsCovered
<1>1. ASSUME IInv, LockedCoversBridged, NEW c \in Chains, NEW n \in Nonces,
             TransferStatus(c, n) = "pending"
      PROVE  CanRelease(TRUE, call[c][n].token, call[c][n].value)
  <2>1. PICK t \in Tokens : t = call[c][n].token
    BY <1>1 DEF TransferStatus, Transfers, TransferCalls
  <2>2. Amount(c, n, t) = call[c][n].value /\ Amount(c, n, t) \in Nat
    BY <1>1, <2>1, AmountOfRecord DEF Amount, AmountsFollowRecords
  <2>3. Amount(c, n, t) <= InTransit(t) /\ InTransit(t) \in Nat
    BY <1>1, TransitIsNat
  <2>4. /\ mediatorBalance[t] = supply[t] + InTransit(t) /\ held[t] >= mediatorBalance[t]
        /\ supply[t] \in Nat /\ mediatorBalance[t] \in Nat /\ held[t] \in Nat
    BY <1>1 DEF LockedCoversBridged, IInv, LockedIsHeld, TypeOK
  <2> HIDE DEF IInv
  <2> QED BY <2>1, <2>2, <2>3, <2>4 DEF CanRelease
<1>2. IInv /\ LockedCoversBridged => PendingIsCovered
  BY <1>1 DEF PendingIsCovered
<1> QED BY <1>2, MediatorInvariant, LockedIsCovered, PTL
=============================================================================
