---------------------------- MODULE TrustlessAMB ----------------------------
(***************************************************************************)
(* The message bridge, contracts/amb/TrustlessAMB.sol, deployed on both    *)
(* chains.  requireToPassMessage records a message in the storage of the   *)
(* contract and emits a log; executeMessage and executeMessageFromLog run  *)
(* it on the other chain against a proof, of the storage slot or of the    *)
(* log, that leads to a beacon header the light client there has verified. *)
(*                                                                         *)
(* A transaction is atomic on its chain, but the receiver of a message is  *)
(* arbitrary code that runs in the middle of it and may call the bridge    *)
(* again; if the receiver reverts, everything it did is undone.  So an     *)
(* execution is two steps, the call and its return, with the frame of the  *)
(* call on a stack.                                                        *)
(*                                                                         *)
(* A hash is as good as what it hashes: a message stands for its keccak256, *)
(* and a storage root is named by the slot whose block it belongs to.      *)
(***************************************************************************)
EXTENDS Integers, Sequences, FiniteSets

CONSTANTS
    Chains,         \* home and foreign
    Other,          \* Other[c] is the chain whose otherSideAMB c trusts
    Senders,        \* applications that call requireToPassMessage
    Receivers,
    GasLimits,
    Payloads,
    MaxGasPerTx,    \* maxGasPerTx
    TxIndexes,      \* positions in its block of a transaction that sends
    SlotsPerHistoricalRoot,  \* SLOTS_PER_HISTORICAL_ROOT
    MaxMessages,    \* bound: MaxMessages[c] messages are sent on chain c
    MaxSlot,        \* bound: chain c has MaxSlot[c] slots
    MaxCallDepth,   \* bound: executions nested in each other
    Zero,           \* bytes32(0): an unset storage word
    Empty           \* EMPTY_MESSAGE_ID and EMPTY_ADDRESS

Nonces == UNION {0..(MaxMessages[c] - 1) : c \in Chains}
Slots == UNION {1..MaxSlot[c] : c \in Chains}

(* abi.encode(nonce, msg.sender, receiver, gasLimit, data) *)
Messages == [nonce: Nonces, sender: Senders, receiver: Receivers,
             gasLimit: GasLimits, data: Payloads]

Statuses == {"NOT_EXECUTED", "EXECUTION_SUCCEEDED", "EXECUTION_FAILED"}

ASSUME ChainAssumption ==
    /\ Other \in [Chains -> Chains]
    /\ \A c \in Chains : Other[c] # c /\ Other[Other[c]] = c

ASSUME BoundAssumption ==
    /\ MaxMessages \in [Chains -> Nat]
    /\ MaxSlot \in [Chains -> Nat]
    /\ MaxCallDepth \in Nat
    /\ SlotsPerHistoricalRoot \in Nat \ {0}
    /\ GasLimits \subseteq Nat /\ MaxGasPerTx \in Nat
    /\ TxIndexes \subseteq Nat

ASSUME ValueAssumption ==
    /\ Zero \notin Messages /\ Zero \notin Slots
    /\ Empty \notin Messages /\ Empty \notin Senders

VARIABLES
    nonce, sentMessages, executionStatus, storageRoot,  \* the contract, by chain
    messageId, messageSender,
    calls,        \* executions in progress, each with what a revert restores
    delivered,    \* state of the receivers: how often each has processed m
    pendingLogs,  \* SentMessage logs of the block being built
    blocks,       \* blocks[c][slot]: the storage and the logs of the payload
    known         \* known[c]: slots of Other[c] the light client on c has verified

contract == <<nonce, sentMessages, executionStatus, storageRoot>>
context == <<messageId, messageSender>>
vars == <<contract, context, calls, delivered, pendingLogs, blocks, known>>

Logs == [message: Messages, txIndex: TxIndexes]
Sendable == {m \in Messages : m.gasLimit <= MaxGasPerTx}
Storage == [Nonces -> Sendable \cup {Zero}]
Blocks == [sent: Storage, logs: SUBSET Logs, missed: BOOLEAN]

(* The part of the state of one chain that the receiver of a message can    *)
(* change, and a revert undoes.                                             *)
Journals == [nonce: Nat, sentMessages: Storage,
             executionStatus: [Messages -> Statuses],
             storageRoot: [Slots -> Slots \cup {Zero}],
             delivered: [Messages -> Nat], pendingLogs: SUBSET Logs]

Frames == [message: Messages, saved: Journals]

TypeOK ==
    /\ nonce \in [Chains -> Nat]
    /\ sentMessages \in [Chains -> Storage]
    /\ executionStatus \in [Chains -> [Messages -> Statuses]]
    /\ storageRoot \in [Chains -> [Slots -> Slots \cup {Zero}]]
    /\ messageId \in [Chains -> Messages \cup {Empty}]
    /\ messageSender \in [Chains -> Senders \cup {Empty}]
    /\ calls \in [Chains -> Seq(Frames)]
    /\ delivered \in [Chains -> [Messages -> Nat]]
    /\ pendingLogs \in [Chains -> SUBSET Logs]
    /\ blocks \in [Chains -> Seq(Blocks)]
    /\ \A c \in Chains : Len(blocks[c]) <= MaxSlot[c]
    /\ known \in [Chains -> SUBSET Slots]

(* Both contracts are initialized by the deployment, once.                 *)
Init ==
    /\ nonce = [c \in Chains |-> 0]
    /\ sentMessages = [c \in Chains |-> [n \in Nonces |-> Zero]]
    /\ executionStatus = [c \in Chains |-> [m \in Messages |-> "NOT_EXECUTED"]]
    /\ storageRoot = [c \in Chains |-> [s \in Slots |-> Zero]]
    /\ messageId = [c \in Chains |-> Empty]
    /\ messageSender = [c \in Chains |-> Empty]
    /\ calls = [c \in Chains |-> <<>>]
    /\ delivered = [c \in Chains |-> [m \in Messages |-> 0]]
    /\ pendingLogs = [c \in Chains |-> {}]
    /\ blocks = [c \in Chains |-> <<>>]
    /\ known = [c \in Chains |-> {}]

-----------------------------------------------------------------------------
(* Sending, from a transaction of its own or from the receiver of a message *)
(* that is being executed.                                                  *)
WithinGasLimit(gasLimit) == gasLimit <= MaxGasPerTx

NextNonce_Kept(n) == n                                             \* mutant
NextNonce(n) == n + 1

RequireToPassMessage(c, sender, receiver, gasLimit, data, txIndex) ==
    LET m == [nonce |-> nonce[c], sender |-> sender, receiver |-> receiver,
              gasLimit |-> gasLimit, data |-> data]
    IN  /\ nonce[c] < MaxMessages[c]
        /\ WithinGasLimit(gasLimit)
        /\ sentMessages' = [sentMessages EXCEPT ![c][nonce[c]] = m]
        /\ nonce' = [nonce EXCEPT ![c] = NextNonce(@)]
        /\ pendingLogs' = [pendingLogs EXCEPT
                             ![c] = @ \cup {[message |-> m, txIndex |-> txIndex]}]
        /\ UNCHANGED <<executionStatus, storageRoot, context, calls, delivered, blocks, known>>

-----------------------------------------------------------------------------
(* Proofs.  A header of slot s proves the storage of the AMB in its block,  *)
(* and the storage proves what is recorded under a nonce.                   *)
StorageProven_AnyValue(c, root, m) ==                              \* mutant
    blocks[Other[c]][root].sent[m.nonce] # Zero
StorageProven(c, root, m) == blocks[Other[c]][root].sent[m.nonce] = m

(* The slot whose state a Merkle proof at the index chosen by the contract  *)
(* leads to, in the state of the source slot; Zero if there is none.        *)
HistoricalBatch(target) == target \div SlotsPerHistoricalRoot
ProvenSlot_OffByOne(source, target) ==                             \* mutant
    IF target = source
    THEN source
    ELSE IF target + SlotsPerHistoricalRoot - 1 <= source
    THEN IF (HistoricalBatch(target) + 1) * SlotsPerHistoricalRoot <= source
         THEN target ELSE Zero
    ELSE IF target < source
    THEN CHOOSE s \in (source - SlotsPerHistoricalRoot)..(source - 1) :
            s % SlotsPerHistoricalRoot = target % SlotsPerHistoricalRoot
    ELSE Zero
ProvenSlot(source, target) ==
    IF target = source
    THEN source                                \* latest_execution_payload_header
    ELSE IF target + SlotsPerHistoricalRoot <= source
    THEN IF (HistoricalBatch(target) + 1) * SlotsPerHistoricalRoot <= source
         THEN target ELSE Zero                 \* historical_roots
    ELSE IF target < source
    THEN CHOOSE s \in (source - SlotsPerHistoricalRoot)..(source - 1) :
            s % SlotsPerHistoricalRoot = target % SlotsPerHistoricalRoot
                                               \* state_roots
    ELSE Zero

(* Keys of the receipts trie as byte strings, as RLP encodes them (external) *)
(* and as the contract computes them.                                        *)
ReceiptKey(i) ==
    IF i = 0 THEN <<128>>
    ELSE IF i < 128 THEN <<i>>
    ELSE IF i < 256 THEN <<129, i>>
    ELSE <<130, i \div 256, i % 256>>

rlpIndex(v) ==
    IF v < 128 THEN <<128>>
    ELSE IF v < 256 THEN <<129, v>>
    ELSE <<130, v \div 256, v % 256>>

LogProven(c, slot, txIndex, m) ==
    /\ slot \in 1..Len(blocks[Other[c]])
    /\ \E log \in blocks[Other[c]][slot].logs :
         log.message = m /\ ReceiptKey(log.txIndex) = rlpIndex(txIndex)

-----------------------------------------------------------------------------
(* Executing.                                                              *)
NotExecuted_RetryFailed(c, m) ==                                   \* mutant
    executionStatus[c][m] # "EXECUTION_SUCCEEDED"
NotExecuted(c, m) == executionStatus[c][m] = "NOT_EXECUTED"

NoExecutionInProgress_Skipped(c) == TRUE                           \* mutant
NoExecutionInProgress(c) == messageId[c] = Empty

Journal(c) ==
    [nonce |-> nonce[c], sentMessages |-> sentMessages[c],
     executionStatus |-> executionStatus[c], storageRoot |-> storageRoot[c],
     delivered |-> delivered[c], pendingLogs |-> pendingLogs[c]]

(* The receiver is called with the message as context.                      *)
CallReceiver(c, m, saved) ==
    /\ NoExecutionInProgress(c)
    /\ Len(calls[c]) < MaxCallDepth
    /\ messageId' = [messageId EXCEPT ![c] = m]
    /\ messageSender' = [messageSender EXCEPT ![c] = m.sender]
    /\ calls' = [calls EXCEPT ![c] = Append(@, [message |-> m, saved |-> saved])]

(* The storage root proven for a slot is kept for later executions, which   *)
(* then need neither the light client nor the account proof.                *)
RootForSlot_AnyCached(c, slot) ==                                  \* mutant
    IF \E s \in Slots : storageRoot[c][s] # Zero
    THEN CHOOSE r \in {storageRoot[c][s] : s \in Slots} : r # Zero
    ELSE slot
RootForSlot(c, slot) ==
    IF storageRoot[c][slot] # Zero THEN storageRoot[c][slot] ELSE slot

ExecuteMessage(c, sourceSlot, m) ==
    LET root == RootForSlot(c, sourceSlot)
        saved == [Journal(c) EXCEPT !.storageRoot[sourceSlot] = root]
    IN  /\ NotExecuted(c, m)
        /\ storageRoot[c][sourceSlot] # Zero \/ sourceSlot \in known[c]
        /\ StorageProven(c, root, m)
        /\ CallReceiver(c, m, saved)
        /\ storageRoot' = [storageRoot EXCEPT ![c][sourceSlot] = root]
        /\ UNCHANGED <<nonce, sentMessages, executionStatus, delivered, pendingLogs,
                       blocks, known>>

ExecuteMessageFromLog(c, sourceSlot, targetSlot, txIndex, m) ==
    /\ NotExecuted(c, m)
    /\ sourceSlot \in known[c]
    /\ LogProven(c, ProvenSlot(sourceSlot, targetSlot), txIndex, m)
    /\ CallReceiver(c, m, Journal(c))
    /\ UNCHANGED <<contract, delivered, pendingLogs, blocks, known>>

(* The receiver has returned; if it reverted, what it did is undone, the    *)
(* bridge's own bookkeeping is not.                                         *)
ClearContext_KeepSender(c) ==                                      \* mutant
    /\ messageId' = [messageId EXCEPT ![c] = Empty]
    /\ UNCHANGED messageSender
ClearContext(c) ==
    /\ messageId' = [messageId EXCEPT ![c] = Empty]
    /\ messageSender' = [messageSender EXCEPT ![c] = Empty]

Restore(c, saved) ==
    /\ nonce' = [nonce EXCEPT ![c] = saved.nonce]
    /\ sentMessages' = [sentMessages EXCEPT ![c] = saved.sentMessages]
    /\ storageRoot' = [storageRoot EXCEPT ![c] = saved.storageRoot]
    /\ delivered' = [delivered EXCEPT ![c] = saved.delivered]
    /\ pendingLogs' = [pendingLogs EXCEPT ![c] = saved.pendingLogs]

LastCall(c) == calls[c][Len(calls[c])]

ReceiverReturns(c) ==
    /\ calls[c] # <<>>
    /\ calls' = [calls EXCEPT ![c] = SubSeq(@, 1, Len(@) - 1)]
    /\ ClearContext(c)
    /\ executionStatus' = [executionStatus EXCEPT
                             ![c][LastCall(c).message] = "EXECUTION_SUCCEEDED"]
    /\ delivered' = [delivered EXCEPT ![c][LastCall(c).message] = @ + 1]
    /\ UNCHANGED <<nonce, sentMessages, storageRoot, pendingLogs, blocks, known>>

ReceiverReverts(c) ==
    /\ calls[c] # <<>>
    /\ calls' = [calls EXCEPT ![c] = SubSeq(@, 1, Len(@) - 1)]
    /\ ClearContext(c)
    /\ Restore(c, LastCall(c).saved)
    /\ executionStatus' =
         [executionStatus EXCEPT
            ![c] = [LastCall(c).saved.executionStatus EXCEPT
                      ![LastCall(c).message] = "EXECUTION_FAILED"]]
    /\ UNCHANGED <<blocks, known>>

-----------------------------------------------------------------------------
(* The chains and the light clients between them (external).  A missed slot *)
(* has the payload of the block before it; no header is verified for it.    *)
NextSlot(c, missed) ==
    /\ calls[c] = <<>>
    /\ Len(blocks[c]) < MaxSlot[c]
    /\ missed => blocks[c] # <<>>
    /\ blocks' = [blocks EXCEPT ![c] = Append(@,
         IF missed THEN [@[Len(@)] EXCEPT !.missed = TRUE]
         ELSE [sent |-> sentMessages[c], logs |-> pendingLogs[c], missed |-> FALSE])]
    /\ pendingLogs' = IF missed THEN pendingLogs
                                ELSE [pendingLogs EXCEPT ![c] = {}]
    /\ UNCHANGED <<contract, context, calls, delivered, known>>

(* HeaderStore!Publish: the light client on c installs a newer head.       *)
HeaderVerified(c, slot) ==
    /\ slot <= Len(blocks[Other[c]])
    /\ ~blocks[Other[c]][slot].missed
    /\ \A s \in known[c] : s < slot
    /\ known' = [known EXCEPT ![c] = @ \cup {slot}]
    /\ UNCHANGED <<contract, context, calls, delivered, pendingLogs, blocks>>

Execute(c, m) ==
    \/ \E s \in Slots : ExecuteMessage(c, s, m)
    \/ \E s, t \in Slots, i \in TxIndexes : ExecuteMessageFromLog(c, s, t, i, m)

Next ==
    \E c \in Chains :
        \/ \E sender \in Senders, receiver \in Receivers, gasLimit \in GasLimits,
              data \in Payloads, txIndex \in TxIndexes :
             RequireToPassMessage(c, sender, receiver, gasLimit, data, txIndex)
        \/ \E m \in Messages : Execute(c, m)
        \/ ReceiverReturns(c)
        \/ ReceiverReverts(c)
        \/ \E missed \in BOOLEAN : NextSlot(c, missed)
        \/ \E slot \in Slots : HeaderVerified(c, slot)

Spec == Init /\ [][Next]_vars

-----------------------------------------------------------------------------
(* The receivers process a message at most once, and the recorded outcome   *)
(* is the truth about it: not even a receiver that calls the bridge back    *)
(* while it runs, before the outcome is recorded, can have it run twice.    *)
DeliveredOnce ==
    \A c \in Chains, m \in Messages :
        /\ delivered[c][m] <= 1
        /\ delivered[c][m] = 1 <=> executionStatus[c][m] = "EXECUTION_SUCCEEDED"

(* Nothing is executed, successfully or not, that was not recorded in the   *)
(* storage of the other side's contract in a block of the other chain.      *)
SentOnOtherSide(c, m) ==
    \E s \in 1..Len(blocks[Other[c]]) : blocks[Other[c]][s].sent[m.nonce] = m

OnlySentExecuted ==
    \A c \in Chains, m \in Messages :
        executionStatus[c][m] # "NOT_EXECUTED" => SentOnOtherSide(c, m)

(* messageId() and messageSender(), by which a receiver decides whether to  *)
(* trust its caller, are those of the message being executed, and name      *)
(* nobody as soon as no message is: never a leftover of an earlier one.     *)
ContextIsCurrent ==
    \A c \in Chains :
        IF calls[c] = <<>>
        THEN messageId[c] = Empty /\ messageSender[c] = Empty
        ELSE /\ messageId[c] = LastCall(c).message
             /\ messageSender[c] = LastCall(c).message.sender

(* A cached storage root is the root of the very slot it is cached for, and *)
(* the light client has verified that slot, whatever calls were undone.     *)
CachedRootsVerified ==
    \A c \in Chains, s \in Slots :
        storageRoot[c][s] # Zero => storageRoot[c][s] = s /\ s \in known[c]

(* A message in a finished block stays where it is: later messages, and     *)
(* reverted ones, never take its nonce.                                     *)
SentMessagesStay ==
    \A c \in Chains : \A s \in 1..Len(blocks[c]), n \in Nonces :
        blocks[c][s].sent[n] # Zero => sentMessages[c][n] = blocks[c][s].sent[n]

(* Whatever the age of a log, the contract looks for it at an index where   *)
(* the state of every later verified header has it.                         *)
LogsStayProvable ==
    \A c \in Chains : \A source \in known[c] : \A target \in 1..source :
        \A log \in blocks[Other[c]][target].logs : \E i \in TxIndexes :
            LogProven(c, ProvenSlot(source, target), i, log.message)

(* The outside of the bridge: what is visible between two transactions.     *)
Outermost(c) == IF calls[c] = <<>> THEN Journal(c) ELSE calls[c][1].saved
SentOf(journal) == {journal.sentMessages[n] : n \in Nonces} \ {Zero}
ChannelSent == [c \in Chains |-> SentOf(Outermost(c))]
ChannelOutcome == [c \in Chains |-> Outermost(c).executionStatus]
Channel == INSTANCE MessageChannel WITH sent <- ChannelSent, outcome <- ChannelOutcome

(* The pair of contracts is the channel the applications are promised: at   *)
(* most one outcome, only of what was sent, and all or nothing.             *)
ImplementsMessageChannel == Channel!Spec
=============================================================================
