------------------------ MODULE TrustlessAMBProofs -------------------------
(***************************************************************************)
(* Proofs about the message bridge and about its executors, for any         *)
(* applications, messages and number of slots.                             *)
(***************************************************************************)
EXTENDS AMBExecutors, ArithmeticProofs, SequenceTheorems, TLAPS

USE ChainAssumption, BoundAssumption, ValueAssumption

LEMMA FrontOfSeq ==
    ASSUME NEW S, NEW q \in Seq(S), q # <<>>
    PROVE  SubSeq(q, 1, Len(q) - 1) \in Seq(S) /\ q[Len(q)] \in S
<1>1. Len(q) \in Nat \ {0}
  OBVIOUS
<1>2. \A i \in 1..(Len(q) - 1) : q[i] \in S
  BY <1>1
<1> QED BY <1>1, <1>2

(* What an execution, by either route, does to the state.                  *)
LEMMA ExecuteEffect ==
    ASSUME NEW c \in Chains, NEW m \in Messages, TypeOK, Execute(c, m)
    PROVE  \E saved \in Journals :
             /\ NotExecuted(c, m)
             /\ CallReceiver(c, m, saved)
             /\ storageRoot' \in [Chains -> [Slots -> Slots \cup {Zero}]]
             /\ saved = [Journal(c) EXCEPT !.storageRoot = storageRoot'[c]]
             /\ \A d \in Chains \ {c} : storageRoot'[d] = storageRoot[d]
             /\ UNCHANGED <<nonce, sentMessages, executionStatus, delivered,
                            pendingLogs, blocks, known>>
<1>1. Journal(c) \in Journals
  BY DEF Journal, Journals, TypeOK
<1>2. ASSUME NEW s \in Slots, ExecuteMessage(c, s, m)
      PROVE  \E saved \in Journals :
             /\ NotExecuted(c, m)
             /\ CallReceiver(c, m, saved)
             /\ storageRoot' \in [Chains -> [Slots -> Slots \cup {Zero}]]
             /\ saved = [Journal(c) EXCEPT !.storageRoot = storageRoot'[c]]
             /\ \A d \in Chains \ {c} : storageRoot'[d] = storageRoot[d]
             /\ UNCHANGED <<nonce, sentMessages, executionStatus, delivered,
                            pendingLogs, blocks, known>>
  <2> DEFINE root == RootForSlot(c, s)
             saved == [Journal(c) EXCEPT !.storageRoot[s] = root]
  <2>1. root \in Slots
    BY DEF RootForSlot, TypeOK
  <2>2. storageRoot' = [storageRoot EXCEPT ![c][s] = root]
    BY <1>2 DEF ExecuteMessage
  <2>3. storageRoot' \in [Chains -> [Slots -> Slots \cup {Zero}]]
    BY <2>1, <2>2 DEF TypeOK
  <2>4. saved = [Journal(c) EXCEPT !.storageRoot = storageRoot'[c]]
    BY <2>2 DEF Journal, TypeOK
  <2>5. saved \in Journals
    BY <1>1, <2>3, <2>4 DEF Journals
  <2>6. \A d \in Chains \ {c} : storageRoot'[d] = storageRoot[d]
    BY <2>2 DEF TypeOK
  <2>7. /\ NotExecuted(c, m) /\ CallReceiver(c, m, saved)
        /\ UNCHANGED <<nonce, sentMessages, executionStatus, delivered,
                       pendingLogs, blocks, known>>
    BY <1>2 DEF ExecuteMessage
  <2> QED BY <2>3, <2>4, <2>5, <2>6, <2>7
<1>3. ASSUME NEW s \in Slots, NEW t \in Slots, NEW i \in TxIndexes,
             ExecuteMessageFromLog(c, s, t, i, m)
      PROVE  \E saved \in Journals :
             /\ NotExecuted(c, m)
             /\ CallReceiver(c, m, saved)
             /\ storageRoot' \in [Chains -> [Slots -> Slots \cup {Zero}]]
             /\ saved = [Journal(c) EXCEPT !.storageRoot = storageRoot'[c]]
             /\ \A d \in Chains \ {c} : storageRoot'[d] = storageRoot[d]
             /\ UNCHANGED <<nonce, sentMessages, executionStatus, delivered,
                            pendingLogs, blocks, known>>
  <2>1. /\ NotExecuted(c, m) /\ CallReceiver(c, m, Journal(c))
        /\ UNCHANGED <<nonce, sentMessages, executionStatus, storageRoot, delivered,
                       pendingLogs, blocks, known>>
    BY <1>3 DEF ExecuteMessageFromLog, contract
  <2>2. Journal(c) = [Journal(c) EXCEPT !.storageRoot = storageRoot'[c]]
    BY <2>1 DEF Journal
  <2> QED BY <1>1, <2>1, <2>2 DEF TypeOK
<1> QED BY <1>2, <1>3 DEF Execute

-----------------------------------------------------------------------------
(* Every step keeps the types.                                              *)
LEMMA NextKeepsTypes ==
    ASSUME TypeOK, [Next]_vars
    PROVE  TypeOK'
<1>1. ASSUME NEW c \in Chains, NEW sender \in Senders, NEW receiver \in Receivers,
             NEW gasLimit \in GasLimits, NEW data \in Payloads, NEW i \in TxIndexes,
             RequireToPassMessage(c, sender, receiver, gasLimit, data, i)
      PROVE  TypeOK'
  <2> DEFINE m == [nonce |-> nonce[c], sender |-> sender, receiver |-> receiver,
                   gasLimit |-> gasLimit, data |-> data]
  <2>1. nonce[c] \in Nonces
    BY <1>1 DEF RequireToPassMessage, TypeOK, Nonces
  <2>2. m \in Sendable
    BY <1>1, <2>1 DEF RequireToPassMessage, WithinGasLimit, Sendable, Messages
  <2>3. sentMessages' \in [Chains -> Storage]
    BY <1>1, <2>1, <2>2 DEF RequireToPassMessage, TypeOK, Storage
  <2>4. pendingLogs' \in [Chains -> SUBSET Logs]
    <3>1. [message |-> m, txIndex |-> i] \in Logs
      BY <2>2 DEF Logs, Sendable
    <3> QED BY <1>1, <3>1 DEF RequireToPassMessage, TypeOK
  <2>5. nonce' \in [Chains -> Nat]
    BY <1>1 DEF RequireToPassMessage, NextNonce, TypeOK
  <2> QED BY <1>1, <2>3, <2>4, <2>5 DEF RequireToPassMessage, TypeOK, context
<1>2. ASSUME NEW c \in Chains, NEW m \in Messages, Execute(c, m) PROVE TypeOK'
  <2>1. PICK saved \in Journals :
           /\ CallReceiver(c, m, saved)
           /\ storageRoot' \in [Chains -> [Slots -> Slots \cup {Zero}]]
           /\ UNCHANGED <<nonce, sentMessages, executionStatus, delivered,
                          pendingLogs, blocks, known>>
    BY <1>2, ExecuteEffect
  <2>2. calls' \in [Chains -> Seq(Frames)]
    <3>1. [message |-> m, saved |-> saved] \in Frames
      BY <2>1 DEF Frames
    <3>2. Append(calls[c], [message |-> m, saved |-> saved]) \in Seq(Frames)
      BY <3>1 DEF TypeOK
    <3> QED BY <2>1, <3>2 DEF CallReceiver, TypeOK
  <2>3. messageId' \in [Chains -> Messages \cup {Empty}]
    BY <2>1 DEF CallReceiver, TypeOK
  <2>4. messageSender' \in [Chains -> Senders \cup {Empty}]
    BY <2>1 DEF CallReceiver, TypeOK, Messages
  <2> QED BY <2>1, <2>2, <2>3, <2>4 DEF TypeOK
<1>3. ASSUME NEW c \in Chains, ReceiverReturns(c) \/ ReceiverReverts(c) PROVE TypeOK'
  <2>1. /\ calls[c] \in Seq(Frames) /\ calls[c] # <<>>
        /\ calls' = [calls EXCEPT ![c] = SubSeq(@, 1, Len(@) - 1)]
        /\ ClearContext(c)
        /\ UNCHANGED <<blocks, known>>
    BY <1>3 DEF ReceiverReturns, ReceiverReverts, TypeOK
  <2>2. calls' \in [Chains -> Seq(Frames)] /\ LastCall(c) \in Frames
    BY <2>1, FrontOfSeq DEF TypeOK, LastCall
  <2>3. LastCall(c).message \in Messages /\ LastCall(c).saved \in Journals
    BY <2>2 DEF Frames
  <2>4. /\ messageId' \in [Chains -> Messages \cup {Empty}]
        /\ messageSender' \in [Chains -> Senders \cup {Empty}]
    BY <2>1 DEF ClearContext, TypeOK
  <2>5. CASE ReceiverReturns(c)
    <3>1. executionStatus' \in [Chains -> [Messages -> Statuses]]
      BY <2>3, <2>5 DEF ReceiverReturns, TypeOK, Statuses
    <3>2. delivered' \in [Chains -> [Messages -> Nat]]
      BY <2>3, <2>5 DEF ReceiverReturns, TypeOK
    <3> QED BY <2>1, <2>2, <2>4, <2>5, <3>1, <3>2 DEF ReceiverReturns, TypeOK
  <2>6. CASE ReceiverReverts(c)
    <3> DEFINE saved == LastCall(c).saved
    <3>1. /\ saved.nonce \in Nat /\ saved.sentMessages \in Storage
          /\ saved.executionStatus \in [Messages -> Statuses]
          /\ saved.storageRoot \in [Slots -> Slots \cup {Zero}]
          /\ saved.delivered \in [Messages -> Nat]
          /\ saved.pendingLogs \in SUBSET Logs
      BY <2>3 DEF Journals
    <3>2. executionStatus' \in [Chains -> [Messages -> Statuses]]
      BY <2>3, <2>6, <3>1 DEF ReceiverReverts, TypeOK, Statuses
    <3>3. /\ nonce' \in [Chains -> Nat] /\ sentMessages' \in [Chains -> Storage]
          /\ storageRoot' \in [Chains -> [Slots -> Slots \cup {Zero}]]
          /\ delivered' \in [Chains -> [Messages -> Nat]]
          /\ pendingLogs' \in [Chains -> SUBSET Logs]
      BY <2>6, <3>1 DEF ReceiverReverts, Restore, TypeOK
    <3> QED BY <2>1, <2>2, <2>4, <3>2, <3>3 DEF TypeOK
  <2> QED BY <1>3, <2>5, <2>6
<1>4. ASSUME NEW c \in Chains, NEW missed \in BOOLEAN, NextSlot(c, missed) PROVE TypeOK'
  <2> DEFINE b == IF missed THEN [blocks[c][Len(blocks[c])] EXCEPT !.missed = TRUE]
                  ELSE [sent |-> sentMessages[c], logs |-> pendingLogs[c], missed |-> FALSE]
  <2>1. blocks[c] \in Seq(Blocks)
    BY DEF TypeOK
  <2>2. b \in Blocks
    <3>1. CASE missed
      <4>1. blocks[c][Len(blocks[c])] \in Blocks
        BY <1>4, <2>1, <3>1, FrontOfSeq DEF NextSlot
      <4> QED BY <3>1, <4>1 DEF Blocks
    <3>2. CASE ~missed
      BY <3>2 DEF Blocks, TypeOK
    <3> QED BY <3>1, <3>2
  <2>3. blocks' = [blocks EXCEPT ![c] = Append(@, b)]
    BY <1>4 DEF NextSlot
  <2>4. Append(blocks[c], b) \in Seq(Blocks) /\ Len(Append(blocks[c], b)) = Len(blocks[c]) + 1
    BY <2>1, <2>2
  <2>5. blocks' \in [Chains -> Seq(Blocks)]
    BY <2>3, <2>4 DEF TypeOK
  <2>6. \A d \in Chains : Len(blocks'[d]) <= MaxSlot[d]
    BY <1>4, <2>1, <2>3, <2>4 DEF NextSlot, TypeOK
  <2>7. pendingLogs' \in [Chains -> SUBSET Logs]
    BY <1>4 DEF NextSlot, TypeOK
  <2> QED BY <1>4, <2>5, <2>6, <2>7 DEF NextSlot, TypeOK, contract, context
<1>5. ASSUME NEW c \in Chains, NEW slot \in Slots, HeaderVerified(c, slot) PROVE TypeOK'
  BY <1>5 DEF HeaderVerified, TypeOK, contract, context
<1>6. CASE UNCHANGED vars
  BY <1>6 DEF vars, contract, context, TypeOK
<1> QED BY <1>1, <1>2, <1>3, <1>4, <1>5, <1>6 DEF Next

(* Every variable keeps its type; in particular no message beyond           *)
(* maxGasPerTx is ever recorded.                                            *)
THEOREM TypeCorrect == Spec => []TypeOK
<1>1. Init => TypeOK
  BY DEF Init, TypeOK, Storage, Statuses
<1>2. TypeOK /\ [Next]_vars => TypeOK'
  BY NextKeepsTypes
<1> QED BY <1>1, <1>2, PTL DEF Spec

-----------------------------------------------------------------------------
(* The inductive invariant.  What a revert would restore is as consistent   *)
(* as what it would undo: nonces are used once, in order; logs and finished *)
(* blocks are of recorded messages; cached roots are verified ones.         *)
Consistent(c, j) ==
    /\ \A n \in Nonces :
         j.sentMessages[n] # Zero => n < j.nonce /\ j.sentMessages[n].nonce = n
    /\ \A log \in j.pendingLogs : j.sentMessages[log.message.nonce] = log.message
    /\ \A s \in 1..Len(blocks[c]), n \in Nonces :
         blocks[c][s].sent[n] # Zero => j.sentMessages[n] = blocks[c][s].sent[n]
    /\ \A s \in Slots : j.storageRoot[s] # Zero => j.storageRoot[s] = s /\ s \in known[c]

(* At most one execution is in progress; while it is, nothing but sending   *)
(* has happened on its chain.                                               *)
CallOK(c) ==
    calls[c] # <<>> =>
        /\ Len(calls[c]) = 1
        /\ Consistent(c, calls[c][1].saved)
        /\ calls[c][1].saved.executionStatus = executionStatus[c]
        /\ calls[c][1].saved.delivered = delivered[c]
        /\ NotExecuted(c, calls[c][1].message)
        /\ SentOnOtherSide(c, calls[c][1].message)
        /\ \A n \in Nonces : calls[c][1].saved.sentMessages[n] # Zero
               => sentMessages[c][n] = calls[c][1].saved.sentMessages[n]

LogsRecorded ==
    \A c \in Chains : \A s \in 1..Len(blocks[c]) : \A log \in blocks[c][s].logs :
        blocks[c][s].sent[log.message.nonce] = log.message

KnownExist == \A c \in Chains : known[c] \subseteq 1..Len(blocks[Other[c]])

IInv ==
    /\ TypeOK /\ ContextIsCurrent /\ DeliveredOnce /\ OnlySentExecuted
    /\ LogsRecorded /\ KnownExist
    /\ \A c \in Chains : Consistent(c, Journal(c)) /\ CallOK(c)

(* A message is executed only when none is being executed.                  *)
LEMMA NoNesting ==
    ASSUME IInv, NEW c \in Chains, NoExecutionInProgress(c)
    PROVE  calls[c] = <<>>
<1> SUFFICES ASSUME calls[c] # <<>> PROVE FALSE
  OBVIOUS
<1>1. LastCall(c).message \in Messages
  <2>1. calls[c] \in Seq(Frames)
    BY DEF IInv, TypeOK
  <2>2. LastCall(c) \in Frames
    BY <2>1, FrontOfSeq DEF LastCall
  <2> QED BY <2>2 DEF Frames
<1>2. messageId[c] = LastCall(c).message
  BY DEF IInv, ContextIsCurrent
<1> QED BY <1>1, <1>2 DEF NoExecutionInProgress

(* Whatever the proof that comes with it, a message that gets as far as its *)
(* receiver was recorded in a block of the other chain.                     *)
LEMMA ExecutedWasSent ==
    ASSUME IInv, NEW c \in Chains, NEW m \in Messages, Execute(c, m)
    PROVE  SentOnOtherSide(c, m)
<1> USE DEF IInv
<1>1. ASSUME NEW s \in Slots, ExecuteMessage(c, s, m) PROVE SentOnOtherSide(c, m)
  <2>1. s \in known[c] /\ RootForSlot(c, s) = s
    BY <1>1 DEF ExecuteMessage, RootForSlot, Consistent, Journal
  <2>2. s \in 1..Len(blocks[Other[c]])
    BY <2>1 DEF KnownExist
  <2>3. blocks[Other[c]][s].sent[m.nonce] = m
    BY <1>1, <2>1 DEF ExecuteMessage, StorageProven
  <2> QED BY <2>2, <2>3 DEF SentOnOtherSide
<1>2. ASSUME NEW s \in Slots, NEW t \in Slots, NEW i \in TxIndexes,
             ExecuteMessageFromLog(c, s, t, i, m)
      PROVE  SentOnOtherSide(c, m)
  <2>1. PICK slot \in 1..Len(blocks[Other[c]]) :
          \E log \in blocks[Other[c]][slot].logs : log.message = m
    BY <1>2 DEF ExecuteMessageFromLog, LogProven
  <2>2. blocks[Other[c]][slot].sent[m.nonce] = m
    BY <2>1 DEF LogsRecorded
  <2> QED BY <2>2 DEF SentOnOtherSide
<1> QED BY <1>1, <1>2 DEF Execute

(* What is recorded of the outcomes stays justified while blocks are only   *)
(* added.                                                                   *)
LEMMA SentStaysSent ==
    ASSUME TypeOK, NEW c \in Chains, NEW m \in Messages, SentOnOtherSide(c, m),
           \A s \in 1..Len(blocks[Other[c]]) :
              s \in 1..Len(blocks'[Other[c]]) /\ blocks'[Other[c]][s] = blocks[Other[c]][s]
    PROVE  SentOnOtherSide(c, m)'
BY DEF SentOnOtherSide

(* What a call in progress needs is untouched by steps that only send, or   *)
(* that happen elsewhere.                                                   *)
LEMMA CallOKStays ==
    ASSUME NEW d \in Chains, CallOK(d), calls'[d] = calls[d],
           executionStatus'[d] = executionStatus[d], delivered'[d] = delivered[d],
           \A n \in Nonces : sentMessages[d][n] # Zero
                               => sentMessages'[d][n] = sentMessages[d][n],
           UNCHANGED <<blocks, known>>
    PROVE  CallOK(d)'
<1> SUFFICES ASSUME calls[d] # <<>> PROVE CallOK(d)'
  BY DEF CallOK
<1> DEFINE call == calls[d][1]
<1>1. /\ Len(calls[d]) = 1
      /\ Consistent(d, call.saved)
      /\ call.saved.executionStatus = executionStatus[d]
      /\ call.saved.delivered = delivered[d]
      /\ NotExecuted(d, call.message)
      /\ SentOnOtherSide(d, call.message)
      /\ \A n \in Nonces : call.saved.sentMessages[n] # Zero
             => sentMessages[d][n] = call.saved.sentMessages[n]
  BY DEF CallOK
<1>2. Consistent(d, call.saved)'
  <2> DEFINE saved == call.saved
  <2>1. saved' = saved
    OBVIOUS
  <2> HIDE DEF saved
  <2>2. Consistent(d, saved)
    BY <1>1 DEF saved
  <2>3. Consistent(d, saved)'
    BY <2>1, <2>2 DEF Consistent
  <2> QED BY <2>3 DEF saved
<1>3. NotExecuted(d, call.message)'
  BY <1>1 DEF NotExecuted
<1>4. SentOnOtherSide(d, call.message)'
  BY <1>1 DEF SentOnOtherSide
<1>5. \A n \in Nonces : call.saved.sentMessages[n] # Zero
         => sentMessages'[d][n] = call.saved.sentMessages[n]
  BY <1>1
<1>6. calls'[d] = calls[d]
  OBVIOUS
<1> HIDE DEF call
<1>7. calls[d][1] = call
  BY DEF call
<1> QED BY <1>1, <1>2, <1>3, <1>4, <1>5, <1>6, <1>7 DEF CallOK, call

(* Sending keeps the invariant: the nonce it takes is free, in the storage, *)
(* in every finished block and in what a revert would restore.              *)
LEMMA SendKeepsInvariant ==
    ASSUME IInv, TypeOK', NEW c \in Chains, NEW sender \in Senders,
           NEW receiver \in Receivers, NEW gasLimit \in GasLimits, NEW data \in Payloads,
           NEW i \in TxIndexes,
           RequireToPassMessage(c, sender, receiver, gasLimit, data, i)
    PROVE  IInv'
<1> DEFINE m == [nonce |-> nonce[c], sender |-> sender, receiver |-> receiver,
                 gasLimit |-> gasLimit, data |-> data]
<1> USE DEF IInv
<1>1. /\ nonce[c] \in Nonces /\ m # Zero
      /\ sentMessages' = [sentMessages EXCEPT ![c][nonce[c]] = m]
      /\ nonce' = [nonce EXCEPT ![c] = @ + 1]
      /\ pendingLogs' = [pendingLogs EXCEPT ![c] = @ \cup {[message |-> m, txIndex |-> i]}]
      /\ UNCHANGED <<executionStatus, storageRoot, messageId, messageSender, calls,
                     delivered, blocks, known>>
  <2>1. nonce[c] \in Nonces
    BY DEF RequireToPassMessage, TypeOK, Nonces
  <2>2. m \in Messages
    BY <2>1 DEF Messages
  <2> QED BY <2>1, <2>2 DEF RequireToPassMessage, NextNonce, context
<1>2. sentMessages[c][nonce[c]] = Zero
  BY <1>1 DEF Consistent, Journal, TypeOK
<1>3. ContextIsCurrent' /\ DeliveredOnce' /\ OnlySentExecuted' /\ LogsRecorded' /\ KnownExist'
  BY <1>1 DEF ContextIsCurrent, DeliveredOnce, OnlySentExecuted, LogsRecorded, KnownExist,
              LastCall, SentOnOtherSide
<1>4. ASSUME NEW d \in Chains PROVE Consistent(d, Journal(d))'
  <2>1. Consistent(d, Journal(d))
    OBVIOUS
  <2>2. CASE d # c
    BY <1>1, <2>1, <2>2 DEF Consistent, Journal, TypeOK
  <2>3. CASE d = c
    <3>1. \A n \in Nonces : sentMessages'[c][n] = IF n = nonce[c] THEN m ELSE sentMessages[c][n]
      BY <1>1 DEF TypeOK, Storage
    <3>2. nonce'[c] = nonce[c] + 1 /\ nonce[c] \in Nat
      BY <1>1 DEF TypeOK
    <3>3. \A n \in Nonces :
            sentMessages'[c][n] # Zero => n < nonce'[c] /\ sentMessages'[c][n].nonce = n
      <4>1. \A n \in Nonces :
              sentMessages[c][n] # Zero => n < nonce[c] /\ sentMessages[c][n].nonce = n
        BY <2>1, <2>3 DEF Consistent, Journal
      <4>2. m.nonce = nonce[c] /\ Nonces \subseteq Int
        BY <1>1, BoundAssumption DEF Nonces
      <4> HIDE DEF IInv, m
      <4>3. ASSUME NEW n \in Nonces, sentMessages'[c][n] # Zero
            PROVE  n < nonce'[c] /\ sentMessages'[c][n].nonce = n
        <5>1. CASE n = nonce[c]
          BY <3>1, <3>2, <4>2, <5>1
        <5>2. CASE n # nonce[c]
          BY <3>1, <3>2, <4>1, <4>2, <4>3, <5>2
        <5> QED BY <5>1, <5>2
      <4> QED BY <4>3
    <3>4. \A log \in pendingLogs'[c] : sentMessages'[c][log.message.nonce] = log.message
      <4> SUFFICES ASSUME NEW log \in pendingLogs'[c]
                   PROVE  sentMessages'[c][log.message.nonce] = log.message
        OBVIOUS
      <4>1. CASE log = [message |-> m, txIndex |-> i]
        BY <1>1, <3>1, <4>1
      <4>2. CASE log # [message |-> m, txIndex |-> i]
        <5>1. log \in pendingLogs[c] /\ log \in Logs
          BY <1>1, <4>2 DEF TypeOK
        <5>2. log.message \in Messages /\ log.message.nonce \in Nonces
          BY <5>1 DEF Logs, Messages
        <5>3. sentMessages[c][log.message.nonce] = log.message
          BY <2>1, <2>3, <5>1 DEF Consistent, Journal
        <5>4. log.message.nonce # nonce[c]
          BY <1>2, <5>2, <5>3
        <5> QED BY <3>1, <5>2, <5>3, <5>4
      <4> QED BY <4>1, <4>2
    <3>5. \A s \in 1..Len(blocks[c]), n \in Nonces :
            blocks[c][s].sent[n] # Zero => sentMessages'[c][n] = blocks[c][s].sent[n]
      BY <1>1, <1>2, <2>1, <2>3, <3>1 DEF Consistent, Journal
    <3> QED BY <1>1, <2>1, <2>3, <3>3, <3>4, <3>5 DEF Consistent, Journal
  <2> QED BY <2>2, <2>3
<1>5. ASSUME NEW d \in Chains PROVE CallOK(d)'
  <2>1. CallOK(d)
    OBVIOUS
  <2>2. \A n \in Nonces : sentMessages[d][n] # Zero => sentMessages'[d][n] = sentMessages[d][n]
    BY <1>1, <1>2 DEF TypeOK, Storage
  <2>3. /\ calls'[d] = calls[d] /\ executionStatus'[d] = executionStatus[d]
        /\ delivered'[d] = delivered[d] /\ UNCHANGED <<blocks, known>>
    BY <1>1
  <2> HIDE DEF IInv
  <2> QED BY <2>1, <2>2, <2>3, CallOKStays
<1> QED BY <1>3, <1>4, <1>5

(* Calling the receiver changes nothing that counts yet, except that a      *)
(* verified storage root may have been cached, for good.                    *)
LEMMA ExecuteKeepsInvariant ==
    ASSUME IInv, TypeOK', NEW c \in Chains, NEW m \in Messages, Execute(c, m)
    PROVE  IInv'
<1> USE DEF IInv
<1>1. PICK saved \in Journals :
             /\ NotExecuted(c, m)
             /\ CallReceiver(c, m, saved)
             /\ saved = [Journal(c) EXCEPT !.storageRoot = storageRoot'[c]]
             /\ \A d \in Chains \ {c} : storageRoot'[d] = storageRoot[d]
             /\ UNCHANGED <<nonce, sentMessages, executionStatus, delivered,
                            pendingLogs, blocks, known>>
  BY ExecuteEffect
<1>2. SentOnOtherSide(c, m)
  BY ExecutedWasSent
<1>3. calls[c] = <<>>
  BY <1>1, NoNesting DEF CallReceiver
<1>4. /\ calls'[c] = <<[message |-> m, saved |-> saved]>>
      /\ \A d \in Chains \ {c} : calls'[d] = calls[d]
  <2> DEFINE frame == [message |-> m, saved |-> saved]
  <2>1. calls' = [calls EXCEPT ![c] = Append(@, frame)]
    BY <1>1 DEF CallReceiver
  <2>2. calls \in [Chains -> Seq(Frames)]
    BY DEF TypeOK
  <2>3. Append(calls[c], frame) = <<frame>>
    <3> HIDE DEF frame
    <3> QED BY <1>3
  <2> HIDE DEF frame
  <2>4. calls'[c] = <<frame>> /\ \A d \in Chains \ {c} : calls'[d] = calls[d]
    BY <2>1, <2>2, <2>3
  <2> QED BY <2>4 DEF frame
<1>5. ContextIsCurrent'
  <2>1. /\ messageId'[c] = m /\ messageSender'[c] = m.sender
        /\ \A d \in Chains \ {c} : /\ messageId'[d] = messageId[d]
                                   /\ messageSender'[d] = messageSender[d]
    BY <1>1 DEF CallReceiver, TypeOK
  <2> DEFINE Current(id, sender, q) ==
               IF q = <<>> THEN id = Empty /\ sender = Empty
               ELSE id = q[Len(q)].message /\ sender = q[Len(q)].message.sender
  <2>2. \A d \in Chains : Current(messageId[d], messageSender[d], calls[d])
    BY DEF ContextIsCurrent, LastCall
  <2>3. Current(messageId'[c], messageSender'[c], calls'[c])
    <3>1. Len(calls'[c]) = 1 /\ calls'[c][1].message = m /\ calls'[c] # <<>>
      BY <1>4
    <3> QED BY <2>1, <3>1
  <2>4. \A d \in Chains \ {c} : Current(messageId'[d], messageSender'[d], calls'[d])
    <3> HIDE DEF Current
    <3> QED BY <1>4, <2>1, <2>2
  <2> QED BY <2>3, <2>4 DEF ContextIsCurrent, LastCall
<1>6. DeliveredOnce' /\ OnlySentExecuted' /\ LogsRecorded' /\ KnownExist'
  BY <1>1 DEF DeliveredOnce, OnlySentExecuted, LogsRecorded, KnownExist, SentOnOtherSide
<1>7. \A s \in Slots : storageRoot'[c][s] # Zero =>
         storageRoot'[c][s] = s /\ s \in known[c]
  <2>1. \A s \in Slots : storageRoot[c][s] # Zero =>
         storageRoot[c][s] = s /\ s \in known[c]
    BY DEF Consistent, Journal
  <2>2. ASSUME NEW s \in Slots, ExecuteMessage(c, s, m)
        PROVE  \A r \in Slots : storageRoot'[c][r] # Zero =>
                  storageRoot'[c][r] = r /\ r \in known[c]
    <3>1. RootForSlot(c, s) = s /\ s \in known[c]
      BY <2>1, <2>2 DEF ExecuteMessage, RootForSlot
    <3>2. storageRoot' = [storageRoot EXCEPT ![c][s] = s]
      BY <2>2, <3>1 DEF ExecuteMessage
    <3> QED BY <2>1, <3>1, <3>2 DEF TypeOK
  <2>3. ASSUME NEW s \in Slots, NEW t \in Slots, NEW i \in TxIndexes,
               ExecuteMessageFromLog(c, s, t, i, m)
        PROVE  storageRoot' = storageRoot
    BY <2>3 DEF ExecuteMessageFromLog, contract
  <2> QED BY <2>1, <2>2, <2>3 DEF Execute
<1>8. ASSUME NEW d \in Chains PROVE Consistent(d, Journal(d))'
  <2>1. Consistent(d, Journal(d))
    OBVIOUS
  <2>2. \A s \in Slots : storageRoot'[d][s] # Zero =>
         storageRoot'[d][s] = s /\ s \in known[d]
    <3>1. CASE d = c
      BY <1>1, <1>7, <3>1
    <3>2. CASE d # c
      <4>1. storageRoot'[d] = storageRoot[d] /\ known' = known
        BY <1>1, <3>2
      <4>2. \A s \in Slots : storageRoot[d][s] # Zero =>
               storageRoot[d][s] = s /\ s \in known[d]
        BY <2>1 DEF Consistent, Journal
      <4> QED BY <4>1, <4>2
    <3> QED BY <3>1, <3>2
  <2> QED BY <1>1, <2>1, <2>2 DEF Consistent, Journal
<1>9. ASSUME NEW d \in Chains PROVE CallOK(d)'
  <2>1. CASE d = c
    <3>1. /\ saved.executionStatus = executionStatus[c] /\ saved.delivered = delivered[c]
          /\ saved.sentMessages = sentMessages[c] /\ saved.nonce = nonce[c]
          /\ saved.pendingLogs = pendingLogs[c] /\ saved.storageRoot = storageRoot'[c]
      BY <1>1 DEF Journal
    <3>2. Consistent(c, saved)'
      <4>1. Consistent(c, Journal(c))
        OBVIOUS
      <4> QED BY <1>1, <1>7, <3>1, <4>1 DEF Consistent, Journal
    <3>3. /\ Len(calls'[c]) = 1
          /\ calls'[c][1].message = m /\ calls'[c][1].saved = saved
      BY <1>4
    <3>4. NotExecuted(c, m)' /\ SentOnOtherSide(c, m)'
      BY <1>1, <1>2 DEF NotExecuted, SentOnOtherSide
    <3>5. /\ saved.executionStatus = executionStatus'[c] /\ saved.delivered = delivered'[c]
          /\ saved.sentMessages = sentMessages'[c]
      BY <1>1, <3>1
    <3>6. CallOK(c)'
      BY <3>2, <3>3, <3>4, <3>5 DEF CallOK
    <3> QED BY <2>1, <3>6
  <2>2. CASE d # c
    <3>1. CallOK(d) /\ calls'[d] = calls[d]
      BY <1>4, <2>2
    <3>2. /\ executionStatus'[d] = executionStatus[d] /\ delivered'[d] = delivered[d]
          /\ sentMessages'[d] = sentMessages[d] /\ UNCHANGED <<blocks, known>>
      BY <1>1
    <3> HIDE DEF IInv
    <3> QED BY <3>1, <3>2, CallOKStays
  <2> QED BY <2>1, <2>2
<1> QED BY <1>5, <1>6, <1>8, <1>9

(* The return of a receiver is a matter of its own chain.                   *)
LEMMA ReturnElsewhere ==
    ASSUME TypeOK, NEW c \in Chains, ReceiverReturns(c) \/ ReceiverReverts(c)
    PROVE  \A d \in Chains \ {c} :
             /\ nonce'[d] = nonce[d] /\ sentMessages'[d] = sentMessages[d]
             /\ executionStatus'[d] = executionStatus[d] /\ storageRoot'[d] = storageRoot[d]
             /\ delivered'[d] = delivered[d] /\ pendingLogs'[d] = pendingLogs[d]
<1>1. CASE ReceiverReturns(c)
  BY <1>1 DEF ReceiverReturns, TypeOK
<1>2. CASE ReceiverReverts(c)
  <2>1. \A d \in Chains \ {c} : executionStatus'[d] = executionStatus[d]
    BY <1>2 DEF ReceiverReverts, TypeOK
  <2>2. \A d \in Chains \ {c} :
          nonce'[d] = nonce[d] /\ sentMessages'[d] = sentMessages[d]
    BY <1>2 DEF ReceiverReverts, Restore, TypeOK
  <2>3. \A d \in Chains \ {c} :
          /\ storageRoot'[d] = storageRoot[d] /\ delivered'[d] = delivered[d]
          /\ pendingLogs'[d] = pendingLogs[d]
    BY <1>2 DEF ReceiverReverts, Restore, TypeOK
  <2> QED BY <2>1, <2>2, <2>3
<1> QED BY <1>1, <1>2

(* The return of the receiver: the outcome is recorded, once, and after a   *)
(* revert everything else on the chain is as it was before the call.        *)
LEMMA ReturnKeepsInvariant ==
    ASSUME IInv, TypeOK', NEW c \in Chains, ReceiverReturns(c) \/ ReceiverReverts(c)
    PROVE  IInv'
<1> USE DEF IInv
<1> DEFINE m == calls[c][1].message
           saved == calls[c][1].saved
<1>1. /\ calls[c] # <<>> /\ Len(calls[c]) = 1 /\ LastCall(c) = calls[c][1]
      /\ m \in Messages
  <2>1. calls[c] # <<>> /\ calls[c] \in Seq(Frames)
    BY DEF ReceiverReturns, ReceiverReverts, TypeOK
  <2>2. Len(calls[c]) = 1
    BY <2>1 DEF CallOK
  <2>3. LastCall(c) = calls[c][1] /\ LastCall(c) \in Frames
    BY <2>1, <2>2, FrontOfSeq DEF LastCall
  <2> QED BY <2>1, <2>2, <2>3 DEF Frames
<1>2. /\ NotExecuted(c, m) /\ SentOnOtherSide(c, m) /\ Consistent(c, saved)
      /\ saved.executionStatus = executionStatus[c] /\ saved.delivered = delivered[c]
  BY <1>1 DEF CallOK
<1>3. /\ calls'[c] = <<>>
      /\ \A d \in Chains \ {c} : calls'[d] = calls[d]
  <2>1. calls' = [calls EXCEPT ![c] = SubSeq(@, 1, Len(@) - 1)]
    BY DEF ReceiverReturns, ReceiverReverts
  <2>2. SubSeq(calls[c], 1, Len(calls[c]) - 1) = <<>>
    BY <1>1 DEF TypeOK
  <2> QED BY <2>1, <2>2 DEF TypeOK
<1>4. /\ messageId'[c] = Empty /\ messageSender'[c] = Empty
      /\ \A d \in Chains \ {c} : /\ messageId'[d] = messageId[d]
                                 /\ messageSender'[d] = messageSender[d]
      /\ UNCHANGED <<blocks, known>>
  BY DEF ReceiverReturns, ReceiverReverts, ClearContext, TypeOK
<1>5. \A d \in Chains \ {c} :
        /\ nonce'[d] = nonce[d] /\ sentMessages'[d] = sentMessages[d]
        /\ executionStatus'[d] = executionStatus[d] /\ storageRoot'[d] = storageRoot[d]
        /\ delivered'[d] = delivered[d] /\ pendingLogs'[d] = pendingLogs[d]
  <2> HIDE DEF IInv
  <2> QED BY ReturnElsewhere DEF IInv
<1>6. \E out \in {"EXECUTION_SUCCEEDED", "EXECUTION_FAILED"} :
        /\ executionStatus'[c] = [executionStatus[c] EXCEPT ![m] = out]
        /\ delivered'[c] = IF out = "EXECUTION_SUCCEEDED"
                           THEN [delivered[c] EXCEPT ![m] = @ + 1] ELSE delivered[c]
  <2>1. CASE ReceiverReturns(c)
    BY <1>1, <2>1 DEF ReceiverReturns, TypeOK
  <2>2. CASE ReceiverReverts(c)
    <3>1. delivered'[c] = delivered[c]
      BY <1>1, <1>2, <2>2 DEF ReceiverReverts, Restore, TypeOK
    <3>2. executionStatus'[c] = [executionStatus[c] EXCEPT ![m] = "EXECUTION_FAILED"]
      BY <1>1, <1>2, <2>2 DEF ReceiverReverts, TypeOK
    <3> QED BY <3>1, <3>2
  <2> QED BY <2>1, <2>2
<1>7. ContextIsCurrent' /\ LogsRecorded' /\ KnownExist'
  <2>1. LogsRecorded' /\ KnownExist'
    BY <1>4 DEF LogsRecorded, KnownExist
  <2>2. ASSUME NEW d \in Chains, d # c
        PROVE  IF calls'[d] = <<>>
               THEN messageId'[d] = Empty /\ messageSender'[d] = Empty
               ELSE /\ messageId'[d] = calls'[d][Len(calls'[d])].message
                    /\ messageSender'[d] = calls'[d][Len(calls'[d])].message.sender
    <3>1. calls'[d] = calls[d] /\ messageId'[d] = messageId[d]
          /\ messageSender'[d] = messageSender[d]
      BY <1>3, <1>4, <2>2
    <3>2. IF calls[d] = <<>>
          THEN messageId[d] = Empty /\ messageSender[d] = Empty
          ELSE /\ messageId[d] = calls[d][Len(calls[d])].message
               /\ messageSender[d] = calls[d][Len(calls[d])].message.sender
      BY DEF ContextIsCurrent, LastCall
    <3> QED BY <3>1, <3>2
  <2>3. ContextIsCurrent'
    BY <1>3, <1>4, <2>2 DEF ContextIsCurrent, LastCall
  <2> QED BY <2>1, <2>3
<1>8. DeliveredOnce'
  <2> SUFFICES ASSUME NEW d \in Chains, NEW n \in Messages
               PROVE  /\ delivered'[d][n] <= 1
                      /\ delivered'[d][n] = 1 <=> executionStatus'[d][n] = "EXECUTION_SUCCEEDED"
    BY DEF DeliveredOnce
  <2>1. /\ delivered[d][n] <= 1 /\ delivered[d][n] \in Nat
        /\ delivered[d][n] = 1 <=> executionStatus[d][n] = "EXECUTION_SUCCEEDED"
    BY DEF DeliveredOnce, TypeOK
  <2>2. CASE d # c
    BY <1>5, <2>1, <2>2
  <2>3. CASE d = c /\ n # m
    BY <1>6, <2>1, <2>3 DEF TypeOK
  <2>4. CASE d = c /\ n = m
    <3>1. delivered[d][n] = 0
      BY <1>2, <2>1, <2>4 DEF NotExecuted
    <3> QED BY <1>6, <2>4, <3>1 DEF TypeOK
  <2> QED BY <2>2, <2>3, <2>4
<1>9. OnlySentExecuted'
  <2> SUFFICES ASSUME NEW d \in Chains, NEW n \in Messages,
                      executionStatus'[d][n] # "NOT_EXECUTED"
               PROVE  SentOnOtherSide(d, n)'
    BY DEF OnlySentExecuted
  <2>1. SentOnOtherSide(d, n)
    <3>1. CASE d = c /\ n = m
      BY <1>2, <3>1
    <3>2. CASE ~(d = c /\ n = m)
      <4>1. executionStatus'[d][n] = executionStatus[d][n]
        <5>1. CASE d # c
          BY <1>5, <5>1
        <5>2. CASE d = c /\ n # m
          <6>1. executionStatus[c] \in [Messages -> Statuses]
            BY DEF TypeOK
          <6>2. executionStatus'[c][n] = executionStatus[c][n]
            BY <1>6, <5>2, <6>1
          <6> QED BY <5>2, <6>2
        <5> QED BY <3>2, <5>1, <5>2
      <4> QED BY <4>1 DEF OnlySentExecuted
    <3> QED BY <3>1, <3>2
  <2> QED BY <1>4, <2>1 DEF SentOnOtherSide
<1>10. ASSUME NEW d \in Chains PROVE Consistent(d, Journal(d))'
  <2>1. CASE d # c
    <3>1. Journal(d)' = Journal(d)
      BY <1>5, <2>1 DEF Journal
    <3>2. Consistent(d, Journal(d))
      OBVIOUS
    <3> HIDE DEF IInv
    <3> QED BY <1>4, <3>1, <3>2 DEF Consistent
  <2>2. CASE d = c /\ ReceiverReturns(c)
    <3>1. /\ nonce'[c] = nonce[c] /\ sentMessages'[c] = sentMessages[c]
          /\ storageRoot'[c] = storageRoot[c] /\ pendingLogs'[c] = pendingLogs[c]
      BY <2>2 DEF ReceiverReturns
    <3>2. Consistent(c, Journal(c))
      OBVIOUS
    <3> HIDE DEF IInv
    <3> QED BY <1>4, <2>2, <3>1, <3>2 DEF Consistent, Journal
  <2>3. CASE d = c /\ ReceiverReverts(c)
    <3>1. /\ nonce'[c] = saved.nonce /\ sentMessages'[c] = saved.sentMessages
          /\ storageRoot'[c] = saved.storageRoot /\ pendingLogs'[c] = saved.pendingLogs
      BY <1>1, <2>3 DEF ReceiverReverts, Restore, TypeOK
    <3>2. Consistent(c, saved) /\ UNCHANGED <<blocks, known>>
      BY <1>2, <1>4
    <3> HIDE DEF IInv, saved
    <3>3. Consistent(c, Journal(c))'
      BY <3>1, <3>2 DEF Consistent, Journal
    <3> QED BY <2>3, <3>3
  <2> QED BY <2>1, <2>2, <2>3
<1>11. ASSUME NEW d \in Chains PROVE CallOK(d)'
  <2>1. CASE d = c
    BY <1>3, <2>1 DEF CallOK
  <2>2. CASE d # c
    <3>1. CallOK(d) /\ calls'[d] = calls[d]
      BY <1>3, <2>2
    <3>2. /\ executionStatus'[d] = executionStatus[d] /\ delivered'[d] = delivered[d]
          /\ sentMessages'[d] = sentMessages[d] /\ UNCHANGED <<blocks, known>>
      BY <1>4, <1>5, <2>2
    <3> HIDE DEF IInv
    <3> QED BY <3>1, <3>2, CallOKStays
  <2> QED BY <2>1, <2>2
<1> QED BY <1>7, <1>8, <1>9, <1>10, <1>11

(* A new block, which holds what the contract has stored and logged, or     *)
(* repeats the block before it.                                             *)
LEMMA SlotKeepsInvariant ==
    ASSUME IInv, TypeOK', NEW c \in Chains, NEW missed \in BOOLEAN, NextSlot(c, missed)
    PROVE  IInv'
<1> USE DEF IInv
<1> DEFINE b == IF missed THEN [blocks[c][Len(blocks[c])] EXCEPT !.missed = TRUE]
                ELSE [sent |-> sentMessages[c], logs |-> pendingLogs[c], missed |-> FALSE]
           len == Len(blocks[c])
<1>1. /\ calls[c] = <<>> /\ (missed => blocks[c] # <<>>)
      /\ blocks' = [blocks EXCEPT ![c] = Append(@, b)]
      /\ pendingLogs' = IF missed THEN pendingLogs ELSE [pendingLogs EXCEPT ![c] = {}]
      /\ UNCHANGED <<nonce, sentMessages, executionStatus, storageRoot, messageId,
                     messageSender, calls, delivered, known>>
  BY DEF NextSlot, contract, context
<1>2. blocks[c] \in Seq(Blocks) /\ len \in Nat
  BY DEF TypeOK
<1>3. /\ Len(blocks'[c]) = len + 1 /\ blocks'[c][len + 1] = b
      /\ \A s \in 1..len : blocks'[c][s] = blocks[c][s]
      /\ \A d \in Chains \ {c} : blocks'[d] = blocks[d]
  <2>1. blocks'[c] = Append(blocks[c], b) /\ \A d \in Chains \ {c} : blocks'[d] = blocks[d]
    BY <1>1 DEF TypeOK
  <2> HIDE DEF b
  <2> QED BY <1>2, <2>1
<1>4. (missed => len \in 1..len) /\ 1..(len + 1) = (1..len) \cup {len + 1}
  BY <1>1, <1>2
<1>5. ASSUME NEW d \in Chains PROVE Consistent(d, Journal(d))'
  <2>1. Consistent(d, Journal(d))
    OBVIOUS
  <2>2. CASE d # c
    <3>1. Journal(d)' = Journal(d) /\ blocks'[d] = blocks[d] /\ known' = known
      BY <1>1, <1>3, <2>2 DEF Journal, TypeOK
    <3> HIDE DEF IInv
    <3> QED BY <2>1, <3>1 DEF Consistent
  <2>3. CASE d = c
    <3>1. \A n \in Nonces : b.sent[n] # Zero => sentMessages[c][n] = b.sent[n]
      <4>1. CASE missed
        <5>1. b.sent = blocks[c][len].sent
          <6>1. blocks[c][len] \in Blocks
            BY <1>1, <1>2, <4>1, FrontOfSeq
          <6> QED BY <4>1, <6>1 DEF Blocks
        <5>2. \A n \in Nonces : blocks[c][len].sent[n] # Zero
                 => sentMessages[c][n] = blocks[c][len].sent[n]
          <6>1. \A s \in 1..len, n \in Nonces : blocks[c][s].sent[n] # Zero
                   => sentMessages[c][n] = blocks[c][s].sent[n]
            BY <2>1, <2>3 DEF Consistent, Journal
          <6> HIDE DEF len
          <6> QED BY <1>4, <4>1, <6>1
        <5> HIDE DEF b
        <5> QED BY <5>1, <5>2
      <4>2. CASE ~missed
        BY <4>2
      <4> QED BY <4>1, <4>2
    <3>2. \A s \in 1..(len + 1), n \in Nonces : blocks'[c][s].sent[n] # Zero
             => sentMessages[c][n] = blocks'[c][s].sent[n]
      <4> HIDE DEF b
      <4>1. \A s \in 1..len, n \in Nonces : blocks[c][s].sent[n] # Zero
               => sentMessages[c][n] = blocks[c][s].sent[n]
        BY <2>1, <2>3 DEF Consistent, Journal
      <4>2. ASSUME NEW s \in 1..(len + 1), NEW n \in Nonces, blocks'[c][s].sent[n] # Zero
            PROVE  sentMessages[c][n] = blocks'[c][s].sent[n]
        <5> HIDE DEF len
        <5>1. CASE s \in 1..len
          <6>1. blocks'[c][s] = blocks[c][s]
            BY <1>3, <5>1
          <6>2. blocks[c][s].sent[n] # Zero
            BY <4>2, <6>1
          <6> QED BY <4>1, <5>1, <6>1, <6>2
        <5>2. CASE s = len + 1
          BY <1>3, <3>1, <4>2, <5>2
        <5> QED BY <1>4, <5>1, <5>2
      <4> QED BY <4>2
    <3>3. \A log \in pendingLogs'[c] : log \in pendingLogs[c]
      BY <1>1 DEF TypeOK
    <3> QED BY <1>1, <1>3, <2>1, <2>3, <3>2, <3>3 DEF Consistent, Journal
  <2> QED BY <2>2, <2>3
<1>6. LogsRecorded'
  <2> SUFFICES ASSUME NEW d \in Chains, NEW s \in 1..Len(blocks'[d]),
                      NEW log \in blocks'[d][s].logs
               PROVE  blocks'[d][s].sent[log.message.nonce] = log.message
    BY DEF LogsRecorded
  <2>1. CASE d # c \/ s \in 1..len
    <3>1. s \in 1..Len(blocks[d]) /\ blocks'[d][s] = blocks[d][s]
      <4>1. CASE d # c
        <5>1. blocks'[d] = blocks[d]
          BY <1>3, <4>1
        <5> QED BY <5>1
      <4>2. CASE d = c
        BY <1>3, <2>1, <4>2
      <4> QED BY <4>1, <4>2
    <3>2. log \in blocks[d][s].logs
      BY <3>1
    <3>3. blocks[d][s].sent[log.message.nonce] = log.message
      BY <3>1, <3>2 DEF LogsRecorded
    <3> QED BY <3>1, <3>3
  <2>2. CASE d = c /\ s = len + 1
    <3>1. log \in b.logs
      BY <1>3, <2>2
    <3>2. b.sent[log.message.nonce] = log.message
      <4>1. CASE missed
        <5>1. b.sent = blocks[c][len].sent /\ b.logs = blocks[c][len].logs
          <6>1. blocks[c][len] \in Blocks
            BY <1>1, <1>2, <4>1, FrontOfSeq
          <6> QED BY <4>1, <6>1 DEF Blocks
        <5> HIDE DEF b
        <5>2. len \in 1..Len(blocks[c]) /\ log \in blocks[c][len].logs
          BY <1>4, <3>1, <4>1, <5>1
        <5>3. blocks[c][len].sent[log.message.nonce] = log.message
          <6> HIDE DEF len
          <6> QED BY <5>2 DEF LogsRecorded
        <5> QED BY <5>1, <5>3
      <4>2. CASE ~missed
        <5>1. log \in pendingLogs[c] /\ b.sent = sentMessages[c]
          BY <3>1, <4>2
        <5> QED BY <5>1 DEF Consistent, Journal
      <4> QED BY <4>1, <4>2
    <3> QED BY <1>3, <2>2, <3>2
  <2> QED BY <1>3, <1>4, <2>1, <2>2
<1>7. ASSUME NEW d \in Chains
      PROVE  1..Len(blocks[d]) \subseteq 1..Len(blocks'[d])
             /\ \A s \in 1..Len(blocks[d]) : blocks'[d][s] = blocks[d][s]
  BY <1>2, <1>3, <1>4
<1>8. \A d \in Chains : Other[d] \in Chains
  OBVIOUS
<1>9. \A d \in Chains, m \in Messages : SentOnOtherSide(d, m) => SentOnOtherSide(d, m)'
  BY <1>7, <1>8, SentStaysSent
<1>10. KnownExist'
  BY <1>1, <1>7, <1>8 DEF KnownExist
<1>11. OnlySentExecuted'
  BY <1>1, <1>9 DEF OnlySentExecuted
<1>12. ContextIsCurrent' /\ DeliveredOnce'
  BY <1>1 DEF ContextIsCurrent, DeliveredOnce, LastCall
<1>13. ASSUME NEW d \in Chains PROVE CallOK(d)'
  <2> SUFFICES ASSUME calls[d] # <<>> PROVE CallOK(d)'
    BY <1>1 DEF CallOK
  <2>1. d # c /\ CallOK(d)
    BY <1>1
  <2>2. calls[d][1].message \in Messages
    <3>1. calls[d] \in Seq(Frames) /\ Len(calls[d]) = 1
      BY <2>1 DEF CallOK, TypeOK
    <3>2. calls[d][1] \in Frames
      BY <3>1
    <3> QED BY <3>2 DEF Frames
  <2>3. SentOnOtherSide(d, calls[d][1].message)'
    <3>1. SentOnOtherSide(d, calls[d][1].message)
      BY <2>1 DEF CallOK
    <3>2. PICK x \in Messages : x = calls[d][1].message
      BY <2>2
    <3>3. SentOnOtherSide(d, x)'
      BY <1>9, <3>1, <3>2
    <3>4. x = calls'[d][1].message
      BY <1>1, <3>2
    <3> QED BY <3>3, <3>4 DEF SentOnOtherSide
  <2>4. Consistent(d, calls[d][1].saved)'
    <3>1. Consistent(d, calls[d][1].saved) /\ blocks'[d] = blocks[d] /\ known' = known
          /\ calls' = calls
      BY <1>1, <1>3, <2>1 DEF CallOK
    <3> HIDE DEF IInv
    <3> QED BY <3>1 DEF Consistent
  <2>5. NotExecuted(d, calls[d][1].message)'
    BY <1>1, <2>1 DEF CallOK, NotExecuted
  <2> QED BY <1>1, <2>1, <2>3, <2>4, <2>5 DEF CallOK
<1> QED BY <1>5, <1>6, <1>10, <1>11, <1>12, <1>13

(* A newer header on the light client: more slots to trust.                 *)
LEMMA HeaderKeepsInvariant ==
    ASSUME IInv, TypeOK', NEW c \in Chains, NEW slot \in Slots, HeaderVerified(c, slot)
    PROVE  IInv'
<1> USE DEF IInv
<1>1. /\ slot <= Len(blocks[Other[c]]) /\ slot \in 1..Len(blocks[Other[c]])
      /\ known' = [known EXCEPT ![c] = @ \cup {slot}]
      /\ UNCHANGED <<nonce, sentMessages, executionStatus, storageRoot, messageId,
                     messageSender, calls, delivered, pendingLogs, blocks>>
  BY DEF HeaderVerified, contract, context, Slots
<1>2. \A d \in Chains : known[d] \subseteq known'[d]
  BY <1>1 DEF TypeOK
<1>3. KnownExist'
  BY <1>1 DEF KnownExist, TypeOK
<1>4. ContextIsCurrent' /\ DeliveredOnce' /\ OnlySentExecuted' /\ LogsRecorded'
  BY <1>1 DEF ContextIsCurrent, DeliveredOnce, OnlySentExecuted, LogsRecorded, LastCall,
              SentOnOtherSide
<1>5. ASSUME NEW d \in Chains PROVE Consistent(d, Journal(d))'
  BY <1>1, <1>2 DEF Consistent, Journal
<1>6. ASSUME NEW d \in Chains PROVE CallOK(d)'
  <2> SUFFICES ASSUME calls[d] # <<>> PROVE CallOK(d)'
    BY <1>1 DEF CallOK
  <2>1. CallOK(d)
    OBVIOUS
  <2>2. Consistent(d, calls[d][1].saved)'
    <3>1. Consistent(d, calls[d][1].saved)
      BY <2>1 DEF CallOK
    <3> HIDE DEF IInv
    <3> QED BY <1>1, <1>2, <3>1 DEF Consistent
  <2>3. SentOnOtherSide(d, calls[d][1].message)' /\ NotExecuted(d, calls[d][1].message)'
    BY <1>1, <2>1 DEF CallOK, SentOnOtherSide, NotExecuted
  <2> QED BY <1>1, <2>1, <2>2, <2>3 DEF CallOK
<1> QED BY <1>3, <1>4, <1>5, <1>6

LEMMA NextKeepsInvariant ==
    ASSUME IInv, [Next]_vars
    PROVE  IInv'
<1>1. TypeOK'
  BY NextKeepsTypes DEF IInv
<1>2. CASE Next
  <2> USE SendKeepsInvariant, ExecuteKeepsInvariant, ReturnKeepsInvariant,
          SlotKeepsInvariant, HeaderKeepsInvariant
  <2> QED BY <1>1, <1>2 DEF Next
<1>3. CASE UNCHANGED vars
  <2>1. ContextIsCurrent' /\ DeliveredOnce' /\ OnlySentExecuted'
    BY <1>3 DEF vars, contract, context, IInv, ContextIsCurrent, LastCall,
                DeliveredOnce, OnlySentExecuted, SentOnOtherSide
  <2>2. LogsRecorded' /\ KnownExist'
    BY <1>3 DEF vars, IInv, LogsRecorded, KnownExist
  <2>3. ASSUME NEW c \in Chains PROVE Consistent(c, Journal(c))' /\ CallOK(c)'
    <3>1. Consistent(c, Journal(c)) /\ CallOK(c)
      BY DEF IInv
    <3>2. Consistent(c, Journal(c))'
      BY <1>3, <3>1 DEF vars, contract, Consistent, Journal
    <3>3. CallOK(c)'
      BY <1>3, <3>1, CallOKStays DEF vars, contract
    <3> QED BY <3>2, <3>3
  <2> QED BY <1>1, <2>1, <2>2, <2>3 DEF IInv
<1> QED BY <1>2, <1>3

LEMMA InitIsConsistent == Init => IInv
<1> SUFFICES ASSUME Init PROVE IInv
  OBVIOUS
<1>1. TypeOK
  BY DEF Init, TypeOK, Storage, Statuses
<1>2. ContextIsCurrent /\ DeliveredOnce /\ OnlySentExecuted
  BY DEF Init, ContextIsCurrent, DeliveredOnce, OnlySentExecuted
<1>3. LogsRecorded /\ KnownExist
  BY DEF Init, LogsRecorded, KnownExist
<1>4. \A c \in Chains : Consistent(c, Journal(c)) /\ CallOK(c)
  BY DEF Init, Consistent, Journal, CallOK
<1> QED BY <1>1, <1>2, <1>3, <1>4 DEF IInv

(* The inductive invariant holds in every reachable state.                  *)
THEOREM BridgeInvariant == Spec => []IInv
<1>1. Init => IInv
  BY InitIsConsistent
<1>2. IInv /\ [Next]_vars => IInv'
  BY NextKeepsInvariant
<1> QED BY <1>1, <1>2, PTL DEF Spec

(* No message is processed twice by its receiver, whatever receivers call   *)
(* and executors retry.                                                     *)
THEOREM DeliveryIsOnce == Spec => []DeliveredOnce
<1>1. IInv => DeliveredOnce
  BY DEF IInv
<1> QED BY <1>1, BridgeInvariant, PTL

(* Whatever was executed had been recorded on the other chain.              *)
THEOREM ExecutionIsOfSent == Spec => []OnlySentExecuted
<1>1. IInv => OnlySentExecuted
  BY DEF IInv
<1> QED BY <1>1, BridgeInvariant, PTL

(* The context a receiver reads is that of its own message.                 *)
THEOREM ContextIsTrue == Spec => []ContextIsCurrent
<1>1. IInv => ContextIsCurrent
  BY DEF IInv
<1> QED BY <1>1, BridgeInvariant, PTL

(* Cached roots need no second look: not even an undone call leaves one     *)
(* that the light client has not verified.                                  *)
THEOREM CachedRootsAreVerified == Spec => []CachedRootsVerified
<1>1. IInv => CachedRootsVerified
  BY DEF IInv, CachedRootsVerified, Consistent, Journal
<1> QED BY <1>1, BridgeInvariant, PTL

(* A nonce that a finished block shows used is used for that message only.  *)
THEOREM SentMessagesAreKept == Spec => []SentMessagesStay
<1>1. IInv => SentMessagesStay
  BY DEF IInv, SentMessagesStay, Consistent, Journal
<1> QED BY <1>1, BridgeInvariant, PTL

-----------------------------------------------------------------------------
(* Proofs of logs.                                                          *)

(* Numbers less than h apart are equal if they are equal modulo h.          *)
LEMMA EqualModulo ==
    ASSUME NEW h \in Nat \ {0}, NEW a \in Int, NEW b \in Int,
           a % h = b % h, a - b < h, b - a < h
    PROVE  a = b
<1> DEFINE k == (a \div h) - (b \div h)
<1>1. /\ a % h = a - h * (a \div h) /\ b % h = b - h * (b \div h)
      /\ a \div h \in Int /\ b \div h \in Int
  OBVIOUS
<1>2. h * (a \div h) - h * (b \div h) = h * k
  BY <1>1
<1>3. h * (a \div h) \in Int /\ h * (b \div h) \in Int /\ k \in Int
  BY <1>1
<1> HIDE DEF k
<1>4. h * k = a - b
  BY <1>1, <1>2, <1>3
<1>5. k = 0
  <2>1. k >= 1 => h * k >= h
    BY <1>3
  <2>2. k <= -1 => h * k <= -h
    BY <1>3
  <2> QED BY <1>3, <1>4, <2>1, <2>2
<1> QED BY <1>4, <1>5

(* The index that the contract computes for a slot leads to that slot: of   *)
(* the source itself, by the source's state roots, or by a batch of them    *)
(* that is complete.                                                        *)
LEMMA ProvenSlotIsTarget ==
    ASSUME NEW source \in Nat, NEW target \in 1..source
    PROVE  ProvenSlot(source, target) = target
<1> DEFINE h == SlotsPerHistoricalRoot
<1>1. h \in Nat \ {0} /\ target \in Nat /\ target <= source
  OBVIOUS
<1>2. CASE target = source
  BY <1>2 DEF ProvenSlot
<1>3. CASE target # source /\ target + h <= source
  <2>1. ASSUME NEW k \in Nat \ {0} PROVE (target \div k + 1) * k <= target + k
    <3> DEFINE q == target \div k
    <3>1. q \in Int /\ q * k <= target
      BY <1>1
    <3> HIDE DEF q
    <3>2. (q + 1) * k = q * k + k
      BY <3>1
    <3>3. q * k \in Int
      BY <3>1
    <3> QED BY <1>1, <3>1, <3>2, <3>3 DEF q
  <2>2. (HistoricalBatch(target) + 1) * h <= target + h
    BY <1>1, <2>1 DEF HistoricalBatch
  <2>3. (HistoricalBatch(target) + 1) * h \in Int
    BY <1>1 DEF HistoricalBatch
  <2> HIDE DEF h
  <2>4. (HistoricalBatch(target) + 1) * h <= source
    BY <1>1, <1>3, <2>2, <2>3
  <2> QED BY <1>3, <2>4 DEF ProvenSlot, h
<1>4. CASE target # source /\ ~(target + h <= source)
  <2> DEFINE window == (source - h)..(source - 1)
             found == CHOOSE s \in window : s % h = target % h
  <2>1. target \in window
    BY <1>1, <1>4
  <2>2. found \in window /\ found % h = target % h
    <3> HIDE DEF window
    <3> QED BY <2>1
  <2>3. ProvenSlot(source, target) = found
    BY <1>1, <1>4 DEF ProvenSlot
  <2> HIDE DEF found
  <2>4. found \in Int /\ target \in Int /\ found - target < h /\ target - found < h
    BY <1>1, <2>1, <2>2
  <2> QED BY <1>1, <2>2, <2>3, <2>4, EqualModulo
<1> QED BY <1>2, <1>3, <1>4

(* The key that the contract computes is that of the receipt for the first  *)
(* transaction of a block and for those from 128 on, and that of no receipt *)
(* for the ones in between.                                                 *)
LEMMA KeysOfReceipts ==
    ASSUME NEW i \in Nat
    PROVE  /\ i = 0 \/ i >= 128 => ReceiptKey(i) = rlpIndex(i)
           /\ i \in 1..127 => \A v \in Nat : ReceiptKey(i) # rlpIndex(v)
<1>1. CASE i = 0
  BY <1>1 DEF ReceiptKey, rlpIndex
<1>2. CASE i >= 128
  BY <1>2 DEF ReceiptKey, rlpIndex
<1>3. ASSUME i \in 1..127, NEW v \in Nat PROVE ReceiptKey(i) # rlpIndex(v)
  <2>1. ReceiptKey(i) = <<i>> /\ i # 128
    BY <1>3 DEF ReceiptKey
  <2>2. CASE v < 128
    BY <2>1, <2>2 DEF rlpIndex
  <2>3. CASE v >= 128
    <3>1. Len(rlpIndex(v)) \in {2, 3}
      BY <2>3 DEF rlpIndex
    <3> QED BY <2>1, <3>1
  <2> QED BY <2>2, <2>3
<1> QED BY <1>1, <1>2, <1>3

(* A log stays provable against every header verified after it, whatever    *)
(* its age (_verifyMessageLog), if no message is sent by the transactions   *)
(* whose key the contract gets wrong.                                       *)
THEOREM LogsAreAlwaysProvable ==
    ASSUME TxIndexes \cap (1..127) = {}
    PROVE  Spec => []LogsStayProvable
<1>1. IInv => LogsStayProvable
  <2> SUFFICES ASSUME IInv, NEW c \in Chains, NEW source \in known[c], NEW target \in 1..source,
                      NEW log \in blocks[Other[c]][target].logs
               PROVE  \E i \in TxIndexes :
                         LogProven(c, ProvenSlot(source, target), i, log.message)
    BY DEF LogsStayProvable
  <2>1. source \in 1..Len(blocks[Other[c]]) /\ blocks[Other[c]] \in Seq(Blocks)
    BY DEF IInv, KnownExist, TypeOK
  <2>2. source \in Nat /\ target \in 1..Len(blocks[Other[c]])
    BY <2>1
  <2>3. ProvenSlot(source, target) = target
    BY <2>2, ProvenSlotIsTarget
  <2>4. log \in Logs
    <3>1. blocks[Other[c]][target] \in Blocks
      BY <2>1, <2>2
    <3> QED BY <3>1 DEF Blocks
  <2>5. log.txIndex \in TxIndexes /\ ReceiptKey(log.txIndex) = rlpIndex(log.txIndex)
    <3>1. log.txIndex \in TxIndexes /\ log.txIndex \in Nat
      BY <2>4 DEF Logs
    <3>2. log.txIndex = 0 \/ log.txIndex >= 128
      BY <3>1
    <3> QED BY <3>1, <3>2, KeysOfReceipts
  <2>6. LogProven(c, target, log.txIndex, log.message)
    BY <2>2, <2>5 DEF LogProven
  <2>7. LogProven(c, ProvenSlot(source, target), log.txIndex, log.message)
    BY <2>3, <2>6
  <2> QED BY <2>5, <2>7, Zenon
<1> QED BY <1>1, BridgeInvariant, PTL

(* A log of one of those transactions is proven by no index at all, unless  *)
(* another transaction of the block has sent the same message.              *)
THEOREM LogsInBetweenAreUnprovable ==
    ASSUME NEW c \in Chains, NEW slot \in 1..Len(blocks[Other[c]]), NEW m \in Messages,
           \A log \in blocks[Other[c]][slot].logs :
              log.message = m => log.txIndex \in 1..127
    PROVE  \A v \in Nat : ~LogProven(c, slot, v, m)
<1> SUFFICES ASSUME NEW v \in Nat, LogProven(c, slot, v, m) PROVE FALSE
  OBVIOUS
<1>1. PICK log \in blocks[Other[c]][slot].logs :
         log.message = m /\ ReceiptKey(log.txIndex) = rlpIndex(v)
  BY DEF LogProven
<1>2. log.txIndex \in 1..127
  BY <1>1, Zenon
<1>3. \A i \in 1..127 : i \in Nat /\ ReceiptKey(i) # rlpIndex(v)
  BY KeysOfReceipts
<1> QED BY <1>1, <1>2, <1>3, Zenon

-----------------------------------------------------------------------------
(* The pair of contracts is a message channel.  A call in progress is not   *)
(* visible yet: its return is the step of the channel.                      *)
LEMMA OutermostConsistent ==
    ASSUME IInv, NEW c \in Chains
    PROVE  /\ Consistent(c, Outermost(c))
           /\ Outermost(c).executionStatus = executionStatus[c]
           /\ Outermost(c).sentMessages \in Storage
<1>1. CASE calls[c] = <<>>
  <2>1. Outermost(c) = Journal(c) /\ Consistent(c, Journal(c))
    BY <1>1 DEF Outermost, IInv
  <2>2. Journal(c).executionStatus = executionStatus[c] /\ Journal(c).sentMessages \in Storage
    BY DEF Journal, IInv, TypeOK
  <2> QED BY <2>1, <2>2
<1>2. CASE calls[c] # <<>>
  <2>1. Outermost(c) = calls[c][1].saved /\ CallOK(c)
    BY <1>2 DEF Outermost, IInv
  <2>2. calls[c] \in Seq(Frames) /\ Len(calls[c]) = 1
    BY <1>2, <2>1 DEF CallOK, IInv, TypeOK
  <2>3. calls[c][1] \in Frames
    BY <2>2
  <2>4. calls[c][1].saved.sentMessages \in Storage
    BY <2>3 DEF Frames, Journals
  <2> QED BY <1>2, <2>1, <2>4 DEF CallOK
<1> QED BY <1>1, <1>2

(* A message recorded in a block of a chain has been sent there.            *)
LEMMA RecordedIsSent ==
    ASSUME IInv, NEW c \in Chains, NEW m \in Messages, SentOnOtherSide(c, m)
    PROVE  m \in ChannelSent[Other[c]]
<1>1. Other[c] \in Chains /\ Consistent(Other[c], Outermost(Other[c]))
  BY OutermostConsistent
<1>2. m.nonce \in Nonces /\ m # Zero
  BY DEF Messages
<1>3. Outermost(Other[c]).sentMessages[m.nonce] = m
  BY <1>1, <1>2 DEF SentOnOtherSide, Consistent
<1>4. m \in SentOf(Outermost(Other[c]))
  BY <1>2, <1>3 DEF SentOf
<1> QED BY <1>1, <1>4 DEF ChannelSent

LEMMA SentAreMessages ==
    ASSUME NEW journal, journal.sentMessages \in Storage
    PROVE  SentOf(journal) \subseteq Messages
BY DEF SentOf, Storage, Sendable

(* What a step that changes the visible state of one chain only must add.   *)
LEMMA ChannelChange ==
    ASSUME NEW c \in Chains,
           \A d \in Chains \ {c} : Outermost(d)' = Outermost(d)
    PROVE  /\ ChannelSent' = [ChannelSent EXCEPT ![c] = SentOf(Outermost(c))']
           /\ ChannelOutcome' = [ChannelOutcome EXCEPT ![c] = Outermost(c).executionStatus']
<1>1. \A d \in Chains \ {c} : SentOf(Outermost(d))' = SentOf(Outermost(d))
  BY DEF SentOf
<1> QED BY <1>1 DEF ChannelSent, ChannelOutcome

(* A step that changes the visible state of no chain.                       *)
LEMMA ChannelStutter ==
    ASSUME \A d \in Chains : /\ Outermost(d).sentMessages' = Outermost(d).sentMessages
                             /\ Outermost(d).executionStatus' = Outermost(d).executionStatus
    PROVE  ChannelSent' = ChannelSent /\ ChannelOutcome' = ChannelOutcome
<1>1. \A d \in Chains : SentOf(Outermost(d))' = SentOf(Outermost(d))
  BY DEF SentOf
<1> QED BY <1>1 DEF ChannelSent, ChannelOutcome

LEMMA SendIsChannelStep ==
    ASSUME IInv, IInv', NEW c \in Chains, NEW sender \in Senders,
           NEW receiver \in Receivers, NEW gasLimit \in GasLimits, NEW data \in Payloads,
           NEW i \in TxIndexes,
           RequireToPassMessage(c, sender, receiver, gasLimit, data, i)
    PROVE  [Channel!Next]_(Channel!vars)
<1>1. /\ calls' = calls /\ executionStatus' = executionStatus
      /\ \E m : sentMessages' = [sentMessages EXCEPT ![c][nonce[c]] = m]
      /\ nonce[c] < MaxMessages[c]
  BY DEF RequireToPassMessage
<1>2. \A d \in Chains \ {c} : Outermost(d)' = Outermost(d)
  BY DEF RequireToPassMessage, Outermost, Journal, IInv, TypeOK
<1>3. CASE calls[c] # <<>>
  <2>1. Outermost(c)' = Outermost(c)
    BY <1>1, <1>3 DEF Outermost
  <2> QED BY <1>2, <2>1, ChannelStutter DEF Channel!vars
<1>4. CASE calls[c] = <<>>
  <2> DEFINE new == SentOf(Outermost(c))' \ ChannelSent[c]
  <2>1. /\ Outermost(c).sentMessages = sentMessages[c]
        /\ Outermost(c)'.sentMessages = sentMessages'[c]
        /\ Outermost(c)'.executionStatus = executionStatus[c]
        /\ ChannelSent[c] = SentOf(Outermost(c))
    BY <1>1, <1>4 DEF Outermost, Journal, ChannelSent
  <2>2. sentMessages[c][nonce[c]] = Zero /\ nonce[c] \in Nonces
    <3>1. nonce[c] \in Nonces
      BY <1>1 DEF IInv, TypeOK, Nonces
    <3>2. Consistent(c, Journal(c))
      BY DEF IInv
    <3> QED BY <3>1, <3>2 DEF Consistent, Journal, IInv, TypeOK
  <2>3. \A n \in Nonces : sentMessages[c][n] # Zero => sentMessages'[c][n] = sentMessages[c][n]
    BY <1>1, <2>2 DEF IInv, TypeOK, Storage
  <2>4. SentOf(Outermost(c)) \subseteq SentOf(Outermost(c))'
    BY <2>1, <2>3 DEF SentOf
  <2>5. SentOf(Outermost(c))' \subseteq Messages
    BY <2>1 DEF IInv, TypeOK, SentOf, Storage, Sendable
  <2>6. ChannelSent' = [ChannelSent EXCEPT ![c] = @ \cup new]
    <3>1. SentOf(Outermost(c))' = ChannelSent[c] \cup new
      BY <2>1, <2>4
    <3>2. ChannelSent' = [ChannelSent EXCEPT ![c] = SentOf(Outermost(c))']
      BY <1>2, ChannelChange
    <3> QED BY <3>1, <3>2
  <2>7. ChannelOutcome' = ChannelOutcome
    <3>1. ChannelOutcome' = [ChannelOutcome EXCEPT ![c] = Outermost(c).executionStatus']
      BY <1>2, ChannelChange
    <3>2. ChannelOutcome[c] = Outermost(c).executionStatus'
      BY <2>1, OutermostConsistent DEF ChannelOutcome
    <3> QED BY <3>1, <3>2 DEF ChannelOutcome
  <2>8. new \in SUBSET (Messages \ ChannelSent[c])
    BY <2>5
  <2>9. Channel!Send(c)
    BY <2>6, <2>7, <2>8 DEF Channel!Send
  <2> QED BY <2>9 DEF Channel!Next
<1> QED BY <1>3, <1>4

LEMMA ExecuteIsStutter ==
    ASSUME IInv, IInv', NEW c \in Chains, NEW m \in Messages, Execute(c, m)
    PROVE  UNCHANGED Channel!vars
<1>1. PICK saved \in Journals :
             /\ CallReceiver(c, m, saved)
             /\ saved = [Journal(c) EXCEPT !.storageRoot = storageRoot'[c]]
             /\ \A d \in Chains \ {c} : storageRoot'[d] = storageRoot[d]
             /\ UNCHANGED <<nonce, sentMessages, executionStatus, delivered,
                            pendingLogs, blocks, known>>
  BY ExecuteEffect DEF IInv
<1>2. calls[c] = <<>>
  BY <1>1, NoNesting DEF CallReceiver
<1>3. /\ calls'[c] # <<>> /\ calls'[c][1].saved = saved
      /\ \A d \in Chains \ {c} : calls'[d] = calls[d]
  <2> DEFINE frame == [message |-> m, saved |-> saved]
  <2>1. calls' = [calls EXCEPT ![c] = Append(@, frame)]
    BY <1>1 DEF CallReceiver
  <2>2. calls \in [Chains -> Seq(Frames)]
    BY DEF IInv, TypeOK
  <2> HIDE DEF frame
  <2>3. Append(calls[c], frame) = <<frame>>
    BY <1>2
  <2>4. calls'[c] = <<frame>> /\ \A d \in Chains \ {c} : calls'[d] = calls[d]
    BY <2>1, <2>2, <2>3
  <2>5. calls'[c] # <<>> /\ calls'[c][1] = frame
    BY <2>4
  <2> QED BY <2>4, <2>5 DEF frame
<1>4. /\ Outermost(c).sentMessages = sentMessages[c]
      /\ Outermost(c).executionStatus = executionStatus[c]
  BY <1>2 DEF Outermost, Journal
<1>5. saved.sentMessages = sentMessages[c] /\ saved.executionStatus = executionStatus[c]
  BY <1>1 DEF Journal
<1>6. Outermost(c)' = saved
  BY <1>3 DEF Outermost
<1>7. \A d \in Chains \ {c} : Outermost(d)' = Outermost(d)
  BY <1>1, <1>3 DEF Outermost, Journal
<1> QED BY <1>4, <1>5, <1>6, <1>7, ChannelStutter DEF Channel!vars

LEMMA ReturnIsChannelStep ==
    ASSUME IInv, IInv', NEW c \in Chains, ReceiverReturns(c) \/ ReceiverReverts(c)
    PROVE  Channel!Next
<1> DEFINE m == calls[c][1].message
           saved == calls[c][1].saved
<1>1. /\ calls[c] # <<>> /\ Len(calls[c]) = 1 /\ LastCall(c) = calls[c][1]
      /\ m \in Messages /\ calls[c] \in Seq(Frames)
  <2>1. calls[c] # <<>> /\ calls[c] \in Seq(Frames)
    BY DEF ReceiverReturns, ReceiverReverts, IInv, TypeOK
  <2>2. Len(calls[c]) = 1
    BY <2>1 DEF CallOK, IInv
  <2>3. LastCall(c) = calls[c][1] /\ LastCall(c) \in Frames
    BY <2>1, <2>2, FrontOfSeq DEF LastCall
  <2> QED BY <2>1, <2>2, <2>3 DEF Frames
<1>2. /\ NotExecuted(c, m) /\ m \in ChannelSent[Other[c]]
      /\ \A n \in Nonces : saved.sentMessages[n] # Zero
            => sentMessages[c][n] = saved.sentMessages[n]
  <2>1. CallOK(c)
    BY DEF IInv
  <2> QED BY <1>1, <2>1, RecordedIsSent DEF CallOK
<1>3. /\ calls'[c] = <<>> /\ \A d \in Chains \ {c} : calls'[d] = calls[d]
  <2>1. calls' = [calls EXCEPT ![c] = SubSeq(@, 1, Len(@) - 1)]
    BY DEF ReceiverReturns, ReceiverReverts
  <2>2. SubSeq(calls[c], 1, Len(calls[c]) - 1) = <<>>
    BY <1>1
  <2> QED BY <2>1, <2>2 DEF IInv, TypeOK
<1>4. \A d \in Chains \ {c} : Outermost(d)' = Outermost(d)
  <2>1. \A d \in Chains \ {c} : Journal(d)' = Journal(d)
    <3>1. \A d \in Chains \ {c} :
            /\ nonce'[d] = nonce[d] /\ sentMessages'[d] = sentMessages[d]
            /\ executionStatus'[d] = executionStatus[d] /\ storageRoot'[d] = storageRoot[d]
            /\ delivered'[d] = delivered[d] /\ pendingLogs'[d] = pendingLogs[d]
      BY ReturnElsewhere DEF IInv
    <3> QED BY <3>1 DEF Journal
  <2> QED BY <1>3, <2>1 DEF Outermost
<1>5. /\ Outermost(c)'.sentMessages = sentMessages'[c]
      /\ Outermost(c)'.executionStatus = executionStatus'[c]
      /\ ChannelSent[c] = SentOf(saved)
      /\ ChannelOutcome[c] = executionStatus[c]
  <2>1. Outermost(c)' = Journal(c)' /\ Outermost(c) = saved
    BY <1>1, <1>3 DEF Outermost
  <2> QED BY <2>1, OutermostConsistent DEF Journal, ChannelSent, ChannelOutcome
<1>6. executionStatus \in [Chains -> [Messages -> Statuses]]
      /\ sentMessages \in [Chains -> Storage]
  BY DEF IInv, TypeOK
<1>7. /\ ChannelSent' = [ChannelSent EXCEPT ![c] = SentOf(Outermost(c))']
      /\ ChannelOutcome' = [ChannelOutcome EXCEPT ![c] = executionStatus'[c]]
  BY <1>4, <1>5, ChannelChange
<1>8. ChannelOutcome[c][m] = "NOT_EXECUTED"
  BY <1>2, <1>5 DEF NotExecuted
<1>9. CASE ReceiverReturns(c)
  <2> DEFINE new == SentOf(Outermost(c))' \ ChannelSent[c]
  <2>1. sentMessages'[c] = sentMessages[c]
        /\ executionStatus'[c] = [executionStatus[c] EXCEPT ![m] = "EXECUTION_SUCCEEDED"]
    BY <1>1, <1>6, <1>9 DEF ReceiverReturns
  <2>2. SentOf(saved) \subseteq SentOf(Outermost(c))'
    BY <1>2, <1>5, <2>1 DEF SentOf
  <2>3. SentOf(Outermost(c))' \subseteq Messages
    BY <1>5, <1>6, <2>1 DEF SentOf, Storage, Sendable
  <2>4. ChannelSent' = [ChannelSent EXCEPT ![c] = @ \cup new]
    <3>1. SentOf(Outermost(c))' = ChannelSent[c] \cup new
      BY <1>5, <2>2
    <3> QED BY <1>7, <3>1
  <2>5. ChannelOutcome' = [ChannelOutcome EXCEPT ![c][m] = "EXECUTION_SUCCEEDED"]
    BY <1>5, <1>7, <2>1
  <2>6. new \in SUBSET (Messages \ ChannelSent[c])
    BY <2>3
  <2>7. Channel!Deliver(c, m)
    BY <1>2, <1>8, <2>4, <2>5, <2>6 DEF Channel!Deliver
  <2> QED BY <1>1, <2>7 DEF Channel!Next
<1>10. CASE ReceiverReverts(c)
  <2>1. sentMessages'[c] = saved.sentMessages
        /\ executionStatus'[c] = [executionStatus[c] EXCEPT ![m] = "EXECUTION_FAILED"]
    <3>1. saved.executionStatus = executionStatus[c]
      BY <1>1 DEF IInv, CallOK
    <3> QED BY <1>1, <1>6, <1>10, <3>1 DEF ReceiverReverts, Restore
  <2>2. SentOf(Outermost(c))' = ChannelSent[c]
    BY <1>5, <2>1 DEF SentOf
  <2>3. ChannelSent' = ChannelSent
    BY <1>7, <2>2 DEF ChannelSent
  <2>4. ChannelOutcome' = [ChannelOutcome EXCEPT ![c][m] = "EXECUTION_FAILED"]
    BY <1>5, <1>7, <2>1
  <2>5. Channel!Fail(c, m)
    BY <1>2, <1>8, <2>3, <2>4 DEF Channel!Fail
  <2> QED BY <1>1, <2>5 DEF Channel!Next
<1> QED BY <1>9, <1>10

(* Every behaviour of the two contracts, seen between two transactions, is  *)
(* a behaviour of the message channel.                                      *)
THEOREM AMBImplementsMessageChannel == Spec => ImplementsMessageChannel
<1>1. Init => Channel!Init
  <2> SUFFICES ASSUME Init PROVE Channel!Init
    OBVIOUS
  <2>1. \A c \in Chains : Outermost(c) = Journal(c)
    BY DEF Init, Outermost
  <2>2. \A c \in Chains : /\ SentOf(Outermost(c)) = {}
                          /\ Outermost(c).executionStatus = [m \in Messages |-> "NOT_EXECUTED"]
    <3> SUFFICES ASSUME NEW c \in Chains
                 PROVE  /\ SentOf(Outermost(c)) = {}
                        /\ Outermost(c).executionStatus = [m \in Messages |-> "NOT_EXECUTED"]
      OBVIOUS
    <3>1. /\ Outermost(c).sentMessages = [n \in Nonces |-> Zero]
          /\ Outermost(c).executionStatus = [m \in Messages |-> "NOT_EXECUTED"]
      BY <2>1 DEF Init, Journal
    <3>2. \A x \in SentOf(Outermost(c)) : FALSE
      BY <3>1 DEF SentOf
    <3> QED BY <3>1, <3>2
  <2> QED BY <2>2 DEF Channel!Init, ChannelSent, ChannelOutcome
<1>2. IInv /\ IInv' /\ [Next]_vars => [Channel!Next]_(Channel!vars)
  <2> SUFFICES ASSUME IInv, IInv', [Next]_vars PROVE [Channel!Next]_(Channel!vars)
    OBVIOUS
  <2>1. ASSUME NEW c \in Chains, NEW missed \in BOOLEAN, NextSlot(c, missed)
        PROVE  UNCHANGED Channel!vars
    <3>1. \A d \in Chains : /\ Outermost(d).sentMessages' = Outermost(d).sentMessages
                            /\ Outermost(d).executionStatus' = Outermost(d).executionStatus
      BY <2>1 DEF NextSlot, contract, Outermost, Journal
    <3> QED BY <3>1, ChannelStutter DEF Channel!vars
  <2>2. ASSUME NEW c \in Chains, NEW slot \in Slots, HeaderVerified(c, slot)
        PROVE  UNCHANGED Channel!vars
    <3>1. \A d \in Chains : Outermost(d)' = Outermost(d)
      BY <2>2 DEF HeaderVerified, contract, Outermost, Journal
    <3> QED BY <3>1, ChannelStutter DEF Channel!vars
  <2>3. CASE UNCHANGED vars
    <3>1. \A d \in Chains : Outermost(d)' = Outermost(d)
      BY <2>3 DEF vars, contract, Outermost, Journal
    <3> QED BY <3>1, ChannelStutter DEF Channel!vars
  <2>4. CASE Next
    <3> USE SendIsChannelStep, ExecuteIsStutter, ReturnIsChannelStep
    <3> QED BY <2>1, <2>2, <2>4 DEF Next
  <2> QED BY <2>3, <2>4
<1> QED BY <1>1, <1>2, BridgeInvariant, PTL DEF Spec, ImplementsMessageChannel, Channel!Spec

-----------------------------------------------------------------------------
(* The executors.  What the steps of the bridge leave to be relied on: more *)
(* headers are known, more blocks are there, and a cached root is kept.     *)

(* The cached roots are what a revert would restore.                        *)
RootsKept ==
    \A c \in Chains : calls[c] # <<>> => calls[c][1].saved.storageRoot = storageRoot[c]

BridgeInv == IInv /\ RootsKept

Grows(c) ==
    /\ known[c] \subseteq known'[c]
    /\ \A s \in 1..Len(blocks[c]) :
          s \in 1..Len(blocks'[c]) /\ blocks'[c][s] = blocks[c][s]
    /\ \A s \in Slots : storageRoot[c][s] # Zero => storageRoot'[c][s] = storageRoot[c][s]

LEMMA ExecuteGrows ==
    ASSUME BridgeInv, NEW c \in Chains, NEW m \in Messages, Execute(c, m)
    PROVE  RootsKept' /\ \A d \in Chains : Grows(d)
<1> USE DEF BridgeInv, IInv
<1>1. PICK saved \in Journals :
         /\ CallReceiver(c, m, saved)
         /\ saved = [Journal(c) EXCEPT !.storageRoot = storageRoot'[c]]
         /\ \A d \in Chains \ {c} : storageRoot'[d] = storageRoot[d]
         /\ UNCHANGED <<blocks, known>>
  BY ExecuteEffect
<1>2. calls[c] = <<>>
  BY <1>1, NoNesting DEF CallReceiver
<1>3. saved.storageRoot = storageRoot'[c]
  BY <1>1 DEF Journal
<1>4. /\ calls'[c][1].saved = saved
      /\ \A d \in Chains \ {c} : calls'[d] = calls[d]
  <2> DEFINE frame == [message |-> m, saved |-> saved]
  <2>1. calls' = [calls EXCEPT ![c] = Append(@, frame)] /\ calls \in [Chains -> Seq(Frames)]
    BY <1>1 DEF CallReceiver, TypeOK
  <2> HIDE DEF frame
  <2>2. Append(calls[c], frame) = <<frame>>
    BY <1>2
  <2>3. calls'[c] = <<frame>> /\ \A d \in Chains \ {c} : calls'[d] = calls[d]
    BY <2>1, <2>2
  <2>4. calls'[c][1] = frame
    BY <2>3
  <2> QED BY <2>3, <2>4 DEF frame
<1>5. RootsKept'
  BY <1>1, <1>3, <1>4 DEF RootsKept
<1>6. \A s \in Slots : storageRoot[c][s] # Zero => storageRoot'[c][s] = storageRoot[c][s]
  <2>1. ASSUME NEW slot \in Slots, ExecuteMessage(c, slot, m)
        PROVE  \A s \in Slots : storageRoot[c][s] # Zero => storageRoot'[c][s] = storageRoot[c][s]
    BY <2>1 DEF ExecuteMessage, RootForSlot, TypeOK
  <2>2. ASSUME NEW s \in Slots, NEW t \in Slots, NEW i \in TxIndexes,
               ExecuteMessageFromLog(c, s, t, i, m)
        PROVE  storageRoot' = storageRoot
    BY <2>2 DEF ExecuteMessageFromLog, contract
  <2> QED BY <2>1, <2>2 DEF Execute
<1>7. ASSUME NEW d \in Chains PROVE Grows(d)
  BY <1>1, <1>6 DEF Grows
<1> QED BY <1>5, <1>7

LEMMA ReturnGrows ==
    ASSUME BridgeInv, NEW c \in Chains, ReceiverReturns(c) \/ ReceiverReverts(c)
    PROVE  RootsKept' /\ \A d \in Chains : Grows(d)
<1> USE DEF BridgeInv, IInv
<1>1. /\ calls[c] # <<>> /\ calls[c] \in Seq(Frames) /\ calls \in [Chains -> Seq(Frames)]
      /\ calls' = [calls EXCEPT ![c] = SubSeq(@, 1, Len(@) - 1)]
      /\ UNCHANGED <<blocks, known>>
  BY DEF ReceiverReturns, ReceiverReverts, TypeOK
<1>2. Len(calls[c]) = 1 /\ LastCall(c) = calls[c][1]
  BY <1>1 DEF CallOK, LastCall
<1>3. calls'[c] = <<>> /\ \A d \in Chains \ {c} : calls'[d] = calls[d]
  <2>1. SubSeq(calls[c], 1, Len(calls[c]) - 1) = <<>>
    BY <1>1, <1>2
  <2> QED BY <1>1, <2>1
<1>4. storageRoot' = storageRoot
  <2>1. calls[c][1].saved.storageRoot = storageRoot[c]
    BY <1>1 DEF RootsKept
  <2>2. CASE ReceiverReverts(c)
    <3>1. storageRoot' = [storageRoot EXCEPT ![c] = storageRoot[c]]
      BY <1>2, <2>1, <2>2 DEF ReceiverReverts, Restore
    <3> QED BY <3>1 DEF TypeOK
  <2>3. CASE ReceiverReturns(c)
    BY <2>3 DEF ReceiverReturns
  <2> QED BY <2>2, <2>3
<1>5. RootsKept'
  BY <1>3, <1>4 DEF RootsKept
<1> QED BY <1>1, <1>4, <1>5 DEF Grows

LEMMA NextGrows ==
    ASSUME BridgeInv, [Next]_vars
    PROVE  BridgeInv' /\ \A d \in Chains : Grows(d)
<1>1. IInv'
  BY NextKeepsInvariant DEF BridgeInv
<1>2. ASSUME UNCHANGED <<calls, storageRoot>>, \A d \in Chains : known[d] \subseteq known'[d],
             \A d \in Chains : \A s \in 1..Len(blocks[d]) :
                s \in 1..Len(blocks'[d]) /\ blocks'[d][s] = blocks[d][s]
      PROVE  RootsKept' /\ \A d \in Chains : Grows(d)
  BY <1>2 DEF BridgeInv, RootsKept, Grows
<1>3. ASSUME UNCHANGED <<calls, storageRoot, known, blocks>>
      PROVE  RootsKept' /\ \A d \in Chains : Grows(d)
  BY <1>3 DEF BridgeInv, RootsKept, Grows
<1>4. ASSUME NEW c \in Chains, NEW missed \in BOOLEAN, NextSlot(c, missed)
      PROVE  RootsKept' /\ \A d \in Chains : Grows(d)
  <2>1. PICK b : blocks' = [blocks EXCEPT ![c] = Append(@, b)]
    BY <1>4 DEF NextSlot
  <2>2. blocks \in [Chains -> Seq(Blocks)]
    BY DEF BridgeInv, IInv, TypeOK
  <2>3. \A s \in 1..Len(blocks[c]) :
           s \in 1..Len(blocks'[c]) /\ blocks'[c][s] = blocks[c][s]
    <3>1. blocks'[c] = Append(blocks[c], b) /\ blocks[c] \in Seq(Blocks)
      BY <2>1, <2>2
    <3> QED BY <3>1
  <2>4. \A d \in Chains \ {c} : blocks'[d] = blocks[d]
    BY <2>1, <2>2
  <2>5. UNCHANGED <<calls, storageRoot, known>>
    BY <1>4 DEF NextSlot, contract
  <2>6. \A d \in Chains : \A s \in 1..Len(blocks[d]) :
           s \in 1..Len(blocks'[d]) /\ blocks'[d][s] = blocks[d][s]
    BY <2>3, <2>4
  <2> QED BY <1>2, <2>5, <2>6
<1>5. ASSUME NEW c \in Chains, NEW slot \in Slots, HeaderVerified(c, slot)
      PROVE  RootsKept' /\ \A d \in Chains : Grows(d)
  <2>1. /\ known' = [known EXCEPT ![c] = @ \cup {slot}]
        /\ UNCHANGED <<calls, storageRoot, blocks>>
    BY <1>5 DEF HeaderVerified, contract
  <2>2. \A d \in Chains : known[d] \subseteq known'[d]
    BY <2>1 DEF BridgeInv, IInv, TypeOK
  <2> QED BY <1>2, <2>1, <2>2
<1>6. ASSUME NEW c \in Chains, NEW sender, NEW receiver, NEW gasLimit, NEW data, NEW txIndex,
             RequireToPassMessage(c, sender, receiver, gasLimit, data, txIndex)
      PROVE  UNCHANGED <<calls, storageRoot, known, blocks>>
  BY <1>6 DEF RequireToPassMessage
<1>7. UNCHANGED vars => UNCHANGED <<calls, storageRoot, known, blocks>>
  BY DEF vars, contract
<1>8. RootsKept' /\ \A d \in Chains : Grows(d)
  <2>1. CASE UNCHANGED vars
    BY <1>3, <1>7, <2>1
  <2>2. CASE Next
    BY <1>3, <1>4, <1>5, <1>6, <2>2, ExecuteGrows, ReturnGrows DEF Next
  <2> QED BY <2>1, <2>2
<1> QED BY <1>1, <1>8 DEF BridgeInv

-----------------------------------------------------------------------------
StorageCalls == [route : {"storage"}, message : Messages, sourceSlot : Slots,
                 accountProof : BOOLEAN]
LogCalls == [route : {"log"}, message : Messages, sourceSlot : Slots, targetSlot : Slots,
             txIndex : TxIndexes]
Calls == StorageCalls \cup LogCalls

(* The part of Accepts that is about the proof.                             *)
ProofHolds(c, call) ==
    IF call.route = "storage"
    THEN /\ \/ storageRoot[c][call.sourceSlot] # Zero
            \/ call.accountProof /\ call.sourceSlot \in known[c]
         /\ StorageProven(c, RootForSlot(c, call.sourceSlot), call.message)
    ELSE /\ call.sourceSlot \in known[c]
         /\ LogProven(c, ProvenSlot(call.sourceSlot, call.targetSlot), call.txIndex,
                      call.message)

(* Proofs are not outdated by anything that happens to the bridge.          *)
LEMMA ProofsStay ==
    ASSUME BridgeInv, [Next]_vars, NEW c \in Chains, NEW call \in Calls, ProofHolds(c, call)
    PROVE  ProofHolds(c, call)'
<1> USE DEF BridgeInv, IInv
<1> DEFINE s == call.sourceSlot
           o == Other[c]
<1>1. s \in Slots /\ o \in Chains
  BY DEF Calls, StorageCalls, LogCalls
<1>2. Grows(c) /\ Grows(o) /\ IInv'
  BY <1>1, NextGrows
<1>3. CASE call.route = "storage"
  <2>1. s \in known[c] /\ RootForSlot(c, s) = s
    BY <1>1, <1>3 DEF ProofHolds, Consistent, Journal, RootForSlot
  <2>2. s \in 1..Len(blocks[o]) /\ blocks[o][s].sent[call.message.nonce] = call.message
    BY <1>3, <2>1 DEF ProofHolds, StorageProven, KnownExist
  <2>3. blocks'[o][s].sent[call.message.nonce] = call.message
    BY <1>2, <2>2 DEF Grows
  <2>4. storageRoot'[c][s] # Zero => storageRoot'[c][s] = s
    <3>1. Consistent(c, Journal(c))'
      BY <1>2
    <3> QED BY <1>1, <3>1 DEF Consistent, Journal
  <2>5. RootForSlot(c, s)' = s
    BY <2>4 DEF RootForSlot
  <2>6. storageRoot'[c][s] # Zero \/ (call.accountProof /\ s \in known'[c])
    BY <1>1, <1>2, <1>3 DEF ProofHolds, Grows
  <2> QED BY <1>3, <2>3, <2>5, <2>6 DEF ProofHolds, StorageProven
<1>4. CASE call.route # "storage"
  <2> DEFINE slot == ProvenSlot(s, call.targetSlot)
  <2>1. s \in known[c] /\ LogProven(c, slot, call.txIndex, call.message)
    BY <1>4 DEF ProofHolds
  <2> HIDE DEF slot
  <2>2. slot \in 1..Len(blocks[o])
    BY <2>1 DEF LogProven
  <2>3. slot \in 1..Len(blocks'[o]) /\ blocks'[o][slot] = blocks[o][slot]
    BY <1>2, <2>2 DEF Grows
  <2>4. LogProven(c, slot, call.txIndex, call.message)'
    BY <2>1, <2>3 DEF LogProven
  <2>5. s \in known'[c]
    BY <1>2, <2>1 DEF Grows
  <2> QED BY <1>4, <2>4, <2>5 DEF ProofHolds, slot
<1> QED BY <1>3, <1>4

-----------------------------------------------------------------------------
(* The inductive invariant of the executors.                                *)
Synced(r) ==
    /\ r.pc = "synced"
    /\ r.log \in Logs /\ r.synced \in Slots
Runs == \A e \in Executors :
    \/ run[e] = Idle \/ run[e] = [pc |-> "waiting"]
    \/ Synced(run[e])
    \/ run[e].pc = "built" /\ run[e].call \in Calls

Pendings == \A e \in Executors : pending[e] # None =>
    /\ pending[e] \in Calls
    /\ ProofHolds(e.target, pending[e])

ExecutorsInv ==
    /\ BridgeInv
    /\ run = [e \in Executors |-> run[e]] /\ pending = [e \in Executors |-> pending[e]]
    /\ Runs /\ Pendings

LEMMA ExecutorHasTarget ==
    ASSUME NEW e \in Executors
    PROVE  e.target \in Chains /\ Other[e.target] \in Chains
<1>1. e.target \in Chains
  BY ExecutorsAssumption
<1> QED BY <1>1

LEMMA SyncedSlotIsKnown ==
    ASSUME IInv, NEW c \in Chains, known[c] # {}
    PROVE  Max(known[c]) \in known[c] /\ Max(known[c]) \in Slots
<1> DEFINE n == Len(blocks[Other[c]])
<1>1. n \in Nat /\ known[c] \subseteq 1..n /\ known[c] \subseteq Slots
  <2>1. blocks[Other[c]] \in Seq(Blocks) /\ known[c] \subseteq Slots
    BY DEF IInv, TypeOK
  <2> QED BY <2>1 DEF IInv, KnownExist
<1> HIDE DEF n
<1>2. known[c] \in SUBSET (0..n)
  BY <1>1
<1>3. PICK x \in known[c] : \A y \in known[c] : y <= x
  BY <1>1, <1>2, GreatestNat
<1>4. \A y \in known[c] : x >= y
  BY <1>1, <1>3
<1>5. Max(known[c]) \in known[c]
  BY <1>3, <1>4 DEF Max
<1> QED BY <1>1, <1>5

(* A transaction runs the contract's own function.                          *)
LEMMA RunIsExecute ==
    ASSUME NEW c \in Chains, NEW call \in Calls, Run(c, call)
    PROVE  call.message \in Messages /\ Execute(c, call.message)
<1>1. CASE call \in StorageCalls
  BY <1>1 DEF StorageCalls, Run, Execute
<1>2. CASE call \in LogCalls
  <2>1. call.route # "storage" /\ call.message \in Messages
        /\ call.sourceSlot \in Slots /\ call.targetSlot \in Slots /\ call.txIndex \in TxIndexes
    BY <1>2 DEF LogCalls
  <2> QED BY <2>1 DEF Run, Execute
<1> QED BY <1>1, <1>2 DEF Calls

(* The executors do nothing to the bridge that anybody could not do.        *)
LEMMA ExecutorsStepOnBridge ==
    ASSUME ExecutorsInv, [ExecutorsNext]_allVars
    PROVE  [Next]_vars
<1>1. CASE Environment
  BY <1>1, Zenon DEF Environment, Next
<1>2. ASSUME NEW e \in Executors, Transact(e) PROVE [Next]_vars
  <2>1. CASE Accepts(e.target, pending[e])
    <3>1. Run(e.target, pending[e]) /\ pending[e] \in Calls
      BY <1>2, <2>1 DEF Transact, ExecutorsInv, Pendings
    <3>2. Execute(e.target, pending[e].message) /\ pending[e].message \in Messages
      BY <3>1, RunIsExecute, ExecutorHasTarget
    <3> QED BY <3>2, ExecutorHasTarget DEF Next
  <2>2. CASE ~Accepts(e.target, pending[e])
    BY <1>2, <2>2 DEF Transact
  <2> QED BY <2>1, <2>2
<1>3. ASSUME NEW e \in Executors, Work(e) \/ RunFails(e) PROVE UNCHANGED vars
  BY <1>3 DEF Work, Start, Build, Send, RunFails
<1>4. UNCHANGED allVars => UNCHANGED vars
  BY DEF allVars
<1> QED BY <1>1, <1>2, <1>3, <1>4 DEF ExecutorsNext

LEMMA AcceptedHolds ==
    ASSUME NEW c \in Chains, NEW call
    PROVE  Accepts(c, call) <=> /\ NotExecuted(c, call.message) /\ NoExecutionInProgress(c)
                                /\ ProofHolds(c, call)
  BY DEF Accepts, ProofHolds

(* A transaction that stays pending keeps its proof.                        *)
LEMMA PendingStays ==
    ASSUME ExecutorsInv, [Next]_vars, NEW e \in Executors, pending[e] # None,
           pending'[e] = pending[e]
    PROVE  pending'[e] \in Calls /\ ProofHolds(e.target, pending[e])'
<1>1. PICK call : call = pending[e]
  OBVIOUS
<1>2. call \in Calls /\ ProofHolds(e.target, call) /\ BridgeInv /\ e.target \in Chains
  BY <1>1, ExecutorHasTarget DEF ExecutorsInv, Pendings
<1>3. ProofHolds(e.target, call)'
  BY <1>2, ProofsStay
<1>4. call = pending'[e]
  BY <1>1
<1>5. ProofHolds(e.target, pending[e])'
  BY <1>3, <1>4 DEF ProofHolds
<1> QED BY <1>1, <1>2, <1>4, <1>5

LEMMA ExecutorsNextKeepsInv ==
    ASSUME ExecutorsInv, [ExecutorsNext]_allVars
    PROVE  ExecutorsInv'
<1>1. [Next]_vars /\ BridgeInv
  BY ExecutorsStepOnBridge DEF ExecutorsInv
<1>2. BridgeInv'
  BY <1>1, NextGrows
<1>3. ASSUME UNCHANGED <<run, pending>>
      PROVE  ExecutorsInv'
  <2>1. Pendings'
    BY <1>1, <1>3, PendingStays DEF Pendings
  <2> QED BY <1>2, <1>3, <2>1 DEF ExecutorsInv, Runs, Synced
<1>4. ASSUME NEW e \in Executors, NEW r, run' = [run EXCEPT ![e] = r], pending' = pending,
             r = Idle \/ Synced(r) \/ (r.pc = "built" /\ r.call \in Calls)
      PROVE  ExecutorsInv'
  <2>1. Pendings'
    BY <1>1, <1>4, PendingStays DEF Pendings
  <2>2. run' = [d \in Executors |-> run'[d]] /\ run'[e] = r
        /\ \A d \in Executors \ {e} : run'[d] = run[d]
    BY <1>4 DEF ExecutorsInv
  <2>3. Runs'
    BY <1>4, <2>2 DEF ExecutorsInv, Runs, Synced
  <2> QED BY <1>2, <1>4, <2>1, <2>2, <2>3 DEF ExecutorsInv
<1>5. ASSUME NEW e \in Executors, Start(e) PROVE ExecutorsInv'
  <2>1. PICK slot \in 1..Len(Source(e)) : \E log \in Source(e)[slot].logs :
           /\ known[e.target] # {}
           /\ run' = [run EXCEPT ![e] = [pc |-> "synced", log |-> log, slot |-> slot,
                                         synced |-> GetSyncedSlot(e)]]
           /\ pending' = pending
    BY <1>5 DEF Start
  <2>2. PICK log \in Source(e)[slot].logs :
           /\ known[e.target] # {}
           /\ run' = [run EXCEPT ![e] = [pc |-> "synced", log |-> log, slot |-> slot,
                                         synced |-> GetSyncedSlot(e)]]
           /\ pending' = pending
    BY <2>1
  <2>3. log \in Logs
    <3>1. Source(e) \in Seq(Blocks)
      BY ExecutorHasTarget DEF ExecutorsInv, BridgeInv, IInv, TypeOK, Source
    <3>2. Source(e)[slot] \in Blocks
      BY <3>1
    <3> QED BY <3>2 DEF Blocks
  <2>4. GetSyncedSlot(e) \in Slots
    BY <1>1, <2>2, ExecutorHasTarget, SyncedSlotIsKnown DEF GetSyncedSlot, BridgeInv
  <2> DEFINE r == [pc |-> "synced", log |-> log, slot |-> slot, synced |-> GetSyncedSlot(e)]
  <2>5. PICK q : q = r
    OBVIOUS
  <2>6. Synced(q)
    BY <2>3, <2>4, <2>5 DEF Synced
  <2>7. run' = [run EXCEPT ![e] = q] /\ pending' = pending
    BY <2>2, <2>5
  <2> QED BY <1>4, <2>6, <2>7
<1>6. ASSUME NEW e \in Executors, Build(e) PROVE ExecutorsInv'
  <2>1. PICK found \in Slots :
           IF e.route = "storage" THEN BuildStorageCall(e, found) ELSE BuildLogCall(e, found)
    BY <1>6 DEF Build
  <2>2. pending' = pending /\ Synced(run[e])
    BY <1>6 DEF Build, ExecutorsInv, Runs, Idle
  <2>3. run[e].log.message \in Messages /\ run[e].log.txIndex \in TxIndexes
        /\ run[e].synced \in Slots
    BY <2>2 DEF Synced, Logs
  <2>4. ASSUME NEW call, call \in Calls, Built(e, call)
        PROVE  ExecutorsInv'
    <3> DEFINE r == [pc |-> "built", call |-> call]
    <3>1. r.pc = "built" /\ r.call \in Calls
      BY <2>4
    <3>2. run' = [run EXCEPT ![e] = r]
      BY <2>4 DEF Built
    <3> HIDE DEF r
    <3> QED BY <1>4, <2>2, <3>1, <3>2
  <2>5. ASSUME NEW s \in Slots, NEW accountProof \in BOOLEAN,
               Built(e, StorageCall(e, s, accountProof))
        PROVE  ExecutorsInv'
    <3>1. StorageCall(e, s, accountProof) \in Calls
      BY <2>3 DEF StorageCall, Calls, StorageCalls
    <3>2. PICK call : call = StorageCall(e, s, accountProof)
      OBVIOUS
    <3> QED BY <2>4, <2>5, <3>1, <3>2
  <2>6. CASE e.route = "storage"
    <3>1. BuildStorageCall(e, found)
      BY <2>1, <2>6
    <3> QED BY <2>3, <2>5, <3>1 DEF BuildStorageCall
  <2>7. CASE e.route # "storage"
    <3>1. BuildLogCall(e, found)
      BY <2>1, <2>7
    <3>2. CASE run' = [run EXCEPT ![e] = Idle]
      BY <1>4, <2>2, <3>2
    <3>3. CASE Built(e, LogCall(e, found))
      <4>1. LogCall(e, found) \in Calls
        BY <2>1, <2>3 DEF LogCall, Calls, LogCalls
      <4>2. PICK call : call = LogCall(e, found)
        OBVIOUS
      <4> QED BY <2>4, <3>3, <4>1, <4>2
    <3> QED BY <3>1, <3>2, <3>3 DEF BuildLogCall
  <2> QED BY <2>6, <2>7
<1>7. ASSUME NEW e \in Executors, Send(e) PROVE ExecutorsInv'
  <2>1. run[e].pc = "built" /\ run[e].call \in Calls /\ UNCHANGED vars
    BY <1>7 DEF Send, ExecutorsInv, Runs, Synced, Idle
  <2>2. CASE EstimateGas(e, run[e].call) /\ pending[e] = None
    <3>1. /\ pending' = [pending EXCEPT ![e] = run[e].call]
          /\ run' = [run EXCEPT ![e] = [pc |-> "waiting"]]
      BY <1>7, <2>2 DEF Send
    <3>2. PICK call : call = run[e].call
      OBVIOUS
    <3>3. call \in Calls /\ ProofHolds(e.target, call) /\ e.target \in Chains
      BY <2>1, <2>2, <3>2, ExecutorHasTarget, AcceptedHolds DEF EstimateGas
    <3>4. ProofHolds(e.target, call)'
      BY <1>1, <3>3, ProofsStay
    <3>5. /\ pending' = [d \in Executors |-> pending'[d]] /\ pending'[e] = call
          /\ \A d \in Executors \ {e} : pending'[d] = pending[d]
          /\ run' = [d \in Executors |-> run'[d]] /\ run'[e] = [pc |-> "waiting"]
          /\ \A d \in Executors \ {e} : run'[d] = run[d]
      BY <3>1, <3>2 DEF ExecutorsInv
    <3>6. pending'[e] \in Calls /\ ProofHolds(e.target, pending[e])'
      BY <3>3, <3>4, <3>5 DEF ProofHolds
    <3>7. Pendings'
      <4>1. ASSUME NEW d \in Executors \ {e}, pending'[d] # None
            PROVE  pending'[d] \in Calls /\ ProofHolds(d.target, pending[d])'
        BY <1>1, <3>5, <4>1, PendingStays
      <4> QED BY <3>6, <4>1 DEF Pendings
    <3>8. Runs'
      BY <3>5 DEF ExecutorsInv, Runs, Synced
    <3> QED BY <1>2, <3>5, <3>7, <3>8 DEF ExecutorsInv
  <2>3. CASE ~(EstimateGas(e, run[e].call) /\ pending[e] = None)
    <3>1. run' = [run EXCEPT ![e] = Idle] /\ pending' = pending
      BY <1>7, <2>3 DEF Send
    <3> QED BY <1>4, <3>1
  <2> QED BY <2>2, <2>3
<1>8. ASSUME NEW e \in Executors, Transact(e) PROVE ExecutorsInv'
  <2>1. /\ pending' = [pending EXCEPT ![e] = None]
        /\ run' = IF run[e].pc = "waiting" THEN [run EXCEPT ![e] = Idle] ELSE run
    BY <1>8 DEF Transact
  <2>2. /\ pending' = [d \in Executors |-> pending'[d]] /\ pending'[e] = None
        /\ \A d \in Executors \ {e} : pending'[d] = pending[d]
    BY <2>1 DEF ExecutorsInv
  <2>3. run' = [d \in Executors |-> run'[d]]
        /\ \A d \in Executors : run'[d] = run[d] \/ run'[d] = Idle
    BY <2>1 DEF ExecutorsInv
  <2>4. Runs'
    BY <2>3 DEF ExecutorsInv, Runs, Synced
  <2>5. Pendings'
    <3>1. ASSUME NEW d \in Executors, pending'[d] # None
          PROVE  pending'[d] \in Calls /\ ProofHolds(d.target, pending[d])'
      BY <1>1, <2>2, <3>1, PendingStays
    <3> QED BY <3>1 DEF Pendings
  <2> QED BY <1>2, <2>2, <2>3, <2>4, <2>5 DEF ExecutorsInv
<1>9. ASSUME NEW e \in Executors, RunFails(e) PROVE ExecutorsInv'
  BY <1>4, <1>9 DEF RunFails
<1>10. CASE Environment /\ UNCHANGED executorVars
  BY <1>3, <1>10 DEF executorVars
<1>11. CASE UNCHANGED allVars
  BY <1>3, <1>11 DEF allVars, executorVars
<1> QED BY <1>5, <1>6, <1>7, <1>8, <1>9, <1>10, <1>11 DEF ExecutorsNext, Work

THEOREM ExecutorsInvariant == ExecutorsSpec => []ExecutorsInv
<1>1. ExecutorsInit => ExecutorsInv
  <2> SUFFICES ASSUME ExecutorsInit PROVE ExecutorsInv
    OBVIOUS
  <2>1. BridgeInv
    BY InitIsConsistent DEF ExecutorsInit, BridgeInv, RootsKept, Init
  <2> QED BY <2>1 DEF ExecutorsInit, ExecutorsInv, Runs, Pendings
<1>2. ExecutorsInv /\ [ExecutorsNext]_allVars => ExecutorsInv'
  BY ExecutorsNextKeepsInv
<1> QED BY <1>1, <1>2, PTL DEF ExecutorsSpec

(* Whatever the executors do, however their runs interleave and fail, the   *)
(* bridge behaves as it does without them: its properties hold.             *)
THEOREM ExecutorsOnlyUseTheBridge == ExecutorsSpec => Spec
<1>1. ExecutorsInit => Init
  BY DEF ExecutorsInit
<1>2. ExecutorsInv /\ [ExecutorsNext]_allVars => [Next]_vars
  BY ExecutorsStepOnBridge
<1> QED BY <1>1, <1>2, ExecutorsInvariant, PTL DEF ExecutorsSpec, Spec

(* A transaction that an executor has sent, built from what it read at      *)
(* different times (the head of the light client, a cached root, a log), is *)
(* accepted when its turn comes, unless its message has been executed.      *)
THEOREM SentCallsAlwaysHold == ExecutorsSpec => []SentCallsHold
<1>1. ExecutorsInv => SentCallsHold
  <2> SUFFICES ASSUME ExecutorsInv, NEW e \in Executors, pending[e] # None, Between(e.target),
                      NotExecuted(e.target, pending[e].message)
               PROVE  Accepts(e.target, pending[e])
    BY DEF SentCallsHold
  <2>1. ProofHolds(e.target, pending[e]) /\ e.target \in Chains
    BY ExecutorHasTarget DEF ExecutorsInv, Pendings
  <2>2. NoExecutionInProgress(e.target)
    BY <2>1 DEF ExecutorsInv, BridgeInv, IInv, ContextIsCurrent, Between, NoExecutionInProgress
  <2> QED BY <2>1, <2>2, AcceptedHolds
<1> QED BY <1>1, ExecutorsInvariant, PTL
=============================================================================
