---------------------------- MODULE AMBExecutors ----------------------------
(***************************************************************************)
(* The executors of the oracle (cmd/amb/execute_storage and execute_log)   *)
(* with the bridge they serve.  An executor is run for a message: it looks *)
(* for the message's log and the head of the light client, builds a proof, *)
(* has the node try the call, and sends it.  Time passes between any two   *)
(* of its requests: slots, headers and the transactions of the other       *)
(* executor.  A run may be cut short at any point, and is started again.   *)
(***************************************************************************)
EXTENDS TrustlessAMB, FiniteSetsExt

CONSTANTS
    Executors,     \* records of a route, "storage" or "log", and a target chain
    MaxFailures,   \* bound: runs cut short, requests the beacon node fails, and
                   \* runs for messages that have been executed
    None

ASSUME ExecutorsAssumption ==
    /\ Executors \subseteq [route : {"storage", "log"}, target : Chains]
    /\ MaxFailures \in Nat

VARIABLES
    active,     \* the executors that are run at all
    run,        \* run[e]: how far the run of e has come, with what it knows
    pending,    \* pending[e]: the transaction of e's account not yet in a block
    failures

executorVars == <<active, run, pending, failures>>
allVars == <<vars, executorVars>>

Idle == [pc |-> "idle"]

ExecutorsInit ==
    /\ Init
    /\ active \in SUBSET Executors \ {{}}
    /\ run = [e \in Executors |-> Idle]
    /\ pending = [e \in Executors |-> None]
    /\ failures = 0

(* Nodes answer from the state between two transactions.                    *)
Between(c) == calls[c] = <<>>

Source(e) == blocks[Other[e.target]]

-----------------------------------------------------------------------------
(* A call to the contract, as it runs in the end or as the node tries it.   *)
Accepts(c, call) ==
    /\ NotExecuted(c, call.message) /\ NoExecutionInProgress(c)
    /\ IF call.route = "storage"
       THEN /\ \/ storageRoot[c][call.sourceSlot] # Zero
               \/ call.accountProof /\ call.sourceSlot \in known[c]
            /\ StorageProven(c, RootForSlot(c, call.sourceSlot), call.message)
       ELSE /\ call.sourceSlot \in known[c]
            /\ LogProven(c, ProvenSlot(call.sourceSlot, call.targetSlot), call.txIndex,
                         call.message)

Run(c, call) ==
    IF call.route = "storage"
    THEN ExecuteMessage(c, call.sourceSlot, call.message)
    ELSE ExecuteMessageFromLog(c, call.sourceSlot, call.targetSlot, call.txIndex,
                               call.message)

-----------------------------------------------------------------------------
(* The first slot of a message's log, and the number of a slot's payload.   *)
IsSentLog(e, slot, log) == ~Source(e)[slot].missed /\ log \in Source(e)[slot].logs
BlockNumber(e, slot) == Cardinality({s \in 1..slot : ~Source(e)[s].missed})

(* FindBeaconBlock!EndsUnlessAfterEvenGap: the search for a block that      *)
(* follows an even number of missed slots may not end.  A run for it does   *)
(* nothing else, and nobody else waits for it.                              *)
Gap(e, slot) ==
    LET before == {s \in 1..(slot - 1) : ~Source(e)[s].missed}
    IN  slot - 1 - (IF before = {} THEN 0 ELSE Max(before))

SearchEndsFor(e, slot) == Gap(e, slot) = 0 \/ Gap(e, slot) % 2 = 1

GetSyncedSlot(e) == Max(known[e.target])

(* FindSentMessageLog, GetSyncedSlot and the comparison of block numbers.   *)
(* Nothing asks for the status: a run for a message that has been executed  *)
(* goes as far as any other, and MaxFailures bounds how often there is one. *)
Start(e) ==
    /\ e \in active /\ run[e] = Idle
    /\ Between(e.target)
    /\ known[e.target] # {}
    /\ \E slot \in 1..Len(Source(e)) : \E log \in Source(e)[slot].logs :
          /\ IsSentLog(e, slot, log)
          /\ BlockNumber(e, GetSyncedSlot(e)) >= BlockNumber(e, slot)
          /\ SearchEndsFor(e, slot)
          /\ run' = [run EXCEPT ![e] = [pc |-> "synced", log |-> log, slot |-> slot,
                                        synced |-> GetSyncedSlot(e)]]
          /\ \/ NotExecuted(e.target, log.message) /\ UNCHANGED failures
             \/ /\ ~NotExecuted(e.target, log.message)
                /\ failures < MaxFailures
                /\ failures' = failures + 1
    /\ UNCHANGED <<vars, active, pending>>

(* FindBeaconBlockByExecutionBlockNumber: the slot of the block or, when    *)
(* requests to the beacon node fail, a later one (FindBeaconBlock).         *)
FindBeaconBlock(e, slot) ==
    \/ slot = run[e].slot /\ UNCHANGED failures
    \/ /\ failures < MaxFailures
       /\ slot \in (run[e].slot + 1)..Len(Source(e)) /\ ~Source(e)[slot].missed
       /\ failures' = failures + 1

(* FindVerifiedStorageRootLog: a root cached since the message was sent.    *)
IsVerifiedSince_Any(e, s, minSlot) == storageRoot[e.target][s] # Zero    \* mutant
IsVerifiedSince(e, s, minSlot) == storageRoot[e.target][s] # Zero /\ s >= minSlot

StorageCall(e, sourceSlot, accountProof) ==
    [route |-> "storage", message |-> run[e].log.message,
     sourceSlot |-> sourceSlot, accountProof |-> accountProof]

LogCall(e, targetSlot) ==
    [route |-> "log", message |-> run[e].log.message, sourceSlot |-> run[e].synced,
     targetSlot |-> targetSlot, txIndex |-> run[e].log.txIndex]

Built(e, call) == run' = [run EXCEPT ![e] = [pc |-> "built", call |-> call]]

BuildStorageCall(e, found) ==
    LET verified == {s \in Slots : IsVerifiedSince(e, s, found)}
    IN  IF verified # {} THEN \E s \in verified : Built(e, StorageCall(e, s, FALSE))
        ELSE Built(e, StorageCall(e, run[e].synced, TRUE))

(* No proof of a slot after the one that is synced.                         *)
BuildLogCall(e, found) ==
    IF found > run[e].synced THEN run' = [run EXCEPT ![e] = Idle]
    ELSE Built(e, LogCall(e, found))

Build(e) ==
    /\ run[e].pc = "synced"
    /\ Between(e.target)
    /\ \E found \in Slots :
          /\ FindBeaconBlock(e, found)
          /\ IF e.route = "storage" THEN BuildStorageCall(e, found)
                                    ELSE BuildLogCall(e, found)
    /\ UNCHANGED <<vars, active, pending>>

(* SendTx: the node tries the call to estimate its gas, and refuses a       *)
(* transaction with the nonce of another one that is pending.               *)
EstimateGas_Fixed(e, call) == TRUE                                \* mutant
EstimateGas(e, call) == Accepts(e.target, call)

Send(e) ==
    /\ run[e].pc = "built"
    /\ Between(e.target)
    /\ IF EstimateGas(e, run[e].call) /\ pending[e] = None
       THEN /\ pending' = [pending EXCEPT ![e] = run[e].call]
            /\ run' = [run EXCEPT ![e] = [pc |-> "waiting"]]
       ELSE run' = [run EXCEPT ![e] = Idle] /\ UNCHANGED pending
    /\ UNCHANGED <<vars, active, failures>>

(* The transaction gets into a block, where it may fail; WaitReceipt.       *)
Transact(e) ==
    /\ pending[e] # None
    /\ Between(e.target)
    /\ IF Accepts(e.target, pending[e]) THEN Run(e.target, pending[e])
       ELSE UNCHANGED vars
    /\ pending' = [pending EXCEPT ![e] = None]
    /\ run' = IF run[e].pc = "waiting" THEN [run EXCEPT ![e] = Idle] ELSE run
    /\ UNCHANGED <<active, failures>>

(* A request fails, or the process is stopped; what was sent stays sent.    *)
RunFails(e) ==
    /\ run[e] # Idle
    /\ failures < MaxFailures
    /\ failures' = failures + 1
    /\ run' = [run EXCEPT ![e] = Idle]
    /\ UNCHANGED <<vars, active, pending>>

Work(e) == Start(e) \/ Build(e) \/ Send(e)

Environment ==
    \E c \in Chains :
        \/ \E sender \in Senders, receiver \in Receivers, gasLimit \in GasLimits,
              data \in Payloads, txIndex \in TxIndexes :
             RequireToPassMessage(c, sender, receiver, gasLimit, data, txIndex)
        \/ ReceiverReturns(c)
        \/ ReceiverReverts(c)
        \/ \E missed \in BOOLEAN : NextSlot(c, missed)
        \/ \E slot \in Slots : HeaderVerified(c, slot)

ExecutorsNext ==
    \/ Environment /\ UNCHANGED executorVars
    \/ \E e \in Executors : Work(e) \/ Transact(e) \/ RunFails(e)

(* An executor is run for a message until that is executed, a transaction   *)
(* that was sent gets into a block, a call returns, slots and headers keep  *)
(* coming.                                                                  *)
ExecutorsFairness ==
    /\ \A c \in Chains :
          /\ WF_allVars((ReceiverReturns(c) \/ ReceiverReverts(c)) /\ UNCHANGED executorVars)
          /\ WF_allVars(NextSlot(c, FALSE) /\ UNCHANGED executorVars)
          /\ WF_allVars((\E slot \in Slots : HeaderVerified(c, slot)) /\ UNCHANGED executorVars)
    /\ \A e \in Executors : WF_allVars(Work(e)) /\ WF_allVars(Transact(e))

ExecutorsSpec == ExecutorsInit /\ [][ExecutorsNext]_allVars
FairExecutorsSpec == ExecutorsSpec /\ ExecutorsFairness

-----------------------------------------------------------------------------
(* What an executor has sent can fail for one reason only: the message has  *)
(* been executed.  It is built from what was read at different times, and   *)
(* headers, cached roots and runs that failed come in between.              *)
SentCallsHold ==
    \A e \in Executors :
        pending[e] # None /\ Between(e.target) =>
            \/ Accepts(e.target, pending[e])
            \/ ~NotExecuted(e.target, pending[e].message)

(* A message that the executors can find is executed in the end, whichever  *)
(* of them are run, and however often they get in each other's way.         *)
IsFindable(e, m) ==
    \E slot \in 1..Len(Source(e)) : \E log \in Source(e)[slot].logs :
        /\ log.message = m
        /\ IsSentLog(e, slot, log) /\ SearchEndsFor(e, slot)
        /\ \E s \in known[e.target] : s >= slot

SentIsExecuted ==
    \A c \in {e.target : e \in Executors}, m \in Messages :
        (\E e \in active : e.target = c /\ IsFindable(e, m)) ~> ~NotExecuted(c, m)
=============================================================================
