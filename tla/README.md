# A TLA+ model of the trustless bridge

This directory specifies, model-checks and proves properties of the bridge in this
repository: two post-merge EVM networks ("home" and "foreign") that exchange messages
without a trusted party, because a contract on each follows the beacon chain of the other.
Paths below are relative to the root of the repository.

- [1. The system](#1-the-system)
- [2. Modules](#2-modules)
- [3. The light client](#3-the-light-client)
- [4. The message bridge](#4-the-message-bridge)
- [5. The token mediators](#5-the-token-mediators)
- [6. The oracles](#6-the-oracles)
- [7. Runs, bounds and fairness](#7-runs-bounds-and-fairness)
- [8. Proofs](#8-proofs)
- [9. Disagreements between code and use](#9-disagreements-between-code-and-use)
- [10. Abstractions and assumptions](#10-abstractions-and-assumptions)
- [11. Not modelled](#11-not-modelled)

To check a module: `tlc -config X.cfg M.tla`, with the pairs of the table in section 7;
to check the proofs: `tlapm M.tla` for `M` any of the eight modules of section 8.

## 1. The system

The same stack is deployed on both chains; every arrow is a contract call.

```
      home                                                foreign
  HomeOmnibridge                                      ForeignOmnibridge
      | requireToPassMessage   ^ receiver.call             |        ^
      v                        |                           v        |
  TrustlessAMB  --(log / storage, proved to the other side)--> TrustlessAMB
      | stateRoot(slot), head()                            |
      v                                                    v
  BeaconLightClient  <--(step, applyCandidate: oracle)-- beacon chain of the other side
```

| Component | State | Operations | Hard behaviour | Correct when |
|---|---|---|---|---|
| **Light client** `contracts/light_client/BeaconLightClient.sol` | `head`, `headers[slot]`, `bestValidUpdate` | `step(update)`, `applyCandidate()`, both open to anybody | updates in any order, from anybody; candidates that become stale; two committees at a period boundary; timeouts; missed slots and forks of the followed chain | the store only grows and an entry is never rewritten; `step` installs final headers only; a forced update is the best offered and has stood; it catches up |
| **Message bridge** `contracts/amb/TrustlessAMB.sol` | `nonce`, `sentMessages`, `executionStatus`, `storageRoot`, call context `messageId`/`messageSender` | `requireToPassMessage`, `executeMessage`, `executeMessageFromLog` | the receiver is arbitrary code in the middle of an execution and may call back; it may revert; two execution routes for one message; logs of any age | at most one delivery, of a sent message, with a final outcome; failed deliveries leave nothing behind |
| **Token mediators** `contracts/omnibridge/**/{Basic,Home,Foreign}Omnibridge.sol`, `FailedMessagesProcessor.sol`, registries | token pairs, `mediatorBalance`, acknowledged deployments, message records, `messageFixed` | relay, handle (deploy / bridged / native, with or without call), `requestFailedMessageFix`, `fixFailedMessage`, `fixMediatorBalance`, `setCustomTokenAddressPair` | messages delivered in any order, or failing; a fix requested repeatedly | locked tokens cover bridged ones; delivered or refunded, never both |
| **Relay entry points** `TokensRelayer.sol`, `WETHOmnibridgeRouter.sol` | the lock | `relayTokens[AndCall]`, `onTokenTransfer` | tokens run code between two balance readings | a transfer is bridged once, for what arrived |
| **Limits** `TokensBridgeLimits.sol` | limits, daily counters | owner's setters, `withinLimit`, `addTotalSpentPerDay` | scaling by decimals, sequences of settings | min < max < daily unless switched off |
| **Fee manager** `OmnibridgeFeeManager*.sol`, **gas limits** `SelectorTokenGasLimitManager.sol` | fees, reward list; gas tables | distribution, setters | remainders, a list that changes | every fee is paid out |
| **Interest** `InterestConnector.sol`, `*InterestERC20.sol` | invested amount | `invest`, withdraw, disable | a release that needs invested tokens back, in the middle of other operations | locked ≤ held + invested |
| **Merkle, BLS** `libraries/Merkle.sol`, `BeaconLightClientCryptoUtils.sol`, `oracle/crypto` | none | provers and verifiers | index arithmetic on both sides, an in-place loop | what the one proves the other accepts, and nothing else |
| **MPT / RLP libraries** | none | pure | | |
| **Payload light client** `LightClientChain.sol` | `head`, payload headers | `verifyExecutionPayload` | out-of-order blocks | `head` is the greatest |
| **Light client worker** `oracle/cmd/light_client/worker`, `oracle/lightclient`, `oracle/sender` | the slot it believes to be head | a loop of `MakeUpdate` and `step` | stale head, receipts not examined, period boundaries | the contract's head advances |
| **AMB executors** `oracle/cmd/amb/*` | none but a run's | one message each | racing each other, answers of different ages, searching a slot | a sent message is executed |
| **Proxies, token, factory, demo scripts** | | | | not modelled |

`PROJECT.json` lists them all with their sources, and every hazard at its line.

Interactions that matter: the bridge reads the light client (`stateRoot`, `head`) and nothing
else of it, so its model sees the light client as `HeaderStore`; the mediators see the bridge
as `MessageChannel`.  Those two abstract specifications are the seams of the project: each is
*implemented* by the module below it (checked by TLC and proved) and is what the module above
it may assume.  `TokenTransfer` is what the mediators promise in turn, and `HashQueue` what the loop
of a multiproof does.

## 2. Modules

| Module | Role |
|---|---|
| `HeaderStore` | abstract: an append-only store of headers, newest at `head` |
| `BeaconLightClient` | the contract; implements `HeaderStore` |
| `LightClientConsensus` | the fault assumption of the followed chain and what the contract guarantees under it |
| `ForcedUpdates` | the contract with a record of its candidates, and what `applyCandidate` promises about them |
| `MCBeaconLightClient` | instance for TLC: a small beacon chain |
| `BeaconLightClientProofs` | theorems about the above |
| `MessageChannel` | abstract: at-most-once, all-or-nothing delivery of sent messages |
| `TrustlessAMB` | both contracts, the EVM's calls and reverts, blocks; implements `MessageChannel` |
| `MCTrustlessAMB` | instances for TLC |
| `TrustlessAMBProofs` | theorems about the above |
| `TokenTransfer` | abstract: a transfer takes tokens once and then gives them once, here or there |
| `Omnibridge` | both mediators over `MessageChannel`; implements `TokenTransfer` |
| `MCOmnibridge` | instance for TLC |
| `OmnibridgeProofs` | theorems about the above |
| `TokensBridgeLimits`, `OmnibridgeFeeManager` | limits and fees of a mediator, with the owner's setters |
| `MediatorBooks` | one mediator in detail: the lock, limits, fees, interest, and calls made in the middle of others |
| `MCMediatorBooks` | instances for TLC |
| `MediatorBooksProofs` | theorems about the above |
| `Digest` | hashes as terms |
| `HashQueue` | abstract: a root from a queue of nodes |
| `MultiProof` | `restoreMerkleMultiRoot`, in place; implements `HashQueue` |
| `ShownLeaves` | `MultiProof` with a record of what it was called with: what a restored root says of the leaves |
| `MerkleTree` | the oracle's trees and provers, the contracts' `restoreMerkleRoot` |
| `BeaconStateTree`, `SyncCommittee`, `G1Point` | what is proved: fields of states and blocks, who has signed, keys |
| `OracleProofs`, `MCOracleProofs` | provers against the contracts that check them |
| `OracleTheorems` | theorems about the above, from `Digest` on |
| `LightClientWorker`, `MCLightClientWorker` | the worker and the contract it feeds, over `BeaconLightClient` |
| `LightClientWorkerProofs` | theorems about the above |
| `AMBExecutors`, `MCAMBExecutors` | the executors and the bridge they serve, over `TrustlessAMB`; the theorems are in `TrustlessAMBProofs` |
| `FindBeaconBlock`, `MCFindBeaconBlock` | the executors' search for a beacon block |
| `FindBeaconBlockProofs` | theorems about the above |
| `Arithmetic`, `ArithmeticProofs` | sums over sequences and powers of ten; what the other proofs need of numbers |

Operators whose names end in `_Something` and that are marked as mutants are wrong variants
of the operator next to them (a dropped guard, a missing reset, an off-by-one).  They are used by
nothing; substituting one for the right operator makes the property named with it in
`PROJECT.json` fail, which is how we know that each property says something about the code.

## 3. The light client

`BeaconLightClient` has the contract's variables under their names and one action per function,
with one named operator per `require`:

| Code (`BeaconLightClient.sol`) | Model |
|---|---|
| `step` | `Step(u)`; guards `NewerThanHead`, `NotFromFuture`, `SignaturePeriodKnown` (with `CommitteeIndex`), `FinalityProven`, `EnoughSignatures`, `CommitteeProven`, `BeatsCandidate` |
| the choice at line 139 | `SupermajorityFinal` |
| `_setHead`, `_setCandidate` | `SetHead`, `SetCandidate` |
| `applyCandidate` | `ApplyCandidate` |
| `block.timestamp` | `now`, in seconds since genesis, and `Tick`; the timeout of the candidate counts down, -1 meaning `timeout < block.timestamp` |

An update is any combination of a signature that exists (`Aggregates`), a claimed finalized header
and a claimed signature slot; the guards sort them out.  A header is opaque and stands for the root
of its contents, so that a Merkle proof against its `stateRoot` is a look-up of what the state of the
header contains: `Committees[h]` and `FinalizedCheckpoint[h]`.

Properties: `HeadersUpToHead` (nothing above the head, every entry under its own slot),
`NothingFromFuture`, `ImplementsHeaderStore`, in `ForcedUpdates` `ForcedUpdateHasStood` and `ForcedUpdateIsBest`
(about a history of what was offered and when), and in the MC module `CandidateResolved` and `CatchesUp`.
`LightClientConsensus` adds what depends on honest committees: `StepInstallsFinalOnly`, `OnlyForcedUpdateSkips`
(from an honest head, only `applyCandidate` gets past the next period), and `OnlyCanonicalStored` and `PeriodAdvancesByOne` when no update is forced.

The model makes two limits of the contract visible.  A forced update (`applyCandidate`) may install a header that is attested by an honest
committee and orphaned later, or one a minority signed; `StepInstallsFinalOnly` names it as the only exception.  And `step` never
looks at the periods of the headers: it takes the committee from `signatureSlot`, which the caller chooses and the signature
does not cover (`BeaconLightClient.sol:93`).  So a minority of a known committee that signs a header two or more periods ahead makes a candidate, which
`applyCandidate` installs in the end: the head skips a period.  In the instance this happens within seven steps.  What keeps `step` itself from skipping is
that two thirds of an honest committee do not sign such a header.

## 4. The message bridge

`TrustlessAMB` holds both contracts (every variable is indexed by the chain) and as much of the EVM
as their correctness depends on:

| Code (`TrustlessAMB.sol`) | Model |
|---|---|
| `requireToPassMessage` | `RequireToPassMessage`, from a transaction of its own or from a receiver |
| `executeMessage`, to the call of the receiver at line 118 | `ExecuteMessage` |
| `executeMessageFromLog`, to the call | `ExecuteMessageFromLog`, with `ProvenSlot` (the three index computations) and `rlpIndex` |
| from the return of the call | `ReceiverReturns`, `ReceiverReverts` |
| what a revert of the receiver undoes | `Journal(c)`, saved in the frame of the call, and `Restore` |
| blocks of the other chain, headers of its light client | `NextSlot` (missed slots too), `HeaderVerified` |

An execution is two steps, because between them anything may happen on the same chain that the
receiver can do: send, or execute again by either route.  In the code the guard at line 113 forbids the
latter; in the model it is `NoExecutionInProgress`, and dropping it lets TLC deliver a message twice.

A message stands for its hash.  A storage root is named by its slot, so `storageRoot[c][s] = s` says
that the cached root is the right one.

Properties: `DeliveredOnce` (against a counter kept by the receivers, which a revert resets as it does
everything else), `OnlySentExecuted`, `ContextIsCurrent`, `CachedRootsVerified`, `SentMessagesStay`,
and the refinement `ImplementsMessageChannel`: seen from
outside, that is between two transactions (`Outermost`), the pair of contracts is the channel.  `LogsStayProvable`, that the contract
looks for a log where every later header's state has it, is checked with the executors (section 6).

## 5. The token mediators

`Omnibridge` holds both mediators.  It does not model the bridge below them again: it instantiates
`MessageChannel`, whose `outcome` says what became of each message, and adds what a message says
(`call`) and whether the mediator sent it (`fromMediator`).  One step is one transaction.

| Code | Model |
|---|---|
| `_passMessage`, `requireToPassMessage` | `PassMessage`, `MediatorSends`; a mediator sends at most one message in a transaction, so the nonce identifies it and stands for the message id |
| `bridgeSpecificActionsOnTokenTransfer` (home, foreign) | `RelayTokens`; on home a fee stays behind (`FeesOn`, `ValueToBridge`) |
| `_prepareMessage` | `TransferCall` (which of the three calls) and `PrepareMessage` (lock or burn) |
| `_recordBridgeOperation` | `RecordBridgeOperation` |
| `deployAndHandleBridgedTokens`, `handleBridgedTokens`, `handleNativeTokens`, each with or without `AndCall` | `DeployAndHandleBridgedTokens`, `HandleBridgedTokens`, `HandleNativeTokens`, their guards in `CanDeploy`, `CanHandleBridged`, `CanHandleNative` |
| `_releaseTokens` | `CanRelease`, `ReleaseTokens`: unlock natively, mint otherwise |
| `requestFailedMessageFix`, `fixFailedMessage` | `RequestFailedMessageFix`, `FixFailedMessage` |
| `fixMediatorBalance`, `claimTokens`, `setCustomTokenAddressPair` | the actions of these names |
| `onlyMediator`, when any other account sends a call through the bridge | `OnlyMediator`, `StrangerSends` |
| a call that reverts | `Revert`: a handler whose guard fails must revert; one whose guard holds may |

The handlers can fail for reasons that lie in other components: daily and per-transaction limits, gas,
a token or a receiver that refuses.  `MayRevert` names the calls to which that may happen, at any time.
The callback of the `AndCall` variants is arbitrary code after the handler has done its work.  `_receiverCallback`
discards the result of the call, so a callback that reverts changes nothing; one that relays tokens in turn
is a `RelayTokens` step of its own.  `held` is what the mediator really has of a token, tokens lent out to earn
interest included.

Properties:

- `LockedCoversBridged`: for each token, `mediatorBalance` equals the supply of the bridged token plus what
  is in transit, in either direction, failed and not yet fixed transfers included.
- `LockedIsHeld`: the books never exceed what is there, though owners can claim tokens and send
  unaccounted ones across.
- `AcknowledgedIsDeployed`: the short call, which does not deploy, is only ever sent for tokens that are
  deployed and registered on the other side; messages are executed in any order and any may fail.
- `ImplementsTokenTransfer`: each transfer is pending, then delivered or refunded, never both and never twice,
  and only these steps move locked or bridged amounts.  `requestFailedMessageFix` may be repeated at will,
  and a failed fix can be fixed in turn (it has no record, so that fix reverts).
- `TransferCompletes`: each transfer is delivered or refunded in the end.

### One mediator in detail

`Omnibridge` takes a transaction as one step.  `MediatorBooks` opens it: there is one mediator, on either side, and
one token, native to that side or bridged, and the rest of the system is the amount `owed`.  What it adds is the
code of others that runs in the middle: a token may call anybody when it is moved, and a receiver is called at the end.

| Code | Model |
|---|---|
| `relayTokens`, `relayTokensAndCall` (`TokensRelayer.sol`) to the call of `transferFrom` | `RelayTokens`: takes the lock, reads the balance |
| `transferFrom` of the token | `TransferFrom(a)`, where a may be less than the value |
| the second reading and the rest | `RelayReturns`, with `BridgeTokens` |
| `onTokenTransfer` | `OnTokenTransfer`; under the lock it returns at once (`CallbackIsRelay`) |
| tokens sent without a call | `Transfer` |
| `_handleTokens`, `_releaseTokens` to the call of the token | `HandleTokens`, `ReleaseTokens`; `MayWithdraw` is the check of the lock |
| the return of that call and of the receiver | `ReleaseReturns`; on home `mediatorBalance` is reduced only now |
| `fixFailedMessage` | `FixFailedMessage`, which checks no lock and no limit |
| `invest`, `initializeInterest`, `setMinCashThreshold`, `disableInterest`, the withdrawal in `_releaseTokens` | `Invest`, `InitializeInterest`, `SetMinCashThreshold`, `DisableInterest`, `Withdrawn` |
| `fixMediatorBalance` | `FixMediatorBalance` |
| `TokensBridgeLimits` | `WithinLimit`, `WithinExecutionLimit`, `Register` with `TokenLimits` (the defaults scaled by decimals), the five setters, `NextDay` |
| `OmnibridgeFeeManager` and its connector | `CalculateFee`, `Payments` (division and the lucky account), `SetFees` |

The calls in progress are `frames`.  A call that reverts is a call that was not made, since it leaves nothing behind; the
bridge executes one message at a time (`BridgeIsBusy`, which is `NoNesting` of section 8), so
two frames are enough: a fix inside a relay, or a relay inside an execution.

Properties: `BooksBalance`, between transactions what is locked is what the other side may ask for, and it is there,
at hand or lent out; `RelayCountsArrivals`, `relayTokens` does not take for tokens of its sender what a withdrawal, another relay
or a callback moved meanwhile; `LockedIsPayable`, any amount up to what is locked can be released,
however much is lent; `FeesArePaidOut`; `LimitsOrdered`, whatever the sequence of settings; `NewTokensGetLimits`, a token
of any decimals can be bridged if the defaults are wide enough (each at least twice the next).

Reading the code for this module showed some things that are as they are: a deposit that `onTokenTransfer` reports
while the lock is taken is not bridged, also if it is of another token than the one being relayed, and stays with the
mediator until `fixMediatorBalance`; a message that is executed under the lock fails and has to be fixed from the other side; `invest` ignores the lock as well, so that
a relay may bridge less than arrived; defaults that are not wide make registering a token of few decimals revert, and
so does a default limit of zero, in both directions; the repair of small limits raises them to fixed amounts even if the default
maximum was set to zero.

## 6. The oracles

`LightClientWorker` puts the worker beside the contract: it extends `BeaconLightClient` and adds the state of
the process.

| Code | Model |
|---|---|
| start of `main`, `NewTxSender` (`oracle/cmd/light_client/worker`, `oracle/sender`) | `WorkerInit`, `Restart`: the head and the count of transactions are read once |
| `MakeUpdate(slot, 0)` with finality (`oracle/lightclient/light_client.go`) | `MakeUpdate(clock)`: `SignatureBlocks` is the block that the loop at line 100 ends at, `UpdateFails` what makes it return an error, `NothingNew` its `nil`, `IsNext` and `ProvenCommittee` the committee whose keys the signature is checked with |
| gas estimation, `SendTransaction` | `SendTx`: the contract would take the update now, and the nonce is free |
| the transaction in a block, which may revert | `Include` |
| `WaitReceipt`, the end of the loop | `WaitReceipt`: the status of the receipt is not looked at |
| `log.Fatalln` | `pc = "stopped"` |

Other senders (`Contract`) may move the head or set candidates between any two steps, and the worker's clock
may be ahead of the chain's.  Properties: `BeliefNotAhead`, the slot the worker takes for head is at most the head of
the contract; `UpdateIsAcceptable`, an update made from the true head is one that `step` takes, whatever
candidate there is; `WorkerCatchesUp`, within a period the worker alone brings the head to the last block that can
be finalized; and `KeepsRunning`, which fails (section 9).  What the module assumes of the chain is in
`EnvironmentAssumption` (the blocks the beacon node serves, and their signatures), `ChainAssumption` (the headers of a period
name the same committees and the next period's; what a block calls finalized is behind it by more than the clocks may differ) and
`StartAssumption`; TLC evaluates them in both runs.

`FindBeaconBlock` is the search with which the executors find the beacon block of an execution block, one action
per branch of its two loops: `Halve`, `StepAside` (the `continue` of the inner loop), `Probe`, `OutOfRange`.
The chain is any function from slots to block numbers with missed slots in it.  Properties: `ResultIsFirst`;
`NeverTooEarly`, also when the beacon node fails to answer, which the code cannot tell from a missed slot;
`EndsUnlessAfterEvenGap`, which says exactly when it ends, since `SearchEnds` fails (section 9).

`AMBExecutors` puts both executors beside the bridge, one action for each group of requests that is answered from one
state:

| Code (`oracle/cmd/amb/execute_storage`, `execute_log`, `oracle/sender`) | Model |
|---|---|
| `FindSentMessageLog`, `GetSyncedSlot`, the comparison of block numbers | `Start`; neither command reads the status of the message, and a run for one that has been executed ends in `EstimateGas` |
| `FindBeaconBlockByExecutionBlockNumber` | `FindBeaconBlock`, by what `FindBeaconBlock.tla` establishes: the slot, a later one if requests fail, no end after an even gap (`SearchEndsFor`) |
| `FindVerifiedStorageRootLog`, the proofs of the node | `BuildStorageCall`, `BuildLogCall` |
| `SendTx`: gas estimation, the account's nonce | `Send`, `EstimateGas` |
| the transaction in a block, `WaitReceipt` | `Transact` |
| `log.Fatalln`, or a process that is stopped | `RunFails` |

The environment (senders, receivers, slots, headers) moves between any two of these.  Properties: `SentCallsHold`, a
call that was sent can fail only because its message has been executed, though it was put together from answers of different ages;
`SentIsExecuted`, a message that the executors can find is executed in the end whichever of them are run; and
`LogsStayProvable`.

`OracleProofs` is about the proofs themselves.  A prover makes a claim, with the oracle's proof for it or for something else,
and the contract that checks it runs on the other side of the boundary: `MerkleTree` has the oracle's trees
(`merkleization.go`, `ssz.go`) and the contracts' `restoreMerkleRoot`; `BeaconStateTree` the fields of states and blocks, `MakeExecutionPayload*Proof` and
the indices the contracts expect; `SyncCommittee` the bits, missing keys and decommitments that `MakeUpdate` sends and
`_aggregateMissingPubkeys` checks, the loop of which is `MultiProof`, step by step; `G1Point` the two forms of a public key, and the sign that
the contract computes by limbs.  Hashes are terms (`Digest`).  Properties: `HonestProofsAccepted`; `AcceptedIsTrue`, a proof of
another slot, field, header, list or key is rejected; `SignersAreMembers`, an update put together from parts of
two is accepted only if its key is the sum of members' keys; `ImplementsHashQueue`, the loop in place, which
reads at `head` and writes at `tail` of the arrays it was called with, never overwrites what it has not read.

## 7. Runs, bounds and fairness

| Run | Module / cfg | Shows | Distinct states |
|---|---|---|---|
| `light_client` | `MCBeaconLightClient` | safety and liveness of the light client | 4,166 |
| `amb` | `MCTrustlessAMB` / `MCTrustlessAMB.cfg` | safety and refinement of the bridge | 298,949 |
| `amb_tx_index` | `MCTrustlessAMB` / `MCTrustlessAMBTxIndex.cfg` | a violation, section 9 | |
| `amb_executors` | `MCAMBExecutors` | what executors send, and that messages get executed | 339,191 |
| `omnibridge` | `MCOmnibridge` | safety, refinement and liveness of the mediators | 56,330 |
| `mediator_books` | `MCMediatorBooks` / `MCMediatorBooks.cfg` | books, limits, fees, interest under calls in calls | 2,923,516 |
| `mediator_books_fix` | `MCMediatorBooks` / `MCMediatorBooksFix.cfg` | a violation, section 9 | |
| `light_client_worker` | `MCLightClientWorker` / `MCLightClientWorker.cfg` | safety of the worker and the contract, `WorkerCatchesUp` | 39,206 |
| `light_client_worker_periods` | `MCLightClientWorker` / `MCLightClientWorkerPeriods.cfg` | a violation, section 9 | |
| `find_block` | `MCFindBeaconBlock` / `MCFindBeaconBlock.cfg` | the result of the search and when it ends | 63,389 |
| `find_block_hangs` | `MCFindBeaconBlock` / `MCFindBeaconBlockHangs.cfg` | a violation, section 9 | |
| `oracle_proofs` | `MCOracleProofs` | what the oracle proves, the contracts accept, and nothing else | 179,660 |

**Light client.**  Eight slots in periods of three: the head starts in the first period, crosses one
whole period and ends in the third, so that current, next and unknown committees all occur.  Slot 1 is
missed; slot 5 has an orphan that honest validators signed; slots 6 and 7 have rogue headers, signed by
a minority of any honest committee, up to two periods ahead of it, or by three of four of a committee nobody elected.  Of four members, two are the
minimum and three are two thirds.  `MaxTime` saturates the clock where no guard can tell the
difference (`ClockAssumption`, which TLC evaluates).  There are two seconds to a slot, so that the
rounding of `_curSlot` matters.

The second period never reaches two thirds, so only forced updates lead through it.

**Bridge.**  Two messages one way and one the other; with two payloads and two gas limits, one of them too
high; three slots on one chain, any of which may be missed; calls nested up to two deep (never
reached: `NoNesting` is proved).  The run sets
`CHECK_DEADLOCK FALSE`: when all messages are sent and executed and all slots are used up, the bounded
system really stops.

**Executors.**  Two messages for one chain, three slots with `SLOTS_PER_HISTORICAL_ROOT` = 2, so that source and target are equal, one
apart, and at the limit; either executor alone or both; one failure, of a request or of a run, or one run for
a message that has been executed (`MaxFailures`).  The index of the
transaction is 200, the encoding of which is right (section 9).

**Mediators.**  Five messages on each chain at most, of which two are transfers from home and one is a transfer back, the rest requests to
fix: enough for two transfers one way of which either, both or none fails, a transfer back in between, two fixes requested of one
failure, and a fix of a fix that failed.  Values 1 and 2 tell a whole balance from a part of it and leave a fee of 1 room.
One unaccounted token is enough for `fixMediatorBalance` and `claimTokens`.  Another contract
sends the mediator a native call and a fix of message 0.  `CHECK_DEADLOCK FALSE`: when all messages are used up the bounded system stops.

**Books.**  At most two tokens at a time in the mediator and two bridged, transfers of one or two, three a day; the
default limits scaled to fewer decimals take every branch of their repair; the fee is a half, divided among up to two accounts,
so that there is a remainder; the owner acts twice.  `FixCashes` = {0}: no fix under the lock while a minimum of cash is
kept, which is what `mediator_books_fix` explores.  The two rewarded accounts are interchangeable (symmetry; no liveness is checked
here).  `CHECK_DEADLOCK FALSE` because of these bounds.

**Oracles.**  Nine slots, one of them missed, two blocks signed by fewer than two thirds, finality two blocks behind
and none at genesis: the worker sends two updates or more, skips weak blocks, and may start too early.  Others send every
update the chain's signatures allow, and the worker may be restarted at any time.  A period has nine slots, so that none
ends; in `light_client_worker_periods` it has eight, and nobody else sends.
The search is checked on all chains of seven slots with zero, one or three blocks before the merge: every number
of missed slots up to five between two blocks, on both sides of every middle.  The search stops when it is done, hence
`CHECK_DEADLOCK FALSE`.

**Proofs of the oracle.**  A committee of eight in two words of two bytes of two bits, every set of signers, and pairs of sets that differ
in one or two members; keys with repetitions; vectors and lists of up to six leaves, full or not; twelve slots in batches of four, so that targets
lie inside the window of roots, at either edge and outside.  The field of the keys has 61 elements in two limbs.

**Fairness.**  `BeaconLightClient!Fairness`: time passes; somebody submits *some* update when one can be
submitted (no particular one: weak fairness of the disjunction), which is what the loop of the worker is
for; and somebody calls `applyCandidate` when it is due, as anybody can.  `AMBExecutors!ExecutorsFairness`: a call of
a receiver ends (it has a gas limit), blocks and headers keep coming, an executor that is active is run again until there is nothing left to
do (`Work`; it is run in vain at most `MaxFailures` times), and a transaction that was sent gets into a block (`Transact`).  Weak fairness is enough:
between two transactions an executor can always go on.  `Omnibridge!Fairness`: each message is executed, which is
`AMBExecutors!SentIsExecuted` one level down, and a failure of a transfer is reported, as anybody can do.
`TransferCompletes` is checked where transfers fail at will and fixes do not (`MayRevert` is the three transfer
calls): a token contract that refuses to give tokens back for ever does strand them.  `WorkerFairness`: the ticker
of the worker, its waiting, blocks, and time; `WorkerCatchesUp` is about a worker that is not restarted for ever and goes on.  `FindBeaconBlock!FairSpec`: a loop of one process goes on.

## 8. Proofs

Checked by TLAPS, for all values of the constants that satisfy the named assumptions of the modules; what a theorem assumes beyond
them is in its statement and is said here.

*Light client* (`BeaconLightClientProofs`).  `TypeCorrect`; then the inductive invariant
`IInv == TypeOK /\ HeadersUpToHead /\ CandidateConsistent`.  The third part is what
makes it inductive: `applyCandidate` stores the header of the candidate under `bestValidUpdate.slot`, so
the two must agree.  From it follow `StoreIsOrdered`, the refinement `LightClientImplementsHeaderStore`
(a write is above the head, where nothing is stored: `SetHeadPreserves`) and, with
`FaultAssumption`, `StepIsFinal` and `UnforcedIsCanonical`: the committee at the head is honest because
the header at the head is, two thirds of it sign only what honest validators built on, and what such a
header's state calls finalized is canonical.  `NeverFromFuture` needs the two lemmas about quotients
only.

`OnlyForcedUpdatesSkip` and, for a contract on which no update is forced, `UnforcedSkipsNothing` use `HonestClockAssumption` as well: two thirds of a committee
from the state of an honest header sign nothing above the period that the committee is for, and what such a state calls final is not above it.  Nothing is
assumed of fewer signers, nor of committees that are not honest, and the contract does nothing to stop a header of a later period that they have signed: it
becomes a candidate, and `applyCandidate` may take the head there.  The proof goes from the committee that the signature slot selects to
the header that is stored (`StepWithinPeriods`): the attested header is honest (`StepAttested`) and within the committee's period, and the finalized one is below it.

`ForcedUpdatesHaveStood` and `ForcedUpdatesAreBest` are about `ForcedUpdates`.  The first rests on the
seconds that the timeout has left and those the candidate has stood adding up to at least `UpdateTimeout` from
the moment it was accepted (`StoodMatchesTimeout`); the second on a candidate above the head having at least the best offer's signatures
(`CandidateIsBestOffer`).

*Worker* (`LightClientWorkerProofs`).  The invariant `WorkerInv` is about the state of the process and the contract's together.
`SendsWhatItMade`: what the worker sends is an update that `MakeUpdate` made from some block (`MadeFrom`), which the blocks that
others use to move the head do not change.  `WaitsForItsOwn`: while it waits, its update is still pending and acceptable, or the head has got to the
target.  This is why the worker may take the target for the head without looking at the receipt (`BeliefIsNeverAhead`): an update that could be
accepted when the gas was estimated fails later only because the head has passed it
(`StillAccepted`: the clock only advances, and a candidate in the way has fewer signatures than two thirds).  `UpdatesAreAcceptable` needs
`ChainAssumption` for the rest: the worker and the contract read the committee in different
states, and both have the one of the same period (`CommitteeIsKnown`).  `OnlyTheCurrentCommittee` is the second finding of
section 9 for every instance: whatever is sent was signed by the committee of the period that the worker starts from.
`WorkerOnlyStepsTheContract` carries the light client's theorems over to the two together.

*Bridge* (`TrustlessAMBProofs`).  `TypeCorrect`; then `IInv`, whose core is `Consistent(c, j)`, stated
about a journal `j` and required both of the current state and of what every call in progress has saved:
recorded messages sit under their own nonce below `j.nonce`, logs and finished blocks are of recorded
messages, cached roots are verified.  That is why a revert preserves it.  `CallOK(c)` says that at most one
execution is in progress (`NoNesting`: the context is not empty while one is) and that since its call
nothing but sending has happened, so that the outcome recorded on return is still open.  Each kind of
step has its lemma (`SendKeepsInvariant`, `ExecuteKeepsInvariant`, `ReturnKeepsInvariant`,
`SlotKeepsInvariant`, `HeaderKeepsInvariant`), and `BridgeInvariant` combines them.  The five
safety theorems are its corollaries.  `AMBImplementsMessageChannel` shows the refinement: a call is a
stutter, its return is `Deliver` or `Fail`, a send inside a call becomes visible with the return.

`LogsAreAlwaysProvable` is about numbers and the trie: wherever source and target lie to the window of roots and to the
batches of the historical accumulator, `ProvenSlot` is the target again.  It assumes that no transaction has an index in 1..127, where `rlpIndex` is wrong
(section 9); `LogsInBetweenAreUnprovable` says that with such an index no proof is accepted at all.

*Executors* (also `TrustlessAMBProofs`).  `ExecutorsOnlyUseTheBridge`: with executors the bridge still does what it did without, so its
theorems hold.  For `SentCallsAlwaysHold` the invariant `ExecutorsInv` says of every pending call that its proof holds (`ProofHolds`: the part of the contract's
checks that is about the proof, not about the message's status).  It did when the gas was estimated, and `ProofsStay` shows that no block, header or transaction
of others outdates it, though a root may be cached in between and the route through the cache be taken where there was none before.  So all that can change about a call
is the status of its message.

*Mediators* (`OmnibridgeProofs`).  `IInv` adds four facts to the properties.  `RecordsAgree`: a message
has a record exactly if it is a transfer of the mediator, and the record says what the message says, so that a
refund is of the amount taken.  `FixesOfFailed`: a request to fix is only ever of a failed message, and what is
fixed is a failed transfer, which the channel will never run again.  `Sides`: a transfer is
handled as native exactly on the home of its token, and one from the other side left from where its token is registered;
this is why an acknowledgement means a deployment (`Registration`), whichever message brought it.  The same part
says that nothing is locked of an unregistered token, which is what keeps `claimTokens` away from
locked tokens.  `SendKeepsLedger` and `OutcomeKeepsLedger` carry the facts about messages through every sending
and every execution; one lemma per action does the rest.  `MediatorsImplementTokenTransfer` is the refinement,
for any number of tokens, transfers, fees, strangers and bounds.

`LockedIsCovered` is proved from the refinement: it is enough to show that the steps of `TokenTransfer` keep the sum of what is in transit
in line with what is locked and bridged (`TransferKeepsCover`), since any other step of the mediators leaves all three alone
(`StutterKeepsCover`).  A corollary is `PendingCanBeGiven`: one transfer in transit is at most the sum of them, so what it would
release is there.

*Search* (`FindBeaconBlockProofs`).  The slots tried since the last halving (`Tried`) lie next to `m`, on the one side
or the other with the parity of `s`, and the middle can be told from `m` and `s`.  So when `m` leaves the interval,
every slot before `r` has been tried (`OutOfRangeKeeps`), and taking `r` is right: `ReturnsFirst`, for every chain.  With
failing requests the upper end alone is still right: `ReturnsNoEarlier`.

*Multiproof* (`OracleTheorems`).  `MultiProofTypeCorrect`, the positions stay inside the arrays; and `MultiProofImplementsHashQueue`, for arrays of every
length: the nodes from `head` to `tail` of the circular queue, unrolled (`Queue`), are the queue of `HashQueue`.  A step takes one or two
nodes before it writes one, so it writes where it has read.

`RestoredLeavesAreTheTrees` is what the proof of the missing keys is for: if the root of a tree is restored from leaves that come from the last to the first, as
`_aggregateMissingPubkeys` makes them, then they are the tree's leaves at the places named, whatever decommitments are sent, for
trees of every width.  It assumes that hashes do not collide (`Digest`), and that leaves and decommitments are digests (`Digests`, the least set
with chunks, opaque digests and pairs).  A digest then ends by itself: none is the beginning of another, so that a pair tells what it is
a pair of (`PairsDiffer`).  That is an induction over digests, which needs no operator as a parameter, because `Digests` is inside every closed set.
Over the rounds of the loop, the queue is always descending and at most two layers of the tree deep (`LeavesAreLayered`,
`NextLayer`), so when the first node has index 1 it is the only one (`RootIsLast`).  And a round that leaves nodes of the tree has taken nodes
of the tree (`LoopIsRight`): if the queue agrees with the tree, so do the queues before it, back to the leaves.

*Proofs of the oracle* (also `OracleTheorems`).  Trees, paths and states are recursive functions, so that their equations follow from
`PastOnly` and `HistoryRecursion` (below), and digests tell what they are made of.  `Holds(r, g, x)` says that whatever
the contract is shown at the node `g` with a path that leads to the root `r` can only be `x`.  If a node holds a pair, its children hold the
two (`ChildrenHold`), and if it holds the Merkle root of some leaves, the nodes below it hold the leaves (`SubtreeHolds`), for trees of every height.  From it follow the fields of a state and of a payload (`StateTreeIs`,
`PayloadTreeIs`), the roots in `state_roots` and in a historical batch (`RootsOfStatesIs`, `AncientBatch`), and with the arithmetic of
`TargetIndex` what the contract looks up for a target on either side of the window.  Two packed lists with the same root have the same length
and the same chunks, and a chunk tells its elements.  That a key and its opposite never have the same form is arithmetic modulo
the small field, case by case.  `AcceptedClaimsAreTrue` puts these together; its states have any number of roots, its trees any number of leaves.

`AcceptedSignersAreMembers` needs an inductive invariant, `CommitteeInv`: while a transaction checks an update, the update is one of the oracle's or mixed from
several (`IsUpdate`), so its keys are numbers and its decommitments digests; and in the loop the queue is a layer of nodes below which, if the restored root is the root of the committee's keys, the
leaves that were sent are the tree's (`IsRestoring`, from the lemmas of `RestoredLeavesAreTheTrees`).  When the branch then leads to the root of the state, the
root restored is that of the keys, and the aggregated key is the committee's (`AcceptedCommittee`): so the keys sent are those of the members whose bits are
cleared (`MissedAreTheOthers`: as many as they are, from the last to the first), and what is left of the sum is what the others' keys add up to (`SumOfBoth`,
`MissedSum`).  The same invariant types the calls of the loop, so that `CommitteeChecksImplementHashQueue` follows from the steps of
`MultiProofImplementsHashQueue`.

`HonestProofsAreAccepted` is the other direction, for all that the oracle makes.  A branch climbs: `Reaches` says that folding a leaf with a path gives a node's
digest, and paths add up (`LeadsUp`), from a leaf of a payload's tree to the root of a state (`LeadsOn`), through a batch of roots if need be.  An update is
built from bits that the oracle collects upwards and the contract downwards, after reversing the bytes of every word and the bits of every
byte: both name the same members (`MarkedAreSigners`), in opposite orders (`MissedIsReversed`).  The multiproof is complete: the oracle goes through the inner nodes from the last
to the first and collects a child it does not know beside one it does; `rest[p]` is what it collects from the node `p` on (`IsRest`).  The inductive invariant `HonestInv` says that in the
loop there is a node `p` up to which all is still to do: the queue holds the known nodes among `p + 1 .. 2 * p + 1`, from the last to the first and with the tree's hashes
(`HoldsLayer`), and the siblings still unread are `rest[p]` (`Restores`).  Every round keeps this (`RoundRestores`), takes a sibling only where there is one, and ends with the root of the tree
(`LoopAdvances`); with the aggregated key it is the committee's, whose branch climbs.  So only an update with too few signers is turned away.

*Books* (`MediatorBooksProofs`), under the condition `FixCashes \subseteq {0}`, without which `RelayCountsArrivals` is false (section 9).  `BooksBalance` says nothing while a call is in
progress, and calls in progress are what it is about.  The inductive `IInv` says it for every state, with what the frames still owe: in `Books` what is locked is
`owed` plus the `due` of an execution that has yet to reduce it (`Releases`); `Relays` gives every relay two facts, that what was in the
balance before and what is lent cover what is owed, so that a release in the middle withdraws no more than it pays, and that what came
meanwhile is no more than `arrived`; `Lending`, that lent tokens are locked ones; `LockIsHeld`, that the lock is a relay in progress, so that there is
at most one (`Calls`).  `Pushed`, `Popped` and `Arrived` say what the operations on frames do.  The corollaries are `BooksAreBalanced`, `RelaysCountArrivals` and `LockedIsAlwaysPayable`,
for all amounts, limits, rates, thresholds and bounds.

Three theorems about the books need neither the condition nor `IInv`.  `LimitsStayOrdered`: every setter keeps the order of
its token's or the default's limits (`SetLimitKeepsLimits`), and a token gets limits that the code requires to be in order.
`WideDefaultsReachAllTokens`: of limits of which each is twice the next, quotients by a power of ten differ unless they are below one, and those the code
raises.  `FeesAreAlwaysPaidOut`: the payments are the share of everyone, with the remainder at one place of the list, and add up.

*Numbers* (`ArithmeticProofs`).  The provers do not do induction over data: the library's theorems take an operator as a
parameter, which none of the installed provers can instantiate.  Two ways around that are used.  `NatInductionOverSet` states induction for a set of numbers instead of a
predicate, and follows from the least element of its complement (`LeastNat`); `PrimitiveRecursion` then shows that a function defined by recursion over numbers satisfies
its equations, which gives those of `SumOf` (a sum up to an index), `TenTo` and `TwoTo` (powers).  `HistoryRecursion` does the same for functions that look further back than
one step, as halving does, if the step reads nothing but the past (`PastOnly`).  From them follow the lemmas about sums (equal
terms, one term changed, one term at most the whole), powers (positive, growing) and halves (`DivHalf`).

*Only model-checked.*  The liveness properties, which are out of the prover's reach.  Type correctness is
proved for five modules and run for `Omnibridge` only, where the type invariant says something about messages.

## 9. Disagreements between code and use

`rlpIndex` (`contracts/amb/TrustlessAMB.sol:238`) is meant to be the key of a receipt in the receipts
trie, the RLP encoding of the transaction's index.  It returns `0x80` for every index below 128, which is
right for 0 only.  The executor (`oracle/cmd/amb/execute_log`) passes the index as it is, so a message
whose log was emitted by the second transaction of a block cannot be executed from its log; run
`amb_tx_index` shows the state.  It can still be executed through its storage proof.  `LogsStayProvable`
is about the header proofs and quantifies over the index for this reason, and the executors' run has
transactions whose index is encoded right.

`MakeUpdate` decides at `oracle/lightclient/light_client.go:137` which sync committee to prove, by comparing the period of `curSlot`
with itself.  It always proves the current one.  As soon as the clock is in the period after that of the contract's
head, the block it finds is signed by the next committee, the signature does not verify and the worker
ends; so does every worker started in its place.  Run `light_client_worker_periods` shows it.  With the period of
`signatureSlot` on one side of the comparison the same instance has no violation.

`FindBeaconBlockByExecutionBlockNumber` does not end when the block looked for comes after an even number of missed
slots, at least two: the interval is then the missed slots and the block, the steps aside from its middle visit
them all and arrive at `r`, and `r = m` changes nothing (run `find_block_hangs`).  After an odd number they leave the
interval instead, and the result is right.

`fixFailedMessage` releases tokens without looking at the lock, although the comment on the lock in `ForeignOmnibridge.sol` says that it is there to prohibit withdrawals during
`relayTokens`.  If a token calls others in `transferFrom`, and a failed transfer of it is fixed just then (an execution of a message that anyone may submit), and the token is lent out with
a minimum of cash to be kept, then the release withdraws the minimum on top of what it pays out, and the difference counts as tokens of the sender of the
relay.  When `transferFrom` moves that much less than the value it is called with (a token that takes a
fee), more is locked in the books than there is; when it moves the whole value, the relay reverts because it counts too much
(`TokensRelayer.sol:114`).  The run `mediator_books_fix` shows the inflated measurement.  Without a minimum of cash the withdrawal is what is paid, and
the theorems of section 8 hold.

A smaller remark: `MakeUpdate` returns neither an update nor an error when there is nothing new.  The worker looks at that; `oracle/cmd/light_client/prove` does not (`main.go:82`) and, asked for several updates, ends in a nil
dereference when it has caught up.

## 10. Abstractions and assumptions

- Hashes are injective.  In the contracts' models a Merkle or Merkle-Patricia proof is a look-up; `OracleProofs` has the Merkle trees themselves.
  BLS signatures cannot be forged, and keys add up like numbers.
- The whole execution of a transaction on one chain is atomic but for the calls of receivers.  If an outer
  caller of the bridge aborts its transaction, no step was taken.
- In `MediatorBooks` others run only where a token is moved for a relay or a release; withdrawals from an interest implementation and payments of
  fees are one step, and the interest implementation gives back what it was given.
- `messageSender` and status of messages are data of the model; events, views, and the gas checks (that
  enough gas is left for the receiver) are not modelled.
- `initialize` is called once, by the deployment (`demo/scripts/deploy.sh`).
- The light clients of the bridge's model verify canonical headers only: `UnforcedIsCanonical` under the fault
  assumption.
- The instances of the light client have orphans no longer than a period, so they share the committees of
  the main chain, and honest validators sign a header in the committee of the slot after it.  The contract takes the
  signature slot from the caller; the model lets the caller claim any.  Committees of different periods are different.
- The owners of the mediators are trusted: the custom token pair they set is a token that nobody holds yet and
  that is not itself bridged (the comment in `setCustomTokenAddressPair` asks them to check); limits and fees they set in
  `MediatorBooks`, while implementations and addresses they can replace are outside the models.
- Tokens do what ERC20 says, except that they may refuse a transfer; what arrives is what is counted.
- The separate minter of bridged STAKE on home and the minting of extra STAKE on the foreign side
  (`HomeOmnibridge.sol`, `ForeignOmnibridge.sol`) are left out.
- The chain does not change while the executors search it; its head may move on, which the search does not notice.
- The worker's beacon node answers; a request that fails ends the worker, and is covered by `Restart`.
- `uint64` and `uint256` do not overflow within the lifetime of a chain.

## 11. Not modelled

- **Merkle-Patricia and RLP readers** (`contracts/amb/libraries/MPT.sol`, `RLPReader.sol`): byte-level parsing of proofs that the node makes.  A proof
  against a root is a look-up in the state that the root stands for.  `rlpIndex` alone is modelled.
- **Curve arithmetic and pairings**: cryptography.
- **`LightClientChain`**: two variables and one operation, not used in the demo; its choice of an index is `ProvenSlot` of `TrustlessAMB`.
- **Gas limit managers, gas checks**: whether gas suffices is a choice wherever a call is executed.
- **Interest earned** (`payInterest`), **`forceDisable`**, the Aave and Compound markets: what they return is up to others.
- **STAKE**: the separate minter on home and the minting of extra tokens on foreign.
- **`upgradeToReverseMode`** and the owner's setters of addresses; stray tokens sent to the fee manager.
- **Token factory, wrapped token, owner modules, router of wrapped ether, proxies**: an ERC20, its deployment, forwarding.  They are minting, burning and calls in
  the models of the mediators.
- **The other tools of the oracle, beacon client, configuration, bindings**: one-shot commands around what is modelled, and I/O.
- **Demo scripts and test contracts**: read for values and for the order of initialization.

What could follow: the two markets of the interest implementation.
