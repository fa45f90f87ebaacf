-------------------------- MODULE FindBeaconBlock --------------------------
(***************************************************************************)
(* How the executors find the beacon block of an execution block:          *)
(* FindBeaconBlockByExecutionBlockNumber of oracle/lightclient, a binary   *)
(* search over slots that steps from side to side over missed ones.  Any   *)
(* error of the beacon node counts as a missed slot.                       *)
(***************************************************************************)
EXTENDS Integers

CONSTANTS
    First,     \* the first slot of the Bellatrix fork
    Last,      \* bound: the last slot
    Chains,    \* chain[s]: the number in the payload of block s, 0 without one
    Targets,   \* the execution blocks that are looked for
    MayFail    \* whether the beacon node may fail to answer

Slots == First..Last
Missed == -1

ASSUME SearchAssumption ==
    /\ First \in Nat /\ Last \in Nat
    /\ Targets \subseteq Nat \ {0}
    /\ MayFail \in BOOLEAN

(* Block numbers grow along a chain.                                        *)
ASSUME ChainsAssumption ==
    \A c \in Chains :
       /\ c \in [Slots -> Int]
       /\ \A a \in Slots : c[a] >= Missed
       /\ \A a, b \in Slots : a < b /\ c[b] # Missed => c[a] <= c[b]

VARIABLES chain, target, pc, l, r, m, s,
          faulty    \* the beacon node has failed to serve a block

vars == <<chain, target, pc, l, r, m, s, faulty>>

IsHead(h) == chain[h] # Missed /\ \A q \in Slots : q > h => chain[q] = Missed

Init ==
    /\ chain \in {c \in Chains : \E q \in Slots : c[q] # Missed}
    /\ target \in Targets
    /\ pc = "start"
    /\ l = First /\ r = First /\ m = First /\ s = 0
    /\ faulty = FALSE

(* A payload that is missing is one with a number below every target.       *)
Start ==
    /\ pc = "start"
    /\ \E h \in Slots :
          /\ IsHead(h)
          /\ IF chain[h] < target
             THEN pc' = "failed" /\ UNCHANGED r
             ELSE pc' = "halve" /\ r' = h
    /\ UNCHANGED <<chain, target, l, m, s, faulty>>

Middle_Up == (l + r + 1) \div 2                                   \* mutant
Middle == (l + r) \div 2

Halve ==
    /\ pc = "halve"
    /\ IF l < r
       THEN pc' = "probe" /\ m' = Middle /\ s' = 1
       ELSE pc' = "done" /\ UNCHANGED <<m, s>>
    /\ UNCHANGED <<chain, target, l, r, faulty>>

InRange == m >= l /\ m <= r

(* Slots are unsigned: below 0 they wrap around, which is out of range too. *)
Aside_Down == m - 1                                               \* mutant
Aside == IF s % 2 = 0 THEN m + s ELSE m - s

(* No block at m, or no answer.                                             *)
StepAside ==
    /\ pc = "probe" /\ InRange
    /\ chain[m] = Missed \/ MayFail
    /\ m' = Aside
    /\ s' = s + 1
    /\ faulty' = (faulty \/ chain[m] # Missed)
    /\ UNCHANGED <<chain, target, pc, l, r>>

Narrow_Below ==                                                   \* mutant
    IF chain[m] < target THEN l' = m + 1 /\ UNCHANGED r
                         ELSE r' = m - 1 /\ UNCHANGED l
Narrow ==
    IF chain[m] < target THEN l' = m + 1 /\ UNCHANGED r
                         ELSE r' = m /\ UNCHANGED l

Probe ==
    /\ pc = "probe" /\ InRange
    /\ chain[m] # Missed
    /\ Narrow
    /\ pc' = "halve"
    /\ UNCHANGED <<chain, target, m, s, faulty>>

(* All slots are missed, or so it seems.                                    *)
OutOfRange ==
    /\ pc = "probe" /\ ~InRange
    /\ l' = r
    /\ pc' = "done"
    /\ UNCHANGED <<chain, target, r, m, s, faulty>>

Next == Start \/ Halve \/ StepAside \/ Probe \/ OutOfRange

Spec == Init /\ [][Next]_vars

(* The search is a loop of one process.                                     *)
FairSpec == Spec /\ WF_vars(Next)

-----------------------------------------------------------------------------
TypeOK ==
    /\ chain \in Chains
    /\ target \in Targets
    /\ pc \in {"start", "halve", "probe", "done", "failed"}
    /\ l \in Slots /\ r \in Slots
    /\ m \in Int /\ s \in Nat
    /\ faulty \in BOOLEAN

(* The search ends at the first block whose payload has at least the number *)
(* looked for, wherever slots are missed, unless the beacon node has failed *)
(* to serve a block.                                                        *)
ResultIsFirst ==
    pc = "done" /\ ~faulty =>
       /\ chain[l] >= target
       /\ \A q \in Slots : q < l => chain[q] < target

(* Failures of the beacon node can only move the result to a later block,   *)
(* at whose slot the message is in the state as well: a storage proof made  *)
(* there is good.                                                           *)
NeverTooEarly == pc = "done" => chain[l] >= target

(* a is the block looked for, after an even number of missed slots.         *)
AfterEvenGap ==
    \E a \in Slots, p \in (First - 1)..Last :
       /\ chain[a] >= target
       /\ p = First - 1 \/ (p \in Slots /\ chain[p] # Missed /\ chain[p] < target)
       /\ \A q \in Slots : p < q /\ q < a => chain[q] = Missed
       /\ a - p > 2 /\ (a - p) % 2 = 1

(* Every other search ends, if the beacon node does not fail.               *)
EndsUnlessAfterEvenGap ==
    ~AfterEvenGap /\ []~faulty => <>(pc \in {"done", "failed"})

(* The executors execute messages: the search for the block of a message    *)
(* ends.                                                                    *)
SearchEnds == <>(pc \in {"done", "failed"})
=============================================================================
