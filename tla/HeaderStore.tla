---------------------------- MODULE HeaderStore ----------------------------
(***************************************************************************)
(* What the light client contract promises to its readers (TrustlessAMB    *)
(* calls nothing but stateRoot(slot) and head()): a store of beacon block  *)
(* headers indexed by slot, which only grows, whose newest entry is head,  *)
(* and in which an entry, once written, never changes.                     *)
(***************************************************************************)
EXTENDS Integers

CONSTANTS
    Slots,        \* the slots of the beacon chain
    Headers,      \* its block headers, records with a field slot
    StartHeader,  \* the header the contract is deployed with
    NoHeader      \* an absent entry of the store

VARIABLES
    head,         \* slot of the newest header
    headers       \* slot |-> header, or NoHeader

vars == <<head, headers>>

Init ==
    /\ head = StartHeader.slot
    /\ headers = [s \in Slots |-> IF s = StartHeader.slot THEN StartHeader
                                                          ELSE NoHeader]

Publish(h) ==
    /\ h.slot > head
    /\ headers[h.slot] = NoHeader
    /\ head' = h.slot
    /\ headers' = [headers EXCEPT ![h.slot] = h]

Next == \E h \in Headers : Publish(h)

Spec == Init /\ [][Next]_vars
=============================================================================
