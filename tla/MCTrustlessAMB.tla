--------------------------- MODULE MCTrustlessAMB ---------------------------
(***************************************************************************)
(* Instances of the message bridge for TLC.                                *)
(***************************************************************************)
EXTENDS TrustlessAMB

MCChains == {"home", "foreign"}
MCOther == [c \in MCChains |-> IF c = "home" THEN "foreign" ELSE "home"]

(* Both directions: two messages one way, one the other.                   *)
MCMaxMessages == [c \in MCChains |-> IF c = "home" THEN 2 ELSE 1]
MCMaxSlot == [c \in MCChains |-> IF c = "home" THEN 3 ELSE 1]

(* Two messages, and enough slots for every way their logs are proven.      *)
MCMaxMessagesOneWay == [c \in MCChains |-> IF c = "home" THEN 2 ELSE 0]
MCMaxSlotOneWay == [c \in MCChains |-> IF c = "home" THEN 4 ELSE 0]

(* The executor proves a log by the index of the transaction it is in       *)
(* (oracle/cmd/amb/execute_log), and the contract accepts the proof.        *)
LogExecutorCanProve ==
    \A c \in Chains : \A source \in known[c] : \A target \in 1..source :
        \A log \in blocks[Other[c]][target].logs :
            LogProven(c, ProvenSlot(source, target), log.txIndex, log.message)
=============================================================================
