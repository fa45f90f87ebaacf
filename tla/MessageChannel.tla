--------------------------- MODULE MessageChannel ---------------------------
(***************************************************************************)
(* What the pair of TrustlessAMB contracts promises to the applications on *)
(* the two chains: a message is delivered at most once, only if it was     *)
(* sent on the other chain, its outcome is final, and a delivery that      *)
(* fails leaves nothing behind, not even the messages sent meanwhile.      *)
(* One step is one transaction on one chain.                               *)
(***************************************************************************)
CONSTANTS
    Chains,     \* the two chains
    Other,      \* Other[c] is the chain across the bridge
    Messages    \* every message that can be sent

VARIABLES
    sent,       \* sent[c]: the messages sent on chain c
    outcome     \* outcome[c][m]: what became of message m on chain c

vars == <<sent, outcome>>

Init ==
    /\ sent = [c \in Chains |-> {}]
    /\ outcome = [c \in Chains |-> [m \in Messages |-> "NOT_EXECUTED"]]

Send(c) ==
    /\ \E new \in SUBSET (Messages \ sent[c]) :
         sent' = [sent EXCEPT ![c] = @ \cup new]
    /\ UNCHANGED outcome

(* The receiver runs, sends messages of its own and returns.               *)
Deliver(c, m) ==
    /\ m \in sent[Other[c]]
    /\ outcome[c][m] = "NOT_EXECUTED"
    /\ \E new \in SUBSET (Messages \ sent[c]) :
         sent' = [sent EXCEPT ![c] = @ \cup new]
    /\ outcome' = [outcome EXCEPT ![c][m] = "EXECUTION_SUCCEEDED"]

(* The receiver reverts.                                                   *)
Fail(c, m) ==
    /\ m \in sent[Other[c]]
    /\ outcome[c][m] = "NOT_EXECUTED"
    /\ outcome' = [outcome EXCEPT ![c][m] = "EXECUTION_FAILED"]
    /\ UNCHANGED sent

Next ==
    \E c \in Chains :
        \/ Send(c)
        \/ \E m \in Messages : Deliver(c, m) \/ Fail(c, m)

Spec == Init /\ [][Next]_vars
=============================================================================
