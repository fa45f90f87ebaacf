--------------------------- MODULE TokenTransfer ---------------------------
(***************************************************************************)
(* What the pair of mediators promises to the owners of tokens.  A         *)
(* transfer takes the tokens on one chain and then does exactly one of two *)
(* things, at most once: it gives them on the other chain, or gives them   *)
(* back.  Tokens of the chain they were issued on are taken by locking and *)
(* given by releasing, bridged tokens are burned and minted, always in the *)
(* amount the transfer was started with.                                   *)
(***************************************************************************)
EXTENDS Naturals

CONSTANTS
    Chains,     \* the two chains
    Tokens,     \* the tokens that are bridged
    Home,       \* Home[t]: the chain that token t was issued on
    NoToken,    \* not a token
    Values,     \* the amounts a transfer can have
    Nonces      \* the transfers of a chain are told apart by nonce

VARIABLES
    status,     \* status[c][n]: the state of transfer n of chain c
    record,     \* record[c][n]: its token and value
    locked,     \* locked[t]: the amount of t locked on Home[t]
    bridged     \* bridged[t]: the amount of t on the other chain

vars == <<status, record, locked, bridged>>

Init ==
    /\ status = [c \in Chains |-> [n \in Nonces |-> "none"]]
    /\ record = [c \in Chains |-> [n \in Nonces |-> [token |-> NoToken, value |-> 0]]]
    /\ locked = [t \in Tokens |-> 0]
    /\ bridged = [t \in Tokens |-> 0]

Take(c, t, v) ==
    IF c = Home[t]
    THEN locked' = [locked EXCEPT ![t] = @ + v] /\ UNCHANGED bridged
    ELSE bridged[t] >= v /\ bridged' = [bridged EXCEPT ![t] = @ - v] /\ UNCHANGED locked

Give(c, t, v) ==
    IF c = Home[t]
    THEN locked[t] >= v /\ locked' = [locked EXCEPT ![t] = @ - v] /\ UNCHANGED bridged
    ELSE bridged' = [bridged EXCEPT ![t] = @ + v] /\ UNCHANGED locked

Start(c, n, t, v) ==
    /\ status[c][n] = "none"
    /\ status' = [status EXCEPT ![c][n] = "pending"]
    /\ record' = [record EXCEPT ![c][n] = [token |-> t, value |-> v]]
    /\ Take(c, t, v)

(* The tokens appear on chain d, across the bridge or back where they were  *)
(* taken.                                                                   *)
Complete(c, n, d, result) ==
    /\ status[c][n] = "pending"
    /\ status' = [status EXCEPT ![c][n] = result]
    /\ Give(d, record[c][n].token, record[c][n].value)
    /\ UNCHANGED record

Next ==
    \E c \in Chains, n \in Nonces :
        \/ \E t \in Tokens, v \in Values : Start(c, n, t, v)
        \/ \E d \in Chains \ {c} : Complete(c, n, d, "delivered")
        \/ Complete(c, n, c, "refunded")

Spec == Init /\ [][Next]_vars
=============================================================================
