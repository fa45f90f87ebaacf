---------------------------- MODULE MCOmnibridge ----------------------------
(***************************************************************************)
(* An instance of the mediators for TLC: a token native to home, two       *)
(* transfers from home and one back, and the calls of another contract.    *)
(***************************************************************************)
EXTENDS Omnibridge

MCChains == {"home", "foreign"}
MCOther == [c \in MCChains |-> IF c = "home" THEN "foreign" ELSE "home"]
MCHome == [t \in Tokens |-> "home"]

MCMaxRelays == [c \in MCChains |-> IF c = "home" THEN 2 ELSE 1]
MCMaxFixRequests == [c \in MCChains |-> IF c = "home" THEN 2 ELSE 1]

(* Another contract on the other side tries to be the mediator.             *)
MCStrangerCalls ==
    {[kind |-> "handleNativeTokens", token |-> "gold", value |-> 1],
     [kind |-> "fixFailedMessage", of |-> 0]}
MCMaxStrangers == [c \in MCChains |-> IF c = "home" THEN 0 ELSE 1]
=============================================================================
