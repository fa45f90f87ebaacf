--------------------------- MODULE MCAMBExecutors ---------------------------
(***************************************************************************)
(* Two messages from home to foreign, three slots, two executors: enough    *)
(* for every way a log is proven, for a root that was cached before or     *)
(* after the other message was sent, and for a race of the executors.      *)
(***************************************************************************)
EXTENDS AMBExecutors

MCChains == {"home", "foreign"}
MCOther == [c \in MCChains |-> IF c = "home" THEN "foreign" ELSE "home"]
MCMaxMessages == [c \in MCChains |-> IF c = "home" THEN 2 ELSE 0]
MCMaxSlot == [c \in MCChains |-> IF c = "home" THEN 3 ELSE 0]
MCExecutors == [route : {"storage", "log"}, target : {"foreign"}]
=============================================================================
