------------------------- MODULE TokensBridgeLimits -------------------------
(***************************************************************************)
(* The limits of a mediator: what may leave and what may arrive of a token *)
(* in one transfer and in one day, TokensBridgeLimits.sol.  A token without *)
(* limits is not registered; it gets its limits from the defaults, scaled  *)
(* by its decimals, when it is bridged for the first time.  The counters   *)
(* are kept for each day; only those of the current day are ever read.     *)
(***************************************************************************)
EXTENDS Integers, Arithmetic

CONSTANTS
    Tokens,          \* token contracts
    Default,         \* address(0), under which the default limits are stored
    Decimals,        \* Decimals[t]: decimals() of token t
    FullDecimals,    \* the decimals the default limits are meant for, 18
    InitialLimits,   \* the limits initialize may be given
    LimitValues      \* the amounts the owner may set a limit to

VARIABLES
    limits,      \* limits[k], for a token or the default
    spent,       \* totalSpentPerDay[t] of the current day
    executed     \* totalExecutedPerDay[t] of the current day

limitVars == <<limits, spent, executed>>

Keys == Tokens \cup {Default}
Limits == [daily : Nat, max : Nat, min : Nat, execDaily : Nat, execMax : Nat]
NoLimits == [daily |-> 0, max |-> 0, min |-> 0, execDaily |-> 0, execMax |-> 0]

(* What _setLimits and _setExecutionLimits require.                         *)
ValidLimits(l) ==
    /\ 0 < l.min /\ l.min < l.max /\ l.max < l.daily
    /\ l.execMax < l.execDaily

ASSUME LimitsAssumption ==
    /\ Default \notin Tokens
    /\ Decimals \in [Tokens -> Nat]
    /\ FullDecimals \in Nat
    /\ InitialLimits \subseteq Limits
    /\ \A l \in InitialLimits : ValidLimits(l)
    /\ LimitValues \subseteq Nat

InitLimits ==
    /\ \E l \in InitialLimits : limits = [k \in Keys |-> IF k = Default THEN l ELSE NoLimits]
    /\ spent = [t \in Tokens |-> 0]
    /\ executed = [t \in Tokens |-> 0]

-----------------------------------------------------------------------------
IsTokenRegistered(t) == limits[t].min > 0

(* The limits l times up, divided by down.                                  *)
Scaled(l, up, down) ==
    [daily |-> (l.daily * up) \div down, max |-> (l.max * up) \div down,
     min |-> (l.min * up) \div down, execDaily |-> (l.execDaily * up) \div down,
     execMax |-> (l.execMax * up) \div down]

(* Mutant: only the smallest amount is replaced.                            *)
Raised_MinOnly(l) == [l EXCEPT !.min = 1]
(* Limits too low to be used are replaced, the larger ones only if needed.  *)
Raised(l) ==
    IF l.max > 1 THEN [l EXCEPT !.min = 1]
    ELSE IF l.daily > 100 /\ l.execDaily > 100
    THEN [l EXCEPT !.min = 1, !.max = 100, !.execMax = 100]
    ELSE [daily |-> 10000, max |-> 100, min |-> 1, execDaily |-> 10000, execMax |-> 100]

(* _initializeTokenBridgeLimits: default limits l, for d decimals.          *)
TokenLimits(l, d) ==
    IF d >= FullDecimals THEN Scaled(l, TenTo[d - FullDecimals], 1)
    ELSE LET down == Scaled(l, 1, TenTo[FullDecimals - d])
         IN  IF down.min > 0 THEN down ELSE Raised(down)

(* The limits of t once it is bridged, and whether it can be.               *)
LimitsOf(t) ==
    IF IsTokenRegistered(t) THEN limits[t] ELSE TokenLimits(limits[Default], Decimals[t])
CanRegister(t) == IsTokenRegistered(t) \/ ValidLimits(LimitsOf(t))
Register(t) == CanRegister(t) /\ limits' = [limits EXCEPT ![t] = LimitsOf(t)]

WithinLimit(t, v) ==
    LET l == LimitsOf(t) IN
    limits[Default].daily > 0 /\ spent[t] + v <= l.daily /\ v <= l.max /\ v >= l.min
WithinExecutionLimit(t, v) ==
    LET l == LimitsOf(t) IN
    limits[Default].execDaily > 0 /\ executed[t] + v <= l.execDaily /\ v <= l.execMax

AddTotalSpentPerDay(t, v) == spent' = [spent EXCEPT ![t] = @ + v]
AddTotalExecutedPerDay(t, v) == executed' = [executed EXCEPT ![t] = @ + v]

MaxAvailablePerTx(t) ==
    LET left == IF limits[t].daily > spent[t] THEN limits[t].daily - spent[t] ELSE 0
    IN  IF limits[t].max < left THEN limits[t].max ELSE left

-----------------------------------------------------------------------------
(* The setters of the owner, for a token or the default; 0 stops the bridge *)
(* in one direction.                                                        *)
SetDailyLimit_AnyLess(k, d) ==                                    \* mutant
    /\ limits[k].min > 0
    /\ d > limits[k].min \/ d = 0
    /\ limits' = [limits EXCEPT ![k].daily = d]
SetDailyLimit(k, d) ==
    /\ limits[k].min > 0
    /\ d > limits[k].max \/ d = 0
    /\ limits' = [limits EXCEPT ![k].daily = d]

SetMaxPerTx(k, m) ==
    /\ limits[k].min > 0
    /\ m = 0 \/ (m > limits[k].min /\ m < limits[k].daily)
    /\ limits' = [limits EXCEPT ![k].max = m]

SetMinPerTx(k, m) ==
    /\ limits[k].min > 0
    /\ m > 0 /\ m < limits[k].daily /\ m < limits[k].max
    /\ limits' = [limits EXCEPT ![k].min = m]

SetExecutionDailyLimit(k, d) ==
    /\ limits[k].min > 0
    /\ d > limits[k].execMax \/ d = 0
    /\ limits' = [limits EXCEPT ![k].execDaily = d]

SetExecutionMaxPerTx(k, m) ==
    /\ limits[k].min > 0
    /\ m = 0 \/ m < limits[k].execDaily
    /\ limits' = [limits EXCEPT ![k].execMax = m]

SetLimit ==
    /\ \E k \in Keys, x \in LimitValues :
          \/ SetDailyLimit(k, x) \/ SetMaxPerTx(k, x) \/ SetMinPerTx(k, x)
          \/ SetExecutionDailyLimit(k, x) \/ SetExecutionMaxPerTx(k, x)
    /\ UNCHANGED <<spent, executed>>

(* Another day begins, whose counters are zero.                             *)
NextDay ==
    /\ spent' = [t \in Tokens |-> 0]
    /\ executed' = [t \in Tokens |-> 0]
    /\ UNCHANGED limits

-----------------------------------------------------------------------------
LimitsTypeOK ==
    /\ limits \in [Keys -> Limits]
    /\ spent \in [Tokens -> Nat]
    /\ executed \in [Tokens -> Nat]

Ordered(l) ==
    /\ l.max = 0 \/ l.min < l.max
    /\ l.daily = 0 \/ l.max < l.daily
    /\ l.execDaily = 0 \/ l.execMax < l.execDaily

(* However the setters are called one after another, a limit that is not    *)
(* switched off leaves room for the smaller ones: some amount can be        *)
(* bridged, and limits can be set again.                                    *)
LimitsOrdered == \A k \in Keys : Ordered(limits[k])

(* Each default limit is at least twice the next smaller one, and what may  *)
(* arrive is no less than what may leave.                                   *)
Wide(l) ==
    /\ 0 < l.min /\ 2 * l.min <= l.max /\ 2 * l.max <= l.daily
    /\ l.max <= l.execMax /\ 2 * l.execMax <= l.execDaily

(* Then every token can be bridged, whatever its decimals are: limits that  *)
(* are rounded down stay in order or are raised.                            *)
NewTokensGetLimits ==
    Wide(limits[Default]) =>
        \A d \in 0..(FullDecimals + 1) : ValidLimits(TokenLimits(limits[Default], d))
=============================================================================
