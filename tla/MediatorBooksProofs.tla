------------------------ MODULE MediatorBooksProofs ------------------------
(***************************************************************************)
(* The books of a mediator stay balanced, for every amount, limit, fee and *)
(* threshold, as long as no failed transfer is fixed under the lock while  *)
(* cash is kept from being invested; and the limits stay in order.         *)
(***************************************************************************)
EXTENDS MediatorBooks, ArithmeticProofs, SequenceTheorems, TLAPS

Accounts == {User} \cup RewardAccounts
RelayFrames == [op : {"relay"}, from : Accounts, value : Int, before : Int, moved : BOOLEAN,
                arrived : Int]
ReleaseFrames == [op : {"release"}, due : Int]
Frames == RelayFrames \cup ReleaseFrames

-----------------------------------------------------------------------------
(* The calls in progress: at most one of a kind.                            *)

Calls(f) ==
    /\ f \in Seq(Frames)
    /\ \A i, j \in DOMAIN f : f[i].op = f[j].op => i = j
HasOp(f, op) == \E i \in DOMAIN f : f[i].op = op

LEMMA Pushed ==
    ASSUME NEW f, Calls(f), NEW x \in Frames, ~HasOp(f, x.op)
    PROVE  /\ Calls(Append(f, x))
           /\ \A op : HasOp(Append(f, x), op) <=> HasOp(f, op) \/ op = x.op
           /\ \A i \in DOMAIN Append(f, x) :
                 \/ i \in DOMAIN f /\ Append(f, x)[i] = f[i]
                 \/ Append(f, x)[i] = x
<1> DEFINE g == Append(f, x)
<1>1. /\ g \in Seq(Frames) /\ Len(g) = Len(f) + 1
      /\ \A i \in 1..Len(f) : g[i] = f[i]
      /\ g[Len(f) + 1] = x
  BY AppendProperties DEF Calls
<1>2. Len(f) \in Nat /\ DOMAIN f = 1..Len(f) /\ DOMAIN g = 1..(Len(f) + 1)
  BY <1>1, LenProperties DEF Calls
<1> HIDE DEF g
<1>3. \A i \in DOMAIN g : (i \in DOMAIN f /\ g[i] = f[i]) \/ (i = Len(f) + 1 /\ g[i] = x)
  BY <1>1, <1>2
<1>4. Calls(g)
  BY <1>1, <1>3 DEF Calls, HasOp
<1>5. \A op : HasOp(g, op) <=> HasOp(f, op) \/ op = x.op
  BY <1>1, <1>2, <1>3 DEF HasOp
<1> QED BY <1>3, <1>4, <1>5 DEF g

LEMMA Popped ==
    ASSUME NEW f, Calls(f), f # <<>>
    PROVE  /\ Last(f) \in Frames
           /\ \E i \in DOMAIN f : f[i] = Last(f)
           /\ Calls(Front(f))
           /\ \A op : HasOp(Front(f), op) <=> HasOp(f, op) /\ op # Last(f).op
           /\ \A i \in DOMAIN Front(f) : i \in DOMAIN f /\ Front(f)[i] = f[i]
<1> DEFINE g == Front(f)
<1>1. Len(f) \in Nat \ {0} /\ DOMAIN f = 1..Len(f)
  BY LenProperties, EmptySeq DEF Calls
<1>2. /\ g \in Seq(Frames) /\ Len(g) = Len(f) - 1
      /\ \A i \in 1..(Len(f) - 1) : g[i] = f[i]
  <2>1. \A i \in 1..(Len(f) - 1) : f[i] \in Frames
    BY <1>1, ElementOfSeq DEF Calls
  <2>2. Len(f) - 1 \in Int
    BY <1>1
  <2> DEFINE last == Len(f) - 1
  <2>3. g = SubSeq(f, 1, last)
    BY DEF Front
  <2> HIDE DEF g, last
  <2>4. g \in Seq(Frames)
    BY <2>1, <2>2, <2>3 DEF last
  <2>5. last \in Int /\ 1 <= last + 1
    BY <1>1, <2>2 DEF last
  <2>6. Len(g) = last
    BY <2>3, <2>5
  <2>7. \A i \in 1..last : g[i] = f[i]
    BY <2>3, <2>5
  <2> QED BY <2>4, <2>6, <2>7 DEF last
<1>3. DOMAIN g = 1..(Len(f) - 1)
  BY <1>2, LenProperties
<1>4. Last(f) = f[Len(f)] /\ Len(f) \in DOMAIN f /\ Last(f) \in Frames
  BY <1>1, ElementOfSeq DEF Last, Calls
<1> HIDE DEF g
<1>5. \A i \in DOMAIN g : i \in DOMAIN f /\ g[i] = f[i] /\ i # Len(f)
  BY <1>1, <1>2, <1>3
<1>6. \A i \in DOMAIN f : i = Len(f) \/ i \in DOMAIN g
  BY <1>1, <1>3
<1>7. Calls(g)
  BY <1>2, <1>5 DEF Calls
<1>8. \A op : HasOp(g, op) <=> HasOp(f, op) /\ op # Last(f).op
  BY <1>4, <1>5, <1>6 DEF HasOp, Calls
<1> QED BY <1>4, <1>5, <1>7, <1>8 DEF g

LEMMA Arrived ==
    ASSUME NEW f, Calls(f), NEW x \in Int
    PROVE  /\ Calls(Arrives(f, x))
           /\ \A op : HasOp(Arrives(f, x), op) <=> HasOp(f, op)
           /\ \A i \in DOMAIN Arrives(f, x) :
                 /\ i \in DOMAIN f
                 /\ Arrives(f, x)[i].op = f[i].op
                 /\ f[i].op = "release" => Arrives(f, x)[i] = f[i]
                 /\ f[i].op = "relay" => /\ Arrives(f, x)[i].before = f[i].before
                                         /\ Arrives(f, x)[i].arrived = f[i].arrived + x
<1> DEFINE g == Arrives(f, x)
<1>1. Len(f) \in Nat /\ DOMAIN f = 1..Len(f) /\ DOMAIN g = 1..Len(f)
  BY LenProperties DEF Calls, Arrives
<1>2. ASSUME NEW i \in DOMAIN f
      PROVE  /\ g[i] \in Frames
             /\ g[i].op = f[i].op
             /\ f[i].op = "release" => g[i] = f[i]
             /\ f[i].op = "relay" => /\ g[i].before = f[i].before
                                     /\ g[i].arrived = f[i].arrived + x
  <2>1. f[i] \in Frames
    BY ElementOfSeq, <1>1 DEF Calls
  <2>2. CASE f[i].op = "relay"
    <3>1. f[i] \in RelayFrames /\ g[i] = [f[i] EXCEPT !.arrived = @ + x]
      BY <2>1, <2>2 DEF Frames, RelayFrames, ReleaseFrames, Arrives
    <3> QED BY <3>1, <2>2 DEF Frames, RelayFrames
  <2>3. CASE f[i].op # "relay"
    BY <2>1, <2>3 DEF Arrives
  <2> QED BY <2>2, <2>3
<1>3. g \in Seq(Frames)
  <2>1. g \in [1..Len(f) -> Frames]
    BY <1>1, <1>2 DEF Arrives
  <2> QED BY <2>1, <1>1, SeqDef
<1> HIDE DEF g
<1>4. Calls(g)
  BY <1>1, <1>2, <1>3 DEF Calls
<1>5. \A op : HasOp(g, op) <=> HasOp(f, op)
  BY <1>1, <1>2 DEF HasOp
<1> QED BY <1>1, <1>2, <1>4, <1>5 DEF g
-----------------------------------------------------------------------------
(* The inductive invariant.  While an execution has sent tokens of the home *)
(* chain that it has not taken off the books, the books are ahead by due;   *)
(* what a relay has read of the balance covers, with what is lent out, what *)
(* is owed, so that the difference it measures is free to be bridged.       *)

Relay(i) == frames[i].op = "relay"
Release(i) == frames[i].op = "release"

Numbers ==
    /\ balance \in Int /\ mediatorBalance \in Int /\ supply \in Int /\ owed \in Int
    /\ investedAmount \in Int /\ minCash \in Nat
    /\ fees \in [Directions -> [FeeKinds -> Int]]

LockIsHeld == (lock = TRUE) <=> HasOp(frames, "relay")

Lending ==
    /\ 0 <= investedAmount
    /\ interest => ~isHome /\ isNative /\ investedAmount <= mediatorBalance
    /\ ~interest => investedAmount = 0
    /\ ~isHome => 0 <= mediatorBalance

Books ==
    /\ isNative => balance + investedAmount >= owed
    /\ isNative /\ ~BridgeIsBusy => mediatorBalance = owed
    /\ ~isNative => supply = owed

Releases ==
    \A i \in DOMAIN frames : Release(i) =>
        /\ isNative => mediatorBalance = owed + frames[i].due
        /\ ~isHome \/ ~isNative => frames[i].due = 0

Relays ==
    \A i \in DOMAIN frames : Relay(i) =>
        /\ isNative => frames[i].before + investedAmount >= owed
        /\ balance - frames[i].before <= frames[i].arrived

IInv == Numbers /\ Calls(frames) /\ LockIsHeld /\ Lending /\ Books /\ Releases /\ Relays

LEMMA BusyIsRelease == BridgeIsBusy <=> HasOp(frames, "release")
  BY DEF BridgeIsBusy, HasOp

LEMMA FeeIsInt ==
    ASSUME Numbers, NEW dir \in Directions, NEW v \in Int
    PROVE  CalculateFee(dir, v) \in Int
<1>1. GetFee(dir) \in Int
  BY DEF GetFee, Numbers, FeeKinds
<1>2. v * GetFee(dir) \in Int
  BY <1>1
<1>3. MaxFee \in Nat \ {0}
  BY FeeAssumption
<1>4. ASSUME NEW x \in Int PROVE x \div MaxFee \in Int
  BY <1>3
<1> QED BY <1>2, <1>4 DEF CalculateFee

LEMMA RatesAreInt == FeeRates \subseteq Int /\ InitialRates \subseteq Int
<1>1. MaxFee \in Nat \ {0} /\ FeeRates \subseteq 0..(MaxFee - 1) /\ InitialRates \subseteq FeeRates
  BY FeeAssumption
<1> QED BY <1>1

LEMMA InitIInv == Init => IInv
<1> SUFFICES ASSUME Init PROVE IInv
  OBVIOUS
<1>1. Numbers
  <2>1. fees \in [Directions -> [FeeKinds -> Int]]
    <3>1. PICK rate \in [Directions -> InitialRates] :
            fees = [dir \in Directions |-> [kind \in FeeKinds |->
                      IF kind = "default" THEN 1 + rate[dir] ELSE 0]]
      BY DEF Init, InitFees
    <3>2. ASSUME NEW dir \in Directions PROVE 1 + rate[dir] \in Int
      <4>1. rate[dir] \in Int
        BY RatesAreInt
      <4> QED BY <4>1
    <3> QED BY <3>1, <3>2
  <2> QED BY <2>1 DEF Init, Numbers
<1>2. Calls(frames) /\ ~HasOp(frames, "relay") /\ ~HasOp(frames, "release")
  BY DEF Init, Calls, HasOp
<1>3. LockIsHeld /\ Lending /\ Books
  BY <1>2 DEF Init, LockIsHeld, Lending, Books
<1>4. Releases /\ Relays
  BY <1>2 DEF Releases, Relays, Relay, Release, HasOp
<1> QED BY <1>1, <1>2, <1>3, <1>4 DEF IInv

-----------------------------------------------------------------------------
(* Tokens that others send are arrivals for a relay that is waiting.        *)
LEMMA ArrivalIInv ==
    ASSUME IInv, NEW x \in Nat, NEW f, Calls(f), DOMAIN f = DOMAIN frames,
           \A i \in DOMAIN frames :
              /\ f[i].op = frames[i].op
              /\ Release(i) => f[i] = frames[i]
              /\ Relay(i) => f[i].before = frames[i].before /\ f[i].arrived = frames[i].arrived,
           balance' = balance + x, frames' = Arrives(f, x),
           UNCHANGED <<feeVars, sideVars, ownerVars, mediatorBalance, supply, owed,
                       investedAmount, lock>>
    PROVE  IInv'
<1> USE DEF IInv, feeVars, sideVars, ownerVars
<1>1. Numbers'
  BY DEF Numbers
<1>2. Calls(frames')
  BY Arrived
<1>3. \A op : HasOp(frames', op) <=> HasOp(frames, op)
  <2>1. \A op : HasOp(f, op) <=> HasOp(frames, op)
    BY DEF HasOp
  <2> QED BY <2>1, Arrived
<1>4. LockIsHeld'
  BY <1>3 DEF LockIsHeld
<1>5. Lending'
  BY DEF Lending
<1>6. Books'
  BY <1>3, BusyIsRelease DEF Books, BridgeIsBusy, HasOp, Numbers
<1>7. \A i \in DOMAIN frames' :
         /\ i \in DOMAIN frames /\ frames'[i].op = frames[i].op
         /\ Release(i) => frames'[i] = frames[i]
         /\ Relay(i) => /\ frames'[i].before = frames[i].before
                        /\ frames'[i].arrived = frames[i].arrived + x
  BY Arrived DEF Release, Relay
<1>8. Releases'
  BY <1>7 DEF Releases, Release
<1>9. Relays'
  <2> SUFFICES ASSUME NEW i \in DOMAIN frames', frames'[i].op = "relay"
               PROVE  /\ isNative => frames'[i].before + investedAmount >= owed
                      /\ balance' - frames'[i].before <= frames'[i].arrived
    BY DEF Relays, Relay
  <2>1. /\ i \in DOMAIN frames /\ Relay(i) /\ frames'[i].before = frames[i].before
        /\ frames'[i].arrived = frames[i].arrived + x
    BY <1>7 DEF Relay
  <2>2. frames[i] \in RelayFrames
    BY <2>1, ElementOfSeq DEF Calls, Relay, Frames, ReleaseFrames, RelayFrames
  <2>3. frames[i].before \in Int /\ frames[i].arrived \in Int
    BY <2>2 DEF RelayFrames
  <2> QED BY <2>1, <2>3 DEF Relays, Numbers
<1> QED BY <1>1, <1>2, <1>4, <1>5, <1>6, <1>8, <1>9

(* What is bridged is locked and owed alike.                                *)
LEMMA BridgedIInv ==
    ASSUME IInv, NEW from, NEW d \in Nat, NEW b \in Int, BridgeTokens(from, d, b),
           isNative => b + investedAmount >= owed + d,
           Calls(frames'), ~HasOp(frames', "relay"), lock' # TRUE,
           HasOp(frames', "release") <=> HasOp(frames, "release"),
           \A i \in DOMAIN frames' : i \in DOMAIN frames /\ frames'[i] = frames[i],
           UNCHANGED <<feeVars, sideVars, ownerVars>>
    PROVE  IInv'
<1> USE DEF IInv, feeVars, sideVars, ownerVars
<1> DEFINE fee == RelayFee(from, d)
           value == d - fee
<1>1. fee \in Int /\ value \in Int /\ (~isHome => fee = 0)
  <2>1. CalculateFee("HOME_TO_FOREIGN_FEE", d) \in Int
    BY FeeIsInt DEF Directions
  <2> QED BY <2>1 DEF RelayFee
<1>2. /\ isNative => /\ mediatorBalance' = mediatorBalance + value
                     /\ owed' = owed + value /\ supply' = supply
                     /\ balance' = b - fee
      /\ ~isNative => /\ supply' = supply - value
                      /\ owed' = owed - value /\ mediatorBalance' = mediatorBalance
                      /\ balance' = b - fee - value
      /\ investedAmount' = investedAmount
  BY DEF BridgeTokens, PrepareMessage
<1> HIDE DEF fee, value
<1>3. value = d - fee
  BY DEF value
<1>4. Numbers'
  BY <1>1, <1>2 DEF Numbers
<1>5. LockIsHeld'
  BY DEF LockIsHeld
<1>6. Lending'
  BY <1>1, <1>2, <1>3 DEF Lending, Numbers
<1>7. BridgeIsBusy' <=> BridgeIsBusy
  BY BusyIsRelease DEF BridgeIsBusy, HasOp
<1>8. Books'
  BY <1>1, <1>2, <1>3, <1>7 DEF Books, Numbers
<1>9. Releases'
  <2> SUFFICES ASSUME NEW i \in DOMAIN frames', frames'[i].op = "release"
               PROVE  /\ isNative => mediatorBalance' = owed' + frames'[i].due
                      /\ ~isHome \/ ~isNative => frames'[i].due = 0
    BY DEF Releases, Release
  <2>1. i \in DOMAIN frames /\ frames'[i] = frames[i] /\ Release(i)
    BY DEF Release
  <2>2. frames[i].due \in Int
    BY <2>1, ElementOfSeq DEF Calls, Release, Frames, ReleaseFrames, RelayFrames
  <2> QED BY <1>1, <1>2, <2>1, <2>2 DEF Releases, Numbers
<1>10. Relays'
  BY DEF Relays, Relay, HasOp
<1> QED BY <1>4, <1>5, <1>6, <1>8, <1>9, <1>10

(* What is paid out is owed no longer; on home it stays on the books until  *)
(* the token's transfer has returned.  Under the lock no more is withdrawn  *)
(* than paid, since no cash is kept.                                        *)
LEMMA ReleasedIInv ==
    ASSUME IInv, NEW v \in Nat, NEW fee \in Int, ~BridgeIsBusy, ReleaseTokens(v, fee),
           lock = TRUE => minCash = 0,
           frames' = Append(frames, ReleaseFrame(IF isHome /\ isNative THEN v ELSE 0)),
           UNCHANGED <<lock, feeVars, sideVars, ownerVars>>
    PROVE  IInv'
<1> USE DEF IInv, feeVars, sideVars, ownerVars
<1> DEFINE w == IF isHome THEN 0 ELSE Withdrawn(v)
           due == IF isHome /\ isNative THEN v ELSE 0
           new == ReleaseFrame(due)
<1>1. /\ w \in Int /\ 0 <= w /\ w <= investedAmount
      /\ ~interest => w = 0
      /\ interest => investedAmount - w <= mediatorBalance - v \/ mediatorBalance < v
      /\ lock = TRUE => w <= v
  BY DEF Withdrawn, Redeemed, Numbers, Lending
<1>2. /\ isNative => /\ balance' = balance + w - v /\ owed' = owed - v
                     /\ mediatorBalance >= v /\ supply' = supply
                     /\ mediatorBalance' = IF isHome THEN mediatorBalance ELSE mediatorBalance - v
      /\ ~isNative => /\ balance' = balance /\ owed' = owed + v
                      /\ supply' = supply + v /\ mediatorBalance' = mediatorBalance
      /\ investedAmount' = investedAmount - w
  BY <1>1 DEF ReleaseTokens, Numbers
<1>3. /\ new \in Frames /\ new.op = "release" /\ new.due = due /\ due \in Int
      /\ (isHome /\ isNative) => due = v
      /\ ~isHome \/ ~isNative => due = 0
  BY DEF ReleaseFrame, Frames, ReleaseFrames
<1>4. frames' = Append(frames, new)
  OBVIOUS
<1> HIDE DEF w, due, new
<1>5. ~HasOp(frames, "release")
  BY BusyIsRelease
<1>6. /\ Calls(frames')
      /\ \A op : HasOp(frames', op) <=> HasOp(frames, op) \/ op = "release"
      /\ \A i \in DOMAIN frames' :
            (i \in DOMAIN frames /\ frames'[i] = frames[i]) \/ frames'[i] = new
  BY <1>3, <1>4, <1>5, Pushed
<1>7. Numbers'
  BY <1>1, <1>2 DEF Numbers
<1>8. LockIsHeld'
  BY <1>6 DEF LockIsHeld
<1>9. Lending'
  BY <1>1, <1>2 DEF Lending, Numbers
<1>10. BridgeIsBusy'
  BY <1>6 DEF BridgeIsBusy, HasOp
<1>11. Books'
  BY <1>1, <1>2, <1>10 DEF Books, Numbers
<1>12. Releases'
  <2> SUFFICES ASSUME NEW i \in DOMAIN frames', frames'[i].op = "release"
               PROVE  /\ isNative => mediatorBalance' = owed' + frames'[i].due
                      /\ ~isHome \/ ~isNative => frames'[i].due = 0
    BY DEF Releases, Release
  <2>1. frames'[i] = new
    BY <1>5, <1>6 DEF HasOp
  <2> QED BY <1>2, <1>3, <2>1 DEF Books, Numbers
<1>13. Relays'
  <2> SUFFICES ASSUME NEW i \in DOMAIN frames', frames'[i].op = "relay"
               PROVE  /\ isNative => frames'[i].before + investedAmount' >= owed'
                      /\ balance' - frames'[i].before <= frames'[i].arrived
    BY DEF Relays, Relay
  <2>1. i \in DOMAIN frames /\ frames'[i] = frames[i] /\ Relay(i)
    BY <1>3, <1>6 DEF Relay
  <2>2. frames[i].before \in Int /\ frames[i].arrived \in Int
    BY <2>1, ElementOfSeq DEF Calls, Relay, Frames, ReleaseFrames, RelayFrames
  <2>3. w <= v
    BY <2>1, <1>1 DEF LockIsHeld, HasOp, Relay
  <2>4. /\ isNative => frames[i].before + investedAmount >= owed
        /\ balance - frames[i].before <= frames[i].arrived
    BY <2>1 DEF Relays
  <2>5. /\ balance \in Int /\ owed \in Int /\ investedAmount \in Int
        /\ w \in Int /\ v \in Int
    BY <1>1 DEF Numbers
  <2>6. isNative => frames'[i].before + investedAmount' >= owed'
    BY <1>2, <2>1, <2>2, <2>3, <2>4, <2>5
  <2>7. balance' - frames'[i].before <= frames'[i].arrived
    <3>1. balance' <= balance
      BY <1>2, <2>3, <2>5
    <3>2. balance' \in Int
      BY <1>2, <2>5
    <3> QED BY <2>1, <2>2, <2>4, <2>5, <3>1, <3>2
  <2> QED BY <2>6, <2>7
<1> QED BY <1>6, <1>7, <1>8, <1>9, <1>11, <1>12, <1>13

-----------------------------------------------------------------------------
(* The steps.                                                               *)

LEMMA ValuesAreNat == Values \subseteq Nat /\ MinCashes \subseteq Nat
  BY BooksAssumption

LEMMA RelayTokensIInv ==
    ASSUME IInv, NEW from \in Accounts, NEW v \in Values, RelayTokens(from, v)
    PROVE  IInv'
<1> USE DEF IInv, feeVars, sideVars, ownerVars, balanceVars, RelayTokens
<1> DEFINE new == RelayFrame(from, v)
<1>1. /\ new \in Frames /\ new.op = "relay" /\ new.before = balance /\ new.arrived = 0
  BY ValuesAreNat DEF RelayFrame, Frames, RelayFrames, Numbers
<1>2. frames' = Append(frames, new)
  OBVIOUS
<1> HIDE DEF new
<1>3. ~HasOp(frames, "relay")
  BY DEF LockIsHeld
<1>4. /\ Calls(frames')
      /\ \A op : HasOp(frames', op) <=> HasOp(frames, op) \/ op = "relay"
      /\ \A i \in DOMAIN frames' :
            (i \in DOMAIN frames /\ frames'[i] = frames[i]) \/ frames'[i] = new
  BY <1>1, <1>2, <1>3, Pushed
<1>5. Numbers' /\ Lending'
  BY DEF Numbers, Lending
<1>6. LockIsHeld'
  BY <1>4 DEF LockIsHeld
<1>7. BridgeIsBusy' <=> BridgeIsBusy
  BY <1>4, BusyIsRelease DEF BridgeIsBusy, HasOp
<1>8. Books'
  BY <1>7 DEF Books
<1>9. Releases'
  BY <1>1, <1>4 DEF Releases, Release
<1>10. Relays'
  <2>1. isNative => balance + investedAmount >= owed
    BY DEF Books
  <2>2. balance - balance <= 0
    BY DEF Numbers
  <2> QED BY <1>1, <1>3, <1>4, <2>1, <2>2 DEF Relays, Relay, HasOp
<1> QED BY <1>4, <1>5, <1>6, <1>8, <1>9, <1>10

LEMMA TransferFromIInv ==
    ASSUME IInv, NEW a \in Nat, TransferFrom(a)
    PROVE  IInv'
<1> USE DEF IInv
<1> DEFINE n == Len(frames)
           f == [frames EXCEPT ![n].moved = TRUE]
<1>1. frames # <<>> /\ Last(frames).op = "relay"
  BY DEF TransferFrom, Innermost, InCall
<1>2. n \in DOMAIN frames /\ frames[n] = Last(frames)
  <2>1. Len(frames) \in Nat \ {0} /\ DOMAIN frames = 1..Len(frames)
    BY <1>1, LenProperties, EmptySeq DEF Calls
  <2> QED BY <2>1 DEF Last
<1>3. f = [frames EXCEPT ![n] = [frames[n] EXCEPT !.moved = TRUE]]
  OBVIOUS
<1>4. frames' = Arrives(f, a)
  BY DEF TransferFrom
<1>5. frames[n] \in RelayFrames
  BY <1>1, <1>2, ElementOfSeq DEF Calls, Frames, ReleaseFrames, RelayFrames
<1> HIDE DEF f, n
<1>6. /\ f[n] \in Frames /\ f[n].op = "relay" /\ f[n].before = frames[n].before
      /\ f[n].arrived = frames[n].arrived
  <2>1. f[n] = [frames[n] EXCEPT !.moved = TRUE]
    BY <1>2, <1>3
  <2> QED BY <2>1, <1>1, <1>2, <1>5 DEF RelayFrames, Frames
<1>7. DOMAIN f = DOMAIN frames /\ \A i \in DOMAIN frames \ {n} : f[i] = frames[i]
  BY <1>3
<1>8. f \in Seq(Frames)
  BY <1>2, <1>3, <1>6, <1>7, ExceptSeq DEF Calls
<1>9. \A i \in DOMAIN frames :
         /\ f[i].op = frames[i].op
         /\ Release(i) => f[i] = frames[i]
         /\ Relay(i) => f[i].before = frames[i].before /\ f[i].arrived = frames[i].arrived
  BY <1>1, <1>2, <1>6, <1>7 DEF Release, Relay
<1>10. Calls(f)
  BY <1>7, <1>8, <1>9 DEF Calls
<1>11. /\ balance' = balance + a
       /\ UNCHANGED <<feeVars, sideVars, ownerVars, mediatorBalance, supply, owed,
                      investedAmount, lock>>
  BY DEF TransferFrom
<1> QED BY <1>4, <1>7, <1>9, <1>10, <1>11, ArrivalIInv

LEMMA RelayReturnsIInv == ASSUME IInv, RelayReturns PROVE IInv'
<1> USE DEF IInv
<1> DEFINE f == Last(frames)
           diff == balance - f.before
<1>1. frames # <<>> /\ f.op = "relay" /\ frames' = Front(frames) /\ lock' # TRUE
  BY DEF RelayReturns, Innermost, InCall
<1>2. /\ f \in Frames
      /\ \E i \in DOMAIN frames : frames[i] = f
      /\ Calls(frames')
      /\ \A op : HasOp(frames', op) <=> HasOp(frames, op) /\ op # "relay"
      /\ \A i \in DOMAIN frames' : i \in DOMAIN frames /\ frames'[i] = frames[i]
  BY <1>1, Popped
<1>3. f.before \in Int /\ (isNative => f.before + investedAmount >= owed)
  <2>1. f \in RelayFrames
    BY <1>1, <1>2 DEF Frames, ReleaseFrames, RelayFrames
  <2> QED BY <1>1, <1>2, <2>1 DEF Relays, Relay, RelayFrames
<1>4. diff \in Nat /\ balance \in Int /\ (isNative => balance + investedAmount >= owed + diff)
  BY <1>3 DEF RelayReturns, Numbers
<1>5. BridgeTokens(f.from, diff, balance) /\ UNCHANGED <<feeVars, sideVars, ownerVars>>
  BY DEF RelayReturns
<1> HIDE DEF f, diff
<1> QED BY <1>1, <1>2, <1>4, <1>5, BridgedIInv

LEMMA OnTokenTransferIInv ==
    ASSUME IInv, NEW from, NEW v \in Nat, OnTokenTransfer(from, v)
    PROVE  IInv'
<1> USE DEF IInv, OnTokenTransfer
<1>1. CASE CallbackIsRelay
  <2>1. lock' # TRUE
    BY <1>1 DEF CallbackIsRelay
  <2>2. BridgeTokens(from, v, balance + v) /\ frames' = frames
    BY <1>1
  <2>3. ~HasOp(frames, "relay")
    BY <1>1 DEF CallbackIsRelay, LockIsHeld
  <2>4. /\ balance + v \in Int
        /\ isNative => balance + v + investedAmount >= owed + v
    BY DEF Numbers, Books
  <2> QED BY <2>1, <2>2, <2>3, <2>4, BridgedIInv
<1>2. CASE ~CallbackIsRelay
  <2>1. /\ balance' = balance + v /\ frames' = Arrives(frames, v)
        /\ UNCHANGED <<feeVars, sideVars, ownerVars, mediatorBalance, supply, owed,
                       investedAmount, lock>>
    BY <1>2
  <2> QED BY <2>1, ArrivalIInv
<1> QED BY <1>1, <1>2

LEMMA TransferIInv == ASSUME IInv, NEW v \in Nat, Transfer(v) PROVE IInv'
<1>1. /\ balance' = balance + v /\ frames' = Arrives(frames, v)
      /\ UNCHANGED <<feeVars, sideVars, ownerVars, mediatorBalance, supply, owed,
                     investedAmount, lock>>
  BY DEF Transfer
<1> QED BY <1>1, ArrivalIInv DEF IInv

LEMMA HandleTokensIInv ==
    ASSUME IInv, NEW v \in Nat, HandleTokens(v)
    PROVE  IInv'
<1>1. PICK fee \in ReleaseFees(v) : ReleaseTokens(v, fee)
  BY DEF HandleTokens
<1>2. fee \in Int
  BY FeeIsInt DEF ReleaseFees, IInv, Directions
<1>3. /\ ~BridgeIsBusy /\ lock # TRUE
      /\ frames' = Append(frames, ReleaseFrame(IF isHome /\ isNative THEN v ELSE 0))
      /\ UNCHANGED <<lock, feeVars, sideVars, ownerVars>>
  BY DEF HandleTokens, MayWithdraw
<1> QED BY <1>1, <1>2, <1>3, ReleasedIInv

LEMMA FixFailedMessageIInv ==
    ASSUME FixCashes \subseteq {0}, IInv, NEW v \in Nat, FixFailedMessage(v)
    PROVE  IInv'
<1>1. lock = TRUE => minCash = 0
  BY DEF FixFailedMessage
<1>2. /\ ~BridgeIsBusy /\ ReleaseTokens(v, 0)
      /\ frames' = Append(frames, ReleaseFrame(IF isHome /\ isNative THEN v ELSE 0))
      /\ UNCHANGED <<lock, feeVars, sideVars, ownerVars>>
  BY DEF FixFailedMessage
<1>3. 0 \in Int
  OBVIOUS
<1> QED BY <1>1, <1>2, <1>3, ReleasedIInv

LEMMA ReleaseReturnsIInv == ASSUME IInv, ReleaseReturns PROVE IInv'
<1> USE DEF IInv, feeVars, sideVars, ownerVars
<1> DEFINE f == Last(frames)
<1>1. /\ frames # <<>> /\ f.op = "release" /\ frames' = Front(frames)
      /\ mediatorBalance >= f.due /\ mediatorBalance' = mediatorBalance - f.due
      /\ UNCHANGED <<feeVars, sideVars, ownerVars, balance, supply, owed, investedAmount, lock>>
  BY DEF ReleaseReturns, Innermost, InCall
<1>2. /\ f \in Frames
      /\ \E i \in DOMAIN frames : frames[i] = f
      /\ Calls(frames')
      /\ \A op : HasOp(frames', op) <=> HasOp(frames, op) /\ op # "release"
      /\ \A i \in DOMAIN frames' : i \in DOMAIN frames /\ frames'[i] = frames[i]
  BY <1>1, Popped
<1>3. f.due \in Int
  BY <1>1, <1>2 DEF Frames, ReleaseFrames, RelayFrames
<1>4. /\ isNative => mediatorBalance = owed + f.due
      /\ ~isHome \/ ~isNative => f.due = 0
  BY <1>1, <1>2 DEF Releases, Release
<1> HIDE DEF f
<1>5. Numbers'
  BY <1>1, <1>3 DEF Numbers
<1>6. LockIsHeld'
  BY <1>1, <1>2 DEF LockIsHeld
<1>7. Lending'
  BY <1>1, <1>3, <1>4 DEF Lending, Numbers
<1>8. Books'
  BY <1>1, <1>3, <1>4 DEF Books, Numbers
<1>9. Releases'
  BY <1>2 DEF Releases, Release, HasOp
<1>10. Relays'
  BY <1>1, <1>2 DEF Relays, Relay
<1> QED BY <1>2, <1>5, <1>6, <1>7, <1>8, <1>9, <1>10

LEMMA InvestIInv == ASSUME IInv, Invest PROVE IInv'
<1> USE DEF IInv, feeVars, sideVars, ownerVars
<1>1. /\ interest /\ Investable \in Int /\ Investable > 0
      /\ balance' = balance - Investable
      /\ investedAmount' = investedAmount + Investable
      /\ Investable <= mediatorBalance - investedAmount
      /\ UNCHANGED <<feeVars, sideVars, ownerVars, mediatorBalance, supply, owed, lock, frames>>
  BY DEF Invest, Investable, Numbers
<1>2. Numbers' /\ Calls(frames') /\ LockIsHeld'
  BY <1>1 DEF Numbers, LockIsHeld
<1>3. Lending'
  BY <1>1 DEF Lending, Numbers
<1>4. Books'
  BY <1>1 DEF Books, Numbers, BridgeIsBusy
<1>5. Releases'
  BY <1>1 DEF Releases, Release
<1>6. Relays'
  <2> SUFFICES ASSUME NEW i \in DOMAIN frames, Relay(i)
               PROVE  /\ isNative => frames[i].before + investedAmount' >= owed
                      /\ balance' - frames[i].before <= frames[i].arrived
    BY <1>1 DEF Relays, Relay
  <2>1. frames[i].before \in Int /\ frames[i].arrived \in Int
    BY ElementOfSeq DEF Calls, Relay, Frames, ReleaseFrames, RelayFrames
  <2> QED BY <1>1, <2>1 DEF Relays, Numbers
<1> QED BY <1>2, <1>3, <1>4, <1>5, <1>6

(* What leaves the balances and the calls alone.                            *)
LEMMA UntouchedIInv ==
    ASSUME IInv, UNCHANGED <<sideVars, balanceVars, interest, lock, frames>>,
           minCash' \in Nat, fees' \in [Directions -> [FeeKinds -> Int]]
    PROVE  IInv'
<1> USE DEF IInv, sideVars, balanceVars
<1>1. Numbers' /\ Calls(frames') /\ LockIsHeld' /\ Lending'
  BY DEF Numbers, LockIsHeld, Lending
<1>2. Books' /\ Releases' /\ Relays'
  BY DEF Books, BridgeIsBusy, Releases, Release, Relays, Relay
<1> QED BY <1>1, <1>2

LEMMA OutsideBooks ==
    ASSUME IInv, ~InCall
    PROVE  /\ isNative => mediatorBalance = owed
           /\ ~isNative => supply = owed
  BY DEF IInv, Books, InCall, BridgeIsBusy

(* Between transactions only the balances can change.                       *)
LEMMA OutsideIInv ==
    ASSUME IInv, ~InCall, Numbers', Lending',
           isNative => balance' + investedAmount' >= owed' /\ mediatorBalance' = owed',
           ~isNative => supply' = owed',
           UNCHANGED <<sideVars, lock, frames>>
    PROVE  IInv'
<1> USE DEF IInv, sideVars, InCall
<1>1. LockIsHeld' /\ Releases' /\ Relays'
  BY DEF LockIsHeld, Releases, Release, Relays, Relay
<1>2. Books'
  BY DEF Books
<1> QED BY <1>1, <1>2

LEMMA SetFeesIInv ==
    ASSUME IInv, SetFees
    PROVE  fees' \in [Directions -> [FeeKinds -> Int]]
<1>1. fees \in [Directions -> [FeeKinds -> Int]]
  BY DEF IInv, Numbers
<1>2. ASSUME NEW dir \in Directions, NEW kind \in FeeKinds, NEW rate \in FeeRates,
             SetFee(dir, kind, rate)
      PROVE  fees' \in [Directions -> [FeeKinds -> Int]]
  <2>1. 1 + rate \in Int
    BY RatesAreInt
  <2> QED BY <1>1, <1>2, <2>1 DEF SetFee
<1>3. ASSUME NEW a, AddRewardAddress(a) \/ RemoveRewardAddress(a)
      PROVE  fees' = fees
  BY <1>3 DEF AddRewardAddress, RemoveRewardAddress
<1> QED BY <1>1, <1>2, <1>3 DEF SetFees

LEMMA FixMediatorBalanceIInv ==
    ASSUME IInv, ~InCall, FixMediatorBalance, UNCHANGED <<sideVars, lock, frames>>
    PROVE  IInv'
<1>1. PICK diff \in 1..UnaccountedBalance :
         isNative /\ PrepareMessage(diff)
         /\ UNCHANGED <<feeVars, interest, minCash, balance, investedAmount>>
  BY DEF FixMediatorBalance
<1>2. /\ diff \in Nat /\ diff <= balance - (mediatorBalance - investedAmount)
      /\ mediatorBalance' = mediatorBalance + diff /\ owed' = owed + diff /\ supply' = supply
  BY <1>1 DEF PrepareMessage, UnaccountedBalance, IInv, Numbers
<1>3. mediatorBalance = owed
  BY <1>1, OutsideBooks
<1>4. Numbers'
  BY <1>1, <1>2 DEF IInv, Numbers, feeVars
<1>5. Lending'
  BY <1>1, <1>2 DEF IInv, Numbers, Lending, sideVars
<1>6. /\ isNative => balance' + investedAmount' >= owed' /\ mediatorBalance' = owed'
      /\ ~isNative => supply' = owed'
  BY <1>1, <1>2, <1>3 DEF IInv, Numbers
<1> QED BY <1>4, <1>5, <1>6, OutsideIInv

LEMMA DisableInterestIInv ==
    ASSUME IInv, ~InCall, DisableInterest, UNCHANGED <<sideVars, lock, frames>>
    PROVE  IInv'
<1>1. Redeemed(investedAmount) = investedAmount
  BY DEF Redeemed
<1>2. /\ interest /\ interest' = FALSE
      /\ balance' = balance + investedAmount /\ investedAmount' = investedAmount - investedAmount
      /\ UNCHANGED <<feeVars, minCash, mediatorBalance, supply, owed>>
  BY <1>1 DEF DisableInterest
<1>3. Numbers'
  BY <1>2 DEF IInv, Numbers, feeVars
<1>4. Lending'
  BY <1>2 DEF IInv, Numbers, Lending, sideVars
<1>5. /\ isNative => balance' + investedAmount' >= owed' /\ mediatorBalance' = owed'
      /\ ~isNative => supply' = owed'
  BY <1>2, OutsideBooks DEF IInv, Numbers, Books
<1> QED BY <1>3, <1>4, <1>5, OutsideIInv

LEMMA InitializeInterestIInv ==
    ASSUME IInv, ~InCall, NEW threshold \in MinCashes, InitializeInterest(threshold),
           UNCHANGED <<sideVars, lock, frames>>
    PROVE  IInv'
<1>1. /\ ~isHome /\ isNative /\ ~interest /\ minCash' \in Nat
      /\ UNCHANGED <<feeVars, balanceVars>>
  BY ValuesAreNat DEF InitializeInterest
<1>2. Numbers'
  BY <1>1 DEF IInv, Numbers, feeVars, balanceVars
<1>3. Lending'
  BY <1>1 DEF IInv, Numbers, Lending, sideVars, balanceVars
<1>4. /\ isNative => balance' + investedAmount' >= owed' /\ mediatorBalance' = owed'
      /\ ~isNative => supply' = owed'
  BY <1>1, OutsideBooks DEF IInv, Books, balanceVars
<1> QED BY <1>2, <1>3, <1>4, OutsideIInv

LEMMA OwnerActsIInv == ASSUME IInv, OwnerActs PROVE IInv'
<1> USE DEF IInv, feeVars
<1>1. ~InCall /\ UNCHANGED <<sideVars, lock, frames>>
  BY DEF OwnerActs
<1>2. minCash \in Nat /\ fees \in [Directions -> [FeeKinds -> Int]]
  BY DEF Numbers
<1>3. CASE SetLimit /\ UNCHANGED <<feeVars, balanceVars, interest, minCash>>
  BY <1>1, <1>2, <1>3, UntouchedIInv
<1>4. CASE SetFees /\ UNCHANGED <<limitVars, balanceVars, interest, minCash>>
  BY <1>1, <1>2, <1>4, SetFeesIInv, UntouchedIInv
<1>5. ASSUME NEW threshold \in MinCashes, InitializeInterest(threshold) PROVE IInv'
  BY <1>1, <1>5, InitializeInterestIInv
<1>6. ASSUME NEW threshold \in MinCashes, SetMinCashThreshold(threshold) PROVE IInv'
  BY <1>1, <1>2, <1>6, ValuesAreNat, UntouchedIInv DEF SetMinCashThreshold
<1>7. CASE DisableInterest
  BY <1>1, <1>7, DisableInterestIInv
<1>8. CASE FixMediatorBalance
  BY <1>1, <1>8, FixMediatorBalanceIInv
<1> QED BY <1>3, <1>4, <1>5, <1>6, <1>7, <1>8 DEF OwnerActs

LEMMA DayPassesIInv == ASSUME IInv, DayPasses PROVE IInv'
  BY UntouchedIInv DEF DayPasses, IInv, Numbers, feeVars, ownerVars

LEMMA NextIInv ==
    ASSUME FixCashes \subseteq {0}, IInv, [Next]_vars
    PROVE  IInv'
<1>1. ASSUME NEW from \in {User} \cup RewardAccounts, NEW v \in Values,
             RelayTokens(from, v) \/ OnTokenTransfer(from, v)
      PROVE  IInv'
  BY <1>1, ValuesAreNat, RelayTokensIInv, OnTokenTransferIInv DEF Accounts
<1>2. ASSUME NEW a \in Values \cup {0}, TransferFrom(a) PROVE IInv'
  BY <1>2, ValuesAreNat, TransferFromIInv
<1>3. CASE RelayReturns
  BY <1>3, RelayReturnsIInv
<1>4. CASE Transfer(1)
  BY <1>4, TransferIInv
<1>5. ASSUME NEW v \in Values, HandleTokens(v) \/ FixFailedMessage(v) PROVE IInv'
  BY <1>5, ValuesAreNat, HandleTokensIInv, FixFailedMessageIInv
<1>6. CASE ReleaseReturns
  BY <1>6, ReleaseReturnsIInv
<1>7. CASE Invest
  BY <1>7, InvestIInv
<1>8. CASE OwnerActs
  BY <1>8, OwnerActsIInv
<1>9. CASE DayPasses
  BY <1>9, DayPassesIInv
<1>10. CASE UNCHANGED vars
  BY <1>10, UntouchedIInv DEF vars, IInv, Numbers, feeVars, ownerVars
<1> QED BY <1>1, <1>2, <1>3, <1>4, <1>5, <1>6, <1>7, <1>8, <1>9, <1>10 DEF Next

-----------------------------------------------------------------------------
(* The invariant holds as long as no failed transfer is fixed under the     *)
(* lock while cash is kept (FixFailedMessage).                              *)
THEOREM BooksInvariant == ASSUME FixCashes \subseteq {0} PROVE Spec => []IInv
<1>1. Init => IInv
  BY InitIInv
<1>2. IInv /\ [Next]_vars => IInv'
  BY NextIInv
<1> QED BY <1>1, <1>2, PTL DEF Spec

(* Between transactions the books agree with what the other side may ask    *)
(* for, and the tokens are there, for every order of calls within calls     *)
(* (relayTokens, onTokenTransfer, executions, fixes, invest).               *)
THEOREM BooksAreBalanced == ASSUME FixCashes \subseteq {0} PROVE Spec => []BooksBalance
<1>1. IInv => BooksBalance
  <2> SUFFICES ASSUME IInv, ~InCall PROVE
          /\ isNative => /\ mediatorBalance = owed
                         /\ balance + investedAmount >= mediatorBalance
                         /\ interest => investedAmount <= mediatorBalance
          /\ ~isNative => supply = owed
    BY DEF BooksBalance
  <2>1. ~BridgeIsBusy
    BY DEF BridgeIsBusy, InCall
  <2> QED BY <2>1 DEF IInv, Books, Lending
<1> QED BY <1>1, BooksInvariant, PTL

(* What relayTokens measures is not more than what others sent meanwhile.   *)
THEOREM RelaysCountArrivals ==
    ASSUME FixCashes \subseteq {0} PROVE Spec => []RelayCountsArrivals
<1>1. IInv => RelayCountsArrivals
  BY DEF IInv, Relays, Relay, RelayCountsArrivals
<1> QED BY <1>1, BooksInvariant, PTL

(* Every amount up to what is locked can be released, lent out or not       *)
(* (_releaseTokens of the foreign mediator).                                *)
THEOREM LockedIsAlwaysPayable ==
    ASSUME FixCashes \subseteq {0} PROVE Spec => []LockedIsPayable
<1>1. IInv => LockedIsPayable
  <2> SUFFICES ASSUME IInv, ~InCall, ~isHome, isNative, NEW v \in 1..mediatorBalance
               PROVE  v <= balance + Withdrawn(v)
    BY DEF LockedIsPayable
  <2>1. balance + investedAmount >= mediatorBalance
    BY DEF IInv, Books, BridgeIsBusy, InCall
  <2>2. v \in Int /\ v <= mediatorBalance
    BY DEF IInv, Numbers
  <2> QED BY <2>1, <2>2 DEF IInv, Numbers, Lending, Withdrawn, Redeemed
<1> QED BY <1>1, BooksInvariant, PTL

-----------------------------------------------------------------------------
(* The fees.  What is paid out needs numbers and a list of accounts only,   *)
(* whatever is fixed under the lock.                                        *)

Types ==
    /\ Numbers /\ Calls(frames) /\ LockIsHeld
    /\ rewardAddresses \in Seq(RewardAccounts)

LEMMA AllIsPaidOut ==
    ASSUME rewardAddresses \in Seq(RewardAccounts), NEW lucky \in DOMAIN rewardAddresses,
           NEW total \in Int
    PROVE  PaidOut(Payments(total, lucky)) = total
<1> DEFINE n == Len(rewardAddresses)
           q == total \div n
           r == total % n
           even == [i \in 1..n |-> q]
           paid == Payments(total, lucky)
<1>1. n \in Nat \ {0} /\ lucky \in 1..n
  BY LenProperties
<1> HIDE DEF n
<1>2. q \in Int /\ r \in Int /\ total = n * q + r
  <2>1. ASSUME NEW k \in Nat \ {0}
        PROVE  total % k = total - k * (total \div k)
    OBVIOUS
  <2>2. q \in Int /\ r = total - n * q
    BY <1>1, <2>1
  <2>3. n * q \in Int
    BY <1>1, <2>2
  <2> HIDE DEF q, r
  <2> QED BY <2>2, <2>3
<1>3. paid = [i \in 1..n |-> q + (IF i = lucky THEN r ELSE 0)]
  BY DEF Payments, n
<1> HIDE DEF q, r, paid
<1>4. Len(paid) = n
  <2>1. paid \in [1..n -> Int]
    BY <1>2, <1>3
  <2> QED BY <1>1, <2>1
<1>5. SumOf(even, n) = n * q
  BY <1>1, <1>2, SumOfConstant
<1>6. SumOf(paid, n) = SumOf(even, n) - even[lucky] + paid[lucky]
  <2>1. \A i \in 1..n : even[i] \in Int /\ paid[i] \in Int
    BY <1>2, <1>3
  <2>2. \A i \in 1..n : i # lucky => paid[i] = even[i]
    BY <1>2, <1>3
  <2> HIDE DEF even
  <2> QED BY <1>1, <2>1, <2>2, SumOfChange
<1>7. even[lucky] = q /\ paid[lucky] = q + r
  BY <1>1, <1>3
<1>8. n * q \in Int
  BY <1>1, <1>2
<1> HIDE DEF even
<1> QED BY <1>2, <1>4, <1>5, <1>6, <1>7, <1>8 DEF PaidOut, paid

LEMMA FeeIsPassedOn ==
    ASSUME rewardAddresses \in Seq(RewardAccounts), feesHeld = 0, NEW fee \in Int,
           DistributeFee(fee)
    PROVE  feesHeld' = 0
<1>1. CASE fee = 0
  BY <1>1 DEF DistributeFee
<1>2. CASE fee # 0
  <2>1. PICK lucky \in DOMAIN rewardAddresses :
           feesHeld' = feesHeld + fee - PaidOut(Payments(feesHeld + fee, lucky))
    BY <1>2 DEF DistributeFee
  <2>2. feesHeld + fee \in Int
    OBVIOUS
  <2> QED BY <2>1, <2>2, AllIsPaidOut
<1> QED BY <1>1, <1>2

LEMMA InitTypes == Init => Types
<1>1. Init => rewardAddresses \in Seq(RewardAccounts)
  BY FeeAssumption DEF Init, InitFees
<1> QED BY <1>1, InitIInv DEF IInv, Types

(* A call begins, or the innermost one ends.                                *)
LEMMA CallsBegin ==
    ASSUME Types, NEW x \in Frames, ~HasOp(frames, x.op), frames' = Append(frames, x),
           lock' = IF x.op = "relay" THEN TRUE ELSE lock
    PROVE  Calls(frames)' /\ LockIsHeld'
<1>1. Calls(frames') /\ \A op : HasOp(frames', op) <=> HasOp(frames, op) \/ op = x.op
  BY Pushed DEF Types
<1> QED BY <1>1 DEF Types, LockIsHeld

LEMMA CallsEnd ==
    ASSUME Types, frames # <<>>, frames' = Front(frames),
           lock' = IF Last(frames).op = "relay" THEN FALSE ELSE lock
    PROVE  /\ Calls(frames)' /\ LockIsHeld'
           /\ Last(frames) \in Frames
<1>1. /\ Calls(frames') /\ Last(frames) \in Frames
      /\ \A op : HasOp(frames', op) <=> HasOp(frames, op) /\ op # Last(frames).op
  BY Popped DEF Types
<1> QED BY <1>1 DEF Types, LockIsHeld

LEMMA ArrivalTypes ==
    ASSUME Types, NEW x \in Nat, NEW f, Calls(f), \A op : HasOp(f, op) <=> HasOp(frames, op),
           balance' = balance + x, frames' = Arrives(f, x),
           UNCHANGED <<feeVars, ownerVars, mediatorBalance, supply, owed, investedAmount, lock>>
    PROVE  Types'
<1>1. Calls(frames') /\ \A op : HasOp(frames', op) <=> HasOp(frames, op)
  BY Arrived
<1>2. Numbers'
  BY DEF Types, Numbers, feeVars, ownerVars
<1> QED BY <1>1, <1>2 DEF Types, LockIsHeld, feeVars

LEMMA BridgedTypes ==
    ASSUME Types, NEW from, NEW d \in Int, NEW b \in Int, BridgeTokens(from, d, b),
           UNCHANGED <<feeVars, ownerVars>>
    PROVE  Numbers' /\ (feesHeld = 0 => feesHeld' = 0)
<1> DEFINE fee == RelayFee(from, d)
           value == d - fee
<1>1. fee \in Int /\ value \in Int
  <2>1. CalculateFee("HOME_TO_FOREIGN_FEE", d) \in Int
    BY FeeIsInt DEF Directions, Types
  <2> QED BY <2>1 DEF RelayFee
<1>2. /\ isNative => /\ mediatorBalance' = mediatorBalance + value
                     /\ owed' = owed + value /\ supply' = supply
                     /\ balance' = b - fee
      /\ ~isNative => /\ supply' = supply - value
                      /\ owed' = owed - value /\ mediatorBalance' = mediatorBalance
                      /\ balance' = b - fee - value
      /\ investedAmount' = investedAmount
      /\ DistributeFee(fee)
  BY DEF BridgeTokens, PrepareMessage
<1> HIDE DEF fee, value
<1>3. Numbers'
  BY <1>1, <1>2 DEF Types, Numbers, feeVars, ownerVars
<1> QED BY <1>1, <1>2, <1>3, FeeIsPassedOn DEF Types

LEMMA ReleasedTypes ==
    ASSUME Types, NEW v \in Nat, NEW fee \in Int, ~BridgeIsBusy, ReleaseTokens(v, fee),
           frames' = Append(frames, ReleaseFrame(IF isHome /\ isNative THEN v ELSE 0)),
           UNCHANGED <<lock, feeVars, ownerVars>>
    PROVE  Types' /\ (feesHeld = 0 => feesHeld' = 0)
<1> DEFINE w == IF isHome THEN 0 ELSE Withdrawn(v)
           new == ReleaseFrame(IF isHome /\ isNative THEN v ELSE 0)
<1>1. w \in Int
  BY DEF Withdrawn, Redeemed, Types, Numbers
<1>2. /\ isNative => /\ balance' = balance + w - v /\ owed' = owed - v /\ supply' = supply
                     /\ mediatorBalance' \in {mediatorBalance, mediatorBalance - v}
      /\ ~isNative => /\ balance' = balance /\ owed' = owed + v
                      /\ supply' = supply + v /\ mediatorBalance' = mediatorBalance
      /\ investedAmount' = investedAmount - w
      /\ DistributeFee(fee)
  BY <1>1 DEF ReleaseTokens, Types, Numbers
<1>3. new \in Frames /\ new.op = "release"
  BY DEF ReleaseFrame, Frames, ReleaseFrames
<1> HIDE DEF w, new
<1>4. Numbers'
  BY <1>1, <1>2 DEF Types, Numbers, feeVars, ownerVars
<1>5. Calls(frames)' /\ LockIsHeld'
  BY <1>3, BusyIsRelease, CallsBegin DEF new
<1> QED BY <1>2, <1>4, <1>5, FeeIsPassedOn DEF Types, feeVars

LEMMA SameTypes ==
    ASSUME Types, UNCHANGED <<lock, frames, feesHeld, rewardAddresses>>,
           Numbers'
    PROVE  Types' /\ feesHeld' = feesHeld
  BY DEF Types, LockIsHeld

LEMMA OwnerTypes ==
    ASSUME Types, OwnerActs
    PROVE  Types' /\ feesHeld' = feesHeld
<1> USE DEF feeVars, balanceVars
<1>1. UNCHANGED <<sideVars, lock, frames>>
  BY DEF OwnerActs
<1>2. Numbers /\ rewardAddresses \in Seq(RewardAccounts)
  BY DEF Types
<1>3. CASE SetLimit /\ UNCHANGED <<feeVars, balanceVars, interest, minCash>>
  BY <1>1, <1>2, <1>3, SameTypes DEF Numbers
<1>4. CASE SetFees /\ UNCHANGED <<limitVars, balanceVars, interest, minCash>>
  <2>1. ASSUME NEW dir \in Directions, NEW kind \in FeeKinds, NEW rate \in FeeRates,
               SetFee(dir, kind, rate)
        PROVE  Types'
    <3>1. 1 + rate \in Int
      BY RatesAreInt
    <3>2. fees' \in [Directions -> [FeeKinds -> Int]]
      BY <1>2, <2>1, <3>1 DEF SetFee, Numbers
    <3> QED BY <1>1, <1>2, <1>4, <2>1, <3>2 DEF SetFee, Numbers, Types, LockIsHeld
  <2>2. ASSUME NEW a \in RewardAccounts, AddRewardAddress(a)
        PROVE  Types'
    <3>1. rewardAddresses' \in Seq(RewardAccounts) /\ fees' = fees
      BY <1>2, <2>2, AppendProperties DEF AddRewardAddress
    <3> QED BY <1>1, <1>2, <1>4, <3>1 DEF Numbers, Types, LockIsHeld
  <2>3. ASSUME NEW a \in RewardAccounts, RemoveRewardAddress(a)
        PROVE  Types'
    <3> DEFINE n == Len(rewardAddresses)
               k == CHOOSE j \in DOMAIN rewardAddresses : rewardAddresses[j] = a
               moved == [rewardAddresses EXCEPT ![k] = Last(rewardAddresses)]
    <3>1. \E j \in DOMAIN rewardAddresses : rewardAddresses[j] = a
      BY <2>3 DEF RemoveRewardAddress, IsRewardAddress, Contains
    <3>2. k \in 1..n /\ n \in Nat \ {0} /\ Last(rewardAddresses) \in RewardAccounts
      BY <1>2, <3>1, LenProperties, ElementOfSeq DEF Last
    <3>3. rewardAddresses' = Front(moved) /\ fees' = fees
      BY <2>3 DEF RemoveRewardAddress
    <3> HIDE DEF k
    <3>4. moved \in Seq(RewardAccounts) /\ Len(moved) = n
      BY <1>2, <3>2, ExceptSeq
    <3> HIDE DEF moved, n
    <3>5. \A i \in 1..(n - 1) : moved[i] \in RewardAccounts
      BY <3>2, <3>4, ElementOfSeq
    <3>6. Front(moved) \in Seq(RewardAccounts)
      BY <3>2, <3>4, <3>5 DEF Front
    <3> QED BY <1>1, <1>2, <1>4, <3>3, <3>6 DEF Numbers, Types, LockIsHeld
  <2> QED BY <1>4, <2>1, <2>2, <2>3 DEF SetFees
<1>5. ASSUME NEW threshold \in MinCashes,
             InitializeInterest(threshold) \/ SetMinCashThreshold(threshold)
      PROVE  Types' /\ feesHeld' = feesHeld
  BY <1>1, <1>2, <1>5, ValuesAreNat, SameTypes DEF InitializeInterest, SetMinCashThreshold, Numbers
<1>6. CASE DisableInterest
  BY <1>1, <1>2, <1>6, SameTypes DEF DisableInterest, Redeemed, Numbers
<1>7. CASE FixMediatorBalance
  <2>1. PICK diff \in 1..UnaccountedBalance :
           isNative /\ PrepareMessage(diff)
           /\ UNCHANGED <<feeVars, interest, minCash, balance, investedAmount, feesHeld>>
    BY <1>7 DEF FixMediatorBalance
  <2>2. diff \in Int
    BY <1>2 DEF UnaccountedBalance, Numbers
  <2> QED BY <1>1, <1>2, <2>1, <2>2, SameTypes DEF PrepareMessage, Numbers
<1> QED BY <1>3, <1>4, <1>5, <1>6, <1>7 DEF OwnerActs

LEMMA NextTypes ==
    ASSUME Types, [Next]_vars
    PROVE  Types' /\ (feesHeld = 0 => feesHeld' = 0)
<1> USE DEF feeVars, ownerVars, balanceVars
<1>1. Numbers /\ Calls(frames) /\ LockIsHeld
  BY DEF Types
<1>2. ASSUME NEW from \in Accounts, NEW v \in Values, RelayTokens(from, v)
      PROVE  Types' /\ feesHeld' = feesHeld
  <2> DEFINE new == RelayFrame(from, v)
  <2>1. new \in Frames /\ new.op = "relay"
    BY <1>1, ValuesAreNat DEF RelayFrame, Frames, RelayFrames, Numbers
  <2>2. frames' = Append(frames, new) /\ lock' = TRUE /\ ~HasOp(frames, "relay")
    BY <1>1, <1>2 DEF RelayTokens, LockIsHeld
  <2> HIDE DEF new
  <2>3. Calls(frames)' /\ LockIsHeld'
    BY <2>1, <2>2, CallsBegin
  <2> QED BY <1>2, <2>3 DEF RelayTokens, Types, Numbers
<1>3. ASSUME NEW from, NEW v \in Values, OnTokenTransfer(from, v)
      PROVE  Types' /\ (feesHeld = 0 => feesHeld' = 0)
  <2>1. v \in Nat /\ balance + v \in Int
    BY <1>1, ValuesAreNat DEF Numbers
  <2>2. CASE CallbackIsRelay
    <3>1. /\ BridgeTokens(from, v, balance + v)
          /\ UNCHANGED <<frames, feeVars, ownerVars, lock>>
      BY <1>3, <2>2 DEF OnTokenTransfer
    <3>2. Numbers' /\ (feesHeld = 0 => feesHeld' = 0)
      BY <2>1, <3>1, BridgedTypes
    <3> QED BY <3>1, <3>2 DEF Types, LockIsHeld
  <2>3. CASE ~CallbackIsRelay
    <3>1. /\ balance' = balance + v /\ frames' = Arrives(frames, v)
          /\ UNCHANGED <<feeVars, ownerVars, mediatorBalance, supply, owed,
                         investedAmount, lock, feesHeld>>
      BY <1>3, <2>3 DEF OnTokenTransfer
    <3> QED BY <1>1, <2>1, <3>1, ArrivalTypes
  <2> QED BY <2>2, <2>3
<1>4. ASSUME NEW a \in Values \cup {0}, TransferFrom(a)
      PROVE  Types' /\ feesHeld' = feesHeld
  <2> DEFINE n == Len(frames)
             f == [frames EXCEPT ![n].moved = TRUE]
  <2>1. frames # <<>> /\ Last(frames).op = "relay" /\ a \in Nat
    BY <1>4, ValuesAreNat DEF TransferFrom, Innermost, InCall
  <2>2. n \in 1..Len(frames) /\ DOMAIN frames = 1..Len(frames) /\ frames[n] = Last(frames)
    BY <1>1, <2>1, LenProperties, EmptySeq DEF Calls, Last
  <2>3. f = [frames EXCEPT ![n] = [frames[n] EXCEPT !.moved = TRUE]] /\ frames' = Arrives(f, a)
    BY <1>4 DEF TransferFrom
  <2>4. frames[n] \in RelayFrames
    BY <1>1, <2>1, <2>2, ElementOfSeq DEF Calls, Frames, ReleaseFrames, RelayFrames
  <2> HIDE DEF f, n
  <2>5. [frames[n] EXCEPT !.moved = TRUE] \in RelayFrames
        /\ [frames[n] EXCEPT !.moved = TRUE].op = frames[n].op
    BY <2>4 DEF RelayFrames
  <2>6. f \in Seq(Frames) /\ DOMAIN f = DOMAIN frames
        /\ \A i \in DOMAIN frames : f[i].op = frames[i].op
    BY <1>1, <2>2, <2>3, <2>5, ExceptSeq DEF Calls, Frames
  <2>7. Calls(f) /\ \A op : HasOp(f, op) <=> HasOp(frames, op)
    BY <1>1, <2>6 DEF Calls, HasOp
  <2>8. /\ balance' = balance + a
        /\ UNCHANGED <<feeVars, ownerVars, mediatorBalance, supply, owed, investedAmount,
                       lock, feesHeld>>
    BY <1>4 DEF TransferFrom
  <2> QED BY <2>1, <2>3, <2>7, <2>8, ArrivalTypes
<1>5. CASE RelayReturns
  <2> DEFINE f == Last(frames)
  <2>1. frames # <<>> /\ f.op = "relay" /\ frames' = Front(frames) /\ lock' = FALSE
    BY <1>5 DEF RelayReturns, Innermost, InCall
  <2>2. Calls(frames)' /\ LockIsHeld' /\ f \in Frames
    BY <2>1, CallsEnd
  <2>3. f.before \in Int /\ balance \in Int
    BY <1>1, <2>1, <2>2 DEF Frames, ReleaseFrames, RelayFrames, Numbers
  <2>4. BridgeTokens(f.from, balance - f.before, balance) /\ UNCHANGED <<feeVars, ownerVars>>
    BY <1>5 DEF RelayReturns
  <2>5. balance - f.before \in Int
    BY <2>3
  <2> HIDE DEF f
  <2>6. Numbers' /\ (feesHeld = 0 => feesHeld' = 0)
    BY <2>3, <2>4, <2>5, BridgedTypes
  <2> QED BY <2>2, <2>4, <2>6 DEF Types
<1>6. CASE Transfer(1)
  BY <1>1, <1>6, ArrivalTypes DEF Transfer
<1>7. ASSUME NEW v \in Values, HandleTokens(v)
      PROVE  Types' /\ (feesHeld = 0 => feesHeld' = 0)
  <2>1. PICK fee \in ReleaseFees(v) : ReleaseTokens(v, fee)
    BY <1>7 DEF HandleTokens
  <2>2. v \in Nat /\ fee \in Int
    BY <1>1, ValuesAreNat, FeeIsInt DEF ReleaseFees, Directions
  <2> QED BY <1>7, <2>1, <2>2, ReleasedTypes DEF HandleTokens
<1>8. ASSUME NEW v \in Values, FixFailedMessage(v)
      PROVE  Types' /\ (feesHeld = 0 => feesHeld' = 0)
  <2>1. v \in Nat /\ 0 \in Int
    BY ValuesAreNat
  <2> QED BY <1>8, <2>1, ReleasedTypes DEF FixFailedMessage
<1>9. CASE ReleaseReturns
  <2>1. /\ frames # <<>> /\ Last(frames).op = "release" /\ frames' = Front(frames)
        /\ mediatorBalance' = mediatorBalance - Last(frames).due
        /\ UNCHANGED <<feeVars, ownerVars, balance, supply, owed, investedAmount, feesHeld, lock>>
    BY <1>9 DEF ReleaseReturns, Innermost, InCall
  <2>2. Calls(frames)' /\ LockIsHeld' /\ Last(frames) \in Frames
    BY <2>1, CallsEnd
  <2>3. Last(frames).due \in Int
    BY <2>1, <2>2 DEF Frames, ReleaseFrames, RelayFrames
  <2>4. Numbers'
    BY <1>1, <2>1, <2>3 DEF Numbers
  <2> QED BY <2>1, <2>2, <2>4 DEF Types
<1>10. CASE Invest
  BY <1>1, <1>10, SameTypes DEF Invest, Investable, Numbers
<1>11. CASE OwnerActs
  BY <1>11, OwnerTypes
<1>12. CASE DayPasses \/ UNCHANGED vars
  BY <1>1, <1>12, SameTypes DEF DayPasses, vars, Numbers
<1> QED BY <1>2, <1>3, <1>4, <1>5, <1>6, <1>7, <1>8, <1>9, <1>10, <1>11, <1>12
        DEF Next, Accounts

(* Nothing stays with the fee manager, for every fee, every list of         *)
(* accounts and every account that the block's hash draws: the shares and   *)
(* what the division leaves over are all of it (distributeFee).             *)
THEOREM FeesAreAlwaysPaidOut == Spec => []FeesArePaidOut
<1>1. Init => Types /\ FeesArePaidOut
  BY InitTypes DEF Init, FeesArePaidOut
<1>2. (Types /\ FeesArePaidOut) /\ [Next]_vars => (Types /\ FeesArePaidOut)'
  BY NextTypes DEF FeesArePaidOut
<1> QED BY <1>1, <1>2, PTL DEF Spec

-----------------------------------------------------------------------------
(* The limits.                                                              *)

LimitsInv ==
    /\ limits \in [Keys -> Limits]
    /\ LimitsOrdered

LEMMA PowersArePositive ==
    ASSUME NEW d \in Nat
    PROVE  /\ d >= FullDecimals => TenTo[d - FullDecimals] \in Nat \ {0}
           /\ d < FullDecimals => TenTo[FullDecimals - d] \in Nat \ {0}
<1>1. FullDecimals \in Nat
  BY LimitsAssumption
<1>2. d >= FullDecimals => d - FullDecimals \in Nat
  BY <1>1
<1>3. d < FullDecimals => FullDecimals - d \in Nat
  BY <1>1
<1> QED BY <1>2, <1>3, TenToEquation

LEMMA ScaledInLimits ==
    ASSUME NEW l \in Limits, NEW up \in Nat \ {0}, NEW down \in Nat \ {0}
    PROVE  Scaled(l, up, down) \in Limits
<1>1. ASSUME NEW x \in Nat PROVE (x * up) \div down \in Nat
  <2>1. x * up \in Nat
    OBVIOUS
  <2> DEFINE y == x * up
  <2> HIDE DEF y
  <2>2. y \in Nat => y \div down \in Nat
    OBVIOUS
  <2> QED BY <2>1, <2>2 DEF y
<1>2. /\ l.daily \in Nat /\ l.max \in Nat /\ l.min \in Nat /\ l.execDaily \in Nat
      /\ l.execMax \in Nat
  BY DEF Limits
<1> QED BY <1>1, <1>2 DEF Scaled, Limits

LEMMA RaisedInLimits == ASSUME NEW l \in Limits PROVE Raised(l) \in Limits
<1>1. [l EXCEPT !.min = 1] \in Limits
  BY DEF Limits
<1>2. [l EXCEPT !.min = 1, !.max = 100, !.execMax = 100] \in Limits
  BY DEF Limits
<1>3. [daily |-> 10000, max |-> 100, min |-> 1, execDaily |-> 10000, execMax |-> 100] \in Limits
  BY DEF Limits
<1>4. CASE l.max > 1
  BY <1>1, <1>4 DEF Raised
<1>5. CASE ~(l.max > 1) /\ l.daily > 100 /\ l.execDaily > 100
  BY <1>2, <1>5 DEF Raised
<1>6. CASE ~(l.max > 1) /\ ~(l.daily > 100 /\ l.execDaily > 100)
  BY <1>3, <1>6 DEF Raised
<1> QED BY <1>4, <1>5, <1>6

LEMMA TokenLimitsInLimits ==
    ASSUME NEW l \in Limits, NEW d \in Nat
    PROVE  TokenLimits(l, d) \in Limits
<1>1. FullDecimals \in Nat
  BY LimitsAssumption
<1>2. CASE d >= FullDecimals
  <2>1. TenTo[d - FullDecimals] \in Nat \ {0} /\ 1 \in Nat \ {0}
    BY <1>2, PowersArePositive
  <2>2. TokenLimits(l, d) = Scaled(l, TenTo[d - FullDecimals], 1)
    BY <1>2 DEF TokenLimits
  <2> QED BY <2>1, <2>2, ScaledInLimits
<1>3. CASE d < FullDecimals
  <2> DEFINE down == Scaled(l, 1, TenTo[FullDecimals - d])
  <2>1. down \in Limits
    BY <1>3, PowersArePositive, ScaledInLimits
  <2>2. TokenLimits(l, d) = IF down.min > 0 THEN down ELSE Raised(down)
    BY <1>1, <1>3 DEF TokenLimits
  <2> HIDE DEF down
  <2>3. Raised(down) \in Limits
    BY <2>1, RaisedInLimits
  <2> QED BY <2>1, <2>2, <2>3
<1> QED BY <1>1, <1>2, <1>3

LEMMA RegisterKeepsLimits ==
    ASSUME LimitsInv, NEW t \in Tokens, Register(t)
    PROVE  LimitsInv'
<1>1. t \in Keys /\ Default \in Keys /\ limits[t] \in Limits /\ limits[Default] \in Limits
  BY DEF LimitsInv, Keys
<1>2. LimitsOf(t) \in Limits
  <2>1. Decimals[t] \in Nat
    BY LimitsAssumption
  <2> QED BY <1>1, <2>1, TokenLimitsInLimits DEF LimitsOf
<1>3. Ordered(LimitsOf(t))
  BY <1>1 DEF Register, CanRegister, ValidLimits, LimitsOf, Ordered, LimitsInv, LimitsOrdered
<1> QED BY <1>1, <1>2, <1>3 DEF Register, LimitsInv, LimitsOrdered

LEMMA SetLimitKeepsLimits ==
    ASSUME LimitsInv, SetLimit
    PROVE  LimitsInv'
<1>1. PICK k \in Keys, x \in LimitValues :
         \/ SetDailyLimit(k, x) \/ SetMaxPerTx(k, x) \/ SetMinPerTx(k, x)
         \/ SetExecutionDailyLimit(k, x) \/ SetExecutionMaxPerTx(k, x)
  BY DEF SetLimit
<1>2. x \in Nat /\ limits[k] \in Limits /\ Ordered(limits[k])
  BY LimitsAssumption DEF LimitsInv, LimitsOrdered
<1>3. ASSUME NEW l \in Limits, Ordered(l), limits' = [limits EXCEPT ![k] = l]
      PROVE  LimitsInv'
  BY <1>3 DEF LimitsInv, LimitsOrdered
<1>4. CASE SetDailyLimit(k, x)
  <2> DEFINE l == [limits[k] EXCEPT !.daily = x]
  <2>1. l \in Limits
    BY <1>2 DEF Limits
  <2>2. Ordered(l)
    BY <1>2, <1>4 DEF SetDailyLimit, Limits, Ordered
  <2>3. limits' = [limits EXCEPT ![k] = l]
    BY <1>4, Zenon DEF SetDailyLimit
  <2> QED BY <1>3, <2>1, <2>2, <2>3
<1>5. CASE SetMaxPerTx(k, x)
  <2> DEFINE l == [limits[k] EXCEPT !.max = x]
  <2>1. l \in Limits
    BY <1>2 DEF Limits
  <2>2. Ordered(l)
    BY <1>2, <1>5 DEF SetMaxPerTx, Limits, Ordered
  <2>3. limits' = [limits EXCEPT ![k] = l]
    BY <1>5, Zenon DEF SetMaxPerTx
  <2> QED BY <1>3, <2>1, <2>2, <2>3
<1>6. CASE SetMinPerTx(k, x)
  <2> DEFINE l == [limits[k] EXCEPT !.min = x]
  <2>1. l \in Limits
    BY <1>2 DEF Limits
  <2>2. Ordered(l)
    BY <1>2, <1>6 DEF SetMinPerTx, Limits, Ordered
  <2>3. limits' = [limits EXCEPT ![k] = l]
    BY <1>6, Zenon DEF SetMinPerTx
  <2> QED BY <1>3, <2>1, <2>2, <2>3
<1>7. CASE SetExecutionDailyLimit(k, x)
  <2> DEFINE l == [limits[k] EXCEPT !.execDaily = x]
  <2>1. l \in Limits
    BY <1>2 DEF Limits
  <2>2. Ordered(l)
    BY <1>2, <1>7 DEF SetExecutionDailyLimit, Limits, Ordered
  <2>3. limits' = [limits EXCEPT ![k] = l]
    BY <1>7, Zenon DEF SetExecutionDailyLimit
  <2> QED BY <1>3, <2>1, <2>2, <2>3
<1>8. CASE SetExecutionMaxPerTx(k, x)
  <2> DEFINE l == [limits[k] EXCEPT !.execMax = x]
  <2>1. l \in Limits
    BY <1>2 DEF Limits
  <2>2. Ordered(l)
    BY <1>2, <1>8 DEF SetExecutionMaxPerTx, Limits, Ordered
  <2>3. limits' = [limits EXCEPT ![k] = l]
    BY <1>8, Zenon DEF SetExecutionMaxPerTx
  <2> QED BY <1>3, <2>1, <2>2, <2>3
<1> QED BY <1>1, <1>4, <1>5, <1>6, <1>7, <1>8

LEMMA StepsOfLimits ==
    ASSUME [Next]_vars
    PROVE  UNCHANGED limits \/ Register(Token) \/ SetLimit
<1>1. ASSUME NEW from, NEW v, RelayTokens(from, v) \/ OnTokenTransfer(from, v)
      PROVE  UNCHANGED limits \/ Register(Token)
  BY <1>1 DEF RelayTokens, OnTokenTransfer, BridgeTokens, limitVars
<1>2. ASSUME NEW a, TransferFrom(a) \/ Transfer(a) PROVE UNCHANGED limits
  BY <1>2 DEF TransferFrom, Transfer, limitVars
<1>3. RelayReturns => Register(Token)
  BY DEF RelayReturns, BridgeTokens
<1>4. ASSUME NEW v, HandleTokens(v) \/ FixFailedMessage(v)
      PROVE  UNCHANGED limits \/ Register(Token)
  BY <1>4 DEF HandleTokens, FixFailedMessage, limitVars
<1>5. ReleaseReturns \/ Invest \/ DayPasses \/ UNCHANGED vars => UNCHANGED limits
  BY DEF ReleaseReturns, Invest, DayPasses, NextDay, limitVars, vars
<1>6. OwnerActs => UNCHANGED limits \/ SetLimit
  BY DEF OwnerActs, InitializeInterest, SetMinCashThreshold, DisableInterest,
         FixMediatorBalance, limitVars
<1> QED BY <1>1, <1>2, <1>3, <1>4, <1>5, <1>6 DEF Next

(* The limits stay limits, and in order (the setters, _setLimits).          *)
THEOREM LimitsInvariant == Spec => []LimitsInv
<1>1. Init => LimitsInv
  <2> SUFFICES ASSUME Init PROVE LimitsInv
    OBVIOUS
  <2>1. PICK l \in InitialLimits :
           limits = [k \in Keys |-> IF k = Default THEN l ELSE NoLimits]
    BY DEF Init, InitLimits
  <2>2. l \in Limits /\ ValidLimits(l)
    BY LimitsAssumption
  <2>3. Ordered(l)
    BY <2>2 DEF ValidLimits, Ordered
  <2>4. NoLimits \in Limits /\ Ordered(NoLimits)
    BY DEF NoLimits, Limits, Ordered
  <2> QED BY <2>1, <2>2, <2>3, <2>4 DEF LimitsInv, LimitsOrdered
<1>2. LimitsInv /\ [Next]_vars => LimitsInv'
  <2> SUFFICES ASSUME LimitsInv, [Next]_vars PROVE LimitsInv'
    OBVIOUS
  <2>1. Token \in Tokens
    BY BooksAssumption
  <2>2. CASE UNCHANGED limits
    BY <2>2 DEF LimitsInv, LimitsOrdered
  <2>3. CASE Register(Token)
    BY <2>1, <2>3, RegisterKeepsLimits
  <2>4. CASE SetLimit
    BY <2>4, SetLimitKeepsLimits
  <2> QED BY <2>2, <2>3, <2>4, StepsOfLimits
<1> QED BY <1>1, <1>2, PTL DEF Spec

(* Whatever the owner sets, in whatever order, and whichever defaults a     *)
(* token gets its limits from: min < max < daily unless switched off, and   *)
(* the same of the limits of execution.                                     *)
THEOREM LimitsStayOrdered == Spec => []LimitsOrdered
<1>1. LimitsInv => LimitsOrdered
  BY DEF LimitsInv
<1> QED BY <1>1, LimitsInvariant, PTL

(* Rounding down keeps an amount and one twice as large apart, unless both  *)
(* become zero.                                                             *)
LEMMA RoundedDown ==
    ASSUME NEW a \in Nat, NEW b \in Nat, NEW p \in Nat \ {0}
    PROVE  /\ a <= b => a \div p <= b \div p
           /\ 2 * a <= b /\ a \div p >= 1 => a \div p < b \div p
<1> DEFINE q == a \div p
           r == b \div p
<1>1. /\ q \in Nat /\ r \in Nat
      /\ q * p <= a /\ a < q * p + p
      /\ r * p <= b /\ b < r * p + p
  OBVIOUS
<1> HIDE DEF q, r
<1>2. ASSUME a <= b PROVE q <= r
  <2>1. SUFFICES ASSUME r + 1 <= q PROVE FALSE
    BY <1>1
  <2>2. (r + 1) * p <= q * p
    BY <1>1, <2>1
  <2>3. r * p + p <= q * p
    BY <1>1, <2>2
  <2> QED BY <1>1, <1>2, <2>3
<1>3. ASSUME 2 * a <= b, q >= 1 PROVE q < r
  <2>1. SUFFICES ASSUME r <= q PROVE FALSE
    BY <1>1
  <2>2. r * p <= q * p /\ 1 * p <= q * p
    BY <1>1, <1>3, <2>1
  <2>3. q * p \in Nat /\ r * p \in Nat
    BY <1>1
  <2> QED BY <1>1, <1>3, <2>2, <2>3
<1> QED BY <1>2, <1>3 DEF q, r

LEMMA WideAreValid ==
    ASSUME NEW l \in Limits, Wide(l), NEW d \in Nat
    PROVE  ValidLimits(TokenLimits(l, d))
<1>1. /\ l.daily \in Nat /\ l.max \in Nat /\ l.min \in Nat /\ l.execDaily \in Nat
      /\ l.execMax \in Nat
      /\ 0 < l.min /\ 2 * l.min <= l.max /\ 2 * l.max <= l.daily
      /\ l.max <= l.execMax /\ 2 * l.execMax <= l.execDaily
      /\ FullDecimals \in Nat
  BY LimitsAssumption DEF Limits, Wide
<1>2. CASE d >= FullDecimals
  <2> DEFINE up == TenTo[d - FullDecimals]
             new == Scaled(l, up, 1)
  <2>1. TokenLimits(l, d) = new /\ up \in Nat \ {0}
    BY <1>2, PowersArePositive DEF TokenLimits
  <2> HIDE DEF up
  <2>2. ASSUME NEW x \in Nat PROVE x * up \in Nat /\ (x * up) \div 1 = x * up
    BY <2>1
  <2>3. ASSUME NEW x \in Nat, NEW y \in Nat, x < y PROVE x * up < y * up
    BY <2>1, <2>3
  <2>4. /\ new.daily = l.daily * up /\ new.max = l.max * up /\ new.min = l.min * up
        /\ new.execDaily = l.execDaily * up /\ new.execMax = l.execMax * up
    BY <1>1, <2>2 DEF Scaled
  <2>5. l.min < l.max /\ l.max < l.daily /\ l.execMax < l.execDaily
    BY <1>1
  <2>6. 0 * up < l.min * up
    BY <1>1, <2>3
  <2>7. 0 * up = 0
    BY <2>1
  <2> HIDE DEF new
  <2> QED BY <1>1, <2>1, <2>3, <2>4, <2>5, <2>6, <2>7 DEF ValidLimits
<1>3. CASE d < FullDecimals
  <2> DEFINE p == TenTo[FullDecimals - d]
             new == Scaled(l, 1, p)
  <2>1. /\ TokenLimits(l, d) = IF new.min > 0 THEN new ELSE Raised(new)
        /\ p \in Nat \ {0}
    BY <1>1, <1>3, PowersArePositive DEF TokenLimits
  <2> HIDE DEF p
  <2>2. /\ new.daily = l.daily \div p /\ new.max = l.max \div p /\ new.min = l.min \div p
        /\ new.execDaily = l.execDaily \div p /\ new.execMax = l.execMax \div p
        /\ new \in Limits
    <3>1. \A x \in Nat : x * 1 = x
      OBVIOUS
    <3>2. new \in Limits
      BY <2>1, ScaledInLimits
    <3> QED BY <1>1, <3>1, <3>2 DEF Scaled
  <2> HIDE DEF new
  <2>3. /\ new.daily \in Nat /\ new.max \in Nat /\ new.min \in Nat
        /\ new.execDaily \in Nat /\ new.execMax \in Nat
    BY <2>2 DEF Limits
  <2>4. /\ new.min >= 1 => new.min < new.max
        /\ new.max >= 1 => new.max < new.daily
        /\ new.max <= new.execMax
        /\ new.execMax >= 1 => new.execMax < new.execDaily
    BY <1>1, <2>1, <2>2, RoundedDown
  <2>5. CASE new.min > 0
    BY <2>1, <2>3, <2>4, <2>5 DEF ValidLimits
  <2>6. CASE ~(new.min > 0) /\ new.max > 1
    <3>1. TokenLimits(l, d) = [new EXCEPT !.min = 1]
      BY <2>1, <2>6 DEF Raised
    <3> QED BY <2>2, <2>3, <2>4, <2>6, <3>1 DEF ValidLimits, Limits
  <2>7. CASE ~(new.min > 0) /\ ~(new.max > 1) /\ new.daily > 100 /\ new.execDaily > 100
    <3>1. TokenLimits(l, d) = [new EXCEPT !.min = 1, !.max = 100, !.execMax = 100]
      BY <2>1, <2>7 DEF Raised
    <3> QED BY <2>2, <2>3, <2>7, <3>1 DEF ValidLimits, Limits
  <2>8. CASE ~(new.min > 0) /\ ~(new.max > 1) /\ ~(new.daily > 100 /\ new.execDaily > 100)
    BY <2>1, <2>8 DEF Raised, ValidLimits
  <2> QED BY <2>5, <2>6, <2>7, <2>8
<1> QED BY <1>1, <1>2, <1>3

(* Defaults of which each is at least twice the next smaller one give every *)
(* token valid limits, whatever its decimals are and whatever the owner has *)
(* set before (_initializeTokenBridgeLimits): rounded down they stay apart  *)
(* or are raised.                                                           *)
THEOREM WideDefaultsReachAllTokens == Spec => []NewTokensGetLimits
<1>1. LimitsInv => NewTokensGetLimits
  <2> SUFFICES ASSUME LimitsInv, Wide(limits[Default]), NEW d \in 0..(FullDecimals + 1)
               PROVE  ValidLimits(TokenLimits(limits[Default], d))
    BY DEF NewTokensGetLimits
  <2>1. d \in Nat
    BY LimitsAssumption
  <2>2. limits[Default] \in Limits
    BY DEF LimitsInv, Keys
  <2> QED BY <2>1, <2>2, WideAreValid
<1> QED BY <1>1, LimitsInvariant, PTL
=============================================================================
