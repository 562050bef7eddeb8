------------------------- MODULE LiveTradingProofs --------------------------
(***************************************************************************)
(* Theorems about LiveTrading for every value of its constants, failures   *)
(* and bounds included.                                                    *)
(***************************************************************************)
EXTENDS LiveTrading, TradingLemmas

-----------------------------------------------------------------------------
(* Bags. *)

\* One more of an element, or one less, in a bag of elements of S.
LEMMA BagType ==
    ASSUME NEW B, IsABag(B), NEW S, BagToSet(B) \subseteq S, NEW x
    PROVE  /\ x \in S => IsABag(Ext!BagAdd(B, x)) /\ BagToSet(Ext!BagAdd(B, x)) \subseteq S
           /\ IsABag(Ext!BagRemove(B, x)) /\ BagToSet(Ext!BagRemove(B, x)) \subseteq S
  BY DEF IsABag, BagToSet, Ext!BagAdd, Ext!BagRemove

\* What is in the bag afterwards.
LEMMA BagHas ==
    ASSUME NEW B, NEW x
    PROVE  /\ BagToSet(Ext!BagAdd(B, x)) = BagToSet(B) \cup {x}
           /\ BagToSet(Ext!BagRemove(B, x)) \subseteq BagToSet(B)
           /\ BagToSet(B) \ {x} \subseteq BagToSet(Ext!BagRemove(B, x))
  BY DEF BagToSet, Ext!BagAdd, Ext!BagRemove

LEMMA NoBag == IsABag(EmptyBag) /\ BagToSet(EmptyBag) = {}
  BY DEF EmptyBag, SetToBag, IsABag, BagToSet

-----------------------------------------------------------------------------
(* Type correctness. *)

LEMMA OnTicksType ==
    ASSUME TypeOK, NEW price \in Closes
    PROVE  price \in Nat \ {0} /\ OnTicks(price) \subseteq Tick
<1>1. strategy \in StrategyIds /\ price \in Nat \ {0}
  BY LiveAssumption DEF TypeOK
<1>2. price \in Int /\ positionQty \in Int /\ tick.mem \in Memory
  BY <1>1 DEF TypeOK, Tick
<1> QED
  BY <1>1, <1>2, OnTickType DEF OnTicks

LEMMA QtyOfType ==
    ASSUME NEW d \in Decision, NEW price \in Nat \ {0}
    PROVE  QtyOf(d, price) \in Nat
<1>1. TradeNotional \in Nat
  BY LiveAssumption
<1>2. TradeNotional \div price \in Nat
  BY <1>1
<1> QED
  BY <1>2 DEF QtyOf, Decision

LEMMA PlaceType ==
    ASSUME NEW type, NEW side \in Sides, NEW qty \in Nat, NEW price \in Int
    PROVE  /\ type \in Types => Place(type, side, qty, price) \in OpenOrder
           /\ type \in Types \cup {"MARKET"} => Place(type, side, qty, price) \in Request
  BY DEF Place, OpenOrder, Request

LEMMA CancelType == CancelAll \in Request
  BY DEF CancelAll, Request

\* Requests that leave the position alone and add protection.
Protection(rs) == \A i \in DOMAIN rs : rs[i].type \in {"STOP_MARKET", "TAKE_PROFIT_MARKET"}

\* They contain the stop of a position that this side reduces.
StopComes(rs, side) == \E i \in DOMAIN rs : rs[i].type = "STOP_MARKET" /\ rs[i].side = side

\* What one element and two sequences make.
LEMMA OneAndTwo ==
    ASSUME NEW S, NEW e \in S, NEW a \in Seq(S), NEW b \in Seq(S), NEW rs, rs = <<e>> \o a \o b
    PROVE  /\ rs \in Seq(S) /\ rs # << >> /\ rs[1] = e /\ Tail(rs) = a \o b
           /\ \A i \in DOMAIN Tail(rs) : \/ \E j \in DOMAIN a : Tail(rs)[i] = a[j]
                                         \/ \E j \in DOMAIN b : Tail(rs)[i] = b[j]
           /\ \A i \in DOMAIN a : i \in DOMAIN Tail(rs) /\ Tail(rs)[i] = a[i]
<1>1. rs \in Seq(S) /\ rs # << >> /\ rs[1] = e /\ Tail(rs) = a \o b
  OBVIOUS
<1>2. \A i \in DOMAIN (a \o b) : \/ \E j \in DOMAIN a : (a \o b)[i] = a[j]
                                 \/ \E j \in DOMAIN b : (a \o b)[i] = b[j]
  OBVIOUS
<1>3. \A i \in DOMAIN a : i \in DOMAIN (a \o b) /\ (a \o b)[i] = a[i]
  OBVIOUS
<1> QED
  BY ZenonT(20), <1>1, <1>2, <1>3

\* The batch of an entry is a sequence of requests: the market order first, then nothing
\* but protection, the stop among it when there is one.
LEMMA EntryShape ==
    ASSUME NEW d \in Decision, NEW price \in Nat \ {0}
    PROVE  LET rs == EntryRequests(d, price)
           IN  /\ rs \in Seq(Request)
               /\ rs # << >> /\ rs[1] = Place("MARKET", d.side, QtyOf(d, price), 0)
               /\ Protection(Tail(rs))
               /\ d.sl > 0 => StopComes(Tail(rs), Opposite(d.side))
<1> DEFINE rs == EntryRequests(d, price)
           q == QtyOf(d, price)
           side == Opposite(d.side)
           entry == Place("MARKET", d.side, q, 0)
           stop == Place("STOP_MARKET", side, q, d.sl)
           target == Place("TAKE_PROFIT_MARKET", side, q, d.tp)
           a == IF d.sl > 0 THEN <<stop>> ELSE << >>
           b == IF d.tp > 0 THEN <<target>> ELSE << >>
<1>1. /\ stop.type = "STOP_MARKET" /\ stop.side = side
      /\ target.type = "TAKE_PROFIT_MARKET"
  BY DEF Place
<1>2. rs = <<entry>> \o a \o b
  BY DEF EntryRequests
<1>3. entry \in Request /\ stop \in Request /\ target \in Request
  <2>1. q \in Nat /\ d.side \in Sides /\ side \in Sides /\ d.sl \in Int /\ d.tp \in Int
    BY QtyOfType DEF Decision, Opposite, Sides
  <2> HIDE DEF q, side
  <2> QED
    BY <2>1 DEF Place, Request, OpenOrder, Types
<1> HIDE DEF rs, entry, stop, target, side
<1>4. /\ a \in Seq(Request) /\ b \in Seq(Request)
      /\ \A j \in DOMAIN a : a[j] = stop
      /\ \A j \in DOMAIN b : b[j] = target
      /\ d.sl > 0 => 1 \in DOMAIN a
  <2>1. /\ <<stop>> \in Seq(Request) /\ DOMAIN <<stop>> = {1} /\ <<stop>>[1] = stop
        /\ <<target>> \in Seq(Request) /\ DOMAIN <<target>> = {1} /\ <<target>>[1] = target
        /\ << >> \in Seq(Request) /\ DOMAIN << >> = {}
    BY <1>3
  <2>2. a \in {<<stop>>, << >>} /\ (d.sl > 0 => a = <<stop>>) /\ b \in {<<target>>, << >>}
    OBVIOUS
  <2> HIDE DEF a, b
  <2> QED
    BY <2>1, <2>2
<1> HIDE DEF a, b
<1>5. /\ rs \in Seq(Request) /\ rs # << >> /\ rs[1] = entry
      /\ \A i \in DOMAIN Tail(rs) : Tail(rs)[i] \in {stop, target}
      /\ \A i \in DOMAIN a : i \in DOMAIN Tail(rs) /\ Tail(rs)[i] = stop
  BY <1>2, <1>3, <1>4, OneAndTwo, SMTT(30)
<1>6. Protection(Tail(rs)) /\ (d.sl > 0 => StopComes(Tail(rs), side))
  BY <1>1, <1>4, <1>5 DEF Protection, StopComes
<1> QED
  BY <1>5, <1>6 DEF rs, entry, side

\* So are the other two kinds of batches.
LEMMA QuotesType ==
    ASSUME NEW orders \in Seq(Decision), NEW price \in Nat \ {0}
    PROVE  Quotes(orders, price) \in Seq(Request)
<1> DEFINE limits == [k \in DOMAIN orders |->
                        Place("LIMIT", orders[k].side, QtyOf(orders[k], price), orders[k].price)]
<1>1. ASSUME NEW k \in DOMAIN orders PROVE limits[k] \in Request
  <2>1. orders[k] \in Decision
    OBVIOUS
  <2>2. orders[k].side \in Sides /\ QtyOf(orders[k], price) \in Nat /\ orders[k].price \in Int
    BY <2>1, QtyOfType DEF Decision
  <2> QED
    BY <2>2, PlaceType DEF Types
<1>2. limits \in Seq(Request)
  BY <1>1
<1> HIDE DEF limits
<1>3. <<CancelAll>> \in Seq(Request)
  BY CancelType
<1> QED
  BY <1>2, <1>3 DEF Quotes, limits

LEMMA ExitType ==
    ASSUME positionQty \in Int
    PROVE  <<CancelAll, Place("MARKET", ReducingSide(positionQty), AbsQty(positionQty), 0)>>
              \in Seq(Request)
<1>1. Place("MARKET", ReducingSide(positionQty), AbsQty(positionQty), 0) \in Request
  BY AbsQtyNat, ReducingSideType, PlaceType
<1> QED
  BY <1>1, CancelType

LEMMA SignedType ==
    ASSUME NEW side \in Sides, NEW qty \in Nat
    PROVE  Signed(side, qty) \in Int
  BY DEF Signed

\* What the account holds, typed.
AccountTyped == held \in Int /\ IsABag(book) /\ BagToSet(book) \subseteq OpenOrder

LEMMA EffectType ==
    ASSUME AccountTyped, NEW r \in Request, Effect(r)
    PROVE  AccountTyped'
<1>1. CASE r.type = "CANCEL_ALL"
  BY <1>1, NoBag DEF AccountTyped, Effect
<1>2. CASE r.type = "MARKET"
  <2>1. r.side \in Sides /\ r.qty \in Nat
    BY <1>2 DEF Request, OpenOrder, Types
  <2> QED
    BY <1>2, <2>1, SignedType DEF AccountTyped, Effect
<1>3. CASE r.type \notin {"CANCEL_ALL", "MARKET"}
  <2>1. r \in OpenOrder
    BY <1>3 DEF Request
  <2> QED
    BY <1>3, <2>1, BagType DEF AccountTyped, Effect
<1> QED
  BY <1>1, <1>2, <1>3

LEMMA InitTypeOK == Init => TypeOK
<1> SUFFICES ASSUME Init PROVE TypeOK
  OBVIOUS
<1>1. MaxFaults \in Nat /\ Lookback \in Nat
  BY LiveAssumption, StrategyAssumption
<1>2. tick \in Tick
  BY <1>1 DEF Init, Tick, FreshMemory, Memory
<1> QED
  BY <1>1, <1>2, NoBag DEF Init, TypeOK

\* A step of the engine, of the exchange or of the network keeps the state well-typed.
LEMMA NextTypeOK == TypeOK /\ [Next]_vars => TypeOK'
<1> SUFFICES ASSUME TypeOK, [Next]_vars PROVE TypeOK'
  OBVIOUS
<1> USE DEF engine, account, history
<1>a. AccountTyped
  BY DEF TypeOK, AccountTyped
<1>b. MaxFaults \in Nat
  BY LiveAssumption
<1>1. CASE SyncPosition
  BY <1>1 DEF SyncPosition, NetQty, TypeOK
<1>2. CASE SyncFails
  BY <1>2, <1>b DEF SyncFails, TypeOK
<1>3. CASE FetchFails
  BY <1>3 DEF FetchFails, TypeOK
<1>4. ASSUME NEW p \in Closes, NEW t \in OnTicks(p), Hold(p, t) PROVE TypeOK'
  BY <1>4, OnTicksType DEF Hold, Decide, TypeOK
<1>5. ASSUME NEW p \in Closes, NEW t \in OnTicks(p), GlobalExit(p, t) PROVE TypeOK'
  <2>1. requests' \in Seq(Request)
    BY <1>5, ExitType DEF GlobalExit, TypeOK
  <2> QED
    BY <1>5, <2>1, OnTicksType DEF GlobalExit, Decide, TypeOK
<1>6. ASSUME NEW p \in Closes, NEW t \in OnTicks(p), Enter(p, t) PROVE TypeOK'
  <2>1. t \in Tick /\ p \in Nat \ {0}
    BY OnTicksType
  <2>2. t.orders[1] \in Decision
    BY <1>6, <2>1 DEF Enter, Tick
  <2>3. requests' \in Seq(Request)
    BY <1>6, <2>1, <2>2, EntryShape DEF Enter
  <2>4. globalSL' \in Int /\ globalTP' \in Int
    BY <1>6, <2>2 DEF Enter, TypeOK, Decision
  <2> QED
    BY <1>6, <2>1, <2>3, <2>4 DEF Enter, Decide, TypeOK
<1>7. ASSUME NEW p \in Closes, NEW t \in OnTicks(p), Requote(p, t) PROVE TypeOK'
  <2>1. t \in Tick /\ p \in Nat \ {0}
    BY OnTicksType
  <2>2. requests' \in Seq(Request)
    BY <1>7, <2>1, QuotesType DEF Requote, Tick
  <2> QED
    BY <1>7, <2>1, <2>2 DEF Requote, Decide, TypeOK
<1>8. CASE Restart
  <2>1. tick' \in Tick
    BY <1>8, StrategyAssumption DEF Restart, Tick, FreshMemory, Memory
  <2> QED
    BY <1>8, <2>1 DEF Restart, TypeOK
<1>h. requests # << >> => Head(requests) \in Request /\ Tail(requests) \in Seq(Request)
  BY DEF TypeOK
<1>9. CASE Accepted
  <2>1. AccountTyped'
    BY <1>9, <1>a, <1>h, EffectType DEF Accepted
  <2> QED
    BY <1>9, <1>h, <2>1 DEF Accepted, TypeOK, AccountTyped
<1>10. CASE Refused
  BY <1>10, <1>b, <1>h DEF Refused, TypeOK
<1>11. CASE TimesOut
  <2>1. IsABag(late') /\ BagToSet(late') \subseteq Request
    BY <1>11, <1>h, BagType DEF TimesOut, TypeOK
  <2> QED
    BY <1>11, <1>b, <1>h, <2>1 DEF TimesOut, TypeOK
<1>12. ASSUME NEW r \in BagToSet(late), ArrivesLate(r) PROVE TypeOK'
  <2>1. r \in Request
    BY DEF TypeOK
  <2>2. AccountTyped'
    BY <1>12, <1>a, <2>1, EffectType DEF ArrivesLate
  <2>3. IsABag(late') /\ BagToSet(late') \subseteq Request
    BY <1>12, BagType DEF ArrivesLate, TypeOK
  <2>4. arrived' \in Nat
    BY <1>12, <2>1 DEF ArrivesLate, TypeOK, Request, OpenOrder, Types
  <2> QED
    BY <1>12, <2>2, <2>3, <2>4 DEF ArrivesLate, TypeOK, AccountTyped
<1>13. ASSUME NEW o \in BagToSet(book), NEW q \in 1..o.qty, LimitFills(o, q) PROVE TypeOK'
  <2> DEFINE rest == Ext!BagRemove(book, o)
             less == [o EXCEPT !.qty = @ - q]
  <2>1. o \in OpenOrder /\ o.qty \in Nat /\ q \in Nat /\ o.side \in Sides
    BY DEF TypeOK, OpenOrder
  <2>2. held' \in Int
    BY <1>13, <2>1, SignedType DEF LimitFills, TypeOK
  <2>3. IsABag(rest) /\ BagToSet(rest) \subseteq OpenOrder
    BY BagType DEF TypeOK
  <2>4. q < o.qty => less \in OpenOrder
    BY <2>1 DEF OpenOrder
  <2>5. book' = IF q < o.qty THEN Ext!BagAdd(rest, less) ELSE rest
    BY <1>13 DEF LimitFills
  <2> HIDE DEF rest, less
  <2>6. IsABag(book') /\ BagToSet(book') \subseteq OpenOrder
    BY <2>3, <2>4, <2>5, BagType
  <2> QED
    BY <1>13, <2>2, <2>6 DEF LimitFills, TypeOK
<1>14. ASSUME NEW o \in BagToSet(book), Triggers(o) \/ Expires(o) PROVE TypeOK'
  <2>1. IsABag(book') /\ BagToSet(book') \subseteq OpenOrder
    BY <1>14, BagType DEF Triggers, Expires, TypeOK
  <2>2. held' \in Int
    BY <1>14 DEF Triggers, Expires, TypeOK
  <2> QED
    BY <1>14, <2>1, <2>2 DEF Triggers, Expires, TypeOK
<1>15. CASE UNCHANGED vars
  BY <1>15 DEF vars, TypeOK
<1> QED
  BY <1>1, <1>2, <1>3, <1>4, <1>5, <1>6, <1>7, <1>8, <1>9, <1>10, <1>11, <1>12, <1>13, <1>14,
     <1>15 DEF Next

\* Live mode never leaves the types of its state, whatever requests fail, time out and
\* arrive late and whenever the process restarts: in particular what rests at the
\* exchange are orders, and the batch that is still to be sent is a sequence of requests.
THEOREM TypeCorrect == Spec => []TypeOK
  BY InitTypeOK, NextTypeOK, PTL DEF Spec

-----------------------------------------------------------------------------
(* The stop the engine remembers. *)

\* Two average true ranges never exceed the price: without this the stop of a long
\* entry would not be positive, and an entry without one would keep the stop price of
\* the trade before.
RangesBelowPrices == \A p \in Closes, atr \in Atrs : 2 * atr < p

StopRests(side) == \E o \in BagToSet(book) : o.type = "STOP_MARKET" /\ o.side = side

\* What syncPosition takes for no position.
Unseen == held \in {-1, 0, 1}

\* The stop is at the exchange, or in what is left of the entry's batch...
Guarded ==
    /\ Protection(requests)
    /\ held # 0 => StopRests(ReducingSide(held)) \/ StopComes(requests, ReducingSide(held))

\* ... or the whole batch is still to be sent.
Entering ==
    /\ requests # << >> /\ requests[1].type = "MARKET" /\ requests[1].qty > 0
    /\ Protection(Tail(requests))
    /\ StopComes(Tail(requests), Opposite(requests[1].side))
    /\ Unseen

\* What holds as long as no request of ema_macd_rsi failed.  Without its first parts an
\* order of another kind could move the position between a sync and the entry it allows.
StopFacts ==
    /\ BagToSet(late) = {}
    /\ \A o \in BagToSet(book) : o.type # "LIMIT"
    /\ \A i \in DOMAIN requests : requests[i].type # "LIMIT"
    /\ pc = "synced" => requests = << >> /\ (positionQty = 0 => Unseen)
    /\ globalSL # 0 => Guarded \/ Entering

\* The inductive invariant.
StopInv == strategy = "ema_macd_rsi" /\ faults = 0 => StopFacts

\* What is left of a batch when its head is sent.
LEMMA TailOf ==
    ASSUME NEW S, NEW rs \in Seq(S), rs # << >>
    PROVE  /\ Head(rs) = rs[1] /\ 1 \in DOMAIN rs /\ Tail(rs) \in Seq(S)
           /\ \A i \in DOMAIN Tail(rs) : i + 1 \in DOMAIN rs /\ Tail(rs)[i] = rs[i + 1]
           /\ \A i \in DOMAIN rs : i # 1 => i - 1 \in DOMAIN Tail(rs) /\ Tail(rs)[i - 1] = rs[i]
  OBVIOUS

\* ema_macd_rsi sends an entry when it believes to be flat, and nothing else but exits.
LEMMA EmaEnters ==
    ASSUME TypeOK, strategy = "ema_macd_rsi", NEW p \in Closes, NEW t \in OnTicks(p),
           t.orders # << >>
    PROVE  /\ positionQty = 0 /\ p \in Nat \ {0}
           /\ t.orders[1] \in Decision /\ t.orders[1].type = "Market" /\ t.orders[1].size = 0
           /\ \E dir \in {1, -1}, atr \in Atrs :
                /\ t.orders[1].side = IF dir = 1 THEN "BUY" ELSE "SELL"
                /\ t.orders[1].sl = p - dir * 2 * atr
<1>1. p \in Nat \ {0}
  BY LiveAssumption
<1>2. t \in OnTick("ema_macd_rsi", p, positionQty, tick.mem)
  BY DEF OnTicks
<1> QED
  BY <1>1, <1>2, EmaDecides

\* Faults are never forgotten, and nobody changes the strategy.
LEMMA FaultsGrow ==
    ASSUME TypeOK, [Next]_vars
    PROVE  strategy' = strategy /\ faults <= faults'
<1> USE DEF history
<1>1. faults \in Nat
  BY DEF TypeOK
<1>2. strategy' = strategy /\ faults' \in {faults, faults + 1}
  BY DEF Next, SyncPosition, SyncFails, FetchFails, Hold, GlobalExit, Enter, Requote, Restart, Accepted,
         Refused, TimesOut, ArrivesLate, LimitFills, Triggers, Expires, vars
<1> QED
  BY <1>1, <1>2

\* An entry that is accepted takes its side, whatever lot was left; its stop comes next.
LEMMA AcceptedGuards ==
    ASSUME TypeOK, StopFacts, Accepted
    PROVE  StopFacts'
<1> DEFINE r == Head(requests)
           rest == Tail(requests)
<1> USE DEF engine
<1>1. requests # << >> /\ Effect(r) /\ requests' = rest
      /\ UNCHANGED <<pc, positionQty, globalSL, late>>
  BY DEF Accepted
<1>2. /\ r = requests[1] /\ 1 \in DOMAIN requests /\ rest \in Seq(Request) /\ r \in Request
      /\ \A i \in DOMAIN rest : i + 1 \in DOMAIN requests /\ rest[i] = requests[i + 1]
      /\ \A i \in DOMAIN requests : i # 1 => i - 1 \in DOMAIN rest /\ rest[i - 1] = requests[i]
  BY <1>1, TailOf DEF TypeOK
<1> HIDE DEF r, rest
<1>3. \A i \in DOMAIN rest : rest[i].type # "LIMIT"
  BY <1>2 DEF StopFacts
<1>4. \A o \in BagToSet(book') : o.type # "LIMIT"
  <2>1. r.type # "LIMIT"
    BY <1>2 DEF StopFacts
  <2> QED
    BY <1>1, <2>1, NoBag, BagHas DEF Effect, StopFacts
<1>5. pc' # "synced"
  BY <1>1 DEF StopFacts
<1>6. ASSUME globalSL # 0, Guarded PROVE Guarded'
  <2>1. r.type \in {"STOP_MARKET", "TAKE_PROFIT_MARKET"} /\ Protection(rest)
    BY <1>2, <1>6 DEF Guarded, Protection
  <2>2. BagToSet(book') = BagToSet(book) \cup {r} /\ held' = held
    BY <1>1, <2>1, BagHas DEF Effect
  <2>3. ASSUME held # 0, StopRests(ReducingSide(held)) PROVE StopRests(ReducingSide(held))'
    BY <2>2, <2>3 DEF StopRests
  <2>4. ASSUME held # 0, StopComes(requests, ReducingSide(held))
        PROVE  StopRests(ReducingSide(held))' \/ StopComes(rest, ReducingSide(held))
    <3>1. PICK i \in DOMAIN requests :
             requests[i].type = "STOP_MARKET" /\ requests[i].side = ReducingSide(held)
      BY <2>4 DEF StopComes
    <3>2. CASE i = 1
      BY <1>2, <2>2, <3>1, <3>2 DEF StopRests
    <3>3. CASE i # 1
      BY <1>2, <3>1, <3>3 DEF StopComes
    <3> QED
      BY <3>2, <3>3
  <2> QED
    BY <1>1, <1>6, <2>1, <2>2, <2>3, <2>4 DEF Guarded
<1>7. ASSUME globalSL # 0, Entering PROVE Guarded'
  <2>1. /\ r.type = "MARKET" /\ r.qty > 0 /\ Protection(rest) /\ StopComes(rest, Opposite(r.side))
        /\ held \in {-1, 0, 1}
    BY <1>2, <1>7 DEF Entering, Unseen, rest
  <2>2. r.side \in Sides /\ r.qty \in Nat
    BY <1>2, <2>1 DEF Request, OpenOrder, Types
  <2>3. held' = held + Signed(r.side, r.qty)
    BY <1>1, <2>1 DEF Effect
  <2>4. held' # 0 => ReducingSide(held') = Opposite(r.side)
    BY <2>1, <2>2, <2>3 DEF Signed, ReducingSide, Opposite, Sides
  <2>5. Guarded' <=> /\ Protection(rest)
                     /\ held' # 0 => StopRests(ReducingSide(held))' \/ StopComes(rest, ReducingSide(held'))
    BY <1>1 DEF Guarded
  <2> QED
    BY <2>1, <2>4, <2>5
<1>8. globalSL' # 0 => Guarded'
  BY <1>1, <1>6, <1>7 DEF StopFacts
<1> QED
  BY <1>1, <1>3, <1>4, <1>5, <1>8 DEF StopFacts

\* An order that triggers or expires takes the position with it, or was not its stop.
LEMMA TriggerGuards ==
    ASSUME TypeOK, StopFacts, NEW o \in BagToSet(book), Triggers(o) \/ Expires(o)
    PROVE  StopFacts'
<1> USE DEF engine
<1>1. /\ BagToSet(book') \subseteq BagToSet(book) /\ BagToSet(book) \ {o} \subseteq BagToSet(book')
      /\ UNCHANGED <<pc, positionQty, globalSL, late, requests>>
  BY BagHas DEF Triggers, Expires
<1>2. held' = 0 \/ (held' = held /\ o.side # ReducingSide(held))
  BY DEF Triggers, Expires
<1>3. Unseen => Unseen'
  BY <1>2 DEF Unseen
<1>4. Guarded => Guarded'
  <2>1. CASE held' = 0
    BY <1>1, <2>1 DEF Guarded
  <2>2. CASE held' = held /\ o.side # ReducingSide(held)
    BY <1>1, <2>2 DEF Guarded, StopRests
  <2> QED
    BY <1>2, <2>1, <2>2
<1>5. Entering => Entering'
  BY <1>1, <1>3 DEF Entering
<1> QED
  BY <1>1, <1>3, <1>4, <1>5 DEF StopFacts

LEMMA NextStop ==
    ASSUME RangesBelowPrices, TypeOK, StopInv, [Next]_vars
    PROVE  StopInv'
<1> SUFFICES ASSUME strategy = "ema_macd_rsi", faults = 0, faults' = 0, StopFacts
             PROVE  StopFacts'
  <2>1. strategy' = strategy /\ faults <= faults' /\ faults \in Nat
    BY FaultsGrow DEF TypeOK
  <2> QED
    BY <2>1 DEF StopInv
<1> USE DEF engine, account
<1>a. UNCHANGED <<pc, engine, account, requests, late>> => StopFacts'
  BY DEF StopFacts, Guarded, Entering, StopRests, Unseen
<1>b. pc' = "idle" /\ UNCHANGED <<engine, account, requests, late>> => StopFacts'
  BY DEF StopFacts, Guarded, Entering, StopRests, Unseen
<1>1. CASE SyncPosition
  <2>1. positionQty' = 0 => Unseen
    BY <1>1 DEF SyncPosition, NetQty, Unseen, TypeOK
  <2> QED
    BY <1>1, <2>1 DEF SyncPosition, StopFacts, Guarded, Entering, StopRests, Unseen
<1>2. CASE SyncFails \/ Refused \/ TimesOut
  BY <1>2 DEF SyncFails, Refused, TimesOut
<1>3. CASE FetchFails
  BY <1>3, <1>b DEF FetchFails
<1>4. ASSUME NEW p \in Closes, NEW t \in OnTicks(p), Hold(p, t) PROVE StopFacts'
  BY <1>4, <1>b DEF Hold, Decide
<1>5. ASSUME NEW p \in Closes, NEW t \in OnTicks(p), GlobalExit(p, t) PROVE StopFacts'
  <2>1. \A i \in DOMAIN requests' : requests'[i].type # "LIMIT"
    BY <1>5 DEF GlobalExit, CancelAll, Place
  <2> QED
    BY <1>5, <2>1 DEF GlobalExit, Decide, StopFacts
<1>6. ASSUME NEW p \in Closes, NEW t \in OnTicks(p), Enter(p, t) PROVE StopFacts'
  <2> DEFINE d == t.orders[1]
  <2>1. /\ pc = "synced" /\ pc' = "idle" /\ t.orders # << >> /\ QtyOf(d, p) > 0
        /\ requests' = EntryRequests(d, p) /\ UNCHANGED <<account, late>>
        /\ globalSL' = IF d.sl > 0 THEN d.sl ELSE globalSL
    BY <1>6 DEF Enter, Decide
  <2>2. positionQty = 0 /\ d \in Decision /\ p \in Nat \ {0} /\ d.sl > 0
    <3>1. PICK dir \in {1, -1}, atr \in Atrs : d.sl = p - dir * 2 * atr
      BY <2>1, EmaEnters
    <3>2. 2 * atr < p /\ atr \in Nat /\ p \in Nat
      BY LiveAssumption, StrategyAssumption DEF RangesBelowPrices
    <3>3. d.sl > 0
      BY <3>1, <3>2
    <3> QED
      BY <2>1, <3>3, EmaEnters
  <2> HIDE DEF d
  <2>3. /\ requests' # << >> /\ requests'[1] = Place("MARKET", d.side, QtyOf(d, p), 0)
        /\ Protection(Tail(requests')) /\ StopComes(Tail(requests'), Opposite(d.side))
        /\ requests' \in Seq(Request)
    BY <2>1, <2>2, EntryShape
  <2>4. requests'[1].type = "MARKET" /\ requests'[1].qty > 0 /\ requests'[1].side = d.side
    BY <2>1, <2>3 DEF Place
  <2>5. Unseen'
    BY <2>1, <2>2 DEF StopFacts, Unseen
  <2>6. Entering'
    BY <2>3, <2>4, <2>5 DEF Entering
  <2>7. \A i \in DOMAIN requests' : requests'[i].type # "LIMIT"
    <3> SUFFICES ASSUME NEW i \in DOMAIN requests' PROVE requests'[i].type # "LIMIT"
      OBVIOUS
    <3>1. i # 1 => i - 1 \in DOMAIN Tail(requests') /\ Tail(requests')[i - 1] = requests'[i]
      BY <2>3, TailOf
    <3> QED
      BY <2>3, <2>4, <3>1 DEF Protection
  <2> QED
    BY <2>1, <2>6, <2>7 DEF StopFacts
<1>7. ASSUME NEW p \in Closes, NEW t \in OnTicks(p), Requote(p, t) PROVE StopFacts'
  BY <1>7, EmaEnters DEF Requote
<1>8. CASE Restart
  BY <1>8 DEF Restart, StopFacts
<1>9. CASE Accepted
  BY <1>9, AcceptedGuards
<1>10. ASSUME NEW r \in BagToSet(late), ArrivesLate(r) PROVE StopFacts'
  BY DEF StopFacts
<1>11. ASSUME NEW o \in BagToSet(book), NEW q \in 1..o.qty, LimitFills(o, q) PROVE StopFacts'
  BY <1>11 DEF LimitFills, StopFacts
<1>12. ASSUME NEW o \in BagToSet(book), Triggers(o) \/ Expires(o) PROVE StopFacts'
  BY <1>12, TriggerGuards
<1>13. CASE UNCHANGED vars
  BY <1>13, <1>a DEF vars
<1> QED
  BY <1>1, <1>2, <1>3, <1>4, <1>5, <1>6, <1>7, <1>8, <1>9, <1>10, <1>11, <1>12, <1>13 DEF Next

\* As long as no request of ema_macd_rsi failed, a position whose stop the engine
\* remembers has that protection at the exchange: through exits that race with
\* triggers, restarts, orders left over from earlier trades and a lot that
\* syncPosition does not see, for every price, size and number of batches.
THEOREM RememberedStopHolds ==
    ASSUME RangesBelowPrices
    PROVE  Spec => []RememberedStopIsOnBook
<1>1. Init => StopInv
  BY NoBag DEF Init, StopInv, StopFacts
<1>2. TypeOK /\ StopInv /\ [Next]_vars => StopInv'
  BY NextStop
<1>3. TypeOK /\ StopInv => RememberedStopIsOnBook
  <2> SUFFICES ASSUME TypeOK, StopInv, strategy = "ema_macd_rsi", faults = 0, requests = << >>,
                      held # 0, globalSL # 0
               PROVE  StopRests(ReducingSide(held))
    BY DEF RememberedStopIsOnBook, StopRests
  <2> QED
    BY DEF StopInv, StopFacts, Guarded, Entering, StopComes
<1> QED
  BY <1>1, <1>2, <1>3, TypeCorrect, PTL DEF Spec

-----------------------------------------------------------------------------
(* One entry per fault. *)

Lots(r) == Signed(r.side, r.qty)

\* What the position may amount to, and what is within it.
Bound == (1 + faults) * EntryQty + arrived + 1

Within(lots, b) == -b <= lots /\ lots <= b

\* The market order of a batch, whatever the account does before it arrives: a stop may
\* close the position first.
PendingWithin(rs, b) ==
    \A i \in DOMAIN rs : rs[i].type = "MARKET" =>
        /\ Within(Lots(rs[i]), b) /\ Within(held + Lots(rs[i]), b)
        /\ \A j \in DOMAIN rs : j > i => rs[j].type # "MARKET"

Exits == globalSL # 0 \/ globalTP # 0

\* An exit for the position the engine believes in would keep the account within its
\* bound, and so would an entry if it believes to have none.
BeliefWithin ==
    /\ Exits => Within(positionQty, Bound) /\ Within(held - positionQty, Bound)
    /\ Exits /\ positionQty # 0 => \A i \in DOMAIN requests : requests[i].type # "MARKET"
    /\ pc = "synced" => requests = << >>
    /\ pc = "synced" /\ positionQty = 0 =>
          Within(held - EntryQty, Bound) /\ Within(held + EntryQty, Bound)

\* Nothing but its own market orders and triggers moves the position of ema_macd_rsi.
NoLimits ==
    /\ \A o \in BagToSet(book) \cup BagToSet(late) : o.type # "LIMIT"
    /\ \A i \in DOMAIN requests : requests[i].type # "LIMIT"

\* The inductive invariant: without its last two parts an exit that crosses a trigger, or
\* an entry after a missed sync, could take the position anywhere.
EntryFacts == NoLimits /\ Within(held, Bound) /\ PendingWithin(requests, Bound) /\ BeliefWithin

EntryInv == strategy = "ema_macd_rsi" => EntryFacts

\* An entry buys no more than at the lowest price.
LEMMA CheapestBuysMost ==
    ASSUME NEW n \in Nat, NEW a \in Nat \ {0}, NEW b \in Nat \ {0}, a <= b
    PROVE  n \div b <= n \div a
<1> DEFINE x == n \div b
           y == n \div a
<1>1. /\ x \in Int /\ 0 <= n - b * x
      /\ y \in Int /\ n - a * y < a
  BY Remainder
<1>2. n \div b \in Nat
  OBVIOUS
<1> HIDE DEF x, y
<1>3. x \in Nat
  BY <1>2 DEF x
<1>4. a * x <= b * x
  BY <1>3
<1>5. a * x < a * y + a
  BY <1>1, <1>4
<1>6. a * (y + 1) = a * y + a
  BY <1>1
<1>7. x < y + 1
  <2>1. SUFFICES ASSUME y + 1 <= x PROVE FALSE
    BY <1>1
  <2>2. a * (y + 1) <= a * x
    BY <1>1, <2>1
  <2> QED
    BY <1>1, <1>5, <1>6, <2>2
<1> QED
  BY <1>1, <1>7 DEF x, y

LEMMA EntryQtyIs ==
    /\ EntryQty \in Nat
    /\ \A p \in Closes : TradeNotional \div p <= EntryQty
<1>1. Closes \subseteq Nat \ {0} /\ Closes # {} /\ TradeNotional \in Nat
  BY LiveAssumption
<1>2. \E p \in Closes : \A q \in Closes : p <= q
  BY <1>1, LeastElement
<1> DEFINE cheapest == CHOOSE p \in Closes : \A q \in Closes : p <= q
<1>3. cheapest \in Closes /\ \A q \in Closes : cheapest <= q
  BY <1>2
<1>4. EntryQty = TradeNotional \div cheapest
  BY DEF EntryQty
<1> HIDE DEF cheapest
<1>5. TradeNotional \div cheapest \in Nat
  BY <1>1, <1>3
<1> QED
  BY <1>1, <1>3, <1>4, <1>5, CheapestBuysMost

LEMMA BoundType ==
    ASSUME TypeOK
    PROVE  Bound \in Nat /\ EntryQty + 1 <= Bound
<1>1. EntryQty \in Nat /\ faults \in Nat /\ arrived \in Nat
  BY EntryQtyIs DEF TypeOK
<1>2. (1 + faults) * EntryQty = EntryQty + faults * EntryQty /\ faults * EntryQty \in Nat
  BY <1>1
<1> QED
  BY <1>1, <1>2 DEF Bound

\* A position that was closed by a stop, or changed by no more than the bound grew, is
\* still within it, and so is what any order makes of it.
LEMMA StillWithin ==
    ASSUME NEW h \in Int, NEW b \in Nat, NEW hh \in Int, NEW bb \in Nat, b <= bb,
           hh = 0 \/ Within(hh - h, bb - b), NEW x \in Int, Within(x, b)
    PROVE  /\ Within(x, bb)
           /\ Within(h + x, b) => Within(hh + x, bb)
           /\ Within(h - x, b) => Within(hh - x, bb)
  BY DEF Within

\* The exchange, or the bookkeeping of failures, moves the position or the bound; the
\* engine does not notice, or has sent part of its batch.
LEMMA AccountMoves ==
    ASSUME TypeOK, TypeOK', EntryFacts, NoLimits', Bound <= Bound',
           held' = 0 \/ Within(held' - held, Bound' - Bound),
           UNCHANGED <<pc, positionQty, globalSL, globalTP>>,
           \/ requests' = requests
           \/ requests # << >> /\ requests' = Tail(requests)
    PROVE  EntryFacts'
<1>1. /\ held \in Int /\ held' \in Int /\ Bound \in Nat /\ Bound' \in Nat
      /\ positionQty \in Int /\ EntryQty \in Nat /\ EntryQty + 1 <= Bound
      /\ requests \in Seq(Request)
  <2>1. Bound \in Nat /\ EntryQty + 1 <= Bound
    BY BoundType
  <2>2. Bound' \in Nat
    <3>0. faults' \in Nat /\ arrived' \in Nat
      BY DEF TypeOK
    <3>1. PICK f \in Nat, a \in Nat : f = faults' /\ a = arrived'
      BY <3>0
    <3>2. EntryQty \in Nat /\ (1 + f) * EntryQty = EntryQty + f * EntryQty /\ f * EntryQty \in Nat
      BY EntryQtyIs
    <3> QED
      BY <3>1, <3>2 DEF Bound, EntryQty
  <2> QED
    BY <2>1, <2>2, EntryQtyIs DEF TypeOK
<1> DEFINE b == Bound
<1>2. PICK h2 \in Int : h2 = held'
  BY <1>1
<1>3. PICK b2 \in Nat : b2 = Bound'
  BY <1>1
<1>4. b \in Nat /\ b <= b2 /\ (h2 = 0 \/ Within(h2 - held, b2 - b))
  BY <1>1, <1>2, <1>3
<1> HIDE DEF b
<1>5. ASSUME NEW x \in Int, Within(x, b)
      PROVE  /\ Within(x, b2)
             /\ Within(held + x, b) => Within(h2 + x, b2)
             /\ Within(held - x, b) => Within(h2 - x, b2)
  <2>1. PICK h \in Int, bb \in Nat : h = held /\ bb = b
    BY <1>1, <1>4
  <2>2. bb <= b2 /\ (h2 = 0 \/ Within(h2 - h, b2 - bb)) /\ Within(x, bb)
    BY <1>4, <1>5, <2>1
  <2>3. /\ Within(x, b2)
        /\ Within(h + x, bb) => Within(h2 + x, b2)
        /\ Within(h - x, bb) => Within(h2 - x, b2)
    BY <2>2, StillWithin
  <2>4. Within(held + x, b) => Within(h2 + x, b2)
    BY <1>1, <2>1, <2>3
  <2>5. Within(held - x, b) => Within(h2 - x, b2)
    BY <1>1, <2>1, <2>3
  <2> QED
    BY <2>3, <2>4, <2>5
<1>6. Within(h2, b2)
  <2>1. Within(0, b) /\ Within(held + 0, b)
    BY <1>1, <1>4 DEF EntryFacts, Within, b
  <2>2. Within(h2 + 0, b2)
    BY <1>5, <2>1
  <2>3. \A n \in Int : n + 0 = n
    OBVIOUS
  <2> QED
    BY <1>2, <2>2, <2>3
<1>7. \A i \in DOMAIN requests' : \E k \in DOMAIN requests :
         /\ requests'[i] = requests[k]
         /\ \A j \in DOMAIN requests' : j > i =>
               \E m \in DOMAIN requests : m > k /\ requests'[j] = requests[m]
  <2>1. CASE requests' = requests
    BY <2>1
  <2>2. CASE requests # << >> /\ requests' = Tail(requests)
    <3>1. \A i \in DOMAIN requests' : i \in Nat /\ i + 1 \in DOMAIN requests
                                      /\ requests'[i] = requests[i + 1]
      BY <1>1, <2>2
    <3> QED
      BY <3>1
  <2> QED
    BY <2>1, <2>2
<1>8. ASSUME NEW i \in DOMAIN requests', requests'[i].type = "MARKET"
      PROVE  /\ Within(Lots(requests'[i]), b2) /\ Within(h2 + Lots(requests'[i]), b2)
             /\ \A j \in DOMAIN requests' : j > i => requests'[j].type # "MARKET"
  <2>1. PICK k \in DOMAIN requests :
           /\ requests'[i] = requests[k]
           /\ \A j \in DOMAIN requests' : j > i =>
                 \E m \in DOMAIN requests : m > k /\ requests'[j] = requests[m]
    BY <1>7
  <2>2. requests[k].type = "MARKET" /\ requests[k] \in Request
    BY <1>1, <1>8, <2>1
  <2>3. Lots(requests[k]) \in Int
    BY <2>2, SignedType DEF Lots, Request, OpenOrder, Types
  <2>4. /\ Within(Lots(requests[k]), b) /\ Within(held + Lots(requests[k]), b)
        /\ \A m \in DOMAIN requests : m > k => requests[m].type # "MARKET"
    BY <2>2 DEF EntryFacts, PendingWithin, b
  <2>5. Within(Lots(requests[k]), b2) /\ Within(h2 + Lots(requests[k]), b2)
    BY <1>5, <2>3, <2>4
  <2> QED
    BY <2>1, <2>4, <2>5
<1>9. PendingWithin(requests, Bound)'
  BY <1>2, <1>3, <1>8 DEF PendingWithin, Lots
<1>10. Exits => Within(positionQty, b2) /\ Within(h2 - positionQty, b2)
  BY <1>1, <1>5 DEF EntryFacts, BeliefWithin, b
<1>11. Exits /\ positionQty # 0 => \A i \in DOMAIN requests' : requests'[i].type # "MARKET"
  BY <1>7 DEF EntryFacts, BeliefWithin
<1>12. pc = "synced" => requests' = << >>
  BY DEF EntryFacts, BeliefWithin
<1>13. pc = "synced" /\ positionQty = 0 => Within(h2 - EntryQty, b2) /\ Within(h2 + EntryQty, b2)
  <2>1. Within(EntryQty, b)
    BY <1>1 DEF Within, b
  <2> QED
    BY <1>1, <1>5, <2>1 DEF EntryFacts, BeliefWithin, b
<1>14. BeliefWithin'
  BY <1>2, <1>3, <1>10, <1>11, <1>12, <1>13, EntryQtyIs DEF BeliefWithin, Exits, EntryQty
<1> QED
  BY <1>2, <1>3, <1>6, <1>9, <1>14 DEF EntryFacts

\* A failed request widens the bound by one entry, a late market order by its lots.
LEMMA BoundGrows ==
    ASSUME TypeOK, NEW n \in Nat, arrived' = arrived + n
    PROVE  /\ faults' = faults => Bound' = Bound + n
           /\ faults' = faults + 1 => Bound' = Bound + EntryQty + n
<1>1. faults \in Nat /\ arrived \in Nat /\ EntryQty \in Nat
  BY EntryQtyIs DEF TypeOK
<1>2. \A f, a, e \in Nat :
         /\ (1 + f) * e + (a + n) + 1 = ((1 + f) * e + a + 1) + n
         /\ (1 + (f + 1)) * e + (a + n) + 1 = ((1 + f) * e + a + 1) + e + n
  <2> SUFFICES ASSUME NEW f \in Nat, NEW a \in Nat, NEW e \in Nat
               PROVE  /\ (1 + f) * e + (a + n) + 1 = ((1 + f) * e + a + 1) + n
                      /\ (1 + (f + 1)) * e + (a + n) + 1 = ((1 + f) * e + a + 1) + e + n
    OBVIOUS
  <2>1. (1 + f) * e \in Nat /\ (1 + (f + 1)) * e = (1 + f) * e + e
    OBVIOUS
  <2> QED
    BY <2>1
<1>3. Bound = (1 + faults) * EntryQty + arrived + 1
  BY DEF Bound
<1>4. Bound' = (1 + faults') * EntryQty + (arrived + n) + 1
  BY DEF Bound, EntryQty
<1> QED
  BY <1>1, <1>2, <1>3, <1>4

\* What is sent on, lost or delayed was in the batch.
LEMMA TailNoLimits ==
    ASSUME TypeOK, NoLimits, requests # << >>, requests' = Tail(requests)
    PROVE  /\ \A i \in DOMAIN requests' : requests'[i].type # "LIMIT"
           /\ Head(requests).type # "LIMIT"
  BY TailOf DEF TypeOK, NoLimits

\* What reaches the exchange from a batch or the network of ema_macd_rsi.
LEMMA EffectNoLimits ==
    ASSUME NoLimits, NEW r, r.type # "LIMIT", Effect(r)
    PROVE  \A o \in BagToSet(book') : o.type # "LIMIT"
  BY NoBag, BagHas DEF Effect, NoLimits

LEMMA AcceptedEntry ==
    ASSUME TypeOK, TypeOK', EntryFacts, Accepted
    PROVE  EntryFacts'
<1> USE DEF engine, history
<1> DEFINE r == Head(requests)
<1>1. /\ requests # << >> /\ Effect(r) /\ requests' = Tail(requests)
      /\ UNCHANGED <<pc, positionQty, globalSL, globalTP, late, faults, arrived>>
  BY DEF Accepted
<1>2. Bound' = Bound /\ Bound \in Nat /\ held \in Int
  BY <1>1, BoundType DEF Bound, EntryQty, TypeOK
<1>3. NoLimits'
  BY <1>1, TailNoLimits, EffectNoLimits DEF EntryFacts, NoLimits
<1>4. /\ r = requests[1] /\ 1 \in DOMAIN requests /\ r \in Request
      /\ \A i \in DOMAIN Tail(requests) : i + 1 \in DOMAIN requests /\ i + 1 > 1
                                          /\ Tail(requests)[i] = requests[i + 1]
  BY <1>1 DEF TypeOK
<1> HIDE DEF r
<1>5. CASE r.type # "MARKET"
  <2>1. held' = held
    BY <1>1, <1>5 DEF Effect
  <2>2. Within(held' - held, Bound' - Bound)
    BY <1>2, <2>1 DEF Within
  <2>3. Bound <= Bound'
    BY <1>2
  <2> QED
    BY <1>1, <1>3, <2>2, <2>3, AccountMoves
<1>6. CASE r.type = "MARKET"
  <2>1. held' = held + Lots(r)
    BY <1>1, <1>6 DEF Effect, Lots
  <2>2. /\ Within(held + Lots(r), Bound)
        /\ \A j \in DOMAIN requests : j > 1 => requests[j].type # "MARKET"
    BY <1>4, <1>6 DEF EntryFacts, PendingWithin
  <2>3. \A j \in DOMAIN requests' : requests'[j].type # "MARKET"
    BY <1>1, <1>4, <2>2
  <2>4. Within(held', Bound') /\ PendingWithin(requests, Bound)'
    BY <1>2, <2>1, <2>2, <2>3 DEF PendingWithin
  <2>5. Exits => positionQty = 0
    BY <1>4, <1>6 DEF EntryFacts, BeliefWithin
  <2>6. pc # "synced"
    BY <1>1 DEF EntryFacts, BeliefWithin
  <2>7. Exits' => Within(positionQty', Bound') /\ Within(held' - positionQty', Bound')
    <3>1. SUFFICES ASSUME Exits' PROVE Within(0, Bound) /\ Within(held' - 0, Bound)
      BY <1>1, <1>2, <2>5 DEF Exits
    <3>2. held' \in Int
      BY DEF TypeOK
    <3>3. \A h \in Int : h - 0 = h
      OBVIOUS
    <3>4. Within(held' - 0, Bound)
      BY <1>2, <2>4, <3>2, <3>3
    <3> QED
      BY <1>2, <3>4 DEF Within
  <2>8. BeliefWithin'
    BY <1>1, <2>3, <2>6, <2>7 DEF BeliefWithin, Exits
  <2> QED
    BY <1>3, <2>4, <2>8 DEF EntryFacts
<1> QED
  BY <1>5, <1>6

\* A request that fails widens the bound; one that is on its way may arrive later.
LEMMA FailedEntry ==
    ASSUME TypeOK, TypeOK', EntryFacts, Refused \/ TimesOut
    PROVE  EntryFacts'
<1> USE DEF engine, account
<1>1. /\ requests # << >> /\ requests' = Tail(requests) /\ faults' = faults + 1
      /\ UNCHANGED <<pc, positionQty, globalSL, globalTP, held, book, arrived>>
  BY DEF Refused, TimesOut
<1>2. Bound' = Bound + EntryQty /\ Bound \in Nat /\ EntryQty \in Nat /\ held \in Int
  <2>1. arrived' = arrived + 0
    BY <1>1 DEF TypeOK
  <2>2. Bound' = Bound + EntryQty + 0
    BY <1>1, <2>1, BoundGrows
  <2>3. Bound \in Nat /\ EntryQty \in Nat /\ held \in Int
    BY BoundType, EntryQtyIs DEF TypeOK
  <2> QED
    BY <2>2, <2>3
<1>3. NoLimits'
  <2>1. \A o \in BagToSet(late') : o.type # "LIMIT"
    BY <1>1, TailNoLimits, BagHas DEF EntryFacts, NoLimits, Refused, TimesOut
  <2> QED
    BY <1>1, <2>1, TailNoLimits DEF EntryFacts, NoLimits
<1>4. Bound <= Bound' /\ Within(held' - held, Bound' - Bound)
  <2>1. \A h \in Int, b, e \in Nat : b <= b + e /\ Within(h - h, (b + e) - b)
    BY DEF Within
  <2> QED
    BY <1>1, <1>2, <2>1
<1> QED
  BY <1>1, <1>3, <1>4, AccountMoves

\* A late market order widens the bound by its lots.
LEMMA LateEntry ==
    ASSUME TypeOK, TypeOK', EntryFacts, NEW r \in BagToSet(late), ArrivesLate(r)
    PROVE  EntryFacts'
<1> USE DEF engine
<1> DEFINE n == IF r.type = "MARKET" THEN r.qty ELSE 0
<1>1. /\ Effect(r) /\ arrived' = arrived + n /\ r.type # "LIMIT" /\ r \in Request
      /\ late' = Ext!BagRemove(late, r)
      /\ UNCHANGED <<pc, positionQty, globalSL, globalTP, requests, faults>>
  BY DEF ArrivesLate, EntryFacts, NoLimits, TypeOK
<1>2. n \in Nat /\ (r.type = "MARKET" => r.side \in Sides /\ r.qty \in Nat)
  BY <1>1 DEF Request, OpenOrder, Types
<1>3. held' = held \/ held' = held + n \/ held' = held + -n
  BY <1>1, <1>2 DEF Effect, Signed, Sides, TypeOK
<1> HIDE DEF n
<1>4. Bound' = Bound + n /\ Bound \in Nat /\ held \in Int
  BY <1>1, <1>2, BoundGrows, BoundType DEF TypeOK
<1>5. Bound <= Bound' /\ Within(held' - held, Bound' - Bound)
  <2>1. \A h \in Int, b, e \in Nat :
           b <= b + e /\ Within(h - h, (b + e) - b) /\ Within((h + e) - h, (b + e) - b)
           /\ Within((h + -e) - h, (b + e) - b)
    BY DEF Within
  <2> QED
    BY <1>2, <1>3, <1>4, <2>1
<1>6. NoLimits'
  BY <1>1, EffectNoLimits, BagHas DEF EntryFacts, NoLimits
<1> QED
  BY <1>1, <1>5, <1>6, AccountMoves

\* A stop or target closes what is left, or does nothing.
LEMMA TriggerEntry ==
    ASSUME TypeOK, TypeOK', EntryFacts, NEW o \in BagToSet(book), Triggers(o) \/ Expires(o)
    PROVE  EntryFacts'
<1> USE DEF engine, history
<1>1. /\ BagToSet(book') \subseteq BagToSet(book) /\ (held' = 0 \/ held' = held)
      /\ UNCHANGED <<pc, positionQty, globalSL, globalTP, requests, late, faults, arrived>>
  BY BagHas DEF Triggers, Expires
<1>2. Bound' = Bound /\ Bound \in Nat /\ held \in Int
  BY <1>1, BoundType DEF Bound, EntryQty, TypeOK
<1>3. Bound <= Bound' /\ (held' = 0 \/ Within(held' - held, Bound' - Bound))
  BY <1>1, <1>2 DEF Within
<1>4. NoLimits'
  BY <1>1 DEF EntryFacts, NoLimits
<1> QED
  BY <1>1, <1>3, <1>4, AccountMoves

\* The exit that is sent would undo what the engine believes in.
LEMMA ExitEntry ==
    ASSUME TypeOK, EntryFacts, NEW p \in Closes, NEW t \in OnTicks(p), GlobalExit(p, t)
    PROVE  EntryFacts'
<1> USE DEF account, history
<1> DEFINE order == Place("MARKET", ReducingSide(positionQty), AbsQty(positionQty), 0)
<1>1. /\ positionQty # 0 /\ Exits /\ pc' = "idle" /\ globalSL' = 0 /\ globalTP' = 0
      /\ requests' = <<CancelAll, order>>
      /\ UNCHANGED <<positionQty, held, book, late, faults, arrived>>
  BY DEF GlobalExit, Decide, ExitHit, Exits, TypeOK
<1>2. /\ DOMAIN requests' = {1, 2} /\ requests'[1] = CancelAll /\ requests'[2] = order
      /\ order.type = "MARKET" /\ CancelAll.type = "CANCEL_ALL"
  BY <1>1 DEF Place, CancelAll
<1>3. Lots(order) = -positionQty /\ positionQty \in Int /\ held \in Int
  BY DEF Lots, Signed, Place, ReducingSide, AbsQty, TypeOK
<1>4. Bound' = Bound /\ Bound \in Nat
  BY <1>1, BoundType DEF Bound, EntryQty
<1> HIDE DEF order
<1>5. Within(Lots(order), Bound) /\ Within(held + Lots(order), Bound)
  BY <1>1, <1>3, <1>4 DEF EntryFacts, BeliefWithin, Within
<1>6. PendingWithin(requests, Bound)'
  BY <1>1, <1>2, <1>4, <1>5 DEF PendingWithin
<1>7. NoLimits'
  BY <1>1, <1>2 DEF EntryFacts, NoLimits
<1> QED
  BY <1>1, <1>4, <1>6, <1>7 DEF EntryFacts, BeliefWithin, Exits

\* An entry follows only the belief to be flat.
LEMMA EntryEntry ==
    ASSUME TypeOK, strategy = "ema_macd_rsi", EntryFacts,
           NEW p \in Closes, NEW t \in OnTicks(p), Enter(p, t)
    PROVE  EntryFacts'
<1> USE DEF account, history
<1> DEFINE d == t.orders[1]
           q == QtyOf(d, p)
<1>1. /\ pc = "synced" /\ pc' = "idle" /\ t.orders # << >> /\ q > 0
      /\ requests' = EntryRequests(d, p)
      /\ UNCHANGED <<positionQty, held, book, late, faults, arrived>>
  BY DEF Enter, Decide
<1>2. positionQty = 0 /\ d \in Decision /\ d.size = 0 /\ p \in Nat \ {0}
  BY <1>1, EmaEnters
<1>3. q \in Nat /\ q <= EntryQty /\ EntryQty \in Nat /\ held \in Int
  BY <1>1, <1>2, QtyOfType, EntryQtyIs DEF QtyOf, TypeOK
<1> HIDE DEF d, q
<1>4. /\ requests' # << >> /\ requests' \in Seq(Request)
      /\ requests'[1] = Place("MARKET", d.side, q, 0) /\ Protection(Tail(requests'))
  BY <1>1, <1>2, EntryShape DEF q
<1>5. \A i \in DOMAIN requests' :
         i # 1 => requests'[i].type \in {"STOP_MARKET", "TAKE_PROFIT_MARKET"}
  <2> SUFFICES ASSUME NEW i \in DOMAIN requests', i # 1
               PROVE  requests'[i].type \in {"STOP_MARKET", "TAKE_PROFIT_MARKET"}
    OBVIOUS
  <2>1. i - 1 \in DOMAIN Tail(requests') /\ Tail(requests')[i - 1] = requests'[i]
    BY <1>4, TailOf
  <2> QED
    BY <1>4, <2>1 DEF Protection
<1>6. Bound' = Bound /\ Bound \in Nat /\ EntryQty + 1 <= Bound
  BY <1>1, BoundType DEF Bound, EntryQty
<1>7. /\ Within(held - EntryQty, Bound) /\ Within(held + EntryQty, Bound)
      /\ Within(held, Bound)
  BY <1>1, <1>2 DEF EntryFacts, BeliefWithin
<1>8. Lots(requests'[1]) \in {q, -q}
  BY <1>4 DEF Lots, Signed, Place
<1>9. /\ Within(q, Bound) /\ Within(-q, Bound)
      /\ Within(held + q, Bound) /\ Within(held + -q, Bound)
  BY <1>3, <1>6, <1>7 DEF Within
<1>10. \A i \in DOMAIN requests' : requests'[i].type = "MARKET" =>
          /\ i = 1 /\ Within(Lots(requests'[i]), Bound) /\ Within(held + Lots(requests'[i]), Bound)
  BY <1>5, <1>8, <1>9
<1>11. \A j \in DOMAIN requests' : j > 1 => requests'[j].type # "MARKET"
  BY <1>5
<1>12. PendingWithin(requests, Bound)'
  BY <1>1, <1>6, <1>10, <1>11 DEF PendingWithin, Lots
<1>13. \A i \in DOMAIN requests' : requests'[i].type # "LIMIT"
  BY <1>4, <1>5 DEF Place
<1>14. NoLimits'
  BY <1>1, <1>13 DEF EntryFacts, NoLimits
<1>15. Within(positionQty', Bound') /\ Within(held' - positionQty', Bound') /\ positionQty' = 0
  <2>1. Within(0, Bound) /\ Within(held - 0, Bound)
    BY <1>3, <1>6, <1>7 DEF Within
  <2> QED
    BY <1>1, <1>2, <1>6, <2>1
<1>16. BeliefWithin'
  BY <1>1, <1>15 DEF BeliefWithin
<1> QED
  BY <1>1, <1>6, <1>7, <1>12, <1>14, <1>16 DEF EntryFacts

\* After a sync the engine believes in what is held, or misses one lot; a sync that
\* fails widens the bound by the entry it may lead to.
LEMMA SyncEntry ==
    ASSUME TypeOK, EntryFacts, SyncPosition \/ SyncFails
    PROVE  EntryFacts'
<1> USE DEF engine, account, history
<1>1. /\ requests = << >> /\ UNCHANGED <<globalSL, globalTP, requests, held, book, late, arrived>>
      /\ pc' = "synced"
  BY DEF SyncPosition, SyncFails
<1>2. /\ held \in Int /\ Bound \in Nat /\ EntryQty \in Nat /\ EntryQty + 1 <= Bound
      /\ positionQty \in Int /\ Within(held, Bound)
  BY BoundType, EntryQtyIs DEF TypeOK, EntryFacts
<1>3. NoLimits' /\ DOMAIN requests' = {}
  BY <1>1 DEF EntryFacts, NoLimits
<1> DEFINE now(b, qty) ==
              /\ Within(held, b)
              /\ Exits => Within(qty, b) /\ Within(held - qty, b)
              /\ qty = 0 => Within(held - EntryQty, b) /\ Within(held + EntryQty, b)
<1>4. CASE SyncPosition
  <2>1. positionQty' = NetQty(held) /\ Bound' = Bound
    BY <1>4 DEF SyncPosition, Bound, EntryQty
  <2>2. now(Bound, NetQty(held))
    <3>1. CASE held > 1 \/ held < -1
      BY <1>2, <3>1 DEF NetQty, Within
    <3>2. CASE held \in {-1, 0, 1}
      BY <1>2, <3>2 DEF NetQty, Within
    <3> QED
      BY <1>2, <3>1, <3>2
  <2> QED
    BY <1>1, <1>3, <2>1, <2>2 DEF EntryFacts, PendingWithin, BeliefWithin, Exits, EntryQty
<1>5. CASE SyncFails
  <2>1. positionQty' = positionQty /\ faults' = faults + 1 /\ arrived' = arrived + 0
    BY <1>5 DEF SyncFails, TypeOK
  <2>2. Bound' = Bound + EntryQty + 0
    BY <2>1, BoundGrows
  <2>3. Bound' = Bound + EntryQty
    BY <1>2, <2>2
  <2>4. now(Bound + EntryQty, positionQty)
    BY <1>2 DEF EntryFacts, BeliefWithin, Within
  <2> QED
    BY <1>1, <1>3, <2>1, <2>3, <2>4 DEF EntryFacts, PendingWithin, BeliefWithin, Exits, EntryQty
<1> QED
  BY <1>4, <1>5

LEMMA NextEntry ==
    ASSUME TypeOK, EntryInv, [Next]_vars
    PROVE  EntryInv'
<1> SUFFICES ASSUME strategy = "ema_macd_rsi", EntryFacts PROVE EntryFacts'
  <2>1. strategy' = strategy
    BY FaultsGrow
  <2> QED
    BY <2>1 DEF EntryInv
<1> USE DEF engine, account, history
<1>t. TypeOK'
  BY NextTypeOK
<1>a. pc' \in {pc, "idle"} /\ UNCHANGED <<engine, account, requests, late, faults, arrived>>
      => EntryFacts'
  BY DEF EntryFacts, NoLimits, Within, PendingWithin, BeliefWithin, Exits, Bound, EntryQty, Lots
<1>1. CASE SyncPosition \/ SyncFails
  BY <1>1, SyncEntry
<1>2. CASE FetchFails
  BY <1>2, <1>a DEF FetchFails
<1>3. ASSUME NEW p \in Closes, NEW t \in OnTicks(p), Hold(p, t) PROVE EntryFacts'
  BY <1>3, <1>a DEF Hold, Decide
<1>4. ASSUME NEW p \in Closes, NEW t \in OnTicks(p), GlobalExit(p, t) PROVE EntryFacts'
  BY <1>4, ExitEntry
<1>5. ASSUME NEW p \in Closes, NEW t \in OnTicks(p), Enter(p, t) PROVE EntryFacts'
  BY <1>5, EntryEntry
<1>6. ASSUME NEW p \in Closes, NEW t \in OnTicks(p), Requote(p, t) PROVE EntryFacts'
  BY <1>6, EmaEnters DEF Requote
<1>7. CASE Restart
  <2>1. /\ positionQty' = 0 /\ globalSL' = 0 /\ globalTP' = 0 /\ requests' = << >> /\ pc' = "idle"
        /\ UNCHANGED <<held, book, late, faults, arrived>>
    BY <1>7 DEF Restart
  <2>2. Bound' = Bound
    BY <2>1 DEF Bound, EntryQty
  <2> QED
    BY <2>1, <2>2 DEF EntryFacts, NoLimits, PendingWithin, BeliefWithin, Exits
<1>8. CASE Accepted
  BY <1>8, <1>t, AcceptedEntry
<1>9. CASE Refused \/ TimesOut
  BY <1>9, <1>t, FailedEntry
<1>10. ASSUME NEW r \in BagToSet(late), ArrivesLate(r) PROVE EntryFacts'
  BY <1>10, <1>t, LateEntry
<1>11. ASSUME NEW o \in BagToSet(book), NEW q \in 1..o.qty, LimitFills(o, q) PROVE EntryFacts'
  BY <1>11 DEF LimitFills, EntryFacts, NoLimits
<1>12. ASSUME NEW o \in BagToSet(book), Triggers(o) \/ Expires(o) PROVE EntryFacts'
  BY <1>12, <1>t, TriggerEntry
<1>13. CASE UNCHANGED vars
  BY <1>13, <1>a DEF vars
<1> QED
  BY <1>1, <1>2, <1>3, <1>4, <1>5, <1>6, <1>7, <1>8, <1>9, <1>10, <1>11, <1>12, <1>13 DEF Next

\* Whatever requests fail, time out or arrive late, in whatever order exits race with
\* triggers and the process restarts, ema_macd_rsi holds at most one entry, one more per
\* failure, the lots of its late orders and the lot that syncPosition does not see.
THEOREM OneEntryPerFaultHolds == Spec => []OneEntryPerFault
<1>1. TypeOK /\ Init => EntryInv
  <2> SUFFICES ASSUME TypeOK, Init PROVE EntryFacts
    BY DEF EntryInv
  <2>1. /\ held = 0 /\ positionQty = 0 /\ requests = << >> /\ globalSL = 0 /\ globalTP = 0
        /\ pc = "idle" /\ BagToSet(book) = {} /\ BagToSet(late) = {}
    BY NoBag DEF Init
  <2>2. Within(held, Bound)
    BY <2>1, BoundType DEF Within
  <2> QED
    BY <2>1, <2>2 DEF EntryFacts, NoLimits, PendingWithin, BeliefWithin, Exits
<1>2. TypeOK /\ EntryInv /\ [Next]_vars => EntryInv'
  BY NextEntry
<1>3. TypeOK /\ EntryInv => OneEntryPerFault
  <2> SUFFICES ASSUME TypeOK, strategy = "ema_macd_rsi", EntryFacts PROVE AbsQty(held) <= Bound
    BY DEF OneEntryPerFault, EntryInv, Bound
  <2>1. held \in Int /\ Bound \in Nat
    BY BoundType DEF TypeOK
  <2> QED
    BY <2>1 DEF EntryFacts, Within, AbsQty
<1> QED
  BY <1>1, <1>2, <1>3, TypeCorrect, PTL DEF Spec

-----------------------------------------------------------------------------
(* The lots that rest in the book, and the lots of the batch still to be sent. *)

LEMMA LotIn ==
    ASSUME NEW b, NEW side, NEW x
    PROVE  x \in LotsOn(b, side) <=>
             \E o \in BagToSet(b) : \E i \in 1..b[o] : \E j \in 1..o.qty :
               o.type = "LIMIT" /\ o.side = side /\ x = <<<<o, i>>, j>>
<1>1. x \in LotsOn(b, side) <=>
        \E o \in BagToSet(b) : o.type = "LIMIT" /\ o.side = side
                               /\ x \in ({o} \X (1..b[o])) \X (1..o.qty)
  BY DEF LotsOn
<1>2. \A o : x \in ({o} \X (1..b[o])) \X (1..o.qty) <=>
               \E i \in 1..b[o] : \E j \in 1..o.qty : x = <<<<o, i>>, j>>
  OBVIOUS
<1> QED
  BY <1>1, <1>2

\* The lots of copy n of an order.
CopyLots(o, n) == {<<o, n>>} \X (1..o.qty)

LEMMA CopyIn ==
    ASSUME NEW o, NEW n, NEW x
    PROVE  x \in CopyLots(o, n) <=> \E j \in 1..o.qty : x = <<<<o, n>>, j>>
  BY DEF CopyLots

LEMMA CopyCount ==
    ASSUME NEW o, NEW n, o.qty \in Nat
    PROVE  IsFiniteSet(CopyLots(o, n)) /\ Cardinality(CopyLots(o, n)) = o.qty
<1>1. \A q \in Nat : IsFiniteSet(1..q) /\ Cardinality(1..q) = q
  BY FS_Interval
<1>2. IsFiniteSet({<<o, n>>}) /\ Cardinality({<<o, n>>}) = 1
  BY FS_Singleton
<1>3. IsFiniteSet(1..o.qty) /\ Cardinality(1..o.qty) = o.qty
  BY <1>1
<1>4. IsFiniteSet(CopyLots(o, n)) /\ Cardinality(CopyLots(o, n)) = 1 * o.qty
  BY <1>2, <1>3, FS_Product DEF CopyLots
<1>5. \A q \in Nat : 1 * q = q
  OBVIOUS
<1> QED
  BY <1>4, <1>5

\* Two sets of lots that share none.
LEMMA LotsJoin ==
    ASSUME NEW S, IsFiniteSet(S), NEW T, IsFiniteSet(T), S \cap T = {}
    PROVE  /\ IsFiniteSet(S \cup T)
           /\ Cardinality(S \cup T) = Cardinality(S) + Cardinality(T)
           /\ Cardinality(S) \in Nat /\ Cardinality(T) \in Nat
<1>1. Cardinality(S) \in Nat /\ Cardinality(T) \in Nat
  BY FS_CardinalityType
<1>2. Cardinality(S \cap T) = 0
  BY FS_EmptySet
<1>3. Cardinality(S \cup T) = Cardinality(S) + Cardinality(T) - 0 /\ IsFiniteSet(S \cup T)
  BY <1>2, FS_Union
<1>4. \A a, b \in Nat : a + b - 0 = a + b
  OBVIOUS
<1> QED
  BY <1>1, <1>3, <1>4

\* A limit order more in the book adds its lots to its side.
LEMMA LotsArrive ==
    ASSUME NEW b, IsABag(b), NEW side, NEW o, o.type = "LIMIT", o.qty \in Nat,
           IsFiniteSet(LotsOn(b, side))
    PROVE  /\ IsFiniteSet(LotsOn(Ext!BagAdd(b, o), side))
           /\ Cardinality(LotsOn(Ext!BagAdd(b, o), side))
                = Cardinality(LotsOn(b, side)) + (IF o.side = side THEN o.qty ELSE 0)
           /\ Cardinality(LotsOn(b, side)) \in Nat
<1> DEFINE c == Ext!BagAdd(b, o)
           n == IF o \in BagToSet(b) THEN b[o] + 1 ELSE 1
           L == LotsOn(b, side)
           N == CopyLots(o, n)
<1>1. /\ BagToSet(c) = BagToSet(b) \cup {o}
      /\ \A p \in BagToSet(b) : p # o => c[p] = b[p]
      /\ c[o] = n /\ n \in Nat \ {0}
      /\ IF o \in BagToSet(b) THEN b[o] = n - 1 ELSE n = 1
  BY DEF Ext!BagAdd, BagToSet, IsABag
<1>2. Cardinality(L) \in Nat
  BY FS_CardinalityType
<1> HIDE DEF c, n
<1>3. CASE o.side # side
  <2>1. ASSUME NEW x PROVE x \in LotsOn(c, side) <=> x \in L
    BY <1>1, <1>3, LotIn
  <2>2. LotsOn(c, side) = L
    BY <2>1
  <2>3. \A a \in Nat : a + 0 = a
    OBVIOUS
  <2> QED
    BY <1>2, <1>3, <2>2, <2>3 DEF c
<1>4. CASE o.side = side
  <2>1. ASSUME NEW x PROVE x \in LotsOn(c, side) <=> x \in L \cup N
    <3>1. x \in LotsOn(c, side) <=>
            \E p \in BagToSet(c) : \E i \in 1..c[p] : \E j \in 1..p.qty :
              p.type = "LIMIT" /\ p.side = side /\ x = <<<<p, i>>, j>>
      BY LotIn
    <3>2. x \in L <=>
            \E p \in BagToSet(b) : \E i \in 1..b[p] : \E j \in 1..p.qty :
              p.type = "LIMIT" /\ p.side = side /\ x = <<<<p, i>>, j>>
      BY LotIn
    <3>3. x \in N <=> \E j \in 1..o.qty : x = <<<<o, n>>, j>>
      BY CopyIn
    <3>4. \A i : i \in 1..n <=> (o \in BagToSet(b) /\ i \in 1..b[o]) \/ i = n
      BY <1>1
    <3> HIDE DEF L, N
    <3>5. ASSUME x \in LotsOn(c, side) PROVE x \in L \cup N
      BY <1>1, <3>1, <3>2, <3>3, <3>4, <3>5
    <3>6. ASSUME x \in L PROVE x \in LotsOn(c, side)
      <4>1. PICK p \in BagToSet(b) : \E i \in 1..b[p] : \E j \in 1..p.qty :
              p.type = "LIMIT" /\ p.side = side /\ x = <<<<p, i>>, j>>
        BY <3>2, <3>6
      <4>2. PICK i \in 1..b[p] : \E j \in 1..p.qty : x = <<<<p, i>>, j>>
        BY <4>1
      <4>3. p \in BagToSet(c) /\ i \in 1..c[p]
        BY <1>1, <3>4, <4>1, <4>2
      <4> QED
        BY <3>1, <4>1, <4>2, <4>3
    <3>7. ASSUME x \in N PROVE x \in LotsOn(c, side)
      <4>1. o \in BagToSet(c) /\ n \in 1..c[o]
        BY <1>1
      <4> QED
        BY <1>4, <3>1, <3>3, <3>7, <4>1
    <3> QED
      BY <3>5, <3>6, <3>7
  <2>2. LotsOn(c, side) = L \cup N
    BY <2>1
  <2>3. L \cap N = {}
    <3>1. ASSUME NEW x \in L, x \in N PROVE FALSE
      <4>1. PICK p \in BagToSet(b) : \E i \in 1..b[p] : \E j \in 1..p.qty : x = <<<<p, i>>, j>>
        BY LotIn
      <4>2. PICK i \in 1..b[p] : \E j \in 1..p.qty : x = <<<<p, i>>, j>>
        BY <4>1
      <4>3. p = o /\ i = n
        BY <3>1, <4>2, CopyIn
      <4> QED
        BY <1>1, <4>3
    <3> QED
      BY <3>1
  <2>4. IsFiniteSet(N) /\ Cardinality(N) = o.qty
    BY CopyCount
  <2> HIDE DEF L, N
  <2>5. IsFiniteSet(L \cup N) /\ Cardinality(L \cup N) = Cardinality(L) + Cardinality(N)
    BY <2>3, <2>4, LotsJoin DEF L
  <2> QED
    BY <1>2, <1>4, <2>2, <2>4, <2>5 DEF L, c
<1> QED
  BY <1>3, <1>4

\* A limit order less takes them away again.
LEMMA LotsGo ==
    ASSUME NEW b, IsABag(b), NEW side, NEW o \in BagToSet(b), o.type = "LIMIT", o.qty \in Nat,
           IsFiniteSet(LotsOn(b, side))
    PROVE  /\ IsFiniteSet(LotsOn(Ext!BagRemove(b, o), side))
           /\ Cardinality(LotsOn(Ext!BagRemove(b, o), side)) \in Nat
           /\ Cardinality(LotsOn(b, side)) = Cardinality(LotsOn(Ext!BagRemove(b, o), side))
                                               + (IF o.side = side THEN o.qty ELSE 0)
<1> DEFINE c == Ext!BagRemove(b, o)
<1>1. IsABag(c)
  BY BagType
<1>2. Ext!BagAdd(c, o) = b
  BY DEF Ext!BagAdd, Ext!BagRemove, BagToSet, IsABag
<1>3. LotsOn(c, side) \subseteq LotsOn(b, side)
  <2>1. ASSUME NEW x \in LotsOn(c, side) PROVE x \in LotsOn(b, side)
    <3>1. PICK p \in BagToSet(c) : \E i \in 1..c[p] : \E j \in 1..p.qty :
            p.type = "LIMIT" /\ p.side = side /\ x = <<<<p, i>>, j>>
      BY LotIn
    <3>2. PICK i \in 1..c[p] : \E j \in 1..p.qty : x = <<<<p, i>>, j>>
      BY <3>1
    <3>3. p \in BagToSet(b) /\ i \in 1..b[p]
      BY <3>1, <3>2 DEF Ext!BagRemove, BagToSet, IsABag
    <3> HIDE DEF c
    <3> QED
      BY <3>1, <3>2, <3>3, LotIn
  <2> QED
    BY <2>1
<1> HIDE DEF c
<1>4. IsFiniteSet(LotsOn(c, side))
  BY <1>3, FS_Subset
<1> QED
  BY <1>1, <1>2, <1>4, LotsArrive DEF c

LEMMA NoLots ==
    ASSUME NEW side
    PROVE  IsFiniteSet(LotsOn(EmptyBag, side)) /\ Cardinality(LotsOn(EmptyBag, side)) = 0
<1>1. LotsOn(EmptyBag, side) = {}
  BY NoBag DEF LotsOn
<1> QED
  BY <1>1, FS_EmptySet

\* The lots of the limit orders of a side among requests.
PendingLots(rs, side) ==
    UNION {{i} \X (1..rs[i].qty) : i \in {k \in DOMAIN rs : rs[k].type = "LIMIT" /\ rs[k].side = side}}

LEMMA PendingIn ==
    ASSUME NEW rs, NEW side, NEW x
    PROVE  x \in PendingLots(rs, side) <=>
             \E i \in DOMAIN rs : \E j \in 1..rs[i].qty :
               rs[i].type = "LIMIT" /\ rs[i].side = side /\ x = <<i, j>>
<1>1. x \in PendingLots(rs, side) <=>
        \E i \in DOMAIN rs : rs[i].type = "LIMIT" /\ rs[i].side = side
                             /\ x \in {i} \X (1..rs[i].qty)
  BY DEF PendingLots
<1>2. \A i : x \in {i} \X (1..rs[i].qty) <=> \E j \in 1..rs[i].qty : x = <<i, j>>
  OBVIOUS
<1> QED
  BY <1>1, <1>2

\* The lots of the first request on a side.
HeadLots(r, side) == IF r.type = "LIMIT" /\ r.side = side THEN {1} \X (1..r.qty) ELSE {}

LEMMA HeadCount ==
    ASSUME NEW r, NEW side, r.type = "LIMIT" => r.qty \in Nat
    PROVE  /\ IsFiniteSet(HeadLots(r, side))
           /\ Cardinality(HeadLots(r, side)) = IF r.type = "LIMIT" /\ r.side = side THEN r.qty ELSE 0
<1>1. \A q \in Nat : IsFiniteSet(1..q) /\ Cardinality(1..q) = q
  BY FS_Interval
<1>2. IsFiniteSet({1}) /\ Cardinality({1}) = 1 /\ IsFiniteSet({}) /\ Cardinality({}) = 0
  BY FS_Singleton, FS_EmptySet
<1>3. ASSUME NEW q \in Nat
      PROVE  IsFiniteSet({1} \X (1..q)) /\ Cardinality({1} \X (1..q)) = 1 * q
  <2>1. IsFiniteSet(1..q) /\ Cardinality(1..q) = q
    BY <1>1
  <2>2. IsFiniteSet({1} \X (1..q))
        /\ Cardinality({1} \X (1..q)) = Cardinality({1}) * Cardinality(1..q)
    BY <1>2, <2>1, FS_Product
  <2> QED
    BY <1>2, <2>1, <2>2
<1>4. \A q \in Nat : 1 * q = q
  OBVIOUS
<1> QED
  BY <1>2, <1>3, <1>4 DEF HeadLots

\* Without its first request, what is pending are the other lots, renumbered.
LEMMA ShiftedLots ==
    ASSUME NEW rs, NEW rest, NEW side,
           1 \in DOMAIN rs, \A i \in DOMAIN rs : i \in Nat,
           \A i \in DOMAIN rest : i \in Nat /\ i + 1 \in DOMAIN rs /\ rest[i] = rs[i + 1],
           \A i \in DOMAIN rs : i # 1 => i - 1 \in DOMAIN rest /\ rest[i - 1] = rs[i],
           0 \notin DOMAIN rest
    PROVE  /\ HeadLots(rs[1], side) \subseteq PendingLots(rs, side)
           /\ ExistsBijection(PendingLots(rest, side), PendingLots(rs, side) \ HeadLots(rs[1], side))
<1> DEFINE P == PendingLots(rs, side)
           T == PendingLots(rest, side)
           F == HeadLots(rs[1], side)
           later == P \ F
           f == [x \in T |-> <<x[1] + 1, x[2]>>]
<1>1. \A x : x \in F <=> rs[1].type = "LIMIT" /\ rs[1].side = side /\ \E j \in 1..rs[1].qty : x = <<1, j>>
  BY DEF HeadLots
<1>2. F \subseteq P
  <2>1. ASSUME NEW x \in F PROVE x \in P
    BY <1>1, PendingIn
  <2> QED
    BY <2>1
<1>3. ASSUME NEW x \in T PROVE f[x] \in later
  <2>1. PICK i \in DOMAIN rest : \E j \in 1..rest[i].qty :
          rest[i].type = "LIMIT" /\ rest[i].side = side /\ x = <<i, j>>
    <3> HIDE DEF f, later, F, P
    <3> QED
      BY PendingIn
  <2>2. PICK j \in 1..rest[i].qty : x = <<i, j>>
    BY <2>1
  <2>3. f[x] = <<i + 1, j>>
    BY <2>2
  <2>4. i + 1 \in DOMAIN rs /\ rest[i] = rs[i + 1] /\ i + 1 # 1
    OBVIOUS
  <2> HIDE DEF f
  <2>5. f[x] \in P
    BY <2>1, <2>2, <2>3, <2>4, PendingIn
  <2>6. f[x] \notin F
    BY <1>1, <2>3, <2>4
  <2> QED
    BY <2>5, <2>6
<1>4. ASSUME NEW x \in T, NEW y \in T, f[x] = f[y] PROVE x = y
  <2>1. ASSUME NEW z \in T PROVE \E i \in Nat : \E j : z = <<i, j>> /\ f[z] = <<i + 1, j>>
    <3>1. \E i \in DOMAIN rest : \E j : z = <<i, j>>
      <4> HIDE DEF f, later, F, P
      <4> QED
        BY PendingIn
    <3> QED
      BY <3>1
  <2>2. PICK i \in Nat : \E j : x = <<i, j>> /\ f[x] = <<i + 1, j>>
    BY <2>1
  <2>3. PICK k \in Nat : \E j : y = <<k, j>> /\ f[y] = <<k + 1, j>>
    BY <2>1
  <2> QED
    BY <1>4, <2>2, <2>3
<1>5. ASSUME NEW y \in later PROVE \E x \in T : f[x] = y
  <2>1. PICK i \in DOMAIN rs : \E j \in 1..rs[i].qty :
          rs[i].type = "LIMIT" /\ rs[i].side = side /\ y = <<i, j>>
    BY PendingIn
  <2>2. PICK j \in 1..rs[i].qty : y = <<i, j>>
    BY <2>1
  <2>3. i # 1
    BY <1>1, <2>1, <2>2
  <2>4. i - 1 \in DOMAIN rest /\ rest[i - 1] = rs[i] /\ (i - 1) + 1 = i
    BY <2>3
  <2>5. <<i - 1, j>> \in T
    BY <2>1, <2>2, <2>4, PendingIn
  <2>6. f[<<i - 1, j>>] = <<i, j>>
    BY <2>4, <2>5
  <2> QED
    BY <2>2, <2>5, <2>6
<1>6. f \in Bijection(T, later)
  <2>1. f \in [T -> later]
    BY <1>3
  <2>2. f \in Injection(T, later)
    BY <1>4, <2>1 DEF Injection, IsInjective
  <2>3. f \in Surjection(T, later)
    BY <1>5, <2>1 DEF Surjection
  <2> QED
    BY <2>2, <2>3 DEF Bijection
<1> QED
  BY <1>2, <1>6 DEF ExistsBijection

\* Sending the first request takes its lots out of what is pending.
LEMMA TailLots ==
    ASSUME NEW S, NEW rs \in Seq(S), rs # << >>, NEW side,
           rs[1].type = "LIMIT" => rs[1].qty \in Nat,
           IsFiniteSet(PendingLots(rs, side)) \/ IsFiniteSet(PendingLots(Tail(rs), side))
    PROVE  LET n == IF rs[1].type = "LIMIT" /\ rs[1].side = side THEN rs[1].qty ELSE 0
           IN  /\ IsFiniteSet(PendingLots(rs, side)) /\ IsFiniteSet(PendingLots(Tail(rs), side))
               /\ Cardinality(PendingLots(Tail(rs), side)) \in Nat /\ n \in Nat
               /\ Cardinality(PendingLots(rs, side)) = n + Cardinality(PendingLots(Tail(rs), side))
<1> DEFINE n == IF rs[1].type = "LIMIT" /\ rs[1].side = side THEN rs[1].qty ELSE 0
           P == PendingLots(rs, side)
           T == PendingLots(Tail(rs), side)
           F == HeadLots(rs[1], side)
           later == P \ F
<1>1. /\ 1 \in DOMAIN rs /\ \A i \in DOMAIN rs : i \in Nat
      /\ \A i \in DOMAIN Tail(rs) : i \in Nat /\ i + 1 \in DOMAIN rs /\ Tail(rs)[i] = rs[i + 1]
      /\ \A i \in DOMAIN rs : i # 1 => i - 1 \in DOMAIN Tail(rs) /\ Tail(rs)[i - 1] = rs[i]
      /\ 0 \notin DOMAIN Tail(rs)
  OBVIOUS
<1>2. F \subseteq P /\ ExistsBijection(T, later)
  BY <1>1, ShiftedLots
<1>3. n \in Nat /\ IsFiniteSet(F) /\ Cardinality(F) = n
  BY HeadCount
<1> HIDE DEF n, P, T, F, later
<1>4. P = F \cup later /\ F \cap later = {}
  BY <1>2 DEF later
<1>5. IsFiniteSet(T) /\ IsFiniteSet(later) /\ Cardinality(later) = Cardinality(T)
  <2>1. CASE IsFiniteSet(T)
    BY <1>2, <2>1, FS_Bijection
  <2>2. CASE IsFiniteSet(P)
    <3>1. IsFiniteSet(later)
      BY <2>2, FS_Difference DEF later
    <3>2. PICK f : f \in Bijection(T, later)
      BY <1>2 DEF ExistsBijection
    <3>3. f \in Injection(T, later)
      BY <3>2 DEF Bijection
    <3>4. IsFiniteSet(T)
      BY <3>1, <3>3, FS_Injection
    <3> QED
      BY <1>2, <3>4, FS_Bijection
  <2> QED
    BY <2>1, <2>2 DEF T, P
<1>6. IsFiniteSet(P) /\ Cardinality(P) = Cardinality(F) + Cardinality(later)
  BY <1>3, <1>4, <1>5, LotsJoin
<1>7. Cardinality(T) \in Nat
  BY <1>5, FS_CardinalityType
<1> QED
  BY <1>3, <1>5, <1>6, <1>7 DEF P, T, n

LEMMA NonePending ==
    ASSUME NEW side
    PROVE  IsFiniteSet(PendingLots(<< >>, side)) /\ Cardinality(PendingLots(<< >>, side)) = 0
<1>1. PendingLots(<< >>, side) = {}
  BY DEF PendingLots
<1> QED
  BY <1>1, FS_EmptySet

\* A batch of quotes cancels the book and asks for what was decided.
LEMMA QuotesPending ==
    ASSUME NEW orders \in Seq(Decision), NEW price \in Nat \ {0}, NEW side, Resting(orders),
           IsFiniteSet(QuotedLots(orders, side))
    PROVE  LET rs == Quotes(orders, price)
           IN  /\ rs # << >> /\ rs[1].type = "CANCEL_ALL"
               /\ \A i \in DOMAIN rs : i # 1 => rs[i].type = "LIMIT"
               /\ IsFiniteSet(PendingLots(rs, side))
               /\ Cardinality(PendingLots(rs, side)) = Cardinality(QuotedLots(orders, side))
<1> DEFINE rs == Quotes(orders, price)
           limits == [k \in DOMAIN orders |->
                        Place("LIMIT", orders[k].side, QtyOf(orders[k], price), orders[k].price)]
<1>1. \A k \in DOMAIN orders : /\ limits[k].type = "LIMIT" /\ limits[k].side = orders[k].side
                               /\ limits[k].qty = orders[k].size
  BY DEF Place, QtyOf, Resting
<1>2. PendingLots(limits, side) = QuotedLots(orders, side)
  <2>1. DOMAIN limits = DOMAIN orders
    OBVIOUS
  <2> HIDE DEF limits
  <2>2. ASSUME NEW x PROVE x \in PendingLots(limits, side) <=> x \in QuotedLots(orders, side)
    BY <1>1, <2>1 DEF PendingLots, QuotedLots, Quoted
  <2> QED
    BY <2>2
<1>3. rs = <<CancelAll>> \o limits
  BY DEF Quotes
<1>4. limits \in Seq(Request)
  <2>1. ASSUME NEW k \in DOMAIN orders PROVE limits[k] \in Request
    <3>1. orders[k] \in Decision
      OBVIOUS
    <3>2. orders[k].side \in Sides /\ QtyOf(orders[k], price) \in Nat /\ orders[k].price \in Int
      BY <3>1, QtyOfType DEF Decision
    <3> QED
      BY <3>2, PlaceType DEF Types
  <2> QED
    BY <2>1
<1>5. \A k \in DOMAIN limits : limits[k].type = "LIMIT"
  BY <1>1
<1> HIDE DEF rs, limits
<1>6. /\ rs \in Seq(Request) /\ rs # << >> /\ rs[1] = CancelAll /\ Tail(rs) = limits
      /\ \A i \in DOMAIN rs : i # 1 => i - 1 \in DOMAIN limits /\ rs[i] = limits[i - 1]
  <2>1. CancelAll \in Request
    BY CancelType
  <2> QED
    BY <1>3, <1>4, <2>1
<1>7. rs[1].type = "CANCEL_ALL"
  BY <1>6 DEF CancelAll
<1>8. /\ IsFiniteSet(PendingLots(rs, side))
      /\ Cardinality(PendingLots(rs, side)) = 0 + Cardinality(PendingLots(limits, side))
      /\ Cardinality(PendingLots(limits, side)) \in Nat
  <2>1. rs \in Seq(Request) /\ rs # << >> /\ rs[1].type # "LIMIT"
    BY <1>6, <1>7
  <2>2. IsFiniteSet(PendingLots(Tail(rs), side))
    BY <1>2, <1>6
  <2>3. /\ IsFiniteSet(PendingLots(rs, side))
        /\ Cardinality(PendingLots(rs, side)) = 0 + Cardinality(PendingLots(Tail(rs), side))
        /\ Cardinality(PendingLots(Tail(rs), side)) \in Nat
    BY <2>1, <2>2, TailLots
  <2> QED
    BY <1>6, <2>3
<1> QED
  BY <1>2, <1>5, <1>6, <1>7, <1>8 DEF rs

-----------------------------------------------------------------------------
(* The inventory of the grid. *)

\* The limit on what the grid may come to hold.
InventoryLimit == GridLimit + standDowns * BatchLots

Pending(side) == Cardinality(PendingLots(requests, side))

\* The book is about to be cancelled, so nothing of it stays.
CancelComes == requests # << >> /\ requests[1].type = "CANCEL_ALL"

Staying(side) == IF CancelComes THEN 0 ELSE RestingLots(side)

\* Lots held on a side (h), resting (r), still to rest (q), and of the resting ones those
\* that no cancellation on its way will take (s).  Either what rests is one batch, or it
\* fits under the limit with a batch to spare; all of it fits even when all of it fills.
Fits(h, r, q, s, limit) ==
    /\ r <= BatchLots \/ h + r <= limit - BatchLots
    /\ s + q <= BatchLots \/ h + r + q <= limit - BatchLots
    /\ h + r + q <= limit
    /\ r <= limit /\ s + q <= limit

\* A position p read a moment ago: if it leaves room to quote there is room for a batch,
\* and the order that closes it fits beside the orders that are still in the book.
ReadFits(h, r, p, limit) ==
    /\ p + GridSize <= GridMaxPosition => h + r <= limit - BatchLots
    /\ p # 0 => h + r - p <= limit
    /\ -p <= limit

SideFits(side) ==
    /\ IsFiniteSet(LotsOn(book, side)) /\ IsFiniteSet(PendingLots(requests, side))
    /\ Fits(Signed(side, held), RestingLots(side), Pending(side), Staying(side), InventoryLimit)
    /\ pc = "synced" =>
         ReadFits(Signed(side, held), RestingLots(side), Signed(side, positionQty), InventoryLimit)

\* A grid that lost no request has no stops, no request on its way besides its batch,
\* and only limit orders: its position moves by their fills alone.
GridPlain ==
    /\ globalSL = 0 /\ globalTP = 0
    /\ BagToSet(late) = {}
    /\ \A o \in BagToSet(book) : o.type = "LIMIT"
    /\ \A i \in DOMAIN requests :
         requests[i].type = "LIMIT" \/ (i = 1 /\ requests[i].type = "CANCEL_ALL")
    /\ pc = "synced" => requests = << >>

GridFacts == GridPlain /\ \A side \in Sides : SideFits(side)

\* The inductive invariant.
GridInv == strategy = "grid_mm" /\ faults = 0 => GridFacts

\* The arithmetic of the limit.
LEMMA LimitFacts ==
    ASSUME TypeOK
    PROVE  /\ BatchLots \in Nat /\ InventoryLimit \in Nat /\ GridSize \in Nat /\ GridMaxPosition \in Nat
           /\ InventoryLimit >= GridMaxPosition - GridSize + 2 * BatchLots
           /\ InventoryLimit >= 1 + 2 * BatchLots
<1>1. GridLevels \in Nat /\ GridSize \in Nat /\ GridMaxPosition \in Nat /\ standDowns \in Nat
  BY StrategyAssumption DEF TypeOK
<1>2. BatchLots \in Nat /\ \A a, b \in Nat : a * b \in Nat
  BY <1>1 DEF BatchLots
<1>3. standDowns * BatchLots \in Nat
  BY <1>1, <1>2
<1> HIDE DEF BatchLots
<1> DEFINE extra == standDowns * BatchLots
<1>4. InventoryLimit = Larger(GridMaxPosition - GridSize, 1) + 2 * BatchLots + extra
  BY DEF InventoryLimit, GridLimit
<1> HIDE DEF extra
<1>5. extra \in Nat
  BY <1>3 DEF extra
<1> QED
  BY <1>1, <1>2, <1>4, <1>5 DEF Larger

LEMMA SideNumbers ==
    ASSUME TypeOK, NEW side \in Sides, SideFits(side)
    PROVE  /\ Signed(side, held) \in Int /\ Signed(side, positionQty) \in Int
           /\ RestingLots(side) \in Nat /\ Pending(side) \in Nat /\ Staying(side) \in Nat
           /\ Staying(side) <= RestingLots(side)
<1>1. RestingLots(side) \in Nat /\ Pending(side) \in Nat
  BY FS_CardinalityType DEF SideFits, RestingLots, Pending
<1> QED
  BY <1>1 DEF TypeOK, Signed, Staying

LEMMA NothingSigned ==
    ASSUME NEW side
    PROVE  Signed(side, 0) = 0
<1>1. -0 \in Int /\ -0 <= 0 /\ -0 >= 0
  OBVIOUS
<1>2. \A x \in Int : x <= 0 /\ x >= 0 => x = 0
  OBVIOUS
<1>3. -0 = 0
  BY <1>1, <1>2, Zenon
<1> QED
  BY <1>3, Zenon DEF Signed

LEMMA GridInit == Init => GridInv
<1> SUFFICES ASSUME Init, strategy = "grid_mm" PROVE GridFacts
  BY DEF GridInv
<1>1. TypeOK
  BY InitTypeOK
<1>2. GridPlain
  BY NoBag DEF Init, GridPlain
<1>3. ASSUME NEW side \in Sides PROVE SideFits(side)
  <2>1. /\ IsFiniteSet(LotsOn(book, side)) /\ RestingLots(side) = 0
        /\ IsFiniteSet(PendingLots(requests, side)) /\ Pending(side) = 0
    BY NoLots, NonePending DEF Init, RestingLots, Pending
  <2>2. Staying(side) = 0 /\ pc # "synced"
    BY <2>1 DEF Init, Staying, CancelComes
  <2>4. Signed(side, held) = 0
    BY NothingSigned DEF Init
  <2>3. BatchLots \in Nat /\ InventoryLimit \in Nat
    BY <1>1, LimitFacts
  <2> QED
    BY <2>1, <2>2, <2>3, <2>4 DEF SideFits, Fits
<1> QED
  BY <1>2, <1>3 DEF GridFacts

\* What the grid decides: nothing but quotes, on a side on which it believes to have
\* room, and when it stands down one order for the position it believes in.
LEMMA GridDecides ==
    ASSUME TypeOK, strategy = "grid_mm", NEW p \in Closes, NEW t \in OnTicks(p), NEW side \in Sides
    PROVE  LET q == Cardinality(QuotedLots(t.orders, side))
           IN  /\ Resting(t.orders) /\ p \in Nat \ {0} /\ t.orders \in Seq(Decision)
               /\ IsFiniteSet(QuotedLots(t.orders, side)) /\ q \in Nat
               /\ \/ q = 0
                  \/ t.standDown /\ q <= -Signed(side, positionQty)
                  \/ Signed(side, positionQty) + GridSize <= GridMaxPosition /\ q <= BatchLots
<1>1. p \in Nat \ {0} /\ t \in Tick
  BY OnTicksType
<1>2. t \in OnTick("grid_mm", p, positionQty, tick.mem)
  BY DEF OnTicks
<1>3. PICK s \in BOOLEAN : t = [orders |-> GridOnTick(p, positionQty, s), mem |-> tick.mem, standDown |-> s]
  BY <1>2 DEF OnTick, Regimes
<1>4. t.orders = GridOnTick(p, positionQty, s) /\ t.standDown = s /\ positionQty \in Int
  BY <1>3 DEF TypeOK
<1>5. /\ Resting(t.orders)
      /\ QuotesWithin(t.orders, side, positionQty, GridSize, GridMaxPosition, GridLevels * GridSize)
      /\ ~s /\ QuotedLots(t.orders, side) # {} =>
           /\ SignedQty(side, positionQty) + GridSize <= GridMaxPosition
           /\ Cardinality(QuotedLots(t.orders, side)) <= GridLevels * GridSize
  BY <1>4, GridSides
<1>6. SignedQty(side, positionQty) = Signed(side, positionQty)
  BY DEF SignedQty, Signed
<1>7. IsFiniteSet(QuotedLots(t.orders, side)) /\ Cardinality(QuotedLots(t.orders, side)) \in Nat
  BY <1>5 DEF QuotesWithin
<1>8. CASE s
  BY <1>1, <1>4, <1>5, <1>6, <1>7, <1>8 DEF QuotesWithin, BatchLots, Tick
<1>9. CASE ~s
  <2>1. QuotedLots(t.orders, side) = {} => Cardinality(QuotedLots(t.orders, side)) = 0
    BY FS_EmptySet
  <2> QED
    BY <1>1, <1>5, <1>6, <1>7, <1>9, <2>1 DEF BatchLots, Tick
<1> QED
  BY <1>8, <1>9

\* The arithmetic of the steps: n lots of a side trade, or m of the other one, ...
LEMMA FillFits ==
    ASSUME NEW h \in Int, NEW r \in Nat, NEW q \in Nat, NEW s \in Nat, NEW limit \in Nat,
           BatchLots \in Nat, GridSize \in Nat, GridMaxPosition \in Nat,
           NEW n \in Nat, n <= r, NEW m \in Nat, NEW x \in Int, NEW z \in Nat, z <= s,
           Fits(h, r, q, s, limit)
    PROVE  /\ Fits(h + n - m, r - n, q, z, limit)
           /\ ReadFits(h, r, x, limit) => ReadFits(h + n - m, r - n, x, limit)
  BY DEF Fits, ReadFits

\* ... the book is cancelled, or n lots of the batch are put in it, ...
LEMMA SendFits ==
    ASSUME NEW h \in Int, NEW r \in Nat, NEW q \in Nat, NEW s \in Nat, NEW limit \in Nat,
           BatchLots \in Nat, NEW n \in Nat, NEW rest \in Nat, q = n + rest,
           Fits(h, r, q, s, limit)
    PROVE  /\ Fits(h, 0, q, 0, limit)
           /\ s = r => Fits(h, r + n, rest, r + n, limit)
  BY DEF Fits

\* ... the batch is forgotten, ...
LEMMA RestartFits ==
    ASSUME NEW h \in Int, NEW r \in Nat, NEW q \in Nat, NEW s \in Nat, NEW limit \in Nat,
           BatchLots \in Nat, Fits(h, r, q, s, limit)
    PROVE  Fits(h, r, 0, r, limit)
  BY DEF Fits

\* ... the position is read when no batch is under way (o is what the other side may
\* come to hold), ...
LEMMA ReadNow ==
    ASSUME NEW h \in Int, NEW r \in Nat, NEW limit \in Nat, NEW p \in Int, NEW o \in Nat,
           BatchLots \in Nat, GridSize \in Nat, GridMaxPosition \in Nat,
           limit >= GridMaxPosition - GridSize + 2 * BatchLots, limit >= 1 + 2 * BatchLots,
           Fits(h, r, 0, r, limit), -h + o <= limit,
           p = h \/ (p = 0 /\ h <= 1)
    PROVE  ReadFits(h, r, p, limit)
  BY DEF Fits, ReadFits

\* ... and a batch of q lots is decided on the position that was read.
LEMMA QuoteFits ==
    ASSUME NEW h \in Int, NEW r \in Nat, NEW limit \in Nat, NEW p \in Int, NEW q \in Nat,
           NEW more \in Nat, NEW s \in Nat,
           BatchLots \in Nat, GridSize \in Nat, GridMaxPosition \in Nat, limit >= BatchLots,
           Fits(h, r, 0, s, limit), ReadFits(h, r, p, limit),
           \/ q = 0
           \/ q <= -p /\ more >= BatchLots
           \/ p + GridSize <= GridMaxPosition /\ q <= BatchLots
    PROVE  Fits(h, r, q, 0, limit + more)
  BY DEF Fits, ReadFits

-----------------------------------------------------------------------------
(* The steps of the grid. *)

\* The engine stays where it is or gives up on the candle.
LEMMA GridStill ==
    ASSUME GridFacts, UNCHANGED <<book, held, late, requests, globalSL, globalTP, standDowns>>,
           pc' = "idle" \/ UNCHANGED <<pc, positionQty>>
    PROVE  GridFacts'
<1>1. GridPlain'
  BY DEF GridFacts, GridPlain
<1>2. ASSUME NEW side \in Sides PROVE SideFits(side)'
  <2>1. SideFits(side)
    BY DEF GridFacts
  <2>2. /\ RestingLots(side)' = RestingLots(side) /\ Pending(side)' = Pending(side)
        /\ Staying(side)' = Staying(side) /\ InventoryLimit' = InventoryLimit
        /\ Signed(side, held)' = Signed(side, held)
        /\ LotsOn(book, side)' = LotsOn(book, side)
        /\ PendingLots(requests, side)' = PendingLots(requests, side)
    BY DEF RestingLots, Pending, Staying, CancelComes, InventoryLimit
  <2>3. pc' = "synced" => pc = "synced" /\ Signed(side, positionQty)' = Signed(side, positionQty)
    OBVIOUS
  <2>4. Fits(Signed(side, held), RestingLots(side), Pending(side), Staying(side), InventoryLimit)'
    BY <2>1, <2>2 DEF SideFits, Fits, BatchLots
  <2>5. ASSUME pc' = "synced"
        PROVE  ReadFits(Signed(side, held), RestingLots(side), Signed(side, positionQty), InventoryLimit)'
    BY <2>1, <2>2, <2>3, <2>5 DEF SideFits, ReadFits, BatchLots
  <2> QED
    BY <2>1, <2>2, <2>4, <2>5 DEF SideFits
<1> QED
  BY <1>1, <1>2 DEF GridFacts

LEMMA GridSyncs ==
    ASSUME TypeOK, GridFacts, SyncPosition
    PROVE  GridFacts'
<1> USE DEF account, history
<1>1. /\ requests = << >> /\ pc' = "synced" /\ positionQty' = NetQty(held)
      /\ UNCHANGED <<book, held, late, requests, globalSL, globalTP, standDowns>>
  BY DEF SyncPosition
<1>2. GridPlain'
  BY <1>1 DEF GridFacts, GridPlain
<1>3. ASSUME NEW side \in Sides PROVE SideFits(side)'
  <2>1. SideFits(side) /\ \A other \in Sides : SideFits(other)
    BY DEF GridFacts
  <2>2. /\ RestingLots(side)' = RestingLots(side) /\ Pending(side)' = Pending(side)
        /\ Staying(side)' = Staying(side) /\ InventoryLimit' = InventoryLimit
        /\ Signed(side, held)' = Signed(side, held)
        /\ LotsOn(book, side)' = LotsOn(book, side)
        /\ PendingLots(requests, side)' = PendingLots(requests, side)
    BY <1>1 DEF RestingLots, Pending, Staying, CancelComes, InventoryLimit
  <2>3. Pending(side) = 0 /\ Staying(side) = RestingLots(side)
    BY <1>1, NonePending DEF Pending, Staying, CancelComes
  <2>4. Fits(Signed(side, held), RestingLots(side), 0, RestingLots(side), InventoryLimit)
    BY <2>1, <2>3 DEF SideFits
  <2>5. \E o \in Nat : -Signed(side, held) + o <= InventoryLimit
    <3> DEFINE other == Opposite(side)
    <3>1. other \in Sides /\ Signed(other, held) = -Signed(side, held)
      BY DEF Opposite, Sides, Signed, TypeOK
    <3> HIDE DEF other
    <3>2. /\ Signed(other, held) + RestingLots(other) + Pending(other) <= InventoryLimit
          /\ RestingLots(other) \in Nat /\ Pending(other) \in Nat /\ Signed(other, held) \in Int
      BY <2>1, <3>1, SideNumbers DEF SideFits, Fits
    <3>3. InventoryLimit \in Nat
      BY LimitFacts
    <3> QED
      BY <3>1, <3>2, <3>3
  <2>6. \/ Signed(side, positionQty') = Signed(side, held)
        \/ Signed(side, positionQty') = 0 /\ Signed(side, held) <= 1
    <3>1. \A x \in Int : NetQty(x) = x \/ (NetQty(x) = 0 /\ Signed(side, x) <= 1)
      BY DEF NetQty, Signed
    <3>2. held \in Int
      BY DEF TypeOK
    <3>3. CASE NetQty(held) = held
      BY <1>1, <3>3
    <3>4. CASE NetQty(held) = 0 /\ Signed(side, held) <= 1
      BY <1>1, <3>4, NothingSigned
    <3> QED
      BY <3>1, <3>2, <3>3, <3>4
  <2>7. Signed(side, positionQty') \in Int
    BY <1>1 DEF NetQty, Signed, TypeOK
  <2>8. ReadFits(Signed(side, held), RestingLots(side), Signed(side, positionQty'), InventoryLimit)
    BY <2>1, <2>4, <2>5, <2>6, <2>7, LimitFacts, SideNumbers, ReadNow
  <2> QED
    BY <2>1, <2>2, <2>8 DEF SideFits, Fits, ReadFits, BatchLots
<1> QED
  BY <1>2, <1>3 DEF GridFacts

LEMMA GridRequotes ==
    ASSUME TypeOK, GridFacts, strategy = "grid_mm",
           NEW p \in Closes, NEW t \in OnTicks(p), Requote(p, t)
    PROVE  GridFacts'
<1> USE DEF engine, account
<1> DEFINE more == IF t.standDown THEN BatchLots ELSE 0
<1>1. /\ pc = "synced" /\ pc' = "idle" /\ requests' = Quotes(t.orders, p)
      /\ standDowns' = standDowns + (IF t.standDown THEN 1 ELSE 0)
      /\ UNCHANGED <<book, held, late, globalSL, globalTP>>
  BY DEF Requote, Decide
<1>2. requests = << >>
  BY <1>1 DEF GridFacts, GridPlain
<1>3. InventoryLimit' = InventoryLimit + more
  <2>1. BatchLots \in Nat /\ standDowns \in Nat /\ GridLimit \in Int
    <3>1. GridMaxPosition \in Nat /\ GridSize \in Nat
      BY StrategyAssumption
    <3> QED
      BY <3>1, LimitFacts DEF TypeOK, GridLimit, Larger
  <2>2. (standDowns + 1) * BatchLots = standDowns * BatchLots + BatchLots
        /\ standDowns * BatchLots \in Nat /\ standDowns + 0 = standDowns
    BY <2>1
  <2>3. InventoryLimit' = GridLimit + standDowns' * BatchLots
    BY DEF InventoryLimit, GridLimit, BatchLots
  <2> QED
    BY <1>1, <2>1, <2>2, <2>3 DEF InventoryLimit
<1>4. ASSUME NEW side \in Sides PROVE SideFits(side)'
  <2> DEFINE q == Cardinality(QuotedLots(t.orders, side))
  <2>1. SideFits(side)
    BY DEF GridFacts
  <2>2. /\ Resting(t.orders) /\ p \in Nat \ {0} /\ t.orders \in Seq(Decision)
        /\ IsFiniteSet(QuotedLots(t.orders, side)) /\ q \in Nat
        /\ \/ q = 0
           \/ t.standDown /\ q <= -Signed(side, positionQty)
           \/ Signed(side, positionQty) + GridSize <= GridMaxPosition /\ q <= BatchLots
    BY GridDecides
  <2>3. /\ requests' # << >> /\ requests'[1].type = "CANCEL_ALL"
        /\ IsFiniteSet(PendingLots(requests', side)) /\ Cardinality(PendingLots(requests', side)) = q
    BY <1>1, <2>2, QuotesPending
  <2>4. Pending(side) = 0
    BY <1>2, NonePending DEF Pending
  <2> HIDE DEF q
  <2>5. /\ BatchLots \in Nat /\ InventoryLimit \in Nat /\ GridSize \in Nat /\ GridMaxPosition \in Nat
        /\ InventoryLimit >= BatchLots
    BY LimitFacts
  <2>6. more \in Nat /\ (t.standDown => more >= BatchLots)
    BY <2>5
  <2> HIDE DEF more
  <2>7. /\ Fits(Signed(side, held), RestingLots(side), 0, Staying(side), InventoryLimit)
        /\ ReadFits(Signed(side, held), RestingLots(side), Signed(side, positionQty), InventoryLimit)
    BY <1>1, <2>1, <2>4 DEF SideFits
  <2>8. Fits(Signed(side, held), RestingLots(side), q, 0, InventoryLimit + more)
    BY <2>1, <2>2, <2>5, <2>6, <2>7, SideNumbers, QuoteFits
  <2>9. /\ RestingLots(side)' = RestingLots(side) /\ Pending(side)' = q /\ Staying(side)' = 0
        /\ Signed(side, held)' = Signed(side, held) /\ LotsOn(book, side)' = LotsOn(book, side)
    BY <1>1, <2>3 DEF RestingLots, Pending, Staying, CancelComes
  <2>10. Fits(Signed(side, held), RestingLots(side), Pending(side), Staying(side), InventoryLimit)'
    BY <1>3, <2>8, <2>9 DEF Fits, BatchLots
  <2> QED
    BY <1>1, <2>1, <2>3, <2>9, <2>10 DEF SideFits
<1>5. GridPlain'
  <2>1. "BUY" \in Sides
    BY DEF Sides
  <2>2. /\ Resting(t.orders) /\ p \in Nat \ {0} /\ t.orders \in Seq(Decision)
        /\ IsFiniteSet(QuotedLots(t.orders, "BUY"))
    BY <2>1, GridDecides
  <2>3. /\ requests'[1].type = "CANCEL_ALL"
        /\ \A i \in DOMAIN requests' : i # 1 => requests'[i].type = "LIMIT"
    BY <1>1, <2>2, QuotesPending
  <2> QED
    BY <1>1, <2>3 DEF GridFacts, GridPlain
<1> QED
  BY <1>4, <1>5 DEF GridFacts

\* The engine forgets its batch; the book stays.
LEMMA GridRestarts ==
    ASSUME TypeOK, GridFacts, Restart
    PROVE  GridFacts'
<1> USE DEF account, history
<1>1. /\ requests' = << >> /\ pc' = "idle" /\ globalSL' = 0 /\ globalTP' = 0
      /\ UNCHANGED <<book, held, late, standDowns>>
  BY DEF Restart
<1>2. GridPlain'
  BY <1>1 DEF GridFacts, GridPlain
<1>3. ASSUME NEW side \in Sides PROVE SideFits(side)'
  <2>1. SideFits(side)
    BY DEF GridFacts
  <2>2. /\ RestingLots(side)' = RestingLots(side) /\ InventoryLimit' = InventoryLimit
        /\ Signed(side, held)' = Signed(side, held)
        /\ LotsOn(book, side)' = LotsOn(book, side)
    BY <1>1 DEF RestingLots, InventoryLimit
  <2>3. /\ IsFiniteSet(PendingLots(requests', side)) /\ Pending(side)' = 0
        /\ Staying(side)' = RestingLots(side)
    BY <1>1, <2>2, NonePending DEF Pending, Staying, CancelComes
  <2>4. Fits(Signed(side, held), RestingLots(side), 0, RestingLots(side), InventoryLimit)
    BY <2>1, LimitFacts, SideNumbers, RestartFits DEF SideFits
  <2>5. Fits(Signed(side, held), RestingLots(side), Pending(side), Staying(side), InventoryLimit)'
    BY <2>2, <2>3, <2>4 DEF Fits, BatchLots
  <2> QED
    BY <1>1, <2>1, <2>2, <2>3, <2>5 DEF SideFits
<1> QED
  BY <1>2, <1>3 DEF GridFacts

\* The batch is sent: first the cancellation, then a quote at a time.
LEMMA GridSends ==
    ASSUME TypeOK, GridFacts, Accepted
    PROVE  GridFacts'
<1> USE DEF engine
<1> DEFINE r == Head(requests)
<1>1. /\ requests # << >> /\ Effect(r) /\ requests' = Tail(requests)
      /\ UNCHANGED <<pc, positionQty, globalSL, globalTP, late, standDowns>>
  BY DEF Accepted, history
<1>2. /\ requests \in Seq(Request) /\ r = requests[1] /\ 1 \in DOMAIN requests /\ r \in Request
      /\ \A i \in DOMAIN Tail(requests) : i + 1 \in DOMAIN requests /\ i + 1 # 1
                                          /\ Tail(requests)[i] = requests[i + 1]
  BY <1>1, TailOf DEF TypeOK
<1> HIDE DEF r
<1>3. /\ r.type \in {"LIMIT", "CANCEL_ALL"}
      /\ \A i \in DOMAIN requests' : requests'[i].type = "LIMIT"
      /\ pc # "synced"
  BY <1>1, <1>2 DEF GridFacts, GridPlain
<1>4. r.type = "LIMIT" => r \in OpenOrder /\ r.qty \in Nat
  BY <1>2 DEF Request, OpenOrder
<1>5. /\ held' = held
      /\ r.type = "CANCEL_ALL" => book' = EmptyBag
      /\ r.type = "LIMIT" => book' = Ext!BagAdd(book, r)
  BY <1>1, <1>3 DEF Effect
<1>6. ~CancelComes'
  <2>1. 1 \in DOMAIN requests' \/ requests' = << >>
    <3>1. \A q \in Seq(Request) : 1 \in DOMAIN q \/ q = << >>
      OBVIOUS
    <3>2. Tail(requests) \in Seq(Request)
      BY <1>1, <1>2
    <3> QED
      BY <1>1, <3>1, <3>2
  <2> QED
    BY <1>3, <2>1 DEF CancelComes
<1>7. GridPlain'
  <2>1. \A o \in BagToSet(book') : o.type = "LIMIT"
    BY <1>3, <1>5, NoBag, BagHas DEF GridFacts, GridPlain
  <2> QED
    BY <1>1, <1>3, <2>1 DEF GridFacts, GridPlain
<1>8. ASSUME NEW side \in Sides PROVE SideFits(side)'
  <2> DEFINE n == IF r.type = "LIMIT" /\ r.side = side THEN r.qty ELSE 0
             rest == Cardinality(PendingLots(requests', side))
  <2>1. SideFits(side)
    BY DEF GridFacts
  <2>2. /\ IsFiniteSet(PendingLots(requests', side)) /\ rest \in Nat /\ n \in Nat
        /\ Pending(side) = n + rest
    BY <1>1, <1>2, <1>4, <2>1, TailLots DEF SideFits, Pending
  <2> HIDE DEF n, rest
  <2>3. /\ IsFiniteSet(LotsOn(book', side))
        /\ Cardinality(LotsOn(book', side))
             = IF r.type = "CANCEL_ALL" THEN 0 ELSE RestingLots(side) + n
    <3>1. CASE r.type = "CANCEL_ALL"
      BY <1>5, <3>1, NoLots
    <3>2. CASE r.type = "LIMIT"
      BY <1>4, <1>5, <2>1, <3>2, LotsArrive DEF SideFits, RestingLots, TypeOK, n
    <3> QED
      BY <1>3, <3>1, <3>2
  <2>4. /\ RestingLots(side)' = Cardinality(LotsOn(book', side))
        /\ Pending(side)' = rest
        /\ Staying(side)' = RestingLots(side)' /\ InventoryLimit' = InventoryLimit
        /\ Signed(side, held)' = Signed(side, held)
    BY <1>1, <1>5, <1>6 DEF RestingLots, Pending, Staying, InventoryLimit, rest
  <2>5. /\ Fits(Signed(side, held), 0, Pending(side), 0, InventoryLimit)
        /\ Staying(side) = RestingLots(side) =>
             Fits(Signed(side, held), RestingLots(side) + n, rest, RestingLots(side) + n, InventoryLimit)
    BY <2>1, <2>2, LimitFacts, SideNumbers, SendFits DEF SideFits
  <2>6. Fits(Signed(side, held), RestingLots(side), Pending(side), Staying(side), InventoryLimit)'
    <3>1. CASE r.type = "CANCEL_ALL"
      <4>1. n = 0 /\ \A x \in Nat : 0 + x = x
        BY <3>1 DEF n
      <4>2. Pending(side) = rest
        BY <2>2, <4>1
      <4> QED
        BY <2>3, <2>4, <2>5, <3>1, <4>2 DEF Fits, BatchLots
    <3>2. CASE r.type = "LIMIT"
      <4>1. Staying(side) = RestingLots(side)
        BY <1>2, <3>2 DEF Staying, CancelComes
      <4> QED
        BY <2>3, <2>4, <2>5, <3>2, <4>1 DEF Fits, BatchLots
    <3> QED
      BY <1>3, <3>1, <3>2
  <2> QED
    BY <1>1, <1>3, <2>2, <2>3, <2>6 DEF SideFits
<1> QED
  BY <1>7, <1>8 DEF GridFacts

\* What the fill of q lots of an order does to a side of the book.
LEMMA LotsFill ==
    ASSUME NEW b, IsABag(b), BagToSet(b) \subseteq OpenOrder, NEW o \in BagToSet(b), o.type = "LIMIT",
           NEW q \in 1..o.qty, NEW side, IsFiniteSet(LotsOn(b, side)),
           NEW c, c = IF q < o.qty THEN Ext!BagAdd(Ext!BagRemove(b, o), [o EXCEPT !.qty = @ - q])
                                   ELSE Ext!BagRemove(b, o)
    PROVE  /\ IsFiniteSet(LotsOn(c, side)) /\ Cardinality(LotsOn(c, side)) \in Nat
           /\ Cardinality(LotsOn(b, side))
                = Cardinality(LotsOn(c, side)) + (IF o.side = side THEN q ELSE 0)
           /\ \A p \in BagToSet(c) : p \in BagToSet(b) \/ p.type = o.type
<1> DEFINE rest == Ext!BagRemove(b, o)
           less == [o EXCEPT !.qty = @ - q]
<1>1. o \in OpenOrder /\ o.qty \in Nat /\ q \in Nat /\ q <= o.qty
  BY DEF OpenOrder
<1>2. /\ IsFiniteSet(LotsOn(rest, side)) /\ Cardinality(LotsOn(rest, side)) \in Nat
      /\ Cardinality(LotsOn(b, side)) = Cardinality(LotsOn(rest, side))
                                          + (IF o.side = side THEN o.qty ELSE 0)
      /\ IsABag(rest) /\ BagToSet(rest) \subseteq BagToSet(b)
  BY <1>1, LotsGo, BagType, BagHas
<1>3. less.type = o.type /\ less.side = o.side /\ less.qty = o.qty - q
  BY <1>1 DEF OpenOrder
<1> HIDE DEF rest, less
<1>4. CASE q < o.qty
  <2>1. less.qty \in Nat /\ c = Ext!BagAdd(rest, less)
    BY <1>1, <1>3, <1>4 DEF rest, less
  <2>2. /\ IsFiniteSet(LotsOn(c, side))
        /\ Cardinality(LotsOn(c, side)) = Cardinality(LotsOn(rest, side))
                                            + (IF less.side = side THEN less.qty ELSE 0)
    BY <1>2, <1>3, <2>1, LotsArrive
  <2>3. BagToSet(c) = BagToSet(rest) \cup {less}
    BY <2>1, BagHas
  <2>4. Cardinality(LotsOn(c, side)) \in Nat
    BY <2>2, FS_CardinalityType
  <2> QED
    BY <1>1, <1>2, <1>3, <2>2, <2>3, <2>4
<1>5. CASE q = o.qty
  <2>1. c = rest
    BY <1>1, <1>5 DEF rest
  <2> QED
    BY <1>2, <1>5, <2>1
<1> QED
  BY <1>1, <1>4, <1>5

LEMMA GridFills ==
    ASSUME TypeOK, GridFacts, NEW o \in BagToSet(book), NEW q \in 1..o.qty, LimitFills(o, q)
    PROVE  GridFacts'
<1> USE DEF engine
<1>1. /\ o.type = "LIMIT" /\ held' = held + Signed(o.side, q)
      /\ book' = IF q < o.qty THEN Ext!BagAdd(Ext!BagRemove(book, o), [o EXCEPT !.qty = @ - q])
                              ELSE Ext!BagRemove(book, o)
      /\ UNCHANGED <<pc, positionQty, globalSL, globalTP, requests, late, standDowns>>
  BY DEF LimitFills, history
<1>2. o \in OpenOrder /\ o.side \in Sides /\ o.qty \in Nat /\ q \in Nat
      /\ IsABag(book) /\ BagToSet(book) \subseteq OpenOrder /\ held \in Int
  BY DEF TypeOK, OpenOrder
<1>3. ASSUME NEW side \in Sides
      PROVE  /\ SideFits(side) /\ IsFiniteSet(LotsOn(book, side))
             /\ IsFiniteSet(LotsOn(book', side)) /\ Cardinality(LotsOn(book', side)) \in Nat
             /\ RestingLots(side) = Cardinality(LotsOn(book', side)) + (IF o.side = side THEN q ELSE 0)
             /\ \A p \in BagToSet(book') : p \in BagToSet(book) \/ p.type = o.type
  <2>1. SideFits(side) /\ IsFiniteSet(LotsOn(book, side))
    BY DEF GridFacts, SideFits
  <2>2. PICK c : c = book'
    OBVIOUS
  <2>3. c = IF q < o.qty THEN Ext!BagAdd(Ext!BagRemove(book, o), [o EXCEPT !.qty = @ - q])
                         ELSE Ext!BagRemove(book, o)
    BY <1>1, <2>2
  <2>4. /\ IsFiniteSet(LotsOn(c, side)) /\ Cardinality(LotsOn(c, side)) \in Nat
        /\ Cardinality(LotsOn(book, side))
             = Cardinality(LotsOn(c, side)) + (IF o.side = side THEN q ELSE 0)
        /\ \A p \in BagToSet(c) : p \in BagToSet(book) \/ p.type = o.type
    BY <1>1, <1>2, <2>1, <2>3, LotsFill
  <2> QED
    BY <2>1, <2>2, <2>4 DEF RestingLots
<1>4. GridPlain'
  <2>1. o.side \in Sides
    BY <1>2
  <2>2. \A p \in BagToSet(book') : p.type = "LIMIT"
    BY <1>1, <1>3, <2>1 DEF GridFacts, GridPlain
  <2> QED
    BY <1>1, <2>2 DEF GridFacts, GridPlain
<1>5. ASSUME NEW side \in Sides PROVE SideFits(side)'
  <2> DEFINE h == Signed(side, held)
             r == RestingLots(side)
             n == IF o.side = side THEN q ELSE 0
             m == IF o.side = side THEN 0 ELSE q
             s == Staying(side)
             z == IF CancelComes THEN 0 ELSE Cardinality(LotsOn(book', side))
             p == Signed(side, positionQty)
  <2>1. /\ h \in Int /\ r \in Nat /\ Pending(side) \in Nat /\ s \in Nat /\ p \in Int
        /\ s = IF CancelComes THEN 0 ELSE r
    BY <1>3, SideNumbers DEF Staying
  <2>2. /\ n \in Nat /\ m \in Nat /\ n <= r
        /\ Cardinality(LotsOn(book', side)) = r - n
    BY <1>2, <1>3, <2>1
  <2>3. Signed(side, held)' = h + n - m
    <3>1. \A x \in Int, y \in Nat : /\ -(x + y) = -x - y /\ -(x + -y) = -x + y
                                    /\ x + y = x + y - 0 /\ x + -y = x + 0 - y
                                    /\ -x + y = -x + y - 0 /\ -x - y = -x + 0 - y
      OBVIOUS
    <3>2. Signed(side, held)' = Signed(side, held + Signed(o.side, q))
      BY <1>1
    <3>3. Signed(side, held + Signed(o.side, q)) = h + n - m
      BY <1>2, <3>1 DEF Signed, Sides
    <3> QED
      BY <3>2, <3>3
  <2>4. z \in Nat /\ z <= s
    BY <2>1, <2>2, <1>3
  <2>5. /\ RestingLots(side)' = r - n /\ Pending(side)' = Pending(side) /\ Staying(side)' = z
        /\ InventoryLimit' = InventoryLimit /\ Signed(side, positionQty)' = p
        /\ PendingLots(requests, side)' = PendingLots(requests, side)
    BY <1>1, <2>2 DEF RestingLots, Pending, Staying, CancelComes, InventoryLimit
  <2>6. /\ Fits(h, r, Pending(side), s, InventoryLimit)
        /\ pc = "synced" => ReadFits(h, r, p, InventoryLimit)
    BY <1>3 DEF SideFits
  <2> HIDE DEF h, r, n, m, s, z, p
  <2>7. /\ Fits(h + n - m, r - n, Pending(side), z, InventoryLimit)
        /\ ReadFits(h, r, p, InventoryLimit) => ReadFits(h + n - m, r - n, p, InventoryLimit)
    BY <2>1, <2>2, <2>4, <2>6, LimitFacts, FillFits
  <2>8. Fits(Signed(side, held), RestingLots(side), Pending(side), Staying(side), InventoryLimit)'
    BY <2>3, <2>5, <2>7 DEF Fits, BatchLots
  <2>9. ASSUME pc' = "synced"
        PROVE  ReadFits(Signed(side, held), RestingLots(side), Signed(side, positionQty), InventoryLimit)'
    BY <1>1, <2>3, <2>5, <2>6, <2>7, <2>9 DEF ReadFits, BatchLots
  <2> QED
    BY <1>3, <2>5, <2>6, <2>8, <2>9 DEF SideFits
<1> QED
  BY <1>4, <1>5 DEF GridFacts

LEMMA GridNext == TypeOK /\ GridInv /\ [Next]_vars => GridInv'
<1> SUFFICES ASSUME TypeOK, GridInv, [Next]_vars, strategy' = "grid_mm", faults' = 0
             PROVE  GridFacts'
  BY DEF GridInv
<1> USE DEF engine, account, history
<1>a. strategy = "grid_mm" /\ faults = 0 /\ GridFacts
  <2>1. strategy' = strategy /\ faults <= faults' /\ faults \in Nat
    BY FaultsGrow DEF TypeOK
  <2>2. strategy = "grid_mm" /\ faults = 0
    BY <2>1
  <2> QED
    BY <2>2 DEF GridInv
<1>b. globalSL = 0 /\ globalTP = 0 /\ BagToSet(late) = {} /\ \A o \in BagToSet(book) : o.type = "LIMIT"
  BY <1>a DEF GridFacts, GridPlain
<1>1. CASE SyncPosition
  BY <1>1, <1>a, GridSyncs
<1>2. CASE SyncFails \/ Refused \/ TimesOut
  <2>1. faults' = 1
    BY <1>2, <1>a DEF SyncFails, Refused, TimesOut
  <2> QED
    BY <2>1
<1>3. CASE FetchFails
  BY <1>3, <1>a, GridStill DEF FetchFails
<1>4. ASSUME NEW p \in Closes, NEW t \in OnTicks(p), Hold(p, t) PROVE GridFacts'
  BY <1>4, <1>a, GridStill DEF Hold, Decide
<1>5. ASSUME NEW p \in Closes, NEW t \in OnTicks(p), GlobalExit(p, t) PROVE FALSE
  BY <1>5, <1>b DEF GlobalExit, ExitHit
<1>6. ASSUME NEW p \in Closes, NEW t \in OnTicks(p), Enter(p, t) PROVE FALSE
  <2>1. "BUY" \in Sides
    BY DEF Sides
  <2>2. Resting(t.orders) /\ t.orders \in Seq(Decision)
    BY <1>a, <2>1, GridDecides
  <2>3. t.orders # << >> /\ t.orders[1].type = "Market"
    BY <1>6 DEF Enter
  <2>4. 1 \in DOMAIN t.orders
    BY <2>2, <2>3
  <2> QED
    BY <2>2, <2>3, <2>4 DEF Resting
<1>7. ASSUME NEW p \in Closes, NEW t \in OnTicks(p), Requote(p, t) PROVE GridFacts'
  BY <1>7, <1>a, GridRequotes
<1>8. CASE Restart
  BY <1>8, <1>a, GridRestarts
<1>9. CASE Accepted
  BY <1>9, <1>a, GridSends
<1>10. ASSUME NEW o \in BagToSet(book), NEW q \in 1..o.qty, LimitFills(o, q) PROVE GridFacts'
  BY <1>10, <1>a, GridFills
<1>11. ASSUME NEW o \in BagToSet(book), Triggers(o) \/ Expires(o) PROVE FALSE
  BY <1>11, <1>b DEF Triggers, Expires
<1>12. CASE UNCHANGED vars
  BY <1>12, <1>a, GridStill DEF vars
<1> QED
  BY <1>1, <1>2, <1>3, <1>4, <1>5, <1>6, <1>7, <1>8, <1>9, <1>10, <1>11, <1>12, <1>b DEF Next

\* In live mode the grid's position stays within its limit even if one whole side of its
\* book fills at once, as long as no request failed: it quotes on a position that was
\* read before its old quotes were cancelled, and the fills in between count.  Every
\* time the grid stands down the limit grows by the lots of one batch.
THEOREM GridInventoryHolds == Spec => []GridInventoryBounded
<1>1. TypeOK /\ GridInv => GridInventoryBounded
  <2> SUFFICES ASSUME TypeOK, GridInv, strategy = "grid_mm", faults = 0
               PROVE  /\ held + RestingLots("BUY") <= InventoryLimit
                      /\ held - RestingLots("SELL") >= -InventoryLimit
    BY DEF GridInventoryBounded, InventoryLimit
  <2>1. ASSUME NEW side \in Sides
        PROVE  /\ Signed(side, held) + RestingLots(side) <= InventoryLimit
               /\ RestingLots(side) \in Nat
    <3>1. SideFits(side)
      BY DEF GridInv, GridFacts
    <3>2. Signed(side, held) + RestingLots(side) + Pending(side) <= InventoryLimit
      BY <3>1 DEF SideFits, Fits
    <3>3. /\ Signed(side, held) \in Int /\ RestingLots(side) \in Nat /\ Pending(side) \in Nat
          /\ InventoryLimit \in Nat
      BY <3>1, SideNumbers, LimitFacts
    <3> QED
      BY <3>2, <3>3
  <2>2. "BUY" \in Sides /\ "SELL" \in Sides
    BY DEF Sides
  <2>3. Signed("BUY", held) = held /\ Signed("SELL", held) = -held /\ held \in Int
    BY DEF Signed, TypeOK
  <2>4. InventoryLimit \in Nat
    BY LimitFacts
  <2> QED
    BY <2>1, <2>2, <2>3, <2>4
<1>2. Spec => []TypeOK
  BY TypeCorrect
<1> QED
  BY <1>1, <1>2, GridInit, GridNext, PTL DEF Spec
=============================================================================
