-------------------------- MODULE BacktesterProofs --------------------------
(***************************************************************************)
(* Theorems about Backtester for every value of its constants.             *)
(***************************************************************************)
EXTENDS Backtester, TradingLemmas, FiniteSetTheorems

-----------------------------------------------------------------------------
(* Type correctness. *)

\* What a fill changes, typed.
FillTyped ==
    /\ {positionQty, entryPrice, balance, peakBalance, fees} \subseteq Int
    /\ {maxDrawdown, winningTrades, losingTrades} \subseteq Nat
    /\ positionQty = 0 => entryPrice = 0
    /\ closings \in Seq(Int) /\ forced \in Seq(Int)

LEMMA CountType ==
    ASSUME NEW pnl, NEW price, {winningTrades, losingTrades} \subseteq Nat, CountTrade(pnl, price)
    PROVE  {winningTrades', losingTrades'} \subseteq Nat
  BY DEF CountTrade

LEMMA CurveType ==
    ASSUME NEW after \in Int, peakBalance \in Int, maxDrawdown \in Nat, closings \in Seq(Int),
           Curve(after)
    PROVE  peakBalance' \in Int /\ maxDrawdown' \in Nat /\ closings' \in Seq(Int)
  BY DEF Curve, Larger

\* What a fill is made of: signed lots, profit, the balance after it.
LEMMA FillParts ==
    ASSUME FillTyped,
           NEW side \in Sides, NEW qty \in Nat \ {0}, NEW price \in Int, NEW fee \in Int
    PROVE  LET s == SignedQty(side, qty)
               pnl == ClosedPnl(positionQty, entryPrice, s, price)
           IN  /\ s \in Int \ {0} /\ pnl \in Int
               /\ EntryAfter(positionQty, entryPrice, s, price) \in Int
               /\ balance - fee + (IF Opposes(positionQty, s) THEN Scale * pnl ELSE 0) \in Int
<1> DEFINE s == SignedQty(side, qty)
           pnl == ClosedPnl(positionQty, entryPrice, s, price)
<1>1. positionQty \in Int /\ entryPrice \in Int /\ balance \in Int
  BY DEF FillTyped
<1>2. s \in Int \ {0}
  BY SignedQtyType
<1> HIDE DEF s
<1>3. pnl \in Int /\ EntryAfter(positionQty, entryPrice, s, price) \in Int
  BY <1>1, <1>2, ClosedPnlType, EntryType
<1> HIDE DEF pnl
<1>4. balance - fee + (IF Opposes(positionQty, s) THEN Scale * pnl ELSE 0) \in Int
  BY <1>1, <1>3 DEF Scale
<1> QED
  BY <1>2, <1>3, <1>4 DEF s, pnl

LEMMA FillType ==
    ASSUME FillTyped,
           NEW side \in Sides, NEW qty \in Nat \ {0}, NEW price \in Int, NEW fee \in Int,
           Fill(side, qty, price, fee)
    PROVE  FillTyped'
<1> DEFINE s == SignedQty(side, qty)
           pnl == ClosedPnl(positionQty, entryPrice, s, price)
           after == balance - fee + (IF Opposes(positionQty, s) THEN Scale * pnl ELSE 0)
<1>1. /\ s \in Int \ {0} /\ pnl \in Int /\ after \in Int
      /\ EntryAfter(positionQty, entryPrice, s, price) \in Int
  BY FillParts
<1>2. /\ balance' = after /\ fees' = fees + fee /\ positionQty' = positionQty + s
      /\ entryPrice' = EntryAfter(positionQty, entryPrice, s, price)
      /\ IF Opposes(positionQty, s) THEN CountTrade(pnl, price) /\ Curve(after)
                                    ELSE UNCHANGED statistics
  BY DEF Fill
<1> HIDE DEF s, pnl, after
<1>3. {positionQty', entryPrice', balance', fees'} \subseteq Int
  <2>1. positionQty \in Int /\ fees \in Int /\ fee \in Int
    BY DEF FillTyped
  <2>2. positionQty' \in Int /\ fees' \in Int
    BY <1>1, <1>2, <2>1
  <2>3. entryPrice' \in Int /\ balance' \in Int
    BY <1>1, <1>2
  <2> QED
    BY <2>2, <2>3
<1>4. positionQty' = 0 => entryPrice' = 0
  BY <1>2 DEF EntryAfter
<1>5. /\ peakBalance' \in Int /\ closings' \in Seq(Int) /\ forced' \in Seq(Int)
      /\ {maxDrawdown', winningTrades', losingTrades'} \subseteq Nat
  <2>1. CASE Opposes(positionQty, s)
    BY <1>1, <1>2, <2>1, CountType, CurveType DEF FillTyped, Curve
  <2>2. CASE ~Opposes(positionQty, s)
    BY <1>2, <2>2 DEF FillTyped, statistics
  <2> QED
    BY <2>1, <2>2
<1> QED
  BY <1>3, <1>4, <1>5 DEF FillTyped

LEMMA BarTypes ==
    ASSUME NEW k \in Bars
    PROVE  k \in Bar /\ k.open \in Nat \ {0} /\ k.close \in Nat \ {0}
  BY BacktestAssumption DEF Bar

\* A decision is executed for a positive number of lots or not at all.
LEMMA QtyOfType ==
    ASSUME bar \in Bars, NEW d \in Decision
    PROVE  QtyOf(d) \in Nat
<1>1. DefaultNotional \in Nat /\ bar.close \in Nat \ {0}
  BY BarTypes, BacktestAssumption
<1>2. DefaultNotional \div bar.close \in Nat
  BY <1>1
<1> QED
  BY <1>2 DEF QtyOf, Decision

\* What a strategy may return is a tick.
LEMMA DecisionsType ==
    ASSUME TypeOK
    PROVE  Decisions \subseteq Tick
<1>1. strategy \in StrategyIds
  BY BacktestAssumption DEF TypeOK
<1>2. bar.close \in Int /\ positionQty \in Int /\ tick.mem \in Memory
  BY BarTypes DEF TypeOK, Tick
<1> QED
  BY <1>1, <1>2, OnTickType DEF Decisions

BookTyped(orders) ==
    /\ DOMAIN orders \subseteq Nat /\ IsFiniteSet(DOMAIN orders)
    /\ \A id \in DOMAIN orders : orders[id] \in RestingOrder

\* There is always an id left for one more order.
LEMMA FreeId ==
    ASSUME NEW S \in SUBSET Nat, IsFiniteSet(S)
    PROVE  \E i \in 1 .. Cardinality(S) + 1 : i \notin S
<1> DEFINE n == Cardinality(S)
<1>1. n \in Nat
  BY FS_CardinalityType
<1> HIDE DEF n
<1>2. SUFFICES ASSUME 1 .. n + 1 \subseteq S PROVE FALSE
  BY DEF n
<1>3. Cardinality(1 .. n + 1) = n + 1
  BY <1>1, FS_Interval
<1>4. Cardinality(1 .. n + 1) <= n
  BY <1>2, FS_Subset DEF n
<1> QED
  BY <1>1, <1>3, <1>4

LEMMA WithType ==
    ASSUME NEW orders, BookTyped(orders), NEW order, order.price > 0 => order \in RestingOrder
    PROVE  BookTyped(With(orders, order))
<1> DEFINE id == CHOOSE i \in 1 .. Cardinality(DOMAIN orders) + 1 : i \notin DOMAIN orders
           more == [i \in DOMAIN orders \cup {id} |-> IF i = id THEN order ELSE orders[i]]
<1>1. CASE order.price > 0
  <2>1. id \in Nat
    <3>1. Cardinality(DOMAIN orders) \in Nat
      BY FS_CardinalityType DEF BookTyped
    <3>2. id \in 1 .. Cardinality(DOMAIN orders) + 1
      BY FreeId DEF BookTyped
    <3> QED
      BY <3>1, <3>2
  <2> HIDE DEF id
  <2>2. IsFiniteSet(DOMAIN more)
    BY FS_AddElement DEF BookTyped
  <2>3. BookTyped(more)
    BY <1>1, <2>1, <2>2 DEF BookTyped
  <2> QED
    BY <1>1, <2>3 DEF With, id
<1>2. CASE ~(order.price > 0)
  BY <1>2 DEF With
<1> QED
  BY <1>1, <1>2

\* The stop and the target of an entry are orders of its size.
LEMMA ProtectedType ==
    ASSUME bar \in Bars, BookTyped(activeOrders), NEW d \in Decision, QtyOf(d) > 0
    PROVE  BookTyped(Protected(d))
<1>1. QtyOf(d) \in Nat \ {0}
  BY QtyOfType
<1>2. /\ Protection(d, "STOP_MARKET", d.sl) \in RestingOrder
      /\ Protection(d, "TAKE_PROFIT_MARKET", d.tp) \in RestingOrder
  BY <1>1 DEF Protection, RestingOrder, Decision, Sides
<1>3. BookTyped(With(activeOrders, Protection(d, "STOP_MARKET", d.sl)))
  BY <1>2, WithType
<1> QED
  BY <1>2, <1>3, WithType DEF Protected

LEMMA LimitBookType ==
    ASSUME bar \in Bars, NEW t \in Tick
    PROVE  BookTyped(LimitBook(t))
<1>1. t.orders \in Seq(Decision)
  BY DEF Tick
<1>2. DOMAIN LimitBook(t) = Placed(t, "Gtc") /\ Placed(t, "Gtc") \subseteq 1 .. Len(t.orders)
  BY <1>1 DEF LimitBook, Placed
<1>3. IsFiniteSet(Placed(t, "Gtc")) /\ Placed(t, "Gtc") \subseteq Nat
  <2>1. IsFiniteSet(1 .. Len(t.orders)) /\ 1 .. Len(t.orders) \subseteq Nat
    BY <1>1, FS_Interval
  <2> QED
    BY <1>2, <2>1, FS_Subset
<1>4. ASSUME NEW k \in Placed(t, "Gtc") PROVE LimitBook(t)[k] \in RestingOrder
  <2>1. t.orders[k] \in Decision /\ QtyOf(t.orders[k]) > 0
    BY <1>1 DEF Placed
  <2>2. QtyOf(t.orders[k]) \in Nat \ {0}
    BY <2>1, QtyOfType
  <2> QED
    BY <2>1, <2>2 DEF LimitBook, RestingOrder, Decision
<1> QED
  BY <1>2, <1>3, <1>4 DEF BookTyped

LEMMA InitTypeOK == Init => TypeOK
<1> SUFFICES ASSUME Init PROVE TypeOK
  OBVIOUS
<1>1. InitialBalance \in Int /\ Lookback \in Nat
  BY BacktestAssumption, StrategyAssumption
<1>2. tick \in Tick
  BY <1>1 DEF Init, Tick, FreshMemory, Memory
<1>3. balance \in Int /\ peakBalance \in Int
  BY <1>1 DEF Init, Scale
<1>4. DOMAIN activeOrders = {} /\ IsFiniteSet(DOMAIN activeOrders)
  BY FS_EmptySet DEF Init, NoOrders
<1>5. left \in 0..MaxBars
  BY BacktestAssumption DEF Init
<1> QED
  BY <1>2, <1>3, <1>4, <1>5 DEF Init, TypeOK

\* The end of a candle, typed.
LEMMA DecideType ==
    ASSUME TypeOK, NEW t \in Tick, NEW orders, BookTyped(orders), Decide(t, orders), FillTyped'
    PROVE  TypeOK'
<1>1. left' \in 0..MaxBars /\ (pc' = "replay" => left' > 0)
  BY BacktestAssumption DEF Decide, TypeOK
<1>2. {bar', next'} \subseteq Bars /\ pc' \in {"replay", "closing"}
  BY DEF Decide, TypeOK
<1>3. pending' \subseteq DOMAIN activeOrders'
  BY DEF Decide, Touches
<1> QED
  BY <1>1, <1>2, <1>3 DEF Decide, TypeOK, FillTyped, BookTyped

\* Some order fills at this price.
Fills(price) ==
    \E side \in Sides, qty \in Nat \ {0}, fee \in Int : Fill(side, qty, price, fee)

LEMMA MatchFills ==
    ASSUME TypeOK, NEW id \in pending, Match(id)
    PROVE  activeOrders[id].price \in Int /\ Fills(activeOrders[id].price)
<1> DEFINE order == activeOrders[id]
<1>1. order \in RestingOrder
  BY DEF TypeOK
<1>2. order.side \in Sides /\ order.qty \in Nat \ {0} /\ order.price \in Int
  BY <1>1 DEF RestingOrder
<1>3. order.price * order.qty \in Int
  BY <1>2
<1>4. Fill(order.side, order.qty, order.price, order.price * order.qty)
  BY DEF Match
<1> QED
  BY <1>2, <1>3, <1>4 DEF Fills

LEMMA MarketFills ==
    ASSUME TypeOK, NEW t \in Decisions, MarketEntry(t)
    PROVE  Fills(next.open) /\ \E orders : BookTyped(orders) /\ Decide(t, orders)
<1>1. PICK m \in Placed(t, "Market") :
         LET d == t.orders[m]
         IN  /\ Fill(d.side, QtyOf(d), next.open, next.open * QtyOf(d))
             /\ Decide(t, Protected(d))
  BY DEF MarketEntry
<1> DEFINE d == t.orders[m]
<1>2. d \in Decision /\ QtyOf(d) > 0
  BY DecisionsType DEF Placed, Tick
<1>3. d.side \in Sides /\ QtyOf(d) \in Nat \ {0} /\ next.open \in Int
  <2>1. bar \in Bars /\ next \in Bars
    BY DEF TypeOK
  <2>2. next.open \in Int
    BY <2>1, BarTypes
  <2>3. QtyOf(d) \in Nat
    BY <1>2, <2>1, QtyOfType
  <2> QED
    BY <1>2, <2>2, <2>3 DEF Decision
<1>4. Fill(d.side, QtyOf(d), next.open, next.open * QtyOf(d)) /\ Decide(t, Protected(d))
  BY <1>1
<1>5. BookTyped(Protected(d))
  BY <1>2, ProtectedType DEF TypeOK, BookTyped
<1> HIDE DEF d
<1>6. next.open * QtyOf(d) \in Int
  BY <1>3
<1> QED
  BY <1>3, <1>4, <1>5, <1>6 DEF Fills

LEMMA IocFills ==
    ASSUME TypeOK, NEW t \in Decisions, IocFill(t)
    PROVE  Fills(next.open) /\ Decide(t, activeOrders)
<1>1. PICK m \in Placed(t, "Ioc") :
         LET d == t.orders[m]
             s == SignedQty(d.side, QtyOf(d))
             closed == IF Opposes(positionQty, s) THEN ClosedQty(positionQty, s) ELSE 0
         IN  /\ Fill(d.side, QtyOf(d), next.open, next.open * closed)
             /\ Decide(t, activeOrders)
  BY DEF IocFill
<1> DEFINE d == t.orders[m]
           s == SignedQty(d.side, QtyOf(d))
           closed == IF Opposes(positionQty, s) THEN ClosedQty(positionQty, s) ELSE 0
<1>2. d \in Decision /\ QtyOf(d) > 0
  BY DecisionsType DEF Placed, Tick
<1>3. d.side \in Sides /\ QtyOf(d) \in Nat \ {0} /\ next.open \in Int
  <2>1. bar \in Bars /\ next \in Bars
    BY DEF TypeOK
  <2>2. next.open \in Int
    BY <2>1, BarTypes
  <2>3. QtyOf(d) \in Nat
    BY <1>2, <2>1, QtyOfType
  <2> QED
    BY <1>2, <2>2, <2>3 DEF Decision
<1>4. Fill(d.side, QtyOf(d), next.open, next.open * closed) /\ Decide(t, activeOrders)
  BY <1>1
<1> HIDE DEF d
<1>5. s \in Int /\ positionQty \in Int
  BY <1>3, SignedQtyType DEF TypeOK
<1> HIDE DEF s
<1>6. closed \in Int
  BY <1>5, ClosedQtyType
<1> HIDE DEF closed
<1>7. next.open * closed \in Int
  BY <1>3, <1>6
<1> QED
  BY <1>3, <1>4, <1>7 DEF Fills

\* Every step of a backtest keeps its state well-typed.
LEMMA NextTypeOK == TypeOK /\ [Next]_vars => TypeOK'
<1> SUFFICES ASSUME TypeOK, [Next]_vars PROVE TypeOK'
  OBVIOUS
<1>a. FillTyped /\ BookTyped(activeOrders) /\ {bar, next} \subseteq Bars
  BY DEF TypeOK, FillTyped, BookTyped
<1>b. UNCHANGED <<position, account, statistics>> => FillTyped'
  BY <1>a DEF FillTyped, position, account, statistics
<1>c. ASSUME NEW price \in Int, Fills(price) PROVE FillTyped'
  BY <1>a, <1>c, FillType DEF Fills
<1>1. ASSUME NEW id \in pending, Match(id) PROVE TypeOK'
  <2>1. FillTyped'
    BY <1>1, <1>c, MatchFills
  <2>2. BookTyped(activeOrders')
    BY <1>1, <1>a, FS_Subset DEF Match, BookTyped
  <2>3. pending' \subseteq DOMAIN activeOrders'
    BY <1>1 DEF Match, TypeOK
  <2> QED
    BY <1>1, <2>1, <2>2, <2>3 DEF Match, TypeOK, FillTyped, BookTyped
<1>2. ASSUME NEW t \in Decisions, Hold(t) PROVE TypeOK'
  BY <1>2, <1>a, <1>b, DecisionsType, DecideType DEF Hold
<1>3. ASSUME NEW t \in Decisions, MarketEntry(t) PROVE TypeOK'
  <2>1. next.open \in Int
    BY <1>a, BarTypes
  <2> QED
    BY <1>3, <1>c, <2>1, MarketFills, DecisionsType, DecideType
<1>4. ASSUME NEW t \in Decisions, IocFill(t) PROVE TypeOK'
  <2>1. next.open \in Int
    BY <1>a, BarTypes
  <2> QED
    BY <1>4, <1>a, <1>c, <2>1, IocFills, DecisionsType, DecideType
<1>5. ASSUME NEW t \in Decisions, PlaceLimits(t) PROVE TypeOK'
  BY <1>5, <1>a, <1>b, DecisionsType, LimitBookType, DecideType DEF PlaceLimits
<1>6. CASE Finish
  <2>1. CASE positionQty = 0
    BY <1>6, <2>1 DEF Finish, TypeOK, position, account, statistics, book
  <2>2. CASE positionQty # 0
    <3> DEFINE pnl == ClosedPnl(positionQty, entryPrice, -positionQty, bar.close)
    <3>1. positionQty \in Int /\ entryPrice \in Int /\ balance \in Int /\ bar.close \in Int
      BY <1>a, BarTypes DEF TypeOK
    <3>2. -positionQty \in Int
      BY <3>1
    <3>3. pnl \in Int
      BY <3>1, <3>2, ClosedPnlType
    <3>4. /\ balance' = balance + Scale * pnl /\ CountTrade(pnl, bar.close)
          /\ positionQty' = 0 /\ entryPrice' = 0 /\ forced' = <<balance'>>
          /\ UNCHANGED <<fees, peakBalance, maxDrawdown, closings>>
      BY <1>6, <2>2 DEF Finish
    <3> HIDE DEF pnl
    <3>5. balance' \in Int /\ {winningTrades', losingTrades'} \subseteq Nat
      BY <3>1, <3>3, <3>4, CountType DEF Scale, TypeOK
    <3> QED
      BY <1>6, <3>4, <3>5 DEF Finish, TypeOK, book
  <2> QED
    BY <2>1, <2>2
<1>7. CASE UNCHANGED vars
  BY <1>7 DEF vars, TypeOK, book, position, account, statistics
<1> QED
  BY <1>1, <1>2, <1>3, <1>4, <1>5, <1>6, <1>7 DEF Next

\* A backtest never leaves the types of its state, whatever the candles, the strategy
\* and the order of the fills of a candle: the touched orders that are still to be
\* filled are in the book, and a flat position has no entry price.
THEOREM TypeCorrect == Spec => []TypeOK
  BY InitTypeOK, NextTypeOK, PTL DEF Spec

-----------------------------------------------------------------------------
(* What a step can do to the money. *)

\* The closing of what is left at the end.
Closing ==
    LET pnl == ClosedPnl(positionQty, entryPrice, -positionQty, bar.close)
    IN  /\ pc' = "done"
        /\ positionQty # 0 /\ positionQty' = 0 /\ entryPrice' = 0
        /\ balance' = balance + Scale * pnl
        /\ CountTrade(pnl, bar.close)
        /\ forced' = <<balance'>>
        /\ UNCHANGED <<fees, peakBalance, maxDrawdown, closings>>

\* Prices at which something can fill, as the refinement of Account has them.
Offers == {activeOrders[id].price : id \in DOMAIN activeOrders} \cup {bar.close, next.open}

LEMMA StepMoney ==
    ASSUME TypeOK, [Next]_vars
    PROVE  \/ UNCHANGED <<position, account, statistics>> /\ (pc = "done" => pc' = "done")
           \/ pc = "replay" /\ \E price \in Int : price \in Offers /\ Fills(price)
           \/ Closing
<1>1. ASSUME NEW id \in pending, Match(id)
      PROVE  pc = "replay" /\ \E price \in Int : price \in Offers /\ Fills(price)
  <2>1. pc = "replay" /\ id \in DOMAIN activeOrders
    BY <1>1 DEF Match, TypeOK
  <2> QED
    BY <1>1, <2>1, MatchFills DEF Offers
<1>2. ASSUME NEW t \in Decisions, MarketEntry(t) \/ IocFill(t)
      PROVE  pc = "replay" /\ next.open \in Int /\ next.open \in Offers /\ Fills(next.open)
  <2>1. pc = "replay"
    BY <1>2 DEF MarketEntry, IocFill, Decide
  <2> QED
    BY <1>2, <2>1, MarketFills, IocFills, BarTypes DEF TypeOK, Offers
<1>3. ASSUME NEW t \in Decisions, Hold(t) \/ PlaceLimits(t)
      PROVE  UNCHANGED <<position, account, statistics>> /\ pc = "replay"
  BY <1>3 DEF Hold, PlaceLimits, Decide
<1>4. CASE Finish
  BY <1>4 DEF Finish, Closing
<1>5. CASE UNCHANGED vars
  BY <1>5 DEF vars
<1> QED
  BY <1>1, <1>2, <1>3, <1>4, <1>5 DEF Next

-----------------------------------------------------------------------------
(* The drawdown. *)

curve == <<Scale * InitialBalance>> \o closings

\* The peak is the highest point of the curve so far: without this nothing says that
\* the next fall is measured from high enough.
PeakIsHighest ==
    /\ \E i \in DOMAIN curve : peakBalance = curve[i]
    /\ \A i \in DOMAIN curve : curve[i] <= peakBalance

DrawdownInv ==
    /\ PeakIsHighest
    /\ DrawdownUpToForcedClose
    /\ forced # << >> => pc = "done"

\* A closing fill puts one more point on a curve.
LEMMA CurveGrows ==
    ASSUME NEW points \in Seq(Int), points # << >>, NEW after \in Int
    PROVE  LET n == Len(points)
               more == points \o <<after>>
           IN  /\ more = Append(points, after)
               /\ n \in Nat \ {0} /\ DOMAIN points = 1..n /\ DOMAIN more = 1 .. n + 1
               /\ \A i \in 1..n : points[i] \in Int /\ more[i] = points[i]
               /\ more[n + 1] = after
  OBVIOUS

\* From a lower point the fall is not larger.
LEMMA SmallerFall ==
    ASSUME NEW x \in Int, NEW peak \in Int, NEW low \in Int, NEW fall \in Int,
           x <= peak, peak - low <= fall
    PROVE  x - low <= fall
  OBVIOUS

\* The largest fall of a curve with one more point, whose highest point P was known.
LEMMA FallGrows ==
    ASSUME NEW points \in Seq(Int), points # << >>, NEW P \in Int, NEW D \in Nat,
           NEW after \in Int,
           \E i \in DOMAIN points : P = points[i],
           \A i \in DOMAIN points : points[i] <= P,
           LargestFall(points, D)
    PROVE  LET more == points \o <<after>>
           IN  /\ \E i \in DOMAIN more : Larger(P, after) = more[i]
               /\ \A i \in DOMAIN more : more[i] <= Larger(P, after)
               /\ LargestFall(more, Larger(D, P - after))
               /\ Larger(D, P - after) = Larger(D, Larger(P, after) - after)
<1> DEFINE n == Len(points)
           more == points \o <<after>>
           P2 == Larger(P, after)
           D2 == Larger(D, P - after)
<1>1. /\ n \in Nat \ {0} /\ DOMAIN points = 1..n /\ DOMAIN more = 1 .. n + 1
      /\ \A i \in 1..n : points[i] \in Int /\ more[i] = points[i]
      /\ more[n + 1] = after
  BY CurveGrows
<1>4. /\ \E i \in 1..n : P = points[i]
      /\ \A i \in 1..n : points[i] <= P
      /\ \E j \in 1..n : \E i \in 1..j : D = points[i] - points[j]
      /\ \A j \in 1..n : \A i \in 1..j : points[i] - points[j] <= D
  BY <1>1 DEF LargestFall
<1>5. /\ P2 \in Int /\ D2 \in Int /\ P <= P2 /\ after <= P2 /\ D <= D2 /\ P2 - after <= D2
      /\ P2 \in {P, after} /\ D2 = Larger(D, P2 - after) /\ D2 \in {D, P - after}
      /\ D2 = D \/ P2 = P
  BY DEF Larger
<1> HIDE DEF n, more, P2, D2
<1>6. \E i \in 1 .. n + 1 : P2 = more[i]
  <2>1. CASE P2 = after
    BY <1>1, <2>1
  <2>2. CASE P2 = P
    <3>1. PICK i \in 1..n : P = points[i]
      BY <1>4
    <3> QED
      BY <1>1, <2>2, <3>1
  <2> QED
    BY <1>5, <2>1, <2>2
<1>7. ASSUME NEW i \in 1 .. n + 1 PROVE more[i] \in Int /\ more[i] <= P2
  <2>1. CASE i = n + 1
    BY <1>1, <1>5, <2>1
  <2>2. CASE i # n + 1
    <3>1. i \in 1..n
      BY <1>1, <2>2
    <3>2. points[i] \in Int /\ more[i] = points[i] /\ points[i] <= P
      BY <1>1, <1>4, <3>1
    <3> QED
      BY <1>5, <3>2
  <2> QED
    BY <2>1, <2>2
<1>8. \E j \in 1 .. n + 1 : \E i \in 1..j : D2 = more[i] - more[j]
  <2>1. CASE D2 = D
    <3>1. PICK j \in 1..n : \E i \in 1..j : D = points[i] - points[j]
      BY <1>4
    <3>2. PICK i \in 1..j : D = points[i] - points[j]
      BY <3>1
    <3>3. i \in 1..n /\ j \in 1 .. n + 1
      BY <1>1
    <3> QED
      BY <1>1, <2>1, <3>2, <3>3
  <2>2. CASE D2 = P - after
    <3>1. PICK i \in 1..n : P = points[i]
      BY <1>4
    <3>2. n + 1 \in 1 .. n + 1 /\ i \in 1 .. (n + 1)
      BY <1>1
    <3> QED
      BY <1>1, <2>2, <3>1, <3>2
  <2> QED
    BY <1>5, <2>1, <2>2
<1>9. ASSUME NEW j \in 1 .. n + 1, NEW i \in 1..j PROVE more[i] - more[j] <= D2
  <2>1. i \in 1 .. n + 1
    BY <1>1
  <2>2. CASE j = n + 1
    <3>1. more[i] \in Int /\ more[i] <= P2 /\ more[j] = after
      BY <1>1, <1>7, <2>1, <2>2
    <3>2. more[i] - after <= D2
      BY <1>1, <1>5, <1>7, <3>1, SmallerFall
    <3> QED
      BY <3>1, <3>2
  <2>3. CASE j # n + 1
    <3>1. j \in 1..n /\ i \in 1..n
      BY <1>1, <2>3
    <3>2. points[i] - points[j] <= D /\ points[i] \in Int /\ points[j] \in Int
      BY <1>1, <1>4, <3>1
    <3>3. more[i] = points[i] /\ more[j] = points[j]
      BY <1>1, <3>1
    <3> QED
      BY <1>5, <3>2, <3>3
  <2> QED
    BY <2>2, <2>3
<1> QED
  BY <1>1, <1>5, <1>6, <1>7, <1>8, <1>9 DEF LargestFall, more, P2, D2

\* What FallGrows needs of the curve of the closing fills.
LEMMA CurveSoFar ==
    ASSUME TypeOK, DrawdownInv
    PROVE  /\ curve \in Seq(Int) /\ curve # << >>
           /\ peakBalance \in Int /\ maxDrawdown \in Nat
           /\ \E i \in DOMAIN curve : peakBalance = curve[i]
           /\ \A i \in DOMAIN curve : curve[i] <= peakBalance
           /\ LargestFall(curve, maxDrawdown)
<1>1. <<Scale * InitialBalance>> \in Seq(Int)
  <2>1. Scale * InitialBalance \in Int
    BY BacktestAssumption DEF Scale
  <2> QED
    BY <2>1
<1>2. curve \in Seq(Int) /\ curve # << >>
  BY <1>1 DEF curve, TypeOK
<1> QED
  BY <1>2 DEF DrawdownInv, PeakIsHighest, DrawdownUpToForcedClose, curve, TypeOK

LEMMA CurveKeepsDrawdown ==
    ASSUME TypeOK, DrawdownInv, forced = << >>, NEW after \in Int, Curve(after)
    PROVE  DrawdownInv'
<1>1. <<Scale * InitialBalance>> \in Seq(Int)
  <2>1. Scale * InitialBalance \in Int
    BY BacktestAssumption DEF Scale
  <2> QED
    BY <2>1
<1>2. curve' = curve \o <<after>>
  <2>1. closings' = Append(closings, after) /\ closings \in Seq(Int)
    BY DEF Curve, TypeOK
  <2>2. curve' = Append(curve, after)
    BY <1>1, <2>1 DEF curve
  <2> QED
    BY <2>2, CurveSoFar, CurveGrows
<1>3. peakBalance' = Larger(peakBalance, after)
      /\ maxDrawdown' = Larger(maxDrawdown, peakBalance - after)
  <2>1. Larger(maxDrawdown, peakBalance - after)
          = Larger(maxDrawdown, Larger(peakBalance, after) - after)
    BY CurveSoFar, FallGrows
  <2> QED
    BY <2>1 DEF Curve
<1>4. PeakIsHighest'
  BY <1>2, <1>3, CurveSoFar, FallGrows DEF PeakIsHighest
<1>5. LargestFall(curve, maxDrawdown)'
  BY <1>2, <1>3, CurveSoFar, FallGrows
<1>6. forced' = << >>
  BY DEF Curve
<1> QED
  BY <1>4, <1>5, <1>6 DEF DrawdownInv, DrawdownUpToForcedClose, curve

\* The forced close puts a point on the curve that the reported figure does not see.
LEMMA ClosingShowsInBalance ==
    ASSUME TypeOK, TypeOK', DrawdownInv, Closing
    PROVE  DrawdownInv'
<1>1. /\ balance' \in Int /\ forced' = <<balance'>> /\ pc' = "done"
      /\ UNCHANGED <<peakBalance, maxDrawdown, closings>>
  BY DEF TypeOK, Closing
<1>2. curve' = curve
  BY <1>1 DEF curve
<1>3. LargestFall(curve \o <<balance'>>, Larger(maxDrawdown, peakBalance - balance'))
  BY <1>1, CurveSoFar, FallGrows
<1>4. LargestFall(curve \o forced, Larger(maxDrawdown, peakBalance - balance))'
  BY <1>1, <1>2, <1>3
<1>5. LargestFall(curve, maxDrawdown)' /\ PeakIsHighest'
  BY <1>1, <1>2, CurveSoFar DEF PeakIsHighest
<1> QED
  BY <1>1, <1>4, <1>5 DEF DrawdownInv, DrawdownUpToForcedClose, curve

\* The drawdown a backtest reports is the largest fall of its balance over the closing
\* fills of the loop, for every strategy, every history and every order of the fills of
\* a candle; the forced close is not in it, and the largest fall with that close is what
\* the final balance is below the peak, where this is more than the reported figure.
THEOREM DrawdownHolds == Spec => []DrawdownUpToForcedClose
<1>1. Init => DrawdownInv
  <2> SUFFICES ASSUME Init PROVE DrawdownInv
    OBVIOUS
  <2>1. Scale * InitialBalance \in Int
    BY BacktestAssumption DEF Scale
  <2>2. curve = <<Scale * InitialBalance>> /\ peakBalance = Scale * InitialBalance
        /\ maxDrawdown = 0 /\ forced = << >>
    BY <2>1 DEF Init, curve
  <2>3. DOMAIN curve = {1} /\ curve[1] = Scale * InitialBalance
    BY <2>2
  <2>4. LargestFall(curve, maxDrawdown) /\ PeakIsHighest
    BY <2>1, <2>2, <2>3 DEF LargestFall, PeakIsHighest
  <2> QED
    BY <2>2, <2>4 DEF DrawdownInv, DrawdownUpToForcedClose, curve
<1>2. TypeOK /\ TypeOK' /\ DrawdownInv /\ [Next]_vars => DrawdownInv'
  <2> SUFFICES ASSUME TypeOK, TypeOK', DrawdownInv, [Next]_vars PROVE DrawdownInv'
    OBVIOUS
  <2>1. ASSUME UNCHANGED <<account, statistics>>, pc = "done" => pc' = "done"
        PROVE  DrawdownInv'
    <3>1. UNCHANGED <<balance, peakBalance, maxDrawdown, closings, forced>>
      BY <2>1 DEF account, statistics
    <3>2. UNCHANGED curve
      BY <3>1 DEF curve
    <3>3. PeakIsHighest' /\ DrawdownUpToForcedClose'
      BY <3>1, <3>2 DEF DrawdownInv, PeakIsHighest, DrawdownUpToForcedClose, LargestFall
    <3> QED
      BY <2>1, <3>1, <3>3 DEF DrawdownInv
  <2>2. ASSUME NEW price \in Int, Fills(price), pc = "replay" PROVE DrawdownInv'
    <3>1. PICK side \in Sides, qty \in Nat \ {0}, fee \in Int : Fill(side, qty, price, fee)
      BY <2>2 DEF Fills
    <3>2. FillTyped /\ forced = << >>
      BY <2>2 DEF TypeOK, FillTyped, DrawdownInv
    <3> DEFINE after == balance'
    <3>3. after \in Int
      BY <3>1, <3>2, FillType DEF FillTyped
    <3>4. Curve(after) \/ UNCHANGED statistics
      BY <3>1 DEF Fill
    <3> HIDE DEF after
    <3>5. CASE UNCHANGED statistics
      <4>1. UNCHANGED <<peakBalance, maxDrawdown, closings, forced>>
        BY <3>5 DEF statistics
      <4> QED
        BY <3>2, <4>1 DEF DrawdownInv, PeakIsHighest, DrawdownUpToForcedClose, LargestFall, curve
    <3> QED
      BY <3>2, <3>3, <3>4, <3>5, CurveKeepsDrawdown
  <2> QED
    BY <2>1, <2>2, StepMoney, ClosingShowsInBalance
<1>3. DrawdownInv => DrawdownUpToForcedClose
  BY DEF DrawdownInv
<1> QED
  BY <1>1, <1>2, <1>3, TypeCorrect, PTL DEF Spec

-----------------------------------------------------------------------------
(* Wins, losses and the money. *)

\* The money of a fill that is counted: what it adds to the balance before fees is the
\* profit it is counted by.
LEMMA CountedMoney ==
    ASSUME TypeOK, CountsAgreeWithMoney, NEW pnl \in Int, NEW price, CountTrade(pnl, price),
           balance' \in Int, fees' \in Int, balance' + fees' = balance + fees + Scale * pnl
    PROVE  CountsAgreeWithMoney'
<1>1. /\ winningTrades \in Nat /\ losingTrades \in Nat /\ balance \in Int /\ fees \in Int
      /\ InitialBalance \in Int
  BY BacktestAssumption DEF TypeOK
<1> DEFINE money == balance + fees
           start == Scale * InitialBalance
<1>2. /\ money \in Int /\ start \in Int /\ money' = money + Scale * pnl
      /\ winningTrades = 0 => money <= start
      /\ losingTrades = 0 => money >= start
  <2>1. money \in Int /\ start \in Int
    BY <1>1 DEF Scale
  <2>2. money' = money + Scale * pnl
    OBVIOUS
  <2> QED
    BY <2>1, <2>2 DEF CountsAgreeWithMoney
<1>3. CountsAgreeWithMoney' <=> /\ winningTrades' = 0 => money' <= start
                                /\ losingTrades' = 0 => money' >= start
  BY DEF CountsAgreeWithMoney
<1> HIDE DEF money, start
<1>4. CASE pnl > 0
  <2>1. winningTrades' # 0 /\ losingTrades' = losingTrades /\ Scale * pnl > 0
    BY <1>1, <1>4 DEF CountTrade, Wins, Scale
  <2> QED
    BY <1>2, <1>3, <2>1 DEF Scale
<1>5. CASE ~(pnl > 0)
  <2>1. losingTrades' # 0 /\ winningTrades' = winningTrades /\ Scale * pnl <= 0
    BY <1>1, <1>5 DEF CountTrade, Wins, Scale
  <2> QED
    BY <1>2, <1>3, <2>1 DEF Scale
<1> QED
  BY <1>4, <1>5

\* The counts of winning and losing trades a backtest reports agree with its money, for
\* every history: without a win it made nothing before fees, without a loss it lost
\* nothing but fees.
THEOREM CountsAgreeHolds == Spec => []CountsAgreeWithMoney
<1>1. Init => CountsAgreeWithMoney
  BY BacktestAssumption DEF Init, CountsAgreeWithMoney, Scale
<1>2. TypeOK /\ TypeOK' /\ CountsAgreeWithMoney /\ [Next]_vars => CountsAgreeWithMoney'
  <2> SUFFICES ASSUME TypeOK, TypeOK', CountsAgreeWithMoney, [Next]_vars
               PROVE  CountsAgreeWithMoney'
    OBVIOUS
  <2>b. bar.close \in Int
    <3>1. bar \in Bars
      BY DEF TypeOK
    <3> QED
      BY <3>1, BarTypes
  <2>a. /\ balance \in Int /\ fees \in Int /\ balance' \in Int /\ fees' \in Int
        /\ positionQty \in Int /\ entryPrice \in Int /\ bar.close \in Int
    BY <2>b DEF TypeOK
  <2>1. CASE UNCHANGED <<position, account, statistics>>
    BY <2>1 DEF CountsAgreeWithMoney, position, account, statistics
  <2>2. ASSUME NEW price \in Int, Fills(price) PROVE CountsAgreeWithMoney'
    <3>1. PICK side \in Sides, qty \in Nat \ {0}, fee \in Int : Fill(side, qty, price, fee)
      BY <2>2 DEF Fills
    <3> DEFINE s == SignedQty(side, qty)
               pnl == ClosedPnl(positionQty, entryPrice, s, price)
    <3>2. FillTyped
      BY DEF TypeOK, FillTyped
    <3>3. pnl \in Int
      BY <3>2, FillParts
    <3>4. /\ balance' = balance - fee + (IF Opposes(positionQty, s) THEN Scale * pnl ELSE 0)
          /\ fees' = fees + fee
          /\ IF Opposes(positionQty, s) THEN CountTrade(pnl, price)
                                        ELSE UNCHANGED <<winningTrades, losingTrades>>
      BY <3>1 DEF Fill, statistics
    <3> HIDE DEF s, pnl
    <3>5. CASE Opposes(positionQty, s)
      <4>1. balance' + fees' = balance + fees + Scale * pnl
        BY <2>a, <3>3, <3>4, <3>5 DEF Scale
      <4> QED
        BY <2>a, <3>3, <3>4, <3>5, <4>1, CountedMoney
    <3>6. CASE ~Opposes(positionQty, s)
      <4>1. balance' + fees' = balance + fees
        BY <2>a, <3>4, <3>6
      <4> QED
        BY <3>4, <3>6, <4>1 DEF CountsAgreeWithMoney
    <3> QED
      BY <3>5, <3>6
  <2>3. CASE Closing
    <3> DEFINE pnl == ClosedPnl(positionQty, entryPrice, -positionQty, bar.close)
    <3>1. -positionQty \in Int
      BY <2>a
    <3>2. pnl \in Int
      BY <2>a, <3>1, ClosedPnlType
    <3>3. balance' = balance + Scale * pnl /\ fees' = fees /\ CountTrade(pnl, bar.close)
      BY <2>3 DEF Closing
    <3> HIDE DEF pnl
    <3>4. balance' + fees' = balance + fees + Scale * pnl
      BY <2>a, <3>2, <3>3 DEF Scale
    <3> QED
      BY <2>a, <3>2, <3>3, <3>4, CountedMoney
  <2> QED
    BY <2>1, <2>2, <2>3, StepMoney
<1> QED
  BY <1>1, <1>2, TypeCorrect, PTL DEF Spec

-----------------------------------------------------------------------------
(* The backtest implements Account. *)

\* Before fees the balance is whole cents: without this the cash of the abstract account,
\* which is in cents, would not be what the fills moved.
WholeCents == \E c \in Int : balance + fees = Scale * c

\* What the position cost is given back at its average price.
Cash == ((balance + fees) \div Scale) - positionQty * entryPrice

LEMMA CentsOf ==
    ASSUME NEW c \in Int
    PROVE  (Scale * c) \div Scale = c
  BY DEF Scale

\* A step that moves whole cents by the gain of a fill is a trade of the account.
LEMMA MoneyIsTrade ==
    ASSUME TypeOK, WholeCents, balance' \in Int, fees' \in Int,
           NEW s \in Int \ {0}, NEW price \in Int, price \in Offers,
           positionQty' = positionQty + s,
           entryPrice' = EntryAfter(positionQty, entryPrice, s, price),
           balance' + fees' = balance + fees
                + Scale * (IF Opposes(positionQty, s)
                           THEN ClosedPnl(positionQty, entryPrice, s, price) ELSE 0)
    PROVE  WholeCents' /\ Books!Next
<1> DEFINE q == positionQty
           e == entryPrice
           gain == IF Opposes(q, s) THEN ClosedPnl(q, e, s, price) ELSE 0
           after == EntryAfter(q, e, s, price)
           rest == gain - (q + s) * after + q * e + s * price
<1>1. q \in Int /\ e \in Int /\ balance \in Int /\ fees \in Int
  BY DEF TypeOK
<1>2. gain \in Int /\ after \in Int
  BY <1>1, ClosedPnlType, EntryType
<1>3. (Adds(q, s) => Abs(rest) < Abs(q + s)) /\ (~Adds(q, s) => rest = 0)
  BY <1>1, FillKeepsWorth
<1>4. PICK c \in Int : balance + fees = Scale * c
  BY DEF WholeCents
<1>5. positionQty' = q + s /\ entryPrice' = after /\ balance' + fees' = balance + fees + Scale * gain
  OBVIOUS
<1> HIDE DEF gain, after
<1>6. c + gain \in Int /\ balance' + fees' = Scale * (c + gain)
  <2>1. Scale * (c + gain) = Scale * c + Scale * gain
    BY <1>2, <1>4 DEF Scale
  <2> QED
    BY <1>2, <1>4, <1>5, <2>1
<1>7. WholeCents'
  BY <1>6 DEF WholeCents
<1>8. Cash = c - q * e /\ Cash' = c + gain - (q + s) * after
  <2>1. (balance + fees) \div Scale = c
    BY <1>4, CentsOf
  <2>2. (balance' + fees') \div Scale = c + gain
    BY <1>6, CentsOf
  <2>3. ((balance' + fees') \div Scale) - positionQty' * entryPrice' = c + gain - (q + s) * after
    BY <1>1, <1>2, <1>5, <2>2
  <2> QED
    BY <2>1, <2>3 DEF Cash, Scale
<1>9. Books!Unexplained(price) = rest
  <2>1. q * e \in Int /\ (q + s) * after \in Int
    BY <1>1, <1>2
  <2>2. Books!Unexplained(price) = Cash' - Cash + (positionQty' - positionQty) * price
    BY DEF Books!Unexplained, Cash
  <2>3. positionQty' - positionQty = s
    BY <1>1, <1>5
  <2> QED
    BY <1>1, <1>2, <1>8, <2>1, <2>2, <2>3
<1>10. Adds(q, s) <=> Books!Adding
  BY <1>1, <1>5 DEF Adds, Books!Adding
<1>11. Books!Size(rest) = Abs(rest) /\ Books!Size(positionQty') = Abs(q + s)
  BY <1>5 DEF Books!Size, Abs
<1>12. positionQty' # positionQty
  BY <1>1, <1>5
<1>13. Books!Trade(price)
  BY <1>3, <1>9, <1>10, <1>11, <1>12 DEF Books!Trade
<1> QED
  BY <1>7, <1>13 DEF Books!Next, Offers

\* Before fees no fill of a backtest makes or loses money, the closing at the end
\* included: for every strategy and every history its balance and average entry price
\* account for the plain trading account the engine implements too.
THEOREM BacktestImplementsAccount == Spec => BooksBalance
<1>1. Init => WholeCents /\ Books!Init
  <2> SUFFICES ASSUME Init PROVE WholeCents /\ Books!Init
    OBVIOUS
  <2>1. InitialBalance \in Int /\ balance = Scale * InitialBalance /\ fees = 0
        /\ positionQty = 0 /\ entryPrice = 0
    BY BacktestAssumption DEF Init
  <2>2. balance + fees = Scale * InitialBalance
    BY <2>1 DEF Scale
  <2>3. ((balance + fees) \div Scale) - positionQty * entryPrice = InitialBalance
    BY <2>1, <2>2, CentsOf
  <2>4. \E seed \in {<<0, 0>>} : positionQty = seed[1]
           /\ ((balance + fees) \div Scale) - positionQty * entryPrice
                = InitialBalance - seed[1] * seed[2]
    BY <2>1, <2>3
  <2> QED
    BY <2>1, <2>2, <2>4 DEF WholeCents, Books!Init
<1>2. TypeOK /\ TypeOK' /\ WholeCents /\ [Next]_vars => WholeCents' /\ [Books!Next]_<<positionQty, Cash>>
  <2> SUFFICES ASSUME TypeOK, TypeOK', WholeCents, [Next]_vars
               PROVE  WholeCents' /\ [Books!Next]_<<positionQty, Cash>>
    OBVIOUS
  <2>b. bar.close \in Int
    <3>1. bar \in Bars
      BY DEF TypeOK
    <3> QED
      BY <3>1, BarTypes
  <2>a. /\ balance \in Int /\ fees \in Int /\ balance' \in Int /\ fees' \in Int
        /\ positionQty \in Int /\ entryPrice \in Int /\ bar.close \in Int
    BY <2>b DEF TypeOK
  <2>1. CASE UNCHANGED <<position, account, statistics>>
    BY <2>1 DEF WholeCents, Cash, position, account
  <2>2. ASSUME NEW price \in Int, price \in Offers, Fills(price)
        PROVE  WholeCents' /\ Books!Next
    <3>1. PICK side \in Sides, qty \in Nat \ {0}, fee \in Int : Fill(side, qty, price, fee)
      BY <2>2 DEF Fills
    <3> DEFINE s == SignedQty(side, qty)
               pnl == ClosedPnl(positionQty, entryPrice, s, price)
    <3>2. FillTyped
      BY DEF TypeOK, FillTyped
    <3>3. pnl \in Int /\ s \in Int \ {0}
      BY <3>2, FillParts
    <3>4. /\ balance' = balance - fee + (IF Opposes(positionQty, s) THEN Scale * pnl ELSE 0)
          /\ fees' = fees + fee /\ positionQty' = positionQty + s
          /\ entryPrice' = EntryAfter(positionQty, entryPrice, s, price)
      BY <3>1 DEF Fill
    <3> HIDE DEF pnl, s
    <3>5. balance' + fees' = balance + fees + Scale * (IF Opposes(positionQty, s) THEN pnl ELSE 0)
      BY <2>a, <3>3, <3>4 DEF Scale
    <3> QED
      BY <2>a, <2>2, <3>3, <3>4, <3>5, MoneyIsTrade DEF pnl
  <2>3. CASE Closing
    <3> DEFINE s == -positionQty
               pnl == ClosedPnl(positionQty, entryPrice, s, bar.close)
    <3>1. s \in Int \ {0} /\ positionQty + s = 0 /\ Opposes(positionQty, s)
      BY <2>a, <2>3 DEF Closing, Opposes
    <3>2. pnl \in Int
      BY <2>a, <3>1, ClosedPnlType
    <3>3. /\ balance' = balance + Scale * pnl /\ fees' = fees
          /\ positionQty' = 0 /\ entryPrice' = 0
      BY <2>3 DEF Closing
    <3>4. entryPrice' = EntryAfter(positionQty, entryPrice, s, bar.close)
      BY <3>1, <3>3 DEF EntryAfter
    <3> HIDE DEF s, pnl
    <3>5. balance' + fees' = balance + fees + Scale * (IF Opposes(positionQty, s) THEN pnl ELSE 0)
      BY <2>a, <3>1, <3>2, <3>3 DEF Scale
    <3>6. bar.close \in Offers /\ positionQty' = positionQty + s
      BY <3>1, <3>3 DEF Offers
    <3>7. WholeCents' /\ Books!Next
      BY <2>a, <3>1, <3>4, <3>5, <3>6, MoneyIsTrade DEF pnl
    <3> QED
      BY <3>7
  <2> QED
    BY <2>1, <2>2, <2>3, StepMoney
<1> QED
  BY <1>1, <1>2, TypeCorrect, PTL DEF Spec, BooksBalance, Books!Spec, Cash
=============================================================================
