------------------------ MODULE TradingEngineProofs -------------------------
(***************************************************************************)
(* Theorems about TradingEngine for every value of its constants.          *)
(***************************************************************************)
EXTENDS TradingEngine, TradingLemmas, FiniteSetTheorems

-----------------------------------------------------------------------------
(* Type correctness. *)

LEMMA RiskTypes ==
    ASSUME NEW r \in RiskState, NEW pnl \in Int, trades \in Seq(Trade)
    PROVE  Older(r) \in RiskState /\ RolledOver(r) \in RiskState /\ Recorded(r, pnl) \in RiskState
<1>1. DayLength \in Nat /\ Len(trades) \in Nat
  BY EngineAssumption
<1>2. Older(r) \in RiskState
  <2>1. r.age + 1 \in 0..(DayLength + 2)
    BY <1>1 DEF RiskState
  <2>2. Smaller(r.age + 1, DayLength + 1) \in 0..(DayLength + 1)
    BY <1>1, <2>1 DEF Smaller
  <2> QED
    BY <2>2 DEF Older, RiskState
<1>3. RolledOver(r) \in RiskState
  BY <1>1 DEF RolledOver, RiskState
<1>4. Recorded(r, pnl) \in RiskState
  BY <1>1 DEF Recorded, RiskState, Abs
<1> QED
  BY <1>2, <1>3, <1>4

\* What a fill leaves typed.
FillTyped ==
    /\ {positionQty, entryPrice, simulatedBalance} \subseteq Int
    /\ positionOpenedAt \in Nat
    /\ risk \in RiskState
    /\ executions \in Seq(Execution)
    /\ trades \in Seq(Trade)
    /\ lostExecutions \subseteq DOMAIN executions /\ lostTrades \subseteq DOMAIN trades
    /\ clock \in Nat

\* The rows that are lost are rows, whichever statements fail.
LEMMA LostType ==
    ASSUME FillTyped, NEW E, NEW T, executions' = executions \o E, E \in Seq(Execution),
           T \in Seq(Trade), trades' = trades \o T, Statements
    PROVE  lostExecutions' \subseteq DOMAIN executions' /\ lostTrades' \subseteq DOMAIN trades'
<1>1. /\ executions \in Seq(Execution) /\ trades \in Seq(Trade)
      /\ lostExecutions \subseteq DOMAIN executions /\ lostTrades \subseteq DOMAIN trades
  BY DEF FillTyped
<1>2. /\ DOMAIN executions' = 1..Len(executions') /\ DOMAIN executions = 1..Len(executions)
      /\ Len(executions) \in Nat /\ Len(E) \in Nat /\ Len(executions') = Len(executions) + Len(E)
  BY <1>1
<1>3. /\ DOMAIN trades' = 1..Len(trades') /\ DOMAIN trades = 1..Len(trades)
      /\ Len(trades) \in Nat /\ Len(T) \in Nat /\ Len(trades') = Len(trades) + Len(T)
  BY <1>1
<1>4. PICK gone \in SUBSET (Len(executions) + 1..Len(executions')) :
         lostExecutions' = lostExecutions \cup gone
  BY DEF Statements
<1>5. PICK fled \in SUBSET (Len(trades) + 1..Len(trades')) : lostTrades' = lostTrades \cup fled
  BY DEF Statements
<1>6. \A m, k \in Nat : (m + 1..m + k) \subseteq 1..m + k /\ (1..m) \subseteq 1..m + k
  OBVIOUS
<1>7. lostExecutions' \subseteq DOMAIN executions'
  BY <1>1, <1>2, <1>4, <1>6
<1>8. lostTrades' \subseteq DOMAIN trades'
  BY <1>1, <1>3, <1>5, <1>6
<1> QED
  BY <1>7, <1>8

\* applyFill keeps position, risk counters and both ledgers well-typed.
LEMMA FillType ==
    ASSUME FillTyped,
           NEW side \in Sides, NEW qty \in Nat \ {0}, NEW price \in Int, NEW r \in RiskState,
           ApplyFill(side, qty, price, r)
    PROVE  FillTyped'
<1> DEFINE s == SignedQty(side, qty)
           pnl == ClosedPnl(positionQty, entryPrice, s, price)
           now == clock + 1
           trade == [position |-> SideOf(positionQty), qty |-> ClosedQty(positionQty, s),
                     entry |-> entryPrice, exit |-> price, pnl |-> pnl,
                     balance |-> simulatedBalance + pnl,
                     opened |-> IF positionOpenedAt = 0 THEN now ELSE positionOpenedAt,
                     closed |-> now]
<1>0. /\ positionQty \in Int /\ entryPrice \in Int /\ simulatedBalance \in Int
      /\ trades \in Seq(Trade) /\ executions \in Seq(Execution)
      /\ clock \in Nat /\ positionOpenedAt \in Nat
  BY DEF FillTyped
<1>1. s \in Int /\ pnl \in Int /\ now \in Nat
  <2>1. s \in Int
    BY SignedQtyType
  <2> HIDE DEF s
  <2> QED
    BY <1>0, <2>1, ClosedPnlType
<1>2. /\ clock' = now
      /\ positionQty' = positionQty + s
      /\ entryPrice' = EntryAfter(positionQty, entryPrice, s, price)
      /\ positionOpenedAt' = OpenedAfter(positionQty, positionOpenedAt, s, now)
      /\ executions' = executions \o ExecutionRows(side, qty, positionQty, price, now)
      /\ IF Opposes(positionQty, s)
         THEN /\ simulatedBalance' = simulatedBalance + pnl
              /\ trades' = Append(trades, trade)
              /\ risk' = Recorded(r, pnl)
         ELSE /\ risk' = r
              /\ UNCHANGED <<simulatedBalance, trades>>
      /\ Statements
  BY DEF ApplyFill
<1>3. Opposes(positionQty, s) => trade \in Trade
  <2>1. ClosedQty(positionQty, s) \in Nat
    BY <1>1, ClosedQtyType DEF FillTyped
  <2>2. Opposes(positionQty, s) => SideOf(positionQty) \in {"LONG", "SHORT"}
    BY DEF Opposes, SideOf
  <2> QED
    BY <1>1, <2>1, <2>2 DEF Trade, FillTyped
<1> HIDE DEF s, pnl, now, trade
<1>4. positionQty' \in Int /\ entryPrice' \in Int /\ clock' \in Nat
  BY <1>0, <1>1, <1>2, EntryType
<1>5. positionOpenedAt' \in Nat
  BY <1>1, <1>2 DEF FillTyped, OpenedAfter
<1>6. PICK E \in Seq(Execution) : executions' = executions \o E
  <2>1. ExecutionRows(side, qty, positionQty, price, now) \in Seq(Execution)
    BY <1>1, RowsType DEF FillTyped
  <2> QED
    BY <1>2, <2>1
<1>7. executions' \in Seq(Execution)
  BY <1>0, <1>6
<1>8. PICK T \in Seq(Trade) : trades' = trades \o T
  <2>1. CASE Opposes(positionQty, s)
    <3>1. trade \in Trade /\ trades' = Append(trades, trade)
      BY <1>2, <1>3, <2>1
    <3>2. <<trade>> \in Seq(Trade) /\ trades \o <<trade>> = Append(trades, trade)
      BY <1>0, <3>1
    <3> QED
      BY <3>1, <3>2
  <2>2. CASE ~Opposes(positionQty, s)
    <3>1. trades' = trades /\ << >> \in Seq(Trade) /\ trades \o << >> = trades
      BY <1>0, <1>2, <2>2
    <3> QED
      BY <3>1
  <2> QED
    BY <2>1, <2>2
<1>9. trades' \in Seq(Trade)
  BY <1>0, <1>8
<1>10. lostExecutions' \subseteq DOMAIN executions' /\ lostTrades' \subseteq DOMAIN trades'
  BY <1>2, <1>6, <1>8, LostType
<1>11. risk' \in RiskState /\ simulatedBalance' \in Int
  <2>1. Recorded(r, pnl) \in RiskState
    BY <1>0, <1>1, RiskTypes
  <2> QED
    BY <1>0, <1>1, <1>2, <2>1
<1> QED
  BY <1>4, <1>5, <1>7, <1>9, <1>10, <1>11 DEF FillTyped

\* A decision is executed for a positive number of lots or not at all.
LEMMA QtyOfType ==
    ASSUME NEW d \in Decision, NEW price \in Nat \ {0}
    PROVE  QtyOf(d, price) \in Nat
<1>1. TradeNotional \in Nat
  BY EngineAssumption
<1>2. TradeNotional \div price \in Nat
  BY <1>1
<1> QED
  BY <1>2 DEF QtyOf, Decision

LEMMA CandleTypes ==
    ASSUME TypeOK, pc = "matching"
    PROVE  kline.close \in Nat \ {0}
  BY EngineAssumption DEF TypeOK, Kline

\* What a strategy may return is a tick.
LEMMA DecisionsType ==
    ASSUME TypeOK, pc = "matching"
    PROVE  Decisions \subseteq Tick
<1>1. strategy \in StrategyIds
  BY EngineAssumption DEF TypeOK
<1>2. kline.close \in Int /\ positionQty \in Int /\ tick.mem \in Memory
  BY CandleTypes DEF TypeOK, Tick
<1> QED
  BY <1>1, <1>2, OnTickType DEF Decisions

BookTyped(book) ==
    /\ DOMAIN book \subseteq Nat /\ IsFiniteSet(DOMAIN book)
    /\ \A id \in DOMAIN book : book[id] \in RestingOrder

\* What executeDecisions leaves in the book are limit orders for positive quantities.
LEMMA BookType ==
    ASSUME TypeOK, pc = "matching", NEW t \in Decisions
    PROVE  BookTyped(BookAfter(t.orders, kline.close))
<1> DEFINE price == kline.close
           new == [k \in {i \in Rests(t.orders) :
                            Reached(t.orders, price, i) /\ QtyOf(t.orders[i], price) > 0} |->
                     [side |-> t.orders[k].side, price |-> t.orders[k].price,
                      qty |-> QtyOf(t.orders[k], price)]]
<1>1. t.orders \in Seq(Decision) /\ price \in Nat \ {0}
  BY DecisionsType, CandleTypes DEF Tick
<1>2. Rests(t.orders) \subseteq Nat /\ IsFiniteSet(DOMAIN new)
  <2>1. DOMAIN t.orders = 1..Len(t.orders) /\ Len(t.orders) \in Nat
    BY <1>1
  <2>2. IsFiniteSet(DOMAIN t.orders) /\ DOMAIN new \in SUBSET DOMAIN t.orders
    BY <2>1, FS_Interval DEF Rests
  <2> HIDE DEF new
  <2> QED
    BY <2>1, <2>2, FS_Subset DEF Rests
<1>3. ASSUME NEW k \in DOMAIN new PROVE new[k] \in RestingOrder
  <2>1. t.orders[k] \in Decision
    BY <1>1 DEF Rests
  <2>2. QtyOf(t.orders[k], price) \in Nat \ {0}
    BY <1>1, <2>1, QtyOfType
  <2> HIDE DEF price
  <2> QED
    BY <2>1, <2>2 DEF RestingOrder, Decision
<1>4. BookTyped(new)
  BY <1>2, <1>3 DEF BookTyped
<1>5. BookTyped(activeOrders)
  BY DEF TypeOK, BookTyped
<1> HIDE DEF new
<1>6. BookAfter(t.orders, price) = IF Rests(t.orders) = {} THEN activeOrders ELSE new
  BY DEF BookAfter, new
<1> QED
  BY <1>4, <1>5, <1>6

LEMMA InitTypeOK == Init => TypeOK
<1> SUFFICES ASSUME Init PROVE TypeOK
  OBVIOUS
<1>1. /\ InitialBalance \in Int /\ DayLength \in Nat /\ Lookback \in Nat
  BY EngineAssumption, StrategyAssumption
<1>2. positionQty \in Int /\ entryPrice \in Int
  BY EngineAssumption DEF Init
<1>3. tick \in Tick
  BY <1>1 DEF Init, Tick, FreshMemory, Memory
<1>4. risk \in RiskState
  BY <1>1 DEF Init, RiskState
<1>5. DOMAIN activeOrders = {}
  BY DEF Init, NoOrders
<1> QED
  BY <1>1, <1>2, <1>3, <1>4, <1>5, FS_EmptySet DEF Init, TypeOK, NoKline

\* Every step of the engine keeps its state well-typed.
LEMMA NextTypeOK == TypeOK /\ [Next]_vars => TypeOK'
<1> SUFFICES ASSUME TypeOK, [Next]_vars PROVE TypeOK'
  OBVIOUS
<1> USE DEF ledger, lost, position, stops
<1>a. FillTyped
  BY DEF TypeOK, FillTyped
<1>b. risk \in RiskState /\ trades \in Seq(Trade)
  BY DEF TypeOK
<1>c. Older(risk) \in RiskState /\ RolledOver(risk) \in RiskState
  BY <1>b, RiskTypes
<1>1. CASE FetchFails
  BY <1>1, <1>c DEF FetchFails, TypeOK
<1>2. ASSUME NEW k \in Candles, Candle(k) PROVE TypeOK'
  BY <1>2, <1>c DEF Candle, TypeOK
<1>3. ASSUME NEW id \in pending, Match(id) PROVE TypeOK'
  <2>1. activeOrders[id] \in RestingOrder
    BY DEF TypeOK
  <2>2. /\ activeOrders[id].side \in Sides /\ activeOrders[id].qty \in Nat \ {0}
        /\ activeOrders[id].price \in Int
    BY <2>1 DEF RestingOrder
  <2>3. FillTyped'
    BY <1>3, <1>a, <1>b, <2>2, FillType DEF Match
  <2>4. BookTyped(activeOrders')
    <3>1. DOMAIN activeOrders' = DOMAIN activeOrders \ {id} /\ IsFiniteSet(DOMAIN activeOrders)
      BY <1>3 DEF Match, TypeOK
    <3>2. IsFiniteSet(DOMAIN activeOrders')
      BY <3>1, FS_RemoveElement
    <3> QED
      BY <1>3, <3>1, <3>2 DEF Match, TypeOK, BookTyped
  <2>5. pending' \subseteq DOMAIN activeOrders'
    BY <1>3 DEF Match, TypeOK
  <2> QED
    BY <1>3, <2>3, <2>4, <2>5 DEF Match, TypeOK, FillTyped, BookTyped
<1>4. ASSUME NEW t \in Decisions, Hold(t) PROVE TypeOK'
  <2>1. t \in Tick
    BY <1>4, DecisionsType DEF Hold, Decide
  <2> QED
    BY <1>4, <2>1 DEF Hold, Decide, TypeOK, NoKline
<1>5. ASSUME NEW t \in Decisions, GlobalExit(t) PROVE TypeOK'
  <2>1. t \in Tick
    BY <1>5, DecisionsType DEF GlobalExit, Decide
  <2>2. kline.close \in Int
    BY <1>5, CandleTypes DEF GlobalExit, Decide
  <2>3. Abs(positionQty) \in Nat \ {0}
    <3>1. positionQty \in Int /\ positionQty # 0
      BY <1>5 DEF GlobalExit, TypeOK
    <3> QED
      BY <3>1, AbsType
  <2>4. FillTyped'
    BY <1>5, <1>a, <1>b, <2>2, <2>3, FillType, ReducingSideType DEF GlobalExit
  <2>5. BookTyped(activeOrders') /\ pending' = {}
    BY <1>5, FS_EmptySet DEF GlobalExit, Decide, NoOrders, BookTyped
  <2> QED
    BY <1>5, <2>1, <2>4, <2>5 DEF GlobalExit, Decide, TypeOK, FillTyped, BookTyped, NoKline
<1>6. ASSUME NEW t \in Decisions, RiskBlocked(t) PROVE TypeOK'
  <2>1. t \in Tick
    BY <1>6, DecisionsType DEF RiskBlocked, Decide
  <2> QED
    BY <1>6, <1>c, <2>1 DEF RiskBlocked, Decide, TypeOK, NoKline
<1>7. ASSUME NEW t \in Decisions, PlaceLimits(t) PROVE TypeOK'
  <2>1. t \in Tick /\ BookTyped(BookAfter(t.orders, kline.close))
    BY <1>7, DecisionsType, BookType DEF PlaceLimits, Decide
  <2> QED
    BY <1>7, <1>c, <2>1 DEF PlaceLimits, Decide, TypeOK, BookTyped, NoKline
<1>8. ASSUME NEW t \in Decisions, MarketEntry(t) PROVE TypeOK'
  <2>1. t \in Tick /\ BookTyped(BookAfter(t.orders, kline.close))
    BY <1>8, DecisionsType, BookType DEF MarketEntry, Decide
  <2>2. PICK m \in MarketOrders(t.orders, kline.close) :
           LET d == t.orders[m]
           IN  /\ ApplyFill(d.side, QtyOf(d, kline.close), kline.close, RolledOver(risk))
               /\ globalSL' = IF d.sl > 0 THEN d.sl ELSE globalSL
               /\ globalTP' = IF d.tp > 0 THEN d.tp ELSE globalTP
    BY <1>8 DEF MarketEntry
  <2>3. t.orders[m] \in Decision
    BY <2>1 DEF MarketOrders, Tick
  <2>4. kline.close \in Nat \ {0}
    BY <1>8, CandleTypes DEF MarketEntry, Decide
  <2>5. QtyOf(t.orders[m], kline.close) \in Nat \ {0}
    BY <2>3, <2>4, QtyOfType DEF MarketOrders
  <2>6. t.orders[m].side \in Sides
    BY <2>3 DEF Decision
  <2>7. FillTyped'
    BY <1>a, <1>c, <2>2, <2>4, <2>5, <2>6, FillType
  <2>8. globalSL' \in Int /\ globalTP' \in Int
    BY <2>2, <2>3 DEF TypeOK, Decision
  <2> QED
    BY <1>8, <2>1, <2>7, <2>8
    DEF MarketEntry, Decide, TypeOK, FillTyped, BookTyped, NoKline
<1>9. CASE UNCHANGED vars
  BY <1>9 DEF vars, TypeOK
<1> QED
  BY <1>1, <1>2, <1>3, <1>4, <1>5, <1>6, <1>7, <1>8, <1>9 DEF Next

\* The engine never leaves the types of its state: positions, prices, counters,
\* the book and both ledgers, with every strategy and every order of fills.
THEOREM TypeCorrect == Spec => []TypeOK
  BY InitTypeOK, NextTypeOK, PTL DEF Spec

-----------------------------------------------------------------------------
(* The engine implements Account. *)

\* One call of applyFill is one trade of the abstract account at the fill price:
\* opening, adding, reducing, closing and reversing alike.
LEMMA FillIsTrade ==
    ASSUME FillTyped,
           NEW side \in Sides, NEW qty \in Nat \ {0}, NEW price \in Int, NEW r,
           ApplyFill(side, qty, price, r)
    PROVE  Books!Trade(price)
<1> DEFINE s == SignedQty(side, qty)
           q == positionQty
           e == entryPrice
           b == simulatedBalance
           gain == IF Opposes(q, s) THEN ClosedPnl(q, e, s, price) ELSE 0
           after == EntryAfter(q, e, s, price)
           rest == gain - (q + s) * after + q * e + s * price
<1>1. q \in Int /\ e \in Int /\ b \in Int /\ s \in Int /\ s # 0 /\ gain \in Int /\ after \in Int
  <2>1. q \in Int /\ e \in Int /\ b \in Int /\ s \in Int /\ s # 0
    BY SignedQtyType DEF FillTyped
  <2> HIDE DEF s
  <2>2. ClosedPnl(q, e, s, price) \in Int /\ EntryAfter(q, e, s, price) \in Int
    BY <2>1, ClosedPnlType, EntryType
  <2> QED
    BY <2>1, <2>2
<1>2. positionQty' = q + s /\ entryPrice' = after /\ simulatedBalance' = b + gain
  BY <1>1 DEF ApplyFill
<1>3. /\ Adds(q, s) => Abs(rest) < Abs(q + s)
      /\ ~Adds(q, s) => rest = 0
  BY <1>1, FillKeepsWorth
<1>4. Adds(q, s) <=> Books!Adding
  BY <1>1, <1>2 DEF Adds, Books!Adding
<1> HIDE DEF s, gain, after
<1>5. Books!Unexplained(price) = rest
  BY <1>1, <1>2 DEF Books!Unexplained
<1>6. Books!Size(rest) = Abs(rest) /\ Books!Size(positionQty') = Abs(q + s)
  BY <1>2 DEF Books!Size, Abs
<1>7. positionQty' # positionQty
  BY <1>1, <1>2
<1> QED
  BY <1>3, <1>4, <1>5, <1>6, <1>7 DEF Books!Trade

LEMMA InitBooks == Init => Books!Init
<1> SUFFICES ASSUME Init PROVE Books!Init
  OBVIOUS
<1>1. PICK seed \in Seeds : positionQty = seed[1] /\ entryPrice = seed[2]
  BY DEF Init
<1>2. simulatedBalance = InitialBalance
  BY DEF Init
<1> QED
  BY <1>1, <1>2 DEF Books!Init

\* Every step of the engine is a trade of the account at a price on offer, or
\* leaves the account alone.
LEMMA NextBooks ==
    ASSUME TypeOK, [Next]_vars
    PROVE  [Books!Next]_<<positionQty, simulatedBalance - positionQty * entryPrice>>
<1> DEFINE quiet == UNCHANGED <<positionQty, entryPrice, simulatedBalance>>
<1> USE DEF position
<1>a. FillTyped
  BY DEF TypeOK, FillTyped
<1>b. quiet => UNCHANGED <<positionQty, simulatedBalance - positionQty * entryPrice>>
  OBVIOUS
<1>c. kline.close \in Offers
  BY DEF Offers
<1>1. CASE FetchFails
  BY <1>1, <1>b DEF FetchFails
<1>2. ASSUME NEW k \in Candles, Candle(k) PROVE quiet
  BY <1>2 DEF Candle
<1>3. ASSUME NEW id \in pending, Match(id) PROVE Books!Next
  <2>1. activeOrders[id] \in RestingOrder /\ id \in DOMAIN activeOrders
    BY DEF TypeOK
  <2>2. /\ activeOrders[id].side \in Sides /\ activeOrders[id].qty \in Nat \ {0}
        /\ activeOrders[id].price \in Int /\ activeOrders[id].price \in Offers
    BY <2>1 DEF RestingOrder, Offers
  <2>3. Books!Trade(activeOrders[id].price)
    BY <1>3, <1>a, <2>2, FillIsTrade DEF Match
  <2> QED
    BY <2>2, <2>3 DEF Books!Next
<1>4. ASSUME NEW t \in Decisions, Hold(t) PROVE quiet
  BY <1>4 DEF Hold
<1>5. ASSUME NEW t \in Decisions, GlobalExit(t) PROVE Books!Next
  <2>1. kline.close \in Int
    BY <1>5, CandleTypes DEF GlobalExit, Decide
  <2>2. positionQty \in Int /\ positionQty # 0
    BY <1>5 DEF GlobalExit, TypeOK
  <2>3. Abs(positionQty) \in Nat \ {0}
    BY <2>2, AbsType
  <2>4. Books!Trade(kline.close)
    BY <1>5, <1>a, <2>1, <2>3, FillIsTrade, ReducingSideType DEF GlobalExit
  <2> QED
    BY <2>4, <1>c DEF Books!Next
<1>6. ASSUME NEW t \in Decisions, RiskBlocked(t) PROVE quiet
  BY <1>6 DEF RiskBlocked
<1>7. ASSUME NEW t \in Decisions, PlaceLimits(t) PROVE quiet
  BY <1>7 DEF PlaceLimits
<1>8. ASSUME NEW t \in Decisions, MarketEntry(t) PROVE Books!Next
  <2>1. PICK m \in MarketOrders(t.orders, kline.close) :
           LET d == t.orders[m]
           IN  ApplyFill(d.side, QtyOf(d, kline.close), kline.close, RolledOver(risk))
    BY <1>8 DEF MarketEntry
  <2>2. kline.close \in Nat \ {0} /\ t \in Tick
    BY <1>8, CandleTypes, DecisionsType DEF MarketEntry, Decide
  <2>3. t.orders[m] \in Decision
    BY <2>2 DEF MarketOrders, Tick
  <2>4. t.orders[m].side \in Sides /\ QtyOf(t.orders[m], kline.close) \in Nat \ {0}
    BY <2>2, <2>3, QtyOfType DEF MarketOrders, Decision
  <2>5. Books!Trade(kline.close)
    BY <1>a, <2>1, <2>2, <2>4, FillIsTrade
  <2> QED
    BY <2>5, <1>c DEF Books!Next
<1>9. CASE UNCHANGED vars
  BY <1>9, <1>b DEF vars
<1> QED
  BY <1>b, <1>1, <1>2, <1>3, <1>4, <1>5, <1>6, <1>7, <1>8, <1>9 DEF Next

\* No fill makes or loses money: whatever the strategy, the prices and the order
\* of fills, the engine's balance and average entry price account for a plain
\* trading account.
THEOREM EngineImplementsAccount == Spec => BooksBalance
  BY InitBooks, NextBooks, TypeCorrect, PTL DEF Spec, BooksBalance, Books!Spec

-----------------------------------------------------------------------------
(* The stops of ema_macd_rsi. *)

\* Two average true ranges never exceed the price: without this the stop of a long
\* position would not be positive and executeDecisions would leave it without one.
RangesBelowPrices == \A k \in Candles, atr \in Atrs : 2 * atr < k.close

\* ema_macd_rsi has nothing in the book, so only its own decisions and the engine's exits
\* move its position.
StopsInv ==
    /\ StopsBelongToPosition
    /\ strategy = "ema_macd_rsi" => DOMAIN activeOrders = {}

\* ema_macd_rsi rests nothing in the book, and sets its stop and its target when it is flat.
LEMMA EmaInEngine ==
    ASSUME TypeOK, pc = "matching", strategy = "ema_macd_rsi",
           NEW t \in Decisions, t.orders # << >>
    PROVE  /\ positionQty = 0
           /\ Rests(t.orders) = {}
           /\ DOMAIN t.orders = {1}
           /\ t.orders[1] \in Decision
           /\ \E dir \in {1, -1}, atr \in Atrs :
                /\ t.orders[1].side = IF dir = 1 THEN "BUY" ELSE "SELL"
                /\ t.orders[1].sl = kline.close - dir * 2 * atr
                /\ t.orders[1].tp = kline.close + dir * 4 * atr
<1>1. kline.close \in Int
  BY CandleTypes
<1>2. t \in OnTick("ema_macd_rsi", kline.close, positionQty, tick.mem)
  BY DEF Decisions
<1>3. t.orders[1].type = "Market" /\ DOMAIN t.orders = {1}
  BY <1>1, <1>2, EmaDecides
<1>4. Rests(t.orders) = {}
  BY <1>3 DEF Rests
<1> QED
  BY <1>1, <1>2, <1>4, EmaDecides

LEMMA InitStops == Init => StopsInv
<1> SUFFICES ASSUME Init PROVE StopsInv
  OBVIOUS
<1>1. DOMAIN activeOrders = {}
  BY DEF Init, NoOrders
<1> QED
  BY <1>1 DEF Init, StopsInv, StopsBelongToPosition

\* The exit closes the position and forgets its stops; an entry finds none and sets its own.
LEMMA NextStops ==
    ASSUME RangesBelowPrices, TypeOK, StopsInv, [Next]_vars
    PROVE  StopsInv'
<1> USE DEF position, stops
<1> DEFINE ema == strategy = "ema_macd_rsi"
<1>0. strategy' = strategy
  BY DEF Next, FetchFails, Candle, Match, Hold, GlobalExit, RiskBlocked, PlaceLimits, MarketEntry,
         Decide, vars
<1> SUFFICES ASSUME ema PROVE StopsInv'
  BY <1>0 DEF StopsInv, StopsBelongToPosition
<1>a. DOMAIN activeOrders = {} /\ pending = {}
  BY DEF StopsInv, TypeOK
<1>b. UNCHANGED <<position, stops, activeOrders>> => StopsInv'
  BY <1>0 DEF StopsInv, StopsBelongToPosition
<1>1. CASE FetchFails
  BY <1>1, <1>b DEF FetchFails
<1>2. ASSUME NEW k \in Candles, Candle(k) PROVE StopsInv'
  BY <1>2, <1>b DEF Candle
<1>3. ASSUME NEW id \in pending, Match(id) PROVE StopsInv'
  BY <1>3, <1>a
<1>4. ASSUME NEW t \in Decisions, Hold(t) PROVE StopsInv'
  BY <1>4, <1>b DEF Hold
<1>5. ASSUME NEW t \in Decisions, GlobalExit(t) PROVE StopsInv'
  <2>1. positionQty \in Int /\ positionQty # 0 /\ ApplyFill(ReducingSide(positionQty), Abs(positionQty), kline.close, risk)
    BY <1>5 DEF GlobalExit, TypeOK
  <2>2. positionQty + SignedQty(ReducingSide(positionQty), Abs(positionQty)) = 0
    BY <2>1 DEF SignedQty, ReducingSide, Abs
  <2>3. positionOpenedAt' = 0
    BY <2>1, <2>2 DEF ApplyFill, OpenedAfter
  <2>4. globalSL' = 0 /\ globalTP' = 0 /\ DOMAIN activeOrders' = {}
    BY <1>5 DEF GlobalExit, NoOrders
  <2> QED
    BY <2>3, <2>4 DEF StopsInv, StopsBelongToPosition
<1>6. ASSUME NEW t \in Decisions, RiskBlocked(t) PROVE StopsInv'
  BY <1>6, <1>b DEF RiskBlocked
<1>7. ASSUME NEW t \in Decisions, PlaceLimits(t) PROVE StopsInv'
  <2>1. Rests(t.orders) = {}
    BY <1>7, EmaInEngine DEF PlaceLimits, Decide
  <2> QED
    BY <1>7, <1>b, <2>1 DEF PlaceLimits, BookAfter
<1>8. ASSUME NEW t \in Decisions, MarketEntry(t) PROVE StopsInv'
  <2>1. pc = "matching" /\ t \in Tick /\ kline \in Candles
    BY <1>8, DecisionsType DEF MarketEntry, Decide, TypeOK
  <2>2. PICK m \in MarketOrders(t.orders, kline.close) :
           LET d == t.orders[m]
           IN  /\ ApplyFill(d.side, QtyOf(d, kline.close), kline.close, RolledOver(risk))
               /\ globalSL' = IF d.sl > 0 THEN d.sl ELSE globalSL
               /\ globalTP' = IF d.tp > 0 THEN d.tp ELSE globalTP
    BY <1>8 DEF MarketEntry
  <2>3. m \in DOMAIN t.orders /\ t.orders # << >> /\ QtyOf(t.orders[m], kline.close) > 0
    BY <2>2 DEF MarketOrders
  <2>4. /\ positionQty = 0 /\ m = 1 /\ Rests(t.orders) = {}
        /\ t.orders[1] \in Decision
    BY <2>1, <2>3, EmaInEngine
  <2>5. PICK dir \in {1, -1}, atr \in Atrs :
          /\ t.orders[1].side = IF dir = 1 THEN "BUY" ELSE "SELL"
          /\ t.orders[1].sl = kline.close - dir * 2 * atr
          /\ t.orders[1].tp = kline.close + dir * 4 * atr
    BY <2>1, <2>3, EmaInEngine
  <2> DEFINE price == kline.close
             qty == QtyOf(t.orders[1], price)
             s == SignedQty(t.orders[1].side, qty)
  <2>6. /\ price \in Nat \ {0} /\ atr \in Nat /\ 2 * atr < price
        /\ qty \in Nat \ {0} /\ clock \in Nat
    <3>1. price \in Nat \ {0} /\ atr \in Nat
      BY <2>1, CandleTypes, StrategyAssumption
    <3>2. QtyOf(t.orders[1], price) \in Nat
      BY <2>4, <3>1, QtyOfType
    <3> QED
      BY <2>1, <2>3, <2>4, <3>1, <3>2 DEF RangesBelowPrices, TypeOK
  <2>7. globalSL = 0 /\ globalTP = 0
    BY <2>4 DEF StopsInv, StopsBelongToPosition
  <2>8. s \in Int /\ s # 0 /\ Sign(s) = dir
    BY <2>5, <2>6 DEF SignedQty, Sign
  <2> HIDE DEF s, qty
  <2>9. ApplyFill(t.orders[1].side, qty, price, RolledOver(risk))
    BY <2>2, <2>4 DEF qty
  <2>10. positionQty' = s /\ entryPrice' = price /\ positionOpenedAt' = clock + 1
    <3>1. positionQty + s = s /\ ~Adds(positionQty, s)
      BY <2>4, <2>8 DEF Adds
    <3>2. /\ EntryAfter(positionQty, entryPrice, s, price) = price
          /\ OpenedAfter(positionQty, positionOpenedAt, s, clock + 1) = clock + 1
      BY <2>4, <2>8, <3>1 DEF EntryAfter, OpenedAfter
    <3> QED
      BY <2>9, <3>1, <3>2 DEF ApplyFill, s
  <2>11. /\ globalSL' = price - dir * 2 * atr
         /\ globalSL' > 0
         /\ globalTP' = IF price + dir * 4 * atr > 0 THEN price + dir * 4 * atr ELSE 0
    <3>1. /\ globalSL' = IF t.orders[1].sl > 0 THEN t.orders[1].sl ELSE globalSL
          /\ globalTP' = IF t.orders[1].tp > 0 THEN t.orders[1].tp ELSE globalTP
      BY <2>2, <2>4
    <3>2. price - dir * 2 * atr > 0
      BY <2>6
    <3> QED
      BY <2>5, <2>7, <3>1, <3>2
  <2>12. dir * (price - globalSL') >= 0
    BY <2>6, <2>11
  <2>13. globalTP' > 0 => dir * (globalTP' - price) >= 0
    BY <2>6, <2>11
  <2>14. clock + 1 # 0
    BY <2>6
  <2>15. activeOrders' = activeOrders
    BY <1>8, <2>4 DEF MarketEntry, BookAfter
  <2> QED
    BY <1>a, <2>8, <2>10, <2>11, <2>12, <2>13, <2>14, <2>15 DEF StopsInv, StopsBelongToPosition
<1>9. CASE UNCHANGED vars
  BY <1>9, <1>b DEF vars
<1> QED
  BY <1>1, <1>2, <1>3, <1>4, <1>5, <1>6, <1>7, <1>8, <1>9 DEF Next

\* Every position ema_macd_rsi opened has a stop on its losing side until it closes, and
\* no stop outlives its position, in every sequence of candles whose ranges stay below
\* their prices.
THEOREM StopsFollowPosition ==
    ASSUME RangesBelowPrices
    PROVE  Spec => []StopsBelongToPosition
<1>1. Init => TypeOK /\ StopsInv
  BY InitTypeOK, InitStops
<1>2. TypeOK /\ StopsInv /\ [Next]_vars => TypeOK' /\ StopsInv'
  BY NextTypeOK, NextStops
<1>3. StopsInv => StopsBelongToPosition
  BY DEF StopsInv
<1> QED
  BY <1>1, <1>2, <1>3, PTL DEF Spec

-----------------------------------------------------------------------------
(* Both ledgers are true to the position. *)

Opening == {"OPEN", "REVERSE_OPEN"}

\* The rows of a fill of s lots: they agree on where it started and ended, add up to its
\* lots, none of them is empty, and one of them, the last, opens a position exactly if
\* the fill did.
RowsOfFill(rows, old, s, now) ==
    /\ \A i \in DOMAIN rows :
         rows[i].before = old /\ rows[i].after = old + s /\ rows[i].at = now
    /\ \/ Len(rows) = 1 /\ SignedQty(rows[1].side, rows[1].qty) = s
       \/ /\ Len(rows) = 2
          /\ SignedQty(rows[1].side, rows[1].qty) + SignedQty(rows[2].side, rows[2].qty) = s
    /\ old = 0 \/ Flips(old, old + s) => \E i \in DOMAIN rows : rows[i].action \in Opening
    /\ \A i \in DOMAIN rows : rows[i].action \in Opening => old = 0 \/ Flips(old, old + s)
    /\ \A i \in DOMAIN rows : rows[i].qty # 0
    /\ Len(rows) = 2 => rows[1].action \notin Opening

\* Such are the rows that one fill writes.
LEMMA FillRows ==
    ASSUME NEW side \in Sides, NEW qty \in Nat \ {0}, NEW old \in Int, NEW price \in Int,
           NEW now \in Nat, NEW rows, rows = ExecutionRows(side, qty, old, price, now)
    PROVE  RowsOfFill(rows, old, SignedQty(side, qty), now)
<1> DEFINE s == SignedQty(side, qty)
           new == old + s
           rec(action, q) == [action |-> action, side |-> side, qty |-> q, price |-> price,
                              before |-> old, after |-> new, at |-> now]
           closing == IF Opposes(old, s)
                      THEN << rec(CloseAction(old, new), ClosedQty(old, s)) >> ELSE << >>
           opening == CASE new # 0 /\ old = 0 -> << rec("OPEN", Abs(new)) >>
                        [] new # 0 /\ Adds(old, s) -> << rec("ADD", Abs(s)) >>
                        [] Flips(old, new) -> << rec("REVERSE_OPEN", Abs(new)) >>
                        [] OTHER -> << >>
           goal == RowsOfFill(rows, old, s, now)
<1>1. rows = closing \o opening
  BY DEF ExecutionRows
<1>2. s \in Int /\ s # 0 /\ s = IF side = "SELL" THEN -qty ELSE qty
  BY SignedQtyType DEF SignedQty
<1>3. \A action, q : /\ rec(action, q).action = action /\ rec(action, q).qty = q
                     /\ rec(action, q).side = side /\ rec(action, q).before = old
                     /\ rec(action, q).after = new /\ rec(action, q).at = now
  OBVIOUS
\* A fill that writes one row, for q lots.
<1>4. ASSUME NEW action, NEW q, rows = << rec(action, q) >>, SignedQty(side, q) = s,
             action \in Opening <=> (old = 0 \/ Flips(old, new))
      PROVE  goal
  <2>1. DOMAIN rows = {1} /\ Len(rows) = 1 /\ rows[1] = rec(action, q)
    BY <1>4
  <2>2. q # 0
    BY <1>2, <1>4 DEF SignedQty
  <2> HIDE DEF rec, s
  <2> QED
    BY <1>3, <1>4, <2>1, <2>2 DEF RowsOfFill
<1> HIDE DEF rec
<1>a. ASSUME NEW x, NEW y
      PROVE  /\ << >> \o <<x>> = <<x>> /\ <<x>> \o << >> = <<x>>
             /\ DOMAIN (<<x>> \o <<y>>) = {1, 2} /\ Len(<<x>> \o <<y>>) = 2
             /\ (<<x>> \o <<y>>)[1] = x /\ (<<x>> \o <<y>>)[2] = y
  <2>1. <<x>> \in Seq({x, y}) /\ <<y>> \in Seq({x, y}) /\ << >> \in Seq({x, y})
    OBVIOUS
  <2>2. << >> \o <<x>> = <<x>> /\ <<x>> \o << >> = <<x>>
    BY <2>1
  <2>3. /\ DOMAIN (<<x>> \o <<y>>) = {1, 2} /\ Len(<<x>> \o <<y>>) = 2
        /\ (<<x>> \o <<y>>)[1] = x /\ (<<x>> \o <<y>>)[2] = y
    BY <2>1
  <2> QED
    BY <2>2, <2>3
<1>5. CASE old = 0
  <2>1. /\ new = s /\ new # 0 /\ ~Opposes(old, s) /\ ~Adds(old, s) /\ ~Flips(old, new)
        /\ SignedQty(side, Abs(new)) = s
    BY <1>2, <1>5 DEF Opposes, Adds, Flips, SignedQty, Abs
  <2>2. closing = << >> /\ opening = << rec("OPEN", Abs(new)) >>
    <3> HIDE DEF s, new
    <3> QED
      BY <1>5, <2>1
  <2> HIDE DEF closing, opening
  <2>3. rows = << rec("OPEN", Abs(new)) >>
    BY <1>1, <1>a, <2>2
  <2> QED
    BY <1>4, <1>5, <2>1, <2>3 DEF Opening
<1>6. CASE Adds(old, s)
  <2>1. /\ ~Opposes(old, s) /\ old # 0 /\ new # 0 /\ ~Flips(old, new)
        /\ SignedQty(side, Abs(s)) = s
    BY <1>2, <1>6 DEF Opposes, Adds, Flips, SignedQty, Abs
  <2>2. closing = << >> /\ opening = << rec("ADD", Abs(s)) >>
    BY <1>6, <2>1
  <2> HIDE DEF closing, opening
  <2>3. rows = << rec("ADD", Abs(s)) >>
    BY <1>1, <1>a, <2>2
  <2> QED
    BY <1>4, <2>1, <2>3 DEF Opening
<1>7. CASE Opposes(old, s) /\ ~Flips(old, new)
  <2>1. /\ old # 0 /\ ~Adds(old, s) /\ CloseAction(old, new) \notin Opening
        /\ SignedQty(side, ClosedQty(old, s)) = s
    BY <1>2, <1>7 DEF Opposes, Adds, Flips, SignedQty, ClosedQty, CloseAction, Smaller, Abs, Opening
  <2>2. /\ closing = << rec(CloseAction(old, new), ClosedQty(old, s)) >>
        /\ opening = << >>
    BY <1>7, <2>1
  <2> HIDE DEF closing, opening
  <2>3. rows = << rec(CloseAction(old, new), ClosedQty(old, s)) >>
    BY <1>1, <1>a, <2>2
  <2> QED
    BY <1>4, <1>7, <2>1, <2>3
<1>8. CASE Opposes(old, s) /\ Flips(old, new)
  <2> DEFINE first == rec(CloseAction(old, new), ClosedQty(old, s))
             second == rec("REVERSE_OPEN", Abs(new))
  <2>1. /\ old # 0 /\ ~Adds(old, s)
        /\ SignedQty(side, ClosedQty(old, s)) + SignedQty(side, Abs(new)) = s
        /\ ClosedQty(old, s) # 0 /\ Abs(new) # 0 /\ CloseAction(old, new) \notin Opening
    BY <1>2, <1>8 DEF Opposes, Adds, Flips, SignedQty, ClosedQty, CloseAction, Smaller, Abs, Opening
  <2>2. closing = << first >> /\ opening = << second >>
    BY <1>8, <2>1
  <2> HIDE DEF closing, opening, first, second
  <2>3. rows = << first >> \o << second >>
    BY <1>1, <2>2
  <2>4. DOMAIN rows = {1, 2} /\ Len(rows) = 2 /\ rows[1] = first /\ rows[2] = second
    BY <1>a, <2>3
  <2>5. /\ first.action = CloseAction(old, new)
        /\ first.qty = ClosedQty(old, s) /\ first.side = side /\ first.before = old
        /\ first.after = new /\ first.at = now
        /\ second.qty = Abs(new) /\ second.side = side /\ second.before = old
        /\ second.after = new /\ second.at = now /\ second.action = "REVERSE_OPEN"
    BY <1>3 DEF first, second
  <2> HIDE DEF new, s
  <2>6. SignedQty(rows[1].side, rows[1].qty) + SignedQty(rows[2].side, rows[2].qty) = s
    BY <2>1, <2>4, <2>5
  <2>7. \A i \in DOMAIN rows :
          rows[i].before = old /\ rows[i].after = new /\ rows[i].at = now
    BY <2>4, <2>5
  <2>8. rows[2].action \in Opening
    BY <2>4, <2>5 DEF Opening
  <2>9. \E i \in DOMAIN rows : rows[i].action \in Opening
    BY <2>4, <2>8
  <2>10. /\ \A i \in DOMAIN rows : rows[i].qty # 0
         /\ rows[1].action \notin Opening
    BY <2>1, <2>4, <2>5
  <2>11. /\ Flips(old, new) /\ Len(rows) = 2
         /\ \A i \in DOMAIN rows : rows[i].action \in Opening => Flips(old, new)
    BY <1>8, <2>4
  <2>12. RowsOfFill(rows, old, s, now)
    BY <2>6, <2>7, <2>9, <2>10, <2>11 DEF new, RowsOfFill
  <2> QED
    BY <2>12 DEF s
<1>9. old = 0 \/ Adds(old, s) \/ Opposes(old, s)
  BY <1>2 DEF Adds, Opposes
<1> QED
  BY <1>5, <1>6, <1>7, <1>8, <1>9

\* The moments, up to the given one, at which a row opens a position.
OpeningsUntil(rows, moment) ==
    {rows[j].at : j \in {i \in DOMAIN rows : /\ rows[i].at <= moment
                                            /\ rows[i].action \in {"OPEN", "REVERSE_OPEN"}}}

\* opened is the latest of the openings, or zero without one.
LastOpening(openings, opened) ==
    IF openings = {} THEN opened = 0
    ELSE opened \in openings /\ \A at \in openings : at <= opened

\* Row i belongs to the same fill as the row before it.
Paired(i) == i > 1 /\ executions[i].at = executions[i - 1].at

\* The rows handed to the database lead to the position: each fill starts where the one
\* before it ended, and its one or two rows add up.
HistoryReplays ==
    /\ executions # << >> => positionQty = executions[Len(executions)].after
    /\ \A i \in DOMAIN executions :
         LET row == executions[i]
         IN  IF Paired(i)
             THEN /\ ~Paired(i - 1)
                  /\ row.before = executions[i - 1].before
                  /\ row.after = executions[i - 1].after
                  /\ row.after = row.before + Lots(i - 1) + Lots(i)
             ELSE /\ i > 1 => row.before = executions[i - 1].after
                  /\ i = Len(executions) \/ ~Paired(i + 1) => row.after = row.before + Lots(i)

\* They account for the balance, and each trade names the last opening before it.
HistoryAudits ==
    /\ simulatedBalance = BalanceAfter(Len(trades))
    /\ \A i \in DOMAIN trades :
         LET openings == OpeningsUntil(executions, trades[i].closed - 1)
         IN  /\ trades[i].balance = BalanceAfter(i - 1) + trades[i].pnl
             /\ IF openings = {}
                THEN trades[i].opened = trades[i].closed
                ELSE /\ trades[i].opened \in openings
                     /\ \A at \in openings : at <= trades[i].opened

\* Rows are written fill by fill; of the two of a reversal the second opens.
RowsInv ==
    /\ \A i \in DOMAIN executions : executions[i].qty # 0
    /\ \A i, j \in DOMAIN executions : i < j =>
         /\ executions[i].at <= executions[j].at
         /\ executions[i].at = executions[j].at =>
              j = i + 1 /\ executions[i].action \notin Opening

\* Every row is dated by a fill that happened, and the engine knows when its position
\* was opened.
LedgerInv ==
    /\ HistoryReplays
    /\ RowsInv
    /\ \A i \in DOMAIN executions : executions[i].at \in 1..clock
    /\ positionQty # 0 =>
         LastOpening(OpeningsUntil(executions, clock), positionOpenedAt)
    /\ HistoryAudits
    /\ \A i \in DOMAIN trades : trades[i].closed \in 1..clock

\* The rows of a fill, appended to those before it.
LEMMA RowsAppended ==
    ASSUME FillTyped, NEW side \in Sides, NEW qty \in Nat \ {0}, NEW price \in Int, NEW r,
           ApplyFill(side, qty, price, r)
    PROVE  \E rows \in Seq(Execution) :
             /\ rows = ExecutionRows(side, qty, positionQty, price, clock + 1)
             /\ Len(executions') = Len(executions) + Len(rows)
             /\ DOMAIN executions' = 1..(Len(executions) + Len(rows))
             /\ DOMAIN executions = 1..Len(executions) /\ DOMAIN rows = 1..Len(rows)
             /\ \A i \in DOMAIN executions : executions'[i] = executions[i]
             /\ \A i \in DOMAIN rows : executions'[Len(executions) + i] = rows[i]
<1> DEFINE rows == ExecutionRows(side, qty, positionQty, price, clock + 1)
<1>1. positionQty \in Int /\ clock + 1 \in Nat /\ executions \in Seq(Execution)
  BY DEF FillTyped
<1>2. rows \in Seq(Execution)
  BY <1>1, RowsType
<1>3. executions' = executions \o rows
  BY DEF ApplyFill
<1> HIDE DEF rows
<1>4. /\ Len(executions') = Len(executions) + Len(rows)
      /\ DOMAIN executions' = 1..(Len(executions) + Len(rows))
      /\ DOMAIN executions = 1..Len(executions) /\ DOMAIN rows = 1..Len(rows)
      /\ \A i \in DOMAIN executions : executions'[i] = executions[i]
      /\ \A i \in DOMAIN rows : executions'[Len(executions) + i] = rows[i]
  BY <1>1, <1>2, <1>3
<1> QED
  BY <1>2, <1>4 DEF rows

\* trade_executions after a fill.
LEMMA FillReplays ==
    ASSUME FillTyped, LedgerInv,
           NEW side \in Sides, NEW qty \in Nat \ {0}, NEW price \in Int, NEW r,
           ApplyFill(side, qty, price, r)
    PROVE  /\ HistoryReplays'
           /\ \A i \in DOMAIN executions' : executions'[i].at \in 1..clock'
<1> DEFINE s == SignedQty(side, qty)
           old == positionQty
           n == Len(executions)
           pair(i) == i > 1 /\ executions'[i].at = executions'[i - 1].at
           lots(i) == SignedQty(executions'[i].side, executions'[i].qty)
<1>1. PICK rows \in Seq(Execution) :
        /\ rows = ExecutionRows(side, qty, old, price, clock + 1)
        /\ Len(executions') = n + Len(rows)
        /\ DOMAIN executions' = 1..(n + Len(rows))
        /\ DOMAIN executions = 1..n /\ DOMAIN rows = 1..Len(rows)
        /\ \A i \in DOMAIN executions : executions'[i] = executions[i]
        /\ \A i \in DOMAIN rows : executions'[n + i] = rows[i]
  BY RowsAppended
<1> DEFINE m == Len(rows)
<1>2. /\ old \in Int /\ clock \in Nat /\ clock + 1 \in Nat /\ n \in Nat /\ s \in Int
      /\ clock' = clock + 1 /\ positionQty' = old + s
  BY SignedQtyType DEF FillTyped, ApplyFill
<1>3. /\ \A i \in DOMAIN rows :
           rows[i].before = old /\ rows[i].after = old + s /\ rows[i].at = clock + 1
      /\ \/ m = 1 /\ SignedQty(rows[1].side, rows[1].qty) = s
         \/ m = 2 /\ SignedQty(rows[1].side, rows[1].qty)
                        + SignedQty(rows[2].side, rows[2].qty) = s
  <2> HIDE DEF pair, lots
  <2>1. RowsOfFill(rows, old, s, clock + 1)
    BY <1>1, <1>2, FillRows
  <2> HIDE DEF s, old
  <2> QED
    BY <2>1 DEF RowsOfFill
<1>a. /\ m = 1 \/ m = 2
      /\ DOMAIN executions' = 1..(n + m) /\ Len(executions') = n + m
      /\ DOMAIN executions = 1..n /\ DOMAIN rows = 1..m
  BY <1>1, <1>3
<1>b. /\ \A i \in 1..n : executions'[i] = executions[i]
      /\ executions'[n + 1] = rows[1] /\ (m = 2 => executions'[n + 2] = rows[2])
  <2>1. 1 \in DOMAIN rows /\ (m = 2 => 2 \in DOMAIN rows)
    BY <1>a
  <2> QED
    BY <1>1, <1>a, <2>1
<1>c. /\ \A i \in 1..m : rows[i] \in Execution
      /\ rows[1].before = old /\ rows[1].after = old + s /\ rows[1].at = clock + 1
      /\ m = 2 => rows[2].before = old /\ rows[2].after = old + s /\ rows[2].at = clock + 1
  BY <1>a, <1>3
<1> HIDE DEF s, old, n, m
<1>4. /\ \A i \in DOMAIN executions : executions[i].at <= clock /\ executions[i].at \in Nat
      /\ HistoryReplays
  BY <1>2, <1>a DEF LedgerInv
<1>5. \A i \in DOMAIN executions' :
        i \in 1..n \/ i = n + 1 \/ (i = n + 2 /\ m = 2)
  BY <1>2, <1>a
<1>6. \A i \in DOMAIN executions' : executions'[i].at \in 1..clock'
  <2>1. \A i \in 1..n : executions'[i].at \in 1..clock'
    <3>1. \A i \in 1..n : executions[i].at \in 1..clock
      <4>1. \A i \in DOMAIN executions : executions[i].at \in 1..clock
        BY DEF LedgerInv
      <4> QED
        BY <1>a, <4>1
    <3>2. 1..clock \subseteq 1..clock'
      BY <1>2
    <3> QED
      BY <1>b, <3>1, <3>2
  <2>2. executions'[n + 1].at \in 1..clock' /\ (m = 2 => executions'[n + 2].at \in 1..clock')
    BY <1>2, <1>b, <1>c
  <2> QED
    BY <1>5, <2>1, <2>2
<1>7. \A i \in 1..n : (pair(i) <=> Paired(i)) /\ lots(i) = Lots(i)
  <2>1. ASSUME NEW i \in 1..n PROVE executions'[i] = executions[i] /\ (i > 1 => i - 1 \in 1..n)
    <3>1. n \in Nat
      BY <1>2
    <3>2. i > 1 => i - 1 \in 1..n
      BY <3>1
    <3> QED
      BY <1>b, <3>2
  <2>2. ASSUME NEW i \in 1..n PROVE pair(i) <=> Paired(i)
    <3>1. i > 1 => executions'[i - 1] = executions[i - 1]
      BY <2>1
    <3> QED
      BY <2>1, <3>1 DEF Paired
  <2>3. ASSUME NEW i \in 1..n PROVE lots(i) = Lots(i)
    BY <2>1 DEF Lots
  <2> QED
    BY <2>2, <2>3
<1> HIDE DEF lots
<1>8. ~pair(n + 1) /\ (m = 2 => pair(n + 2))
  <2>1. ASSUME n + 1 > 1, executions'[n + 1].at = executions'[n + 1 - 1].at PROVE FALSE
    <3>1. n \in 1..n /\ n + 1 - 1 = n
      BY <1>2, <2>1
    <3>2. executions'[n].at <= clock
      BY <1>4, <1>a, <1>b, <3>1
    <3> QED
      BY <1>2, <1>b, <1>c, <2>1, <3>1, <3>2
  <2>2. m = 2 => n + 2 > 1 /\ n + 2 - 1 = n + 1 /\ executions'[n + 2].at = executions'[n + 1].at
    BY <1>2, <1>b, <1>c
  <2> QED
    BY <1>2, <2>1, <2>2
<1>9. n > 0 => executions[n].after = old
  BY <1>2, <1>4 DEF HistoryReplays, n, old
<1>10. positionQty' = executions'[Len(executions')].after
  BY <1>2, <1>a, <1>b, <1>c
<1>11. ASSUME NEW i \in DOMAIN executions'
       PROVE  LET row == executions'[i]
              IN  IF pair(i)
                  THEN /\ ~pair(i - 1)
                       /\ row.before = executions'[i - 1].before
                       /\ row.after = executions'[i - 1].after
                       /\ row.after = row.before + lots(i - 1) + lots(i)
                  ELSE /\ i > 1 => row.before = executions'[i - 1].after
                       /\ i = Len(executions') \/ ~pair(i + 1) => row.after = row.before + lots(i)
  <2>1. CASE i \in 1..n /\ Paired(i)
    <3>1. i - 1 \in 1..n /\ executions'[i - 1] = executions[i - 1] /\ executions'[i] = executions[i]
      BY <1>2, <1>b, <2>1 DEF Paired
    <3>2. /\ ~Paired(i - 1)
          /\ executions[i].before = executions[i - 1].before
          /\ executions[i].after = executions[i - 1].after
          /\ executions[i].after = executions[i].before + Lots(i - 1) + Lots(i)
      BY <1>4, <1>a, <2>1 DEF HistoryReplays
    <3> QED
      BY <1>7, <2>1, <3>1, <3>2
  <2>2. CASE i \in 1..n /\ ~Paired(i)
    <3>1. /\ executions'[i] = executions[i]
          /\ i > 1 => i - 1 \in 1..n /\ executions'[i - 1] = executions[i - 1]
      BY <1>2, <1>b, <2>2
    <3>2. i > 1 => executions[i].before = executions[i - 1].after
      BY <1>4, <1>a, <2>2 DEF HistoryReplays
    <3>3. i = n \/ ~Paired(i + 1) => executions[i].after = executions[i].before + Lots(i)
      BY <1>4, <1>a, <2>2 DEF HistoryReplays, n
    <3>4. i # n => i + 1 \in 1..n
      BY <1>2, <2>2
    <3>5. i # Len(executions')
      BY <1>2, <1>a, <2>2
    <3> QED
      BY <1>7, <2>2, <3>1, <3>2, <3>3, <3>4, <3>5
  <2>3. CASE i = n + 1
    <3>1. executions'[i] = rows[1] /\ i - 1 = n /\ i + 1 = n + 2
      BY <1>2, <1>b, <2>3
    <3>2. i > 1 => executions'[i].before = executions'[i - 1].after
      <4> SUFFICES ASSUME i > 1 PROVE executions'[i].before = executions'[i - 1].after
        OBVIOUS
      <4>1. n \in 1..n /\ n > 0
        BY <1>2, <2>3
      <4> QED
        BY <1>9, <1>b, <1>c, <3>1, <4>1
    <3>3. i = Len(executions') \/ ~pair(i + 1) => m = 1
      BY <1>2, <1>8, <1>a, <2>3, <3>1
    <3>4. m = 1 => executions'[i].after = executions'[i].before + lots(i)
      BY <1>3, <1>c, <3>1 DEF lots
    <3> QED
      BY <1>8, <2>3, <3>2, <3>3, <3>4
  <2>4. CASE i = n + 2 /\ m = 2
    <3>1. executions'[i] = rows[2] /\ executions'[i - 1] = rows[1] /\ i - 1 = n + 1
      BY <1>2, <1>b, <2>4
    <3>2. lots(i - 1) + lots(i) = s /\ lots(i - 1) \in Int /\ lots(i) \in Int
      <4>1. rows[1] \in Execution /\ rows[2] \in Execution
        BY <1>c, <2>4
      <4>2. /\ SignedQty(rows[1].side, rows[1].qty) \in Int
            /\ SignedQty(rows[2].side, rows[2].qty) \in Int
        <5>1. rows[1].qty \in Int /\ rows[2].qty \in Int
          <6>1. \A e \in Execution : e.qty \in Int
            BY DEF Execution
          <6> QED
            BY <4>1, <6>1
        <5> QED
          BY <5>1 DEF SignedQty
      <4> QED
        BY <1>3, <2>4, <3>1, <4>2 DEF lots
    <3>3. executions'[i].after = executions'[i].before + lots(i - 1) + lots(i)
      BY <1>2, <1>c, <2>4, <3>1, <3>2
    <3> QED
      BY <1>8, <1>c, <2>4, <3>1, <3>3
  <2> QED
    BY <1>5, <2>1, <2>2, <2>3, <2>4
<1> QED
  BY <1>6, <1>10, <1>11 DEF HistoryReplays, Paired, Lots, lots

LEMMA FillOrders ==
    ASSUME FillTyped, LedgerInv,
           NEW side \in Sides, NEW qty \in Nat \ {0}, NEW price \in Int, NEW r,
           ApplyFill(side, qty, price, r)
    PROVE  RowsInv'
<1> DEFINE n == Len(executions)
<1>1. PICK rows \in Seq(Execution) :
        /\ rows = ExecutionRows(side, qty, positionQty, price, clock + 1)
        /\ Len(executions') = n + Len(rows)
        /\ DOMAIN executions' = 1..(n + Len(rows))
        /\ DOMAIN executions = 1..n /\ DOMAIN rows = 1..Len(rows)
        /\ \A i \in DOMAIN executions : executions'[i] = executions[i]
        /\ \A i \in DOMAIN rows : executions'[n + i] = rows[i]
  BY RowsAppended
<1> DEFINE m == Len(rows)
<1>2. positionQty \in Int /\ clock \in Nat /\ clock + 1 \in Nat /\ n \in Nat
  BY DEF FillTyped
<1>3. /\ \A i \in DOMAIN rows : rows[i].at = clock + 1 /\ rows[i].qty # 0
      /\ m = 1 \/ m = 2
      /\ m = 2 => rows[1].action \notin Opening
  BY <1>1, <1>2, FillRows DEF RowsOfFill
<1>4. /\ DOMAIN executions = 1..n /\ DOMAIN executions' = 1..(n + m)
      /\ \A i \in 1..n : executions'[i] = executions[i] /\ executions[i].at \in 1..clock
      /\ \A i \in 1..m : executions'[n + i] = rows[i]
                        /\ rows[i].at = clock + 1 /\ rows[i].qty # 0
  BY <1>1, <1>3 DEF LedgerInv
<1>a. RowsInv
  BY DEF LedgerInv
<1> HIDE DEF n, m
<1>5. \A i \in 1..(n + m) : i \in 1..n \/ (i = n + 1 /\ 1 \in 1..m)
                            \/ (i = n + 2 /\ 2 \in 1..m /\ m = 2)
  BY <1>2, <1>3
<1>6. \A i \in DOMAIN executions' : executions'[i].qty # 0
  <2>1. \A i \in 1..n : executions'[i].qty # 0
    BY <1>4, <1>a DEF RowsInv
  <2> QED
    BY <1>4, <1>5, <2>1
<1>7. ASSUME NEW i \in DOMAIN executions', NEW j \in DOMAIN executions', i < j
      PROVE  /\ executions'[i].at <= executions'[j].at
             /\ executions'[i].at = executions'[j].at =>
                  j = i + 1 /\ executions'[i].action \notin Opening
  <2>1. CASE j \in 1..n
    <3>1. i \in 1..n
      BY <1>2, <1>4, <1>7, <2>1
    <3> QED
      BY <1>4, <1>7, <1>a, <2>1, <3>1 DEF RowsInv
  <2>2. CASE i \in 1..n /\ j \notin 1..n
    <3>1. executions'[i].at \in 1..clock /\ executions'[j].at = clock + 1
      BY <1>4, <1>5, <2>2
    <3> QED
      BY <1>2, <3>1
  <2>3. CASE i \notin 1..n
    <3>1. i = n + 1 /\ j = n + 2 /\ m = 2
      BY <1>2, <1>3, <1>4, <1>5, <1>7, <2>3
    <3>2. 1 \in 1..m /\ 2 \in 1..m
      BY <3>1
    <3>3. executions'[i] = rows[1] /\ executions'[j] = rows[2]
      BY <1>4, <3>1, <3>2
    <3> QED
      BY <1>2, <1>3, <1>4, <3>1, <3>2, <3>3 DEF m
  <2> QED
    BY <2>1, <2>2, <2>3
<1> QED
  BY <1>6, <1>7 DEF RowsInv

\* A fill dates one opening if it opens a position, and none before its own time.
LEMMA FillOpens ==
    ASSUME FillTyped, LedgerInv,
           NEW side \in Sides, NEW qty \in Nat \ {0}, NEW price \in Int, NEW r,
           ApplyFill(side, qty, price, r)
    PROVE  LET s == SignedQty(side, qty)
               before == OpeningsUntil(executions, clock)
           IN  /\ \A moment \in 0..clock :
                    OpeningsUntil(executions', moment) = OpeningsUntil(executions, moment)
               /\ OpeningsUntil(executions', clock + 1) =
                    IF positionQty = 0 \/ Flips(positionQty, positionQty + s)
                    THEN before \cup {clock + 1} ELSE before
               /\ before \subseteq 1..clock
<1> DEFINE s == SignedQty(side, qty)
           old == positionQty
           n == Len(executions)
           opens(row, moment) == row.at <= moment /\ row.action \in Opening
<1>1. PICK rows \in Seq(Execution) :
        /\ rows = ExecutionRows(side, qty, old, price, clock + 1)
        /\ Len(executions') = n + Len(rows)
        /\ DOMAIN executions' = 1..(n + Len(rows))
        /\ DOMAIN executions = 1..n /\ DOMAIN rows = 1..Len(rows)
        /\ \A i \in DOMAIN executions : executions'[i] = executions[i]
        /\ \A i \in DOMAIN rows : executions'[n + i] = rows[i]
  BY RowsAppended
<1> DEFINE m == Len(rows)
<1>2. old \in Int /\ clock \in Nat /\ clock + 1 \in Nat /\ n \in Nat /\ m \in Nat
  BY DEF FillTyped
<1>3. /\ \A i \in DOMAIN rows : rows[i].at = clock + 1
      /\ (\E i \in DOMAIN rows : rows[i].action \in Opening) <=> (old = 0 \/ Flips(old, old + s))
  <2>1. RowsOfFill(rows, old, s, clock + 1)
    BY <1>1, <1>2, FillRows
  <2> HIDE DEF s, old
  <2> QED
    BY <2>1 DEF RowsOfFill
<1>4. /\ \A x, moment : x \in OpeningsUntil(executions, moment) <=>
                           \E i \in 1..n : opens(executions[i], moment) /\ executions[i].at = x
      /\ \A x, moment : x \in OpeningsUntil(executions', moment) <=>
                           \E i \in 1..(n + m) : opens(executions'[i], moment) /\ executions'[i].at = x
  BY <1>1 DEF OpeningsUntil, Opening
<1>5. \A i \in 1..n : executions[i].at \in 1..clock
  BY <1>1 DEF LedgerInv
<1>6. /\ \A i \in 1..n : executions'[i] = executions[i]
      /\ \A j \in 1..m : executions'[n + j] = rows[j] /\ rows[j].at = clock + 1
  BY <1>1, <1>3
<1>7. (\E j \in 1..m : rows[j].action \in Opening) <=> (old = 0 \/ Flips(old, old + s))
  BY <1>1, <1>3
<1> HIDE DEF old, n, m, s
<1>8. \A i \in 1..(n + m) : i \in 1..n \/ \E j \in 1..m : i = n + j
  <2> SUFFICES ASSUME NEW i \in 1..(n + m), i \notin 1..n PROVE \E j \in 1..m : i = n + j
    OBVIOUS
  <2>1. i - n \in 1..m /\ i = n + (i - n)
    BY <1>2
  <2> QED
    BY <2>1
<1>9. /\ \A i \in 1..n : i \in 1..(n + m)
      /\ \A j \in 1..m : n + j \in 1..(n + m)
  BY <1>2
\* The openings dated up to a moment.
<1>10. \A x, moment :
         x \in OpeningsUntil(executions', moment) <=>
           \/ x \in OpeningsUntil(executions, moment)
           \/ \E j \in 1..m : clock + 1 <= moment /\ rows[j].action \in Opening /\ x = clock + 1
  BY <1>4, <1>6, <1>8, <1>9
<1>11. ASSUME NEW moment \in 0..clock
       PROVE  OpeningsUntil(executions', moment) = OpeningsUntil(executions, moment)
  <2>1. ~(clock + 1 <= moment)
    BY <1>2
  <2>2. \A x : x \in OpeningsUntil(executions', moment) <=> x \in OpeningsUntil(executions, moment)
    BY <1>10, <2>1
  <2> QED
    BY <2>2, Zenon
<1>12. \A x : x \in OpeningsUntil(executions, clock + 1) <=> x \in OpeningsUntil(executions, clock)
  <2>1. \A i \in 1..n : executions[i].at <= clock + 1 /\ executions[i].at <= clock
    BY <1>2, <1>5
  <2> QED
    BY <1>4, <2>1
<1>13. OpeningsUntil(executions', clock + 1) =
         IF old = 0 \/ Flips(old, old + s) THEN OpeningsUntil(executions, clock) \cup {clock + 1}
         ELSE OpeningsUntil(executions, clock)
  <2>1. clock + 1 <= clock + 1
    BY <1>2
  <2>2. \A x : x \in OpeningsUntil(executions', clock + 1) <=>
                 \/ x \in OpeningsUntil(executions, clock)
                 \/ (old = 0 \/ Flips(old, old + s)) /\ x = clock + 1
    BY <1>7, <1>10, <1>12, <2>1
  <2> QED
    BY <2>2, Zenon
<1>14. OpeningsUntil(executions, clock) \subseteq 1..clock
  BY <1>4, <1>5
<1> QED
  BY <1>11, <1>13, <1>14 DEF old, s

\* trade_history after a fill, and the moment the position it leaves was opened.
LEMMA FillAudits ==
    ASSUME FillTyped, LedgerInv,
           NEW side \in Sides, NEW qty \in Nat \ {0}, NEW price \in Int, NEW r,
           ApplyFill(side, qty, price, r)
    PROVE  /\ HistoryAudits'
           /\ \A i \in DOMAIN trades' : trades'[i].closed \in 1..clock'
           /\ positionQty' # 0 => LastOpening(OpeningsUntil(executions', clock'), positionOpenedAt')
<1> DEFINE s == SignedQty(side, qty)
           old == positionQty
           pnl == ClosedPnl(old, entryPrice, s, price)
           now == clock + 1
           k == Len(trades)
           opened == IF positionOpenedAt = 0 THEN now ELSE positionOpenedAt
           trade == [position |-> SideOf(old), qty |-> ClosedQty(old, s),
                     entry |-> entryPrice, exit |-> price, pnl |-> pnl,
                     balance |-> simulatedBalance + pnl, opened |-> opened, closed |-> now]
           openings(moment) == OpeningsUntil(executions, moment)
<1>1. /\ clock \in Nat /\ old \in Int /\ s \in Int /\ s # 0 /\ k \in Nat
      /\ positionOpenedAt \in Nat /\ trades \in Seq(Trade) /\ DOMAIN trades = 1..k
  BY SignedQtyType DEF FillTyped
<1>2. /\ clock' = now /\ positionQty' = old + s
      /\ positionOpenedAt' = OpenedAfter(old, positionOpenedAt, s, now)
      /\ Opposes(old, s) => simulatedBalance' = simulatedBalance + pnl /\ trades' = Append(trades, trade)
      /\ ~Opposes(old, s) => UNCHANGED <<simulatedBalance, trades>>
  BY DEF ApplyFill
<1>3. /\ \A moment \in 0..clock : OpeningsUntil(executions', moment) = openings(moment)
      /\ OpeningsUntil(executions', now) = IF old = 0 \/ Flips(old, old + s)
                                          THEN openings(clock) \cup {now} ELSE openings(clock)
      /\ openings(clock) \subseteq 1..clock
  BY FillOpens
<1>4. /\ old # 0 => LastOpening(openings(clock), positionOpenedAt)
      /\ HistoryAudits
      /\ \A i \in 1..k : trades[i].closed \in 1..clock
  BY <1>1 DEF LedgerInv
<1>5. /\ trade.pnl = pnl /\ trade.balance = simulatedBalance + pnl
      /\ trade.opened = opened /\ trade.closed = now
  OBVIOUS
<1> HIDE DEF trade, pnl, s, old, k, openings
<1>6. positionQty' # 0 => LastOpening(OpeningsUntil(executions', clock'), positionOpenedAt')
  <2> SUFFICES ASSUME positionQty' # 0
               PROVE  LastOpening(OpeningsUntil(executions', now), positionOpenedAt')
    BY <1>2
  <2>1. CASE old = 0 \/ Flips(old, old + s)
    <3>1. positionOpenedAt' = now /\ OpeningsUntil(executions', now) = openings(clock) \cup {now}
      BY <1>2, <1>3, <2>1 DEF OpenedAfter
    <3>2. \A at \in openings(clock) \cup {now} : at <= now
      BY <1>1, <1>3
    <3> QED
      BY <3>1, <3>2 DEF LastOpening
  <2>2. CASE ~(old = 0 \/ Flips(old, old + s))
    <3>1. positionOpenedAt' = positionOpenedAt /\ OpeningsUntil(executions', now) = openings(clock)
      BY <1>2, <1>3, <2>2 DEF OpenedAfter
    <3> QED
      BY <1>4, <2>2, <3>1
  <2> QED
    BY <2>1, <2>2
\* What the row of a trade says of the time and of the balance before it.
<1> DEFINE dated(row) ==
             LET o == OpeningsUntil(executions', row.closed - 1)
             IN  IF o = {} THEN row.opened = row.closed
                 ELSE row.opened \in o /\ \A at \in o : at <= row.opened
<1>7. ASSUME NEW i \in 1..k PROVE dated(trades[i])
  <2>1. trades[i].closed - 1 \in 0..clock
    BY <1>1, <1>4
  <2>2. OpeningsUntil(executions', trades[i].closed - 1) = OpeningsUntil(executions, trades[i].closed - 1)
    BY <1>3, <2>1 DEF openings
  <2> QED
    BY <1>1, <1>4, <2>2 DEF HistoryAudits
<1>8. Opposes(old, s) => dated(trade)
  <2> SUFFICES ASSUME Opposes(old, s) PROVE dated(trade)
    OBVIOUS
  <2>1. trade.closed - 1 = clock /\ clock \in 0..clock
    BY <1>1, <1>5
  <2>2. OpeningsUntil(executions', trade.closed - 1) = openings(clock)
    BY <1>3, <2>1
  <2>3. LastOpening(openings(clock), positionOpenedAt)
    BY <1>1, <1>4 DEF Opposes
  <2>4. openings(clock) # {} => positionOpenedAt # 0
    BY <1>1, <1>3, <2>3 DEF LastOpening
  <2> QED
    BY <1>5, <2>2, <2>3, <2>4 DEF LastOpening
<1>9. /\ simulatedBalance = IF k = 0 THEN InitialBalance ELSE trades[k].balance
      /\ \A i \in 1..k : trades[i].balance = (IF i - 1 = 0 THEN InitialBalance
                                               ELSE trades[i - 1].balance) + trades[i].pnl
  BY <1>1, <1>4 DEF HistoryAudits, BalanceAfter, k
<1>10. CASE ~Opposes(old, s)
  <2>1. UNCHANGED <<simulatedBalance, trades>>
    BY <1>2, <1>10
  <2>2. \A i \in DOMAIN trades' : trades'[i].closed \in 1..clock'
    BY <1>1, <1>2, <1>4, <2>1
  <2>3. HistoryAudits'
    BY <1>1, <1>4, <1>7, <2>1 DEF HistoryAudits, BalanceAfter
  <2> QED
    BY <1>6, <2>2, <2>3
<1>11. CASE Opposes(old, s)
  <2>1. simulatedBalance' = simulatedBalance + pnl /\ trades' = Append(trades, trade)
    BY <1>2, <1>11
  <2>2. /\ Len(trades') = k + 1 /\ DOMAIN trades' = 1..(k + 1) /\ trades'[k + 1] = trade
        /\ \A i \in 1..k : trades'[i] = trades[i]
    BY <1>1, <2>1 DEF k
  <2>3. \A i \in 1..(k + 1) : i \in 1..k \/ i = k + 1
    BY <1>1
  <2>4. \A i \in DOMAIN trades' : trades'[i].closed \in 1..clock'
    BY <1>1, <1>2, <1>4, <1>5, <2>2, <2>3
  <2>5. simulatedBalance' = trades'[k + 1].balance /\ k + 1 # 0
    BY <1>1, <1>5, <2>1, <2>2
  <2>6. ASSUME NEW i \in 1..(k + 1)
        PROVE  /\ trades'[i].balance = (IF i - 1 = 0 THEN InitialBalance
                                       ELSE trades'[i - 1].balance) + trades'[i].pnl
               /\ dated(trades'[i])
    <3>1. CASE i \in 1..k
      <4>1. i - 1 # 0 => i - 1 \in 1..k
        BY <1>1, <3>1
      <4> QED
        BY <1>7, <1>9, <2>2, <3>1, <4>1
    <3>2. CASE i = k + 1
      <4>1. i - 1 = k /\ (k # 0 => k \in 1..k)
        BY <1>1, <3>2
      <4> QED
        BY <1>5, <1>8, <1>9, <1>11, <2>2, <3>2, <4>1
    <3> QED
      BY <2>3, <3>1, <3>2
  <2>7. HistoryAudits'
    BY <2>2, <2>5, <2>6 DEF HistoryAudits, BalanceAfter
  <2> QED
    BY <1>6, <2>4, <2>7
<1> QED
  BY <1>10, <1>11

LEMMA InitLedger == Init => LedgerInv
<1> SUFFICES ASSUME Init PROVE LedgerInv
  OBVIOUS
<1>1. /\ executions = << >> /\ trades = << >> /\ positionOpenedAt = 0
      /\ simulatedBalance = InitialBalance
  BY DEF Init
<1>2. DOMAIN executions = {} /\ DOMAIN trades = {} /\ Len(trades) = 0
  BY <1>1
<1>3. OpeningsUntil(executions, clock) = {}
  BY <1>2 DEF OpeningsUntil
<1>4. LastOpening(OpeningsUntil(executions, clock), positionOpenedAt)
  BY <1>1, <1>3 DEF LastOpening
<1>5. HistoryReplays /\ HistoryAudits /\ RowsInv
  BY <1>1, <1>2 DEF HistoryReplays, HistoryAudits, BalanceAfter, RowsInv
<1> QED
  BY <1>2, <1>4, <1>5 DEF LedgerInv

LEMMA FillLedger ==
    ASSUME FillTyped, LedgerInv,
           NEW side \in Sides, NEW qty \in Nat \ {0}, NEW price \in Int, NEW r,
           ApplyFill(side, qty, price, r)
    PROVE  LedgerInv'
<1>1. HistoryReplays' /\ \A i \in DOMAIN executions' : executions'[i].at \in 1..clock'
  BY FillReplays
<1>2. /\ HistoryAudits'
      /\ \A i \in DOMAIN trades' : trades'[i].closed \in 1..clock'
      /\ positionQty' # 0 => LastOpening(OpeningsUntil(executions', clock'), positionOpenedAt')
  BY FillAudits
<1>3. RowsInv'
  BY FillOrders
<1> QED
  BY <1>1, <1>2, <1>3 DEF LedgerInv, LastOpening, OpeningsUntil

\* Only the three steps that fill touch the position or a ledger.
LEMMA NextLedger ==
    ASSUME TypeOK, LedgerInv, [Next]_vars
    PROVE  LedgerInv'
<1> DEFINE quiet == UNCHANGED <<position, ledger>>
<1> USE DEF position, ledger
<1>a. FillTyped
  BY DEF TypeOK, FillTyped
<1>b. quiet => LedgerInv'
  <2> SUFFICES ASSUME quiet PROVE LedgerInv'
    OBVIOUS
  <2>1. /\ executions' = executions /\ trades' = trades /\ clock' = clock
        /\ positionQty' = positionQty /\ positionOpenedAt' = positionOpenedAt
        /\ simulatedBalance' = simulatedBalance
    OBVIOUS
  <2> HIDE DEF quiet
  <2>2. HistoryReplays' <=> HistoryReplays
    BY <2>1 DEF HistoryReplays, Paired, Lots
  <2>3. HistoryAudits' <=> HistoryAudits
    BY <2>1 DEF HistoryAudits, BalanceAfter, OpeningsUntil
  <2>4. LastOpening(OpeningsUntil(executions, clock), positionOpenedAt)'
          <=> LastOpening(OpeningsUntil(executions, clock), positionOpenedAt)
    BY <2>1 DEF LastOpening, OpeningsUntil
  <2>5. RowsInv' <=> RowsInv
    BY <2>1 DEF RowsInv
  <2> QED
    BY <2>1, <2>2, <2>3, <2>4, <2>5 DEF LedgerInv
<1> HIDE DEF quiet
<1>1. CASE FetchFails
  BY <1>1, <1>b DEF FetchFails, quiet
<1>2. ASSUME NEW k \in Candles, Candle(k) PROVE quiet
  BY <1>2 DEF Candle, quiet
<1>3. ASSUME NEW id \in pending, Match(id) PROVE LedgerInv'
  <2>1. activeOrders[id] \in RestingOrder
    BY DEF TypeOK
  <2>2. /\ activeOrders[id].side \in Sides /\ activeOrders[id].qty \in Nat \ {0}
        /\ activeOrders[id].price \in Int
    BY <2>1 DEF RestingOrder
  <2> QED
    BY <1>3, <1>a, <2>2, FillLedger DEF Match
<1>4. ASSUME NEW t \in Decisions, Hold(t) PROVE quiet
  BY <1>4 DEF Hold, quiet
<1>5. ASSUME NEW t \in Decisions, GlobalExit(t) PROVE LedgerInv'
  <2>1. kline.close \in Int
    BY <1>5, CandleTypes DEF GlobalExit, Decide
  <2>2. positionQty \in Int /\ positionQty # 0
    BY <1>5 DEF GlobalExit, TypeOK
  <2>3. Abs(positionQty) \in Nat \ {0}
    BY <2>2, AbsType
  <2> QED
    BY <1>5, <1>a, <2>1, <2>3, FillLedger, ReducingSideType DEF GlobalExit
<1>6. ASSUME NEW t \in Decisions, RiskBlocked(t) PROVE quiet
  BY <1>6 DEF RiskBlocked, quiet
<1>7. ASSUME NEW t \in Decisions, PlaceLimits(t) PROVE quiet
  BY <1>7 DEF PlaceLimits, quiet
<1>8. ASSUME NEW t \in Decisions, MarketEntry(t) PROVE LedgerInv'
  <2>1. PICK m \in MarketOrders(t.orders, kline.close) :
           LET d == t.orders[m]
           IN  ApplyFill(d.side, QtyOf(d, kline.close), kline.close, RolledOver(risk))
    BY <1>8 DEF MarketEntry
  <2>2. kline.close \in Nat \ {0} /\ t \in Tick
    BY <1>8, CandleTypes, DecisionsType DEF MarketEntry, Decide
  <2>3. t.orders[m] \in Decision
    BY <2>2 DEF MarketOrders, Tick
  <2>4. t.orders[m].side \in Sides /\ QtyOf(t.orders[m], kline.close) \in Nat \ {0}
    BY <2>2, <2>3, QtyOfType DEF MarketOrders, Decision
  <2> QED
    BY <1>a, <2>1, <2>2, <2>4, FillLedger
<1>9. CASE UNCHANGED vars
  BY <1>9, <1>b DEF vars, quiet
<1> QED
  BY <1>b, <1>1, <1>2, <1>3, <1>4, <1>5, <1>6, <1>7, <1>8, <1>9 DEF Next

LEMMA LedgerInvariant == Spec => []LedgerInv
<1>1. TypeOK /\ LedgerInv /\ [Next]_vars => LedgerInv'
  BY NextLedger
<1> QED
  BY <1>1, InitLedger, TypeCorrect, PTL DEF Spec

-----------------------------------------------------------------------------
(* What the tables say of the position and the balance. *)

\* Where the first k rows lead.
LEMMA LeadToPrefix ==
    ASSUME NEW k \in Nat
    PROVE  LeadTo(1..k) = IF k = 0 THEN SeedQty ELSE executions[k].after
<1>1. CASE k = 0
  <2>1. 1..k = {}
    BY <1>1
  <2> QED
    BY <1>1, <2>1 DEF LeadTo
<1>2. CASE k # 0
  <2>1. k \in 1..k /\ \A j \in 1..k : j <= k
    BY <1>2
  <2>2. \A i \in 1..k : (\A j \in 1..k : j <= i) => i = k
    BY <2>1
  <2>3. LastOf(1..k) = k
    BY <2>1, <2>2 DEF LastOf
  <2>4. 1..k # {}
    BY <2>1
  <2> QED
    BY <1>2, <2>3, <2>4 DEF LeadTo
<1> QED
  BY <1>1, <1>2

\* The first row of row i's fill comes after this many rows.
RowsBefore(i) == IF Paired(i) THEN i - 2 ELSE i - 1

\* Row i starts where the rows of earlier fills lead, and the one row it may share its
\* fill with is its neighbour.
LEMMA FillStarts ==
    ASSUME FillTyped, LedgerInv, NEW i \in DOMAIN executions
    PROVE  /\ RowsBefore(i) \in Nat /\ i \in Nat /\ i >= 1 /\ RowsBefore(i) < i
           /\ {j \in DOMAIN executions : executions[j].at < executions[i].at} = 1..RowsBefore(i)
           /\ executions[i].before = LeadTo(1..RowsBefore(i))
           /\ {j \in DOMAIN executions \ {i} : executions[j].at = executions[i].at} =
                IF Paired(i) THEN {i - 1}
                ELSE IF i + 1 \in DOMAIN executions /\ Paired(i + 1) THEN {i + 1} ELSE {}
<1> DEFINE n == Len(executions)
           k == RowsBefore(i)
<1>1. n \in Nat /\ DOMAIN executions = 1..n /\ i \in 1..n
  BY DEF FillTyped
<1>2. /\ \A j, l \in 1..n : j < l =>
           /\ executions[j].at <= executions[l].at
           /\ executions[j].at = executions[l].at => l = j + 1
      /\ \A j \in 1..n : executions[j].at \in Int
  BY <1>1 DEF LedgerInv, RowsInv
<1>3. \A j \in 1..n :
        IF Paired(j)
        THEN ~Paired(j - 1) /\ executions[j].before = executions[j - 1].before
        ELSE j > 1 => executions[j].before = executions[j - 1].after
  BY <1>1 DEF LedgerInv, HistoryReplays
<1> HIDE DEF n
<1>4. Paired(i) => i - 1 \in 1..n /\ executions[i].at = executions[i - 1].at
  BY <1>1 DEF Paired
<1>5. k \in Nat /\ i \in Nat /\ i >= 1 /\ k < i
  BY <1>1, <1>4 DEF RowsBefore
<1>6. \A j \in 1..n : executions[j].at < executions[i].at <=> j \in 1..k
  <2> SUFFICES ASSUME NEW j \in 1..n
               PROVE  executions[j].at < executions[i].at <=> j \in 1..k
    OBVIOUS
  <2>1. CASE j > i
    BY <1>1, <1>2, <1>5, <2>1
  <2>2. CASE j = i
    BY <1>1, <1>2, <1>5, <2>2
  <2>3. CASE j = i - 1
    <3>1. executions[j].at <= executions[i].at
      BY <1>1, <1>2, <2>3
    <3>2. Paired(i) <=> executions[j].at = executions[i].at
      BY <1>1, <2>3 DEF Paired
    <3> QED
      BY <1>1, <1>2, <2>3, <3>1, <3>2 DEF RowsBefore
  <2>4. CASE j < i - 1
    <3>1. executions[j].at <= executions[i].at /\ executions[j].at # executions[i].at
      BY <1>1, <1>2, <2>4
    <3>2. j \in 1..k
      BY <1>1, <2>4 DEF RowsBefore
    <3> QED
      BY <1>1, <1>2, <3>1, <3>2
  <2> QED
    BY <1>1, <2>1, <2>2, <2>3, <2>4
<1>7. {j \in DOMAIN executions : executions[j].at < executions[i].at} = 1..k
  <2>1. 1..k \subseteq 1..n
    BY <1>1, <1>5
  <2> QED
    BY <1>1, <1>6, <2>1
<1>8. executions[i].before = IF k = 0 THEN SeedQty ELSE executions[k].after
  <2>0. executions # << >>
    BY <1>1 DEF n
  <2>1. CASE ~Paired(i)
    <3>1. k = i - 1
      BY <2>1 DEF RowsBefore
    <3>2. CASE i = 1
      BY <2>0, <3>1, <3>2 DEF SeedQty
    <3>3. CASE i > 1
      BY <1>1, <1>3, <2>1, <3>1, <3>3
    <3> QED
      BY <1>5, <3>2, <3>3
  <2>2. CASE Paired(i)
    <3>1. k = i - 2 /\ i - 1 \in 1..n /\ ~Paired(i - 1)
          /\ executions[i].before = executions[i - 1].before
      BY <1>1, <1>3, <1>4, <2>2 DEF RowsBefore
    <3>2. CASE i = 2
      BY <2>0, <3>1, <3>2 DEF SeedQty
    <3>3. CASE i # 2
      <4>1. i - 1 > 1 /\ i - 1 - 1 = i - 2 /\ k # 0
        BY <1>5, <3>1, <3>3
      <4>2. executions[i - 1].before = executions[i - 1 - 1].after
        BY <1>3, <3>1, <4>1
      <4> QED
        BY <3>1, <4>1, <4>2
    <3> QED
      BY <3>2, <3>3
  <2> QED
    BY <2>1, <2>2
<1>9. ASSUME NEW j \in 1..n
      PROVE  (j # i /\ executions[j].at = executions[i].at) <=>
               IF Paired(i) THEN j = i - 1
               ELSE j = i + 1 /\ Paired(i + 1)
  <2>1. \A l \in 1..n : l > 1 => (Paired(l) <=> executions[l].at = executions[l - 1].at)
    BY DEF Paired
  <2>2. j # i /\ executions[j].at = executions[i].at => j = i - 1 \/ j = i + 1
    BY <1>1, <1>2
  <2>3. j = i - 1 => i > 1 /\ (executions[j].at = executions[i].at <=> Paired(i))
    BY <1>1, <2>1
  <2>4. j = i + 1 => (executions[j].at = executions[i].at <=> Paired(i + 1))
    BY <1>1, <2>1
  <2>5. ~(Paired(i) /\ j = i + 1 /\ Paired(i + 1))
    <3>1. j = i + 1 => j - 1 = i
      BY <1>1
    <3> QED
      BY <1>3, <3>1
  <2> QED
    BY <1>1, <2>2, <2>3, <2>4, <2>5
<1>10. {j \in DOMAIN executions \ {i} : executions[j].at = executions[i].at} =
         IF Paired(i) THEN {i - 1}
         ELSE IF i + 1 \in DOMAIN executions /\ Paired(i + 1) THEN {i + 1} ELSE {}
  <2>1. \A j \in DOMAIN executions :
          (j # i /\ executions[j].at = executions[i].at) <=>
             IF Paired(i) THEN j = i - 1 ELSE j = i + 1 /\ Paired(i + 1)
    BY <1>1, <1>9
  <2>2. Paired(i) => i - 1 \in DOMAIN executions
    BY <1>1, <1>4
  <2> QED
    BY <2>1, <2>2
<1>11. executions[i].before = LeadTo(1..k)
  BY <1>5, <1>8, LeadToPrefix
<1> QED
  BY <1>5, <1>7, <1>10, <1>11

\* What row i's fill did to the position.
LEMMA FillAdds ==
    ASSUME FillTyped, LedgerInv, NEW i \in DOMAIN executions
    PROVE  /\ executions[i].before \in Int /\ executions[i].after \in Int /\ Lots(i) \in Int
           /\ Lots(i) # 0
           /\ LET others == {j \in DOMAIN executions \ {i} : executions[j].at = executions[i].at}
              IN  IF others = {} THEN executions[i].after = executions[i].before + Lots(i)
                  ELSE \A j \in others :
                         executions[i].after = executions[i].before + Lots(i) + Lots(j)
<1> DEFINE n == Len(executions)
<1>1. n \in Nat /\ DOMAIN executions = 1..n /\ i \in 1..n
  BY DEF FillTyped
<1>2. \A j \in 1..n : /\ executions[j].before \in Int /\ executions[j].after \in Int
                      /\ Lots(j) \in Int /\ Lots(j) # 0
  <2> SUFFICES ASSUME NEW j \in 1..n
               PROVE  /\ executions[j].before \in Int /\ executions[j].after \in Int
                      /\ Lots(j) \in Int /\ Lots(j) # 0
    OBVIOUS
  <2>1. executions[j] \in Execution /\ executions[j].qty # 0
    BY <1>1 DEF FillTyped, LedgerInv, RowsInv
  <2>2. executions[j].qty \in Nat \ {0} /\ executions[j].before \in Int /\ executions[j].after \in Int
    BY <2>1 DEF Execution
  <2> QED
    BY <2>2 DEF Lots, SignedQty
<1>3. \A j \in 1..n :
        IF Paired(j)
        THEN /\ ~Paired(j - 1)
             /\ executions[j].before = executions[j - 1].before
             /\ executions[j].after = executions[j - 1].after
             /\ executions[j].after = executions[j].before + Lots(j - 1) + Lots(j)
        ELSE j = n \/ ~Paired(j + 1) => executions[j].after = executions[j].before + Lots(j)
  BY <1>1 DEF LedgerInv, HistoryReplays
<1> DEFINE others == {j \in DOMAIN executions \ {i} : executions[j].at = executions[i].at}
<1>4. others = IF Paired(i) THEN {i - 1}
               ELSE IF i + 1 \in 1..n /\ Paired(i + 1) THEN {i + 1} ELSE {}
  BY <1>1, FillStarts
<1> HIDE DEF others, n
<1>5. CASE Paired(i)
  <2>1. i - 1 \in 1..n
    BY <1>1, <1>5 DEF Paired
  <2>2. executions[i].after = executions[i].before + Lots(i - 1) + Lots(i)
    BY <1>3, <1>5, <1>1
  <2>3. executions[i].after = executions[i].before + Lots(i) + Lots(i - 1)
    BY <1>1, <1>2, <2>1, <2>2
  <2> QED
    BY <1>1, <1>2, <1>4, <1>5, <2>3 DEF others
<1>6. CASE ~Paired(i) /\ i + 1 \in 1..n /\ Paired(i + 1)
  <2>1. ASSUME NEW j \in 1..n, Paired(j), NEW m \in 1..n, m = j - 1
        PROVE  /\ executions[j].before = executions[m].before
               /\ executions[j].after = executions[m].after
               /\ executions[j].after = executions[j].before + Lots(m) + Lots(j)
    BY <1>3, <2>1
  <2>2. /\ executions[i + 1].before = executions[i].before
        /\ executions[i + 1].after = executions[i].after
        /\ executions[i + 1].after = executions[i + 1].before + Lots(i) + Lots(i + 1)
    <3>1. i = i + 1 - 1
      BY <1>1
    <3> QED
      BY <1>1, <1>6, <2>1, <3>1
  <2> QED
    BY <1>1, <1>2, <1>4, <1>6, <2>2 DEF others
<1>7. CASE ~Paired(i) /\ ~(i + 1 \in 1..n /\ Paired(i + 1))
  <2>1. i = n \/ i + 1 \in 1..n
    BY <1>1
  <2>2. executions[i].after = executions[i].before + Lots(i)
    BY <1>1, <1>3, <1>7, <2>1
  <2> QED
    BY <1>1, <1>2, <1>4, <1>7, <2>2 DEF others
<1> QED
  BY <1>5, <1>6, <1>7

\* A table that has every row replays.
LEMMA WholeTableReplays ==
    ASSUME FillTyped, LedgerInv
    PROVE  Replays(DOMAIN executions)
<1>1. Len(executions) \in Nat /\ DOMAIN executions = 1..Len(executions)
      /\ (executions = << >> <=> Len(executions) = 0)
  BY DEF FillTyped
<1>2. positionQty = LeadTo(DOMAIN executions)
  <2>1. LeadTo(DOMAIN executions) =
          IF Len(executions) = 0 THEN SeedQty ELSE executions[Len(executions)].after
    BY <1>1, LeadToPrefix
  <2> QED
    BY <1>1, <2>1 DEF LedgerInv, HistoryReplays, SeedQty
<1>3. ASSUME NEW i \in DOMAIN executions
      PROVE  executions[i].before =
               LeadTo({j \in DOMAIN executions : executions[j].at < executions[i].at})
  BY FillStarts
<1> QED
  BY <1>2, <1>3, FillAdds DEF Replays

\* A table without row i does not: half a reversal does not add up, and without a
\* whole fill the next one starts elsewhere.
LEMMA LostRowShows ==
    ASSUME FillTyped, LedgerInv, NEW i \in DOMAIN executions
    PROVE  ~Replays(DOMAIN executions \ {i})
<1> DEFINE n == Len(executions)
           table == DOMAIN executions \ {i}
           others == {j \in DOMAIN executions \ {i} : executions[j].at = executions[i].at}
<1> SUFFICES ASSUME Replays(table) PROVE FALSE
  OBVIOUS
<1>1. n \in Nat /\ DOMAIN executions = 1..n /\ i \in 1..n
  BY DEF FillTyped
<1>2. /\ positionQty = LeadTo(table)
      /\ \A j \in table :
           /\ executions[j].before = LeadTo({l \in table : executions[l].at < executions[j].at})
           /\ LET fill == {l \in table \ {j} : executions[l].at = executions[j].at}
              IN fill = {} => executions[j].after = executions[j].before + Lots(j)
  BY DEF Replays
<1>3. CASE others # {}
  <2>1. PICK j \in others : TRUE
    BY <1>3
  <2>2. j \in table /\ executions[j].at = executions[i].at
    BY <2>1
  <2> DEFINE both == {l \in DOMAIN executions \ {j} : executions[l].at = executions[j].at}
  <2>3. i \in both
    BY <2>2
  <2>4. both = {i}
    <3>1. \E l : both = {l} \/ both = {}
      BY <2>2, FillStarts
    <3> QED
      BY <2>3, <3>1
  <2>5. {l \in table \ {j} : executions[l].at = executions[j].at} = {}
    BY <2>4
  <2>6. executions[j].after = executions[j].before + Lots(j)
    BY <1>2, <2>2, <2>5
  <2>7. executions[j].after = executions[j].before + Lots(j) + Lots(i)
    BY <2>2, <2>3, FillAdds
  <2>8. /\ executions[j].before \in Int /\ Lots(j) \in Int /\ Lots(i) \in Int /\ Lots(i) # 0
    BY <2>2, FillAdds
  <2> QED
    BY <2>6, <2>7, <2>8
<1>4. CASE others = {}
  <2>1. /\ executions[i].after = executions[i].before + Lots(i)
        /\ executions[i].before \in Int /\ Lots(i) \in Int /\ Lots(i) # 0
    BY <1>4, FillAdds
  <2>2. executions[i].after # executions[i].before
    BY <2>1
  <2>3. ~Paired(i) /\ ~(i + 1 \in 1..n /\ Paired(i + 1))
    BY <1>1, <1>4, FillStarts
  <2>4. executions[i].before = LeadTo(1..(i - 1))
    BY <2>3, FillStarts DEF RowsBefore
  <2>5. CASE i = n
    <3>1. table = 1..(i - 1)
      BY <1>1, <2>5
    <3>2. positionQty = executions[i].after
      <4>1. executions # << >>
        BY <1>1
      <4> QED
        BY <2>5, <4>1 DEF LedgerInv, HistoryReplays
    <3> QED
      BY <1>2, <2>2, <2>4, <3>1, <3>2
  <2>6. CASE i # n
    <3>1. i + 1 \in 1..n /\ i + 1 \in table /\ i \in Nat
      BY <1>1, <2>6
    <3>2. ~Paired(i + 1) /\ RowsBefore(i + 1) = i
      BY <2>3, <3>1 DEF RowsBefore
    <3>3. /\ {l \in DOMAIN executions : executions[l].at < executions[i + 1].at} = 1..i
          /\ executions[i + 1].before = LeadTo(1..i)
      BY <1>1, <3>1, <3>2, FillStarts
    <3>4. {l \in table : executions[l].at < executions[i + 1].at} = 1..(i - 1)
      <4>1. {l \in table : executions[l].at < executions[i + 1].at} = (1..i) \ {i}
        BY <3>3
      <4> QED
        BY <3>1, <4>1
    <3>5. LeadTo(1..i) = executions[i].after
      <4>1. i # 0
        BY <1>1
      <4> QED
        BY <3>1, <4>1, LeadToPrefix
    <3> QED
      BY <1>2, <2>2, <2>4, <3>1, <3>3, <3>4, <3>5
  <2> QED
    BY <2>5, <2>6
<1> QED
  BY <1>3, <1>4

\* Whatever fills in whatever order, adding, reducing, closing or reversing, and whatever
\* statements fail: a trade_executions table without a loss leads from the position at
\* startup to the one the engine holds, and one that lost a single row does not.
THEOREM ExecutionsReplayHolds == Spec => []ExecutionsReplay
<1>1. TypeOK /\ LedgerInv => ExecutionsReplay
  <2> SUFFICES ASSUME TypeOK, LedgerInv, Cardinality(lostExecutions) <= 1
               PROVE  Replays(ExecutionTable) <=> lostExecutions = {}
    BY DEF ExecutionsReplay
  <2>1. FillTyped
    BY DEF TypeOK, FillTyped
  <2>2. CASE lostExecutions = {}
    BY <2>1, <2>2, WholeTableReplays DEF ExecutionTable
  <2>3. CASE lostExecutions # {}
    <3>1. PICK i : lostExecutions = {i}
      <4>1. Len(executions) \in Nat /\ DOMAIN executions = 1..Len(executions)
        BY DEF TypeOK
      <4>2. IsFiniteSet(DOMAIN executions) /\ lostExecutions \in SUBSET DOMAIN executions
        BY <4>1, FS_Interval DEF TypeOK
      <4>3. IsFiniteSet(lostExecutions)
        BY <4>2, FS_Subset
      <4>4. Cardinality(lostExecutions) \in Nat /\ Cardinality(lostExecutions) # 0
        BY <2>3, <4>3, FS_CardinalityType, FS_EmptySet
      <4>5. Cardinality(lostExecutions) = 1
        BY <4>4
      <4> QED
        BY <4>3, <4>5, FS_Singleton
    <3>2. i \in DOMAIN executions /\ ExecutionTable = DOMAIN executions \ {i}
      BY <3>1 DEF TypeOK, ExecutionTable
    <3> QED
      BY <2>1, <2>3, <3>2, LostRowShows
  <2> QED
    BY <2>2, <2>3
<1> QED
  BY <1>1, TypeCorrect, LedgerInvariant, PTL

\* Whatever fills in whatever order and whatever statements fail: the trade_history rows
\* account for the balance where none is lost in between, and each tells truly when its
\* position was opened, by a row of trade_executions or visibly by none.
THEOREM TradeHistoryIsTrue == Spec => []TradeHistoryAudits
<1>1. TypeOK /\ LedgerInv => TradeHistoryAudits
  <2> SUFFICES ASSUME TypeOK, LedgerInv PROVE TradeHistoryAudits
    OBVIOUS
  <2>1. HistoryAudits /\ RowsInv /\ lostExecutions \subseteq DOMAIN executions
    BY DEF LedgerInv, TypeOK
  <2>2. simulatedBalance = BalanceAfter(Len(trades))
    BY <2>1 DEF HistoryAudits
  <2>3. ASSUME NEW i \in DOMAIN trades
        PROVE  LET row == trades[i]
                   found == Openings(ExecutionTable, row.closed - 1)
                   missing == Openings(lostExecutions, row.closed - 1)
                   last == LastOf(found \cup missing)
               IN  /\ row.balance = BalanceAfter(i - 1) + row.pnl
                   /\ row.opened = IF found \cup missing = {} THEN row.closed ELSE last
                   /\ row.opened \in missing => row.opened \notin found
    <3> DEFINE moment == trades[i].closed - 1
               found == Openings(ExecutionTable, moment)
               missing == Openings(lostExecutions, moment)
               all == OpeningsUntil(executions, moment)
               opened == trades[i].opened
    <3>1. found \cup missing = all
      BY <2>1 DEF Openings, OpeningsUntil, ExecutionTable
    <3>2. /\ trades[i].balance = BalanceAfter(i - 1) + trades[i].pnl
          /\ IF all = {} THEN opened = trades[i].closed
             ELSE opened \in all /\ \A at \in all : at <= opened
      BY <2>1 DEF HistoryAudits
    <3>3. \A at \in all : at \in Nat
      <4>1. \A j \in DOMAIN executions : executions[j].at \in Nat
        <5> SUFFICES ASSUME NEW j \in DOMAIN executions PROVE executions[j].at \in Nat
          OBVIOUS
        <5>1. executions[j] \in Execution
          BY DEF TypeOK
        <5> QED
          BY <5>1 DEF Execution
      <4> QED
        BY <4>1 DEF OpeningsUntil
    <3> HIDE DEF found, missing, all
    <3>4. all # {} => opened = LastOf(all)
      <4>1. ASSUME all # {}, NEW at \in all, \A x \in all : x <= at PROVE at = opened
        BY <3>2, <3>3, <4>1
      <4> QED
        BY <3>2, <4>1 DEF LastOf
    <3>5. opened \in missing => opened \notin found
      <4> SUFFICES ASSUME opened \in missing, opened \in found PROVE FALSE
        OBVIOUS
      <4>1. PICK l \in lostExecutions : executions[l].at = opened /\ executions[l].action \in Opening
        BY DEF missing, Openings, Opening
      <4>2. PICK f \in ExecutionTable : executions[f].at = opened /\ executions[f].action \in Opening
        BY DEF found, Openings, Opening
      <4>3. l \in DOMAIN executions /\ f \in DOMAIN executions /\ l # f
        BY <2>1, <4>1, <4>2 DEF ExecutionTable
      <4>4. l < f \/ f < l
        <5>1. l \in Nat /\ f \in Nat
          BY <4>3 DEF TypeOK
        <5> QED
          BY <4>3, <5>1
      <4>5. ASSUME NEW i1 \in DOMAIN executions, NEW i2 \in DOMAIN executions, i1 < i2,
                   executions[i1].at = executions[i2].at
            PROVE  executions[i1].action \notin Opening
        BY <2>1, <4>5 DEF RowsInv
      <4>6. CASE l < f
        BY <4>1, <4>2, <4>3, <4>5, <4>6
      <4>7. CASE f < l
        BY <4>1, <4>2, <4>3, <4>5, <4>7
      <4> QED
        BY <4>4, <4>6, <4>7
    <3>6. opened = IF found \cup missing = {} THEN trades[i].closed ELSE LastOf(found \cup missing)
      BY <3>1, <3>2, <3>4
    <3> QED
      BY <3>2, <3>5, <3>6 DEF found, missing
  <2> QED
    BY <2>2, <2>3 DEF TradeHistoryAudits
<1> QED
  BY <1>1, TypeCorrect, LedgerInvariant, PTL

-----------------------------------------------------------------------------
(* The gate of riskCheck. *)

\* The counters r are the losses of the trades closed since r's day began.
Follows(r) ==
    /\ r.since \in 0..Len(trades)
    /\ r.dailyLoss = LossAfter(trades, r.since)
    /\ r.consecutive = StreakAfter(trades, r.since)

\* A day that has no trade yet has lost nothing.
LEMMA NothingLost ==
    ASSUME NEW rows, NEW n \in Nat, n = Len(rows)
    PROVE  LossAfter(rows, n) = 0 /\ StreakAfter(rows, n) = 0
<1>1. LossAfter(rows, n) = 0
  BY SumEmpty DEF LossAfter
<1>2. {i \in n + 1..n : \A j \in i..n : rows[j].pnl < 0} = {}
  OBVIOUS
<1> QED
  BY <1>1, <1>2, FS_EmptySet DEF StreakAfter

\* One more row adds its loss, and makes the streak longer or ends it.
LEMMA OneMoreRow ==
    ASSUME NEW rows \in Seq(Trade), NEW row \in Trade, NEW since \in 0..Len(rows)
    PROVE  /\ LossAfter(Append(rows, row), since) = LossAfter(rows, since) + LossOf(row)
           /\ StreakAfter(Append(rows, row), since) =
                IF row.pnl < 0 THEN StreakAfter(rows, since) + 1 ELSE 0
<1> DEFINE n == Len(rows)
           more == Append(rows, row)
           old == [i \in DOMAIN rows |-> LossOf(rows[i])]
           new == [i \in DOMAIN more |-> LossOf(more[i])]
           losing(s, last) == {i \in since + 1..last : \A j \in i..last : s[j].pnl < 0}
<1>1. /\ n \in Nat /\ since \in Nat /\ since <= n
      /\ DOMAIN rows = 1..n /\ DOMAIN more = 1..(n + 1) /\ Len(more) = n + 1
      /\ \A i \in 1..n : more[i] = rows[i]
      /\ more[n + 1] = row
  OBVIOUS
<1>2. /\ LossAfter(rows, since) = SumBetween(old, since, n)
      /\ LossAfter(more, since) = SumBetween(new, since, n + 1)
      /\ StreakAfter(rows, since) = Cardinality(losing(rows, n))
      /\ StreakAfter(more, since) = Cardinality(losing(more, n + 1))
  BY <1>1 DEF LossAfter, StreakAfter
<1> HIDE DEF n, more
<1>3. (\A i \in since + 1..n : old[i] = new[i]) /\ new[n + 1] = LossOf(row)
  BY <1>1
<1>4. LossAfter(more, since) = LossAfter(rows, since) + LossOf(row)
  <2> HIDE DEF old, new
  <2>1. since \in Int /\ n \in Int /\ since <= n
    BY <1>1
  <2>2. SumBetween(new, since, n + 1) = SumBetween(old, since, n) + new[n + 1]
    <3>1. \A i \in since + 1..n : old[i] = new[i]
      BY <1>3
    <3> QED
      BY <2>1, <3>1, SumGrows
  <2> QED
    BY <1>2, <1>3, <2>2
<1>5. IsFiniteSet(losing(rows, n)) /\ n + 1 \notin losing(rows, n)
  <2>1. IsFiniteSet(since + 1..n)
    <3>1. since + 1 \in Int /\ n \in Int
      BY <1>1
    <3> QED
      BY <3>1, FS_Interval
  <2>2. losing(rows, n) \subseteq since + 1..n
    OBVIOUS
  <2> QED
    BY <1>1, <2>1, <2>2, FS_Subset
<1>6. CASE row.pnl < 0
  <2>1. \A i \in since + 1..n + 1 :
          (\A j \in i..n + 1 : more[j].pnl < 0) <=> (i = n + 1 \/ \A j \in i..n : rows[j].pnl < 0)
    BY <1>1, <1>6
  <2>2. losing(more, n + 1) = losing(rows, n) \cup {n + 1}
    BY <1>1, <2>1
  <2>3. Cardinality(losing(more, n + 1)) = Cardinality(losing(rows, n)) + 1
    <3> HIDE DEF losing
    <3> QED
      BY <1>5, <2>2, FS_AddElement
  <2> QED
    BY <1>2, <1>4, <1>6, <2>3 DEF more
<1>7. CASE ~(row.pnl < 0)
  <2>1. losing(more, n + 1) = {}
    BY <1>1, <1>7
  <2> QED
    BY <1>2, <1>4, <1>7, <2>1, FS_EmptySet DEF more
<1> QED
  BY <1>6, <1>7

LEMMA RolledFollows ==
    ASSUME TypeOK, Follows(risk)
    PROVE  Follows(RolledOver(risk))
<1>1. Len(trades) \in Nat
  BY DEF TypeOK
<1> QED
  BY <1>1, NothingLost DEF RolledOver, Follows

\* A fill carries the counters on.
LEMMA FillFollows ==
    ASSUME TypeOK, NEW side \in Sides, NEW qty \in Nat \ {0}, NEW price \in Int,
           NEW r \in RiskState, Follows(r), ApplyFill(side, qty, price, r)
    PROVE  Follows(risk)'
<1> DEFINE s == SignedQty(side, qty)
           pnl == ClosedPnl(positionQty, entryPrice, s, price)
<1>1. trades \in Seq(Trade)
  BY DEF TypeOK
<1>2. CASE Opposes(positionQty, s)
  <2>1. risk' = Recorded(r, pnl)
    BY <1>2 DEF ApplyFill
  <2>2. PICK row : trades' = Append(trades, row) /\ row.pnl = pnl
    BY <1>2 DEF ApplyFill
  <2>3. row \in Trade
    <3>1. trades' \in Seq(Trade)
      BY FillType DEF TypeOK, FillTyped
    <3>2. Len(trades') = Len(trades) + 1 /\ trades'[Len(trades) + 1] = row
      BY <1>1, <2>2
    <3> QED
      BY <1>1, <3>1, <3>2
  <2>4. /\ LossAfter(trades', r.since) = LossAfter(trades, r.since) + LossOf(row)
        /\ StreakAfter(trades', r.since) =
             IF row.pnl < 0 THEN StreakAfter(trades, r.since) + 1 ELSE 0
    BY <1>1, <2>2, <2>3, OneMoreRow DEF Follows
  <2>5. Len(trades') = Len(trades) + 1 /\ Len(trades) \in Nat
    BY <1>1, <2>2
  <2>6. /\ risk'.since = r.since
        /\ risk'.dailyLoss = r.dailyLoss + LossOf(row)
        /\ risk'.consecutive = IF row.pnl < 0 THEN r.consecutive + 1 ELSE 0
    BY <2>1, <2>2 DEF Recorded, LossOf, RiskState
  <2> QED
    BY <2>4, <2>5, <2>6 DEF Follows
<1>3. CASE ~Opposes(positionQty, s)
  BY <1>3 DEF ApplyFill, Follows
<1> QED
  BY <1>2, <1>3

LEMMA InitRisk == Init => Follows(risk)
<1> SUFFICES ASSUME Init PROVE Follows(risk)
  OBVIOUS
<1>1. /\ trades = << >>
      /\ risk.since = 0 /\ risk.dailyLoss = 0 /\ risk.consecutive = 0
  BY DEF Init
<1>2. Len(trades) = 0
  BY <1>1
<1> QED
  BY <1>1, <1>2, NothingLost DEF Follows

LEMMA NextRisk ==
    ASSUME TypeOK, Follows(risk), [Next]_vars
    PROVE  Follows(risk)'
<1> USE DEF ledger
<1>a. risk \in RiskState /\ RolledOver(risk) \in RiskState /\ Follows(RolledOver(risk))
  BY RiskTypes, RolledFollows DEF TypeOK
<1>b. ASSUME NEW r \in RiskState, Follows(r), risk' = r, trades' = trades PROVE Follows(risk)'
  BY <1>b DEF Follows
<1>c. ASSUME risk' = Older(risk), trades' = trades PROVE Follows(risk)'
  <2>1. Older(risk).since = risk.since /\ Older(risk).dailyLoss = risk.dailyLoss
        /\ Older(risk).consecutive = risk.consecutive
    BY <1>a DEF Older, RiskState
  <2> QED
    BY <1>c, <2>1 DEF Follows
<1>1. CASE FetchFails
  BY <1>1, <1>c DEF FetchFails
<1>2. ASSUME NEW k \in Candles, Candle(k) PROVE Follows(risk)'
  BY <1>2, <1>c DEF Candle
<1>3. ASSUME NEW id \in pending, Match(id) PROVE Follows(risk)'
  <2>1. activeOrders[id] \in RestingOrder
    BY DEF TypeOK
  <2>2. /\ activeOrders[id].side \in Sides /\ activeOrders[id].qty \in Nat \ {0}
        /\ activeOrders[id].price \in Int
    BY <2>1 DEF RestingOrder
  <2> QED
    BY <1>3, <1>a, <2>2, FillFollows DEF Match
<1>4. ASSUME NEW t \in Decisions, Hold(t) PROVE Follows(risk)'
  BY <1>4, <1>a, <1>b DEF Hold
<1>5. ASSUME NEW t \in Decisions, GlobalExit(t) PROVE Follows(risk)'
  <2>1. kline.close \in Int
    BY <1>5, CandleTypes DEF GlobalExit, Decide
  <2>2. positionQty \in Int /\ positionQty # 0
    BY <1>5 DEF GlobalExit, TypeOK
  <2>3. Abs(positionQty) \in Nat \ {0}
    BY <2>2, AbsType
  <2> QED
    BY <1>5, <1>a, <2>1, <2>3, FillFollows, ReducingSideType DEF GlobalExit
<1>6. ASSUME NEW t \in Decisions, RiskBlocked(t) PROVE Follows(risk)'
  BY <1>6, <1>a, <1>b DEF RiskBlocked
<1>7. ASSUME NEW t \in Decisions, PlaceLimits(t) PROVE Follows(risk)'
  BY <1>7, <1>a, <1>b DEF PlaceLimits
<1>8. ASSUME NEW t \in Decisions, MarketEntry(t) PROVE Follows(risk)'
  <2>1. PICK m \in MarketOrders(t.orders, kline.close) :
           LET d == t.orders[m]
           IN  ApplyFill(d.side, QtyOf(d, kline.close), kline.close, RolledOver(risk))
    BY <1>8 DEF MarketEntry
  <2>2. kline.close \in Nat \ {0} /\ t \in Tick
    BY <1>8, CandleTypes, DecisionsType DEF MarketEntry, Decide
  <2>3. t.orders[m] \in Decision
    BY <2>2 DEF MarketOrders, Tick
  <2>4. t.orders[m].side \in Sides /\ QtyOf(t.orders[m], kline.close) \in Nat \ {0}
    BY <2>2, <2>3, QtyOfType DEF MarketOrders, Decision
  <2> QED
    BY <1>a, <2>1, <2>2, <2>4, FillFollows
<1>9. CASE UNCHANGED vars
  BY <1>9, <1>a, <1>b DEF vars
<1> QED
  BY <1>1, <1>2, <1>3, <1>4, <1>5, <1>6, <1>7, <1>8, <1>9 DEF Next

LEMMA RiskInvariant == Spec => []Follows(risk)
<1>1. TypeOK /\ Follows(risk) /\ [Next]_vars => Follows(risk)'
  BY NextRisk
<1> QED
  BY <1>1, InitRisk, TypeCorrect, PTL DEF Spec

\* recordResult and the rollover of riskCheck: however fills, winning trades and days
\* interleave, the counters are the losses of the trades closed since the day began.
THEOREM RiskFollowsTradesHolds == Spec => []RiskFollowsTrades
<1>1. Follows(risk) => RiskFollowsTrades
  BY DEF Follows, RiskFollowsTrades
<1> QED
  BY <1>1, RiskInvariant, PTL

\* A day that reached a limit shuts the gate, whatever riskCheck has done by then.
LEMMA LimitTrips ==
    ASSUME TypeOK, Follows(risk), NEW r, r = RolledOver(risk),
           StreakAfter(trades, r.since) >= 3 \/ LossAfter(trades, r.since) >= MaxDayLoss
    PROVE  Tripped(r)
  BY RolledFollows DEF Follows, Tripped

\* executeDecisions: once the trades of the day hold three losses in a row, or lose the
\* daily limit, no decision puts an order in the book or enlarges the position until the
\* next day, whatever the strategy asks and whichever fill was the last.
THEOREM GateStopsEntriesHolds == Spec => GateStopsEntries
<1> DEFINE reached == /\ pc = "matching" /\ pc' = "idle"
                      /\ \/ StreakAfter(trades, risk'.since) >= 3
                         \/ LossAfter(trades, risk'.since) >= MaxDayLoss
           stopped == /\ activeOrders' \in {activeOrders, NoOrders}
                      /\ Abs(positionQty') <= Abs(positionQty)
<1>1. ASSUME TypeOK, Follows(risk), [Next]_vars, reached PROVE stopped
  <2>a. positionQty \in Int /\ Abs(positionQty) \in Nat
    <3>1. positionQty \in Int
      BY <1>1 DEF TypeOK
    <3> QED
      BY <3>1, AbsType
  <2>b. activeOrders' = activeOrders /\ positionQty' = positionQty => stopped
    BY <2>a
  <2> USE DEF position
  <2>1. CASE UNCHANGED vars
    BY <2>1, <2>b DEF vars
  <2>2. ASSUME FetchFails \/ (\E k \in Candles : Candle(k)) \/ (\E id \in pending : Match(id))
        PROVE  FALSE
    BY <1>1, <2>2 DEF FetchFails, Candle, Match
  <2>3. ASSUME NEW t \in Decisions, Hold(t) \/ RiskBlocked(t) PROVE stopped
    BY <2>3, <2>b DEF Hold, RiskBlocked
  <2>4. ASSUME NEW t \in Decisions, GlobalExit(t) PROVE stopped
    <3>1. positionQty' = positionQty + SignedQty(ReducingSide(positionQty), Abs(positionQty))
      BY <2>4 DEF GlobalExit, ApplyFill
    <3>2. positionQty' = 0
      BY <2>a, <3>1 DEF SignedQty, ReducingSide, Abs
    <3>3. Abs(positionQty') = 0
      BY <3>2 DEF Abs
    <3> QED
      BY <2>4, <2>a, <3>3 DEF GlobalExit
  <2>5. ASSUME NEW t \in Decisions, PlaceLimits(t) PROVE FALSE
    <3>1. risk' = RolledOver(risk) /\ ~Tripped(RolledOver(risk))
      BY <2>5 DEF PlaceLimits
    <3> QED
      BY <1>1, <3>1, LimitTrips
  <2>6. ASSUME NEW t \in Decisions, MarketEntry(t) PROVE FALSE
    <3>1. PICK m \in MarketOrders(t.orders, kline.close) :
             LET d == t.orders[m]
             IN  ApplyFill(d.side, QtyOf(d, kline.close), kline.close, RolledOver(risk))
      BY <2>6 DEF MarketEntry
    <3>2. risk'.since = RolledOver(risk).since
      BY <3>1 DEF ApplyFill, Recorded
    <3>3. ~Tripped(RolledOver(risk))
      BY <2>6 DEF MarketEntry
    <3> QED
      BY <1>1, <3>2, <3>3, LimitTrips
  <2> QED
    BY <1>1, <2>1, <2>2, <2>3, <2>4, <2>5, <2>6 DEF Next
<1>2. TypeOK /\ Follows(risk) /\ [Next]_vars => [reached => stopped]_vars
  BY <1>1
<1> QED
  BY <1>2, TypeCorrect, RiskInvariant, PTL DEF Spec, GateStopsEntries

-----------------------------------------------------------------------------
(* What the market makers may hold. *)

Limit == Larger(InventoryLimit, Abs(SeedQty))

\* A side of the book fills as a whole.
SideWithin(side) == SignedQty(side, positionQty) + RestingLots(side) <= Limit

InventoryInv == strategy \in {"grid_mm", "simple_mm"} => \A side \in Sides : SideWithin(side)

LEMMA SidesBoundInventory ==
    ASSUME TypeOK, \A side \in Sides : RestingLots(side) \in Nat
    PROVE  InventoryInv <=> InventoryBounded
<1>1. positionQty \in Int /\ RestingLots("BUY") \in Nat /\ RestingLots("SELL") \in Nat
  BY DEF TypeOK, Sides
<1>2. strategy \in {"grid_mm", "simple_mm"} => Limit \in Int
  <2>1. InventoryLimit \in Int \/ strategy \notin {"grid_mm", "simple_mm"}
    BY StrategyAssumption DEF InventoryLimit, SimpleMaxPosition
  <2>2. SeedQty \in Int
    <3>1. executions # << >> => executions[1] \in Execution
      BY DEF TypeOK
    <3> QED
      BY <1>1, <3>1 DEF SeedQty, Execution
  <2> QED
    BY <2>1, <2>2 DEF Limit, Larger, Abs
<1>3. InventoryBounded <=>
        (strategy \in {"grid_mm", "simple_mm"} =>
           /\ positionQty + RestingLots("BUY") <= Limit
           /\ positionQty - RestingLots("SELL") >= -Limit)
  BY DEF InventoryBounded, Limit
<1>4. InventoryInv <=>
        (strategy \in {"grid_mm", "simple_mm"} =>
           /\ positionQty + RestingLots("BUY") <= Limit
           /\ -positionQty + RestingLots("SELL") <= Limit)
  BY DEF InventoryInv, SideWithin, SignedQty, Sides
<1> QED
  BY <1>1, <1>2, <1>3, <1>4

\* A book has a number of lots.
LEMMA LotsFinite ==
    ASSUME NEW book, BookTyped(book), NEW side
    PROVE  IsFiniteSet(LotsOn(book, side)) /\ Cardinality(LotsOn(book, side)) \in Nat
<1> DEFINE K == {i \in DOMAIN book : book[i].side = side}
           S == {{id} \X (1..book[id].qty) : id \in K}
           f == [id \in K |-> {id} \X (1..book[id].qty)]
<1>1. IsFiniteSet(K)
  BY FS_Subset DEF BookTyped
<1>2. f \in Surjection(K, S)
  BY DEF Surjection
<1>3. IsFiniteSet(S)
  BY <1>1, <1>2, FS_Surjection
<1>4. ASSUME NEW T \in S PROVE IsFiniteSet(T)
  <2>1. PICK id \in K : T = {id} \X (1..book[id].qty)
    OBVIOUS
  <2>2. book[id].qty \in Nat
    BY DEF BookTyped, RestingOrder
  <2>3. IsFiniteSet({id}) /\ IsFiniteSet(1..book[id].qty)
    <3>1. IsFiniteSet({id})
      BY FS_Singleton
    <3>2. IsFiniteSet(1..book[id].qty)
      <4>1. \A q \in Nat : IsFiniteSet(1..q)
        BY FS_Interval
      <4> QED
        BY <2>2, <4>1
    <3> QED
      BY <3>1, <3>2
  <2> QED
    BY <2>1, <2>3, FS_Product
<1>5. LotsOn(book, side) = UNION S
  BY DEF LotsOn
<1> HIDE DEF S
<1>6. IsFiniteSet(LotsOn(book, side))
  BY <1>3, <1>4, <1>5, FS_UNION
<1> QED
  BY <1>6, FS_CardinalityType

LEMMA BookHasLots ==
    ASSUME TypeOK, NEW side
    PROVE  /\ IsFiniteSet(LotsOn(activeOrders, side)) /\ RestingLots(side) \in Nat
           /\ activeOrders = NoOrders => RestingLots(side) = 0
<1>1. BookTyped(activeOrders)
  BY DEF TypeOK, BookTyped
<1>2. activeOrders = NoOrders => LotsOn(activeOrders, side) = {}
  BY DEF LotsOn, NoOrders
<1> QED
  BY <1>1, <1>2, LotsFinite, FS_EmptySet DEF RestingLots

\* An order that is filled leaves the book with its lots, and with no other.
LEMMA LotsLeave ==
    ASSUME NEW book, BookTyped(book), NEW id \in DOMAIN book, NEW side, NEW rest,
           rest = [i \in DOMAIN book \ {id} |-> book[i]]
    PROVE  Cardinality(LotsOn(book, side)) =
             Cardinality(LotsOn(rest, side)) + (IF book[id].side = side THEN book[id].qty ELSE 0)
<1> DEFINE L == LotsOn(book, side)
           gone == {id} \X (1..book[id].qty)
<1>1. IsFiniteSet(L) /\ Cardinality(L) \in Nat
  BY LotsFinite
<1>2. CASE book[id].side # side
  <2>1. LotsOn(rest, side) = L
    BY <1>2 DEF LotsOn
  <2> QED
    BY <1>1, <1>2, <2>1
<1>3. CASE book[id].side = side
  <2>1. LotsOn(rest, side) = L \ gone /\ L \cap gone = gone
    BY <1>3 DEF LotsOn
  <2>2. book[id].qty \in Nat
    BY DEF BookTyped, RestingOrder
  <2>3. IsFiniteSet({id}) /\ Cardinality({id}) = 1
    BY FS_Singleton
  <2>4. IsFiniteSet(1..book[id].qty) /\ Cardinality(1..book[id].qty) = book[id].qty
    BY <2>2, FS_Interval
  <2>5. Cardinality(gone) = 1 * book[id].qty
    <3>1. PICK q \in Nat : q = book[id].qty
      BY <2>2
    <3>2. IsFiniteSet(1..q) /\ Cardinality(1..q) = q
      BY <2>4, <3>1
    <3>3. Cardinality({id} \X (1..q)) = Cardinality({id}) * Cardinality(1..q)
      BY <2>3, <3>2, FS_Product
    <3>4. gone = {id} \X (1..q)
      BY <3>1
    <3> QED
      BY <2>3, <3>1, <3>2, <3>3, <3>4
  <2> HIDE DEF L, gone
  <2>6. Cardinality(L \ gone) = Cardinality(L) - Cardinality(gone)
    BY <1>1, <2>1, FS_Difference
  <2>7. \A c, q \in Nat : c = (c - 1 * q) + q
    OBVIOUS
  <2>8. Cardinality(LotsOn(rest, side)) = Cardinality(L) - 1 * book[id].qty
    BY <2>1, <2>5, <2>6
  <2> QED
    BY <1>1, <1>3, <2>2, <2>7, <2>8 DEF L
<1> QED
  BY <1>2, <1>3

\* The book after a batch of quotes holds the lots that were quoted.
LEMMA QuotesToBook ==
    ASSUME TypeOK, pc = "matching", NEW t \in Decisions, t.orders # << >>, Resting(t.orders),
           NEW side
    PROVE  LotsOn(BookAfter(t.orders, kline.close), side) = QuotedLots(t.orders, side)
<1> DEFINE orders == t.orders
           price == kline.close
<1>1. orders \in Seq(Decision)
  BY DecisionsType DEF Tick
<1>2. \A k \in DOMAIN orders : /\ orders[k].type = "Gtc" /\ orders[k].size \in Nat \ {0}
                               /\ QtyOf(orders[k], price) = orders[k].size
  BY DEF Resting, QtyOf
<1>3. 1 \in DOMAIN orders
  BY <1>1
<1> HIDE DEF orders, price
<1>4. Rests(orders) = DOMAIN orders /\ MarketOrders(orders, price) = {}
  BY <1>2 DEF Rests, MarketOrders
<1>5. BookAfter(orders, price) =
        [k \in DOMAIN orders |-> [side |-> orders[k].side, price |-> orders[k].price,
                                  qty |-> QtyOf(orders[k], price)]]
  BY <1>2, <1>3, <1>4 DEF BookAfter, Reached
<1> DEFINE book == BookAfter(orders, price)
<1>6. /\ DOMAIN book = DOMAIN orders
      /\ \A k \in DOMAIN orders : book[k].side = orders[k].side /\ book[k].qty = orders[k].size
  BY <1>2, <1>5
<1> HIDE DEF book
<1>7. LotsOn(book, side) = QuotedLots(orders, side)
  BY <1>6 DEF LotsOn, QuotedLots, Quoted
<1> QED
  BY <1>7 DEF book, orders, price

\* Neither market maker asks for more than its limit leaves room for.
LEMMA MakerQuotes ==
    ASSUME TypeOK, pc = "matching", strategy \in {"grid_mm", "simple_mm"},
           NEW t \in Decisions, NEW side \in Sides
    PROVE  LET lots == Cardinality(QuotedLots(t.orders, side))
           IN  /\ Resting(t.orders) /\ lots \in Nat
               /\ SignedQty(side, positionQty) + lots
                    <= Larger(InventoryLimit, SignedQty(side, positionQty))
<1> DEFINE held == SignedQty(side, positionQty)
           lots == Cardinality(QuotedLots(t.orders, side))
<1>1. /\ {GridLevels, GridSize, GridMaxPosition, SimpleSize} \subseteq Nat \ {0}
      /\ positionQty \in Int /\ held \in Int
  BY StrategyAssumption DEF TypeOK, SignedQty
<1>2. GridLevels * GridSize \in Nat /\ (GridLevels - 1) * GridSize = GridLevels * GridSize - GridSize
      /\ GridLevels * GridSize >= GridSize
  <2>1. \A l, q \in Nat : (l + 1) * q = l * q + q /\ l * q \in Nat
    OBVIOUS
  <2>2. PICK l \in Nat : GridLevels = l + 1
    BY <1>1
  <2>3. (GridLevels - 1) * GridSize = l * GridSize
    BY <2>2
  <2> QED
    BY <1>1, <2>1, <2>2, <2>3
<1> HIDE DEF held, lots
<1>3. CASE strategy = "grid_mm"
  <2>1. PICK s \in BOOLEAN : t.orders = GridOnTick(kline.close, positionQty, s)
    BY <1>3 DEF Decisions, OnTick, Regimes
  <2>2. /\ Resting(t.orders)
        /\ QuotesWithin(t.orders, side, positionQty, GridSize, GridMaxPosition, GridLevels * GridSize)
    BY <1>1, <2>1, GridSides
  <2>3. lots \in Nat /\ (lots = 0 \/ lots <= -held
                           \/ (held + GridSize <= GridMaxPosition /\ lots <= GridLevels * GridSize))
    BY <2>2 DEF QuotesWithin, lots, held
  <2>4. InventoryLimit = GridMaxPosition + GridLevels * GridSize - GridSize
    BY <1>1, <1>2, <1>3 DEF InventoryLimit
  <2>5. held + lots <= Larger(InventoryLimit, held)
    BY <1>1, <1>2, <2>3, <2>4 DEF Larger
  <2> QED
    BY <2>2, <2>3, <2>5 DEF lots, held
<1>4. CASE strategy = "simple_mm"
  <2>1. PICK s \in BOOLEAN : t.orders = SimpleOnTick(kline.close, positionQty, s)
    BY <1>4 DEF Decisions, OnTick, Regimes
  <2>2. /\ Resting(t.orders)
        /\ QuotesWithin(t.orders, side, positionQty, 0, SimpleMaxPosition, SimpleSize)
    BY <1>1, <2>1, SimpleSides
  <2>3. lots \in Nat /\ (lots = 0 \/ lots <= -held
                           \/ (held + 0 <= SimpleMaxPosition /\ lots <= SimpleSize))
    BY <2>2 DEF QuotesWithin, lots, held
  <2>4. InventoryLimit = SimpleMaxPosition + SimpleSize /\ SimpleMaxPosition \in Nat
    BY <1>1, <1>4 DEF InventoryLimit, SimpleMaxPosition
  <2>5. held + lots <= Larger(InventoryLimit, held)
    BY <1>1, <2>3, <2>4 DEF Larger
  <2> QED
    BY <2>2, <2>3, <2>5 DEF lots, held
<1> QED
  BY <1>3, <1>4

\* The position at startup is never forgotten.
LEMMA SeedStays ==
    ASSUME FillTyped, NEW side \in Sides, NEW qty \in Nat \ {0}, NEW price \in Int, NEW r,
           ApplyFill(side, qty, price, r)
    PROVE  SeedQty' = SeedQty
<1>1. positionQty \in Int /\ clock + 1 \in Nat /\ executions \in Seq(Execution)
  BY DEF FillTyped
<1>2. PICK rows \in Seq(Execution) :
         /\ rows = ExecutionRows(side, qty, positionQty, price, clock + 1)
         /\ Len(executions') = Len(executions) + Len(rows)
         /\ DOMAIN executions' = 1..(Len(executions) + Len(rows))
         /\ DOMAIN executions = 1..Len(executions) /\ DOMAIN rows = 1..Len(rows)
         /\ \A i \in DOMAIN executions : executions'[i] = executions[i]
         /\ \A i \in DOMAIN rows : executions'[Len(executions) + i] = rows[i]
  BY RowsAppended
<1>3. Len(rows) \in {1, 2} /\ \A i \in DOMAIN rows : rows[i].before = positionQty
  BY <1>1, <1>2, FillRows DEF RowsOfFill
<1>4. Len(executions) \in Nat /\ executions' # << >>
  <2>1. Len(executions) \in Nat /\ Len(<< >>) = 0
    BY <1>1
  <2>2. Len(executions') # 0
    BY <1>2, <1>3, <2>1, SMTT(30)
  <2> QED
    BY <2>1, <2>2
<1>5. CASE executions = << >>
  <2>1. executions'[1] = rows[1] /\ rows[1].before = positionQty
    <3>1. Len(executions) = 0 /\ 1 \in DOMAIN rows /\ 0 + 1 = 1
      BY <1>2, <1>3, <1>5
    <3> QED
      BY <1>2, <1>3, <3>1
  <2> QED
    BY <1>4, <1>5, <2>1 DEF SeedQty
<1>6. CASE executions # << >>
  <2>1. 1 \in DOMAIN executions
    BY <1>1, <1>6
  <2> QED
    BY <1>2, <1>4, <1>6, <2>1 DEF SeedQty
<1> QED
  BY <1>5, <1>6

LEMMA LimitType ==
    ASSUME TypeOK, strategy \in {"grid_mm", "simple_mm"}
    PROVE  Limit \in Nat /\ InventoryLimit \in Int /\ InventoryLimit <= Limit
<1>1. /\ {GridLevels, GridSize, GridMaxPosition, SimpleSize} \subseteq Nat \ {0}
      /\ executions # << >> => executions[1] \in Execution
      /\ positionQty \in Int
  BY StrategyAssumption DEF TypeOK
<1>2. Abs(SeedQty) \in Nat
  BY <1>1 DEF SeedQty, Execution, Abs
<1>3. InventoryLimit \in Int
  BY <1>1 DEF InventoryLimit, SimpleMaxPosition
<1> QED
  BY <1>2, <1>3 DEF Limit, Larger

\* Lots that fill move from the book to the position, and away from the other limit.
LEMMA SignedLots ==
    ASSUME NEW side \in Sides, NEW taken \in Sides, NEW pos \in Int, NEW q \in Nat,
           NEW lots \in Nat, NEW rest \in Nat, lots = rest + (IF taken = side THEN q ELSE 0)
    PROVE  SignedQty(side, pos + SignedQty(taken, q)) + rest <= SignedQty(side, pos) + lots
<1>1. CASE taken = side
  BY <1>1 DEF SignedQty, Sides
<1>2. CASE taken # side
  BY <1>2 DEF SignedQty, Sides
<1> QED
  BY <1>1, <1>2

LEMMA NextInventory ==
    ASSUME TypeOK, TypeOK', InventoryInv, [Next]_vars
    PROVE  InventoryInv'
<1> USE DEF position, ledger
<1> SUFFICES ASSUME strategy \in {"grid_mm", "simple_mm"}, NEW side \in Sides
             PROVE  SideWithin(side)'
  <2>1. strategy' = strategy
    BY DEF Next, FetchFails, Candle, Match, Decide, Hold, GlobalExit, RiskBlocked, PlaceLimits,
           MarketEntry, vars
  <2> QED
    BY <2>1 DEF InventoryInv
<1>a. FillTyped /\ positionQty \in Int /\ BookTyped(activeOrders)
  BY DEF TypeOK, FillTyped, BookTyped
<1>b. /\ SignedQty(side, positionQty) + RestingLots(side) <= Limit
      /\ RestingLots(side) \in Nat /\ RestingLots(side)' \in Nat
      /\ SignedQty(side, positionQty) \in Int
  <2>1. RestingLots(side) \in Nat
    BY BookHasLots
  <2>2. RestingLots(side)' \in Nat
    <3>1. BookTyped(activeOrders')
      BY DEF TypeOK, BookTyped
    <3> QED
      BY <3>1, LotsFinite DEF RestingLots
  <2> QED
    BY <1>a, <2>1, <2>2 DEF InventoryInv, SideWithin, SignedQty
<1>s. strategy' = strategy
  BY DEF Next, FetchFails, Candle, Match, Decide, Hold, GlobalExit, RiskBlocked, PlaceLimits,
         MarketEntry, vars
<1>l. /\ Limit \in Nat /\ InventoryLimit \in Int /\ InventoryLimit <= Limit
      /\ SeedQty' = SeedQty => Limit' = Limit
  <2>1. SeedQty' = SeedQty => Limit' = Limit
    BY <1>s DEF Limit, InventoryLimit
  <2> QED
    BY <2>1, LimitType
<1>q. UNCHANGED <<positionQty, executions>> => SeedQty' = SeedQty
  BY DEF SeedQty
<1>u. UNCHANGED <<positionQty, executions, activeOrders>> => SideWithin(side)'
  BY <1>b, <1>l, <1>q DEF SideWithin, RestingLots
<1>1. CASE FetchFails
  BY <1>1, <1>u DEF FetchFails
<1>2. ASSUME NEW k \in Candles, Candle(k) PROVE SideWithin(side)'
  BY <1>2, <1>u DEF Candle
<1>3. ASSUME NEW id \in pending, Match(id) PROVE SideWithin(side)'
  <2> DEFINE o == activeOrders[id]
             n == Cardinality(LotsOn(activeOrders', side))
  <2>1. id \in DOMAIN activeOrders /\ o.side \in Sides /\ o.qty \in Nat \ {0} /\ o.price \in Int
    BY DEF TypeOK, RestingOrder
  <2>2. ApplyFill(o.side, o.qty, o.price, risk)
    BY <1>3 DEF Match
  <2>3. SeedQty' = SeedQty
    BY <1>a, <2>1, <2>2, SeedStays
  <2>4. positionQty' = positionQty + SignedQty(o.side, o.qty)
    BY <2>2 DEF ApplyFill
  <2>5. RestingLots(side) = n + (IF o.side = side THEN o.qty ELSE 0)
    BY <1>3, <1>a, <2>1, LotsLeave DEF Match, RestingLots
  <2>6. RestingLots(side)' = n /\ n \in Nat
    BY <1>b DEF RestingLots
  <2> HIDE DEF o, n
  <2>7. SignedQty(side, positionQty + SignedQty(o.side, o.qty)) + n
          <= SignedQty(side, positionQty) + RestingLots(side)
    BY <1>a, <1>b, <2>1, <2>5, <2>6, SignedLots
  <2>8. SignedQty(side, positionQty + SignedQty(o.side, o.qty)) \in Int
    BY <1>a, <2>1 DEF SignedQty
  <2>9. SignedQty(side, positionQty + SignedQty(o.side, o.qty)) + n <= Limit
    BY <1>b, <1>l, <2>6, <2>7, <2>8
  <2> QED
    BY <1>l, <2>3, <2>4, <2>6, <2>9 DEF SideWithin, SignedQty
<1>4. ASSUME NEW t \in Decisions, Hold(t) PROVE SideWithin(side)'
  BY <1>4, <1>u DEF Hold
<1>5. ASSUME NEW t \in Decisions, GlobalExit(t) PROVE SideWithin(side)'
  <2>1. /\ ApplyFill(ReducingSide(positionQty), Abs(positionQty), kline.close, risk)
        /\ activeOrders' = NoOrders /\ positionQty # 0 /\ kline.close \in Int
    BY <1>5, CandleTypes DEF GlobalExit, Decide
  <2>2. Abs(positionQty) \in Nat \ {0} /\ ReducingSide(positionQty) \in Sides
    BY <1>a, <2>1, AbsType, ReducingSideType
  <2>3. SeedQty' = SeedQty
    BY <1>a, <2>1, <2>2, SeedStays
  <2>4. positionQty' = 0
    BY <1>a, <2>1 DEF ApplyFill, SignedQty, ReducingSide, Abs
  <2>5. RestingLots(side)' = 0
    <3>1. LotsOn(activeOrders', side) = {}
      BY <2>1 DEF LotsOn, NoOrders
    <3> QED
      BY <3>1, FS_EmptySet DEF RestingLots
  <2>6. SignedQty(side, 0) + 0 <= Limit
    BY <1>l DEF SignedQty
  <2> QED
    BY <1>l, <2>3, <2>4, <2>5, <2>6 DEF SideWithin, SignedQty
<1>6. ASSUME NEW t \in Decisions, RiskBlocked(t) PROVE SideWithin(side)'
  BY <1>6, <1>u DEF RiskBlocked
<1>7. ASSUME NEW t \in Decisions, PlaceLimits(t) PROVE SideWithin(side)'
  <2> DEFINE n == Cardinality(QuotedLots(t.orders, side))
  <2>1. /\ pc = "matching" /\ t.orders # << >>
        /\ activeOrders' = BookAfter(t.orders, kline.close)
        /\ UNCHANGED <<positionQty, executions>>
    BY <1>7 DEF PlaceLimits, Decide
  <2>2. /\ Resting(t.orders) /\ n \in Nat
        /\ SignedQty(side, positionQty) + n <= Larger(InventoryLimit, SignedQty(side, positionQty))
    BY <2>1, MakerQuotes
  <2>3. RestingLots(side)' = n
    BY <2>1, <2>2, QuotesToBook DEF RestingLots
  <2> HIDE DEF n
  <2>4. SignedQty(side, positionQty) + n <= Limit
    BY <1>b, <1>l, <2>2 DEF Larger
  <2> QED
    BY <1>l, <1>q, <2>1, <2>3, <2>4 DEF SideWithin, SignedQty
<1>8. ASSUME NEW t \in Decisions, MarketEntry(t) PROVE SideWithin(side)'
  <2>1. pc = "matching" /\ MarketOrders(t.orders, kline.close) # {}
    BY <1>8 DEF MarketEntry, Decide
  <2>2. Resting(t.orders)
    BY <2>1, MakerQuotes
  <2> QED
    BY <2>1, <2>2 DEF Resting, MarketOrders
<1>9. CASE UNCHANGED vars
  BY <1>9, <1>u DEF vars
<1> QED
  BY <1>1, <1>2, <1>3, <1>4, <1>5, <1>6, <1>7, <1>8, <1>9 DEF Next

\* For every configuration of the two market makers, however candles fill their orders
\* and the risk gate leaves old ones in the book: even if one whole side of the book
\* fills, the position stays within what the checks against maxPosition leave room for,
\* or within the position found at startup.
THEOREM InventoryBoundedHolds == Spec => []InventoryBounded
<1>1. TypeOK /\ Init => InventoryInv
  <2> SUFFICES ASSUME TypeOK, Init, strategy \in {"grid_mm", "simple_mm"}, NEW side \in Sides
               PROVE  SideWithin(side)
    BY DEF InventoryInv
  <2>1. RestingLots(side) = 0 /\ SeedQty = positionQty /\ positionQty \in Int
    BY BookHasLots DEF Init, SeedQty, TypeOK
  <2>2. InventoryLimit \in Int
    BY LimitType
  <2>3. SignedQty(side, positionQty) <= Abs(positionQty) /\ SignedQty(side, positionQty) \in Int
    BY <2>1 DEF SignedQty, Abs
  <2>4. Abs(positionQty) \in Int
    BY <2>1 DEF Abs
  <2> HIDE DEF SideWithin
  <2>5. SignedQty(side, positionQty) + 0 <= Larger(InventoryLimit, Abs(positionQty))
    BY <2>2, <2>3, <2>4 DEF Larger
  <2> QED
    BY <2>1, <2>5 DEF SideWithin, Limit
<1>2. TypeOK /\ TypeOK' /\ InventoryInv /\ [Next]_vars => InventoryInv'
  BY NextInventory
<1>3. TypeOK /\ InventoryInv => InventoryBounded
  BY SidesBoundInventory, BookHasLots
<1> QED
  BY <1>1, <1>2, <1>3, TypeCorrect, PTL DEF Spec
=============================================================================
