----------------------------- MODULE Backtester -----------------------------
(***************************************************************************)
(* RunBacktest: a strategy replayed over past candles.  On every candle    *)
(* the resting orders its range touches are filled, in any order (Go's map *)
(* iteration), then the strategy decides on the close, and what it buys or *)
(* sells at once fills at the open of the next candle.  Unlike the engine, *)
(* a stop and a target are orders of their own, and fills pay a fee.       *)
(***************************************************************************)
EXTENDS Strategies, Position, FiniteSets

CONSTANTS
    Running,            \* ids of the strategies that are replayed
    Bars,               \* the candles the history may hold
    InitialBalance,     \* in cents of a lot
    DefaultNotional,    \* 150 USDT, what an order of size 0 buys
    MaxBars             \* bound: candles the replay visits

Bar == [open : Nat, low : Nat, high : Nat, close : Nat]

ASSUME BacktestAssumption ==
    /\ Running \subseteq StrategyIds
    /\ Bars \subseteq Bar /\ Bars # {}
    /\ \A k \in Bars : k.low > 0 /\ {k.open, k.close} \subseteq k.low .. k.high
    /\ InitialBalance \in Int
    /\ DefaultNotional \in Nat /\ MaxBars \in Nat \ {0}

\* Balances are in 1/2500 of a cent: the fee of 0.0004 on an amount is the amount.
Scale == 2500

VARIABLES
    strategy, tick,         \* the strategy, and what its last OnTick returned
    pc,                     \* "replay": inside the loop; "closing": after it; "done"
    bar, next,              \* klines[i] and klines[i+1]
    left,                   \* candles the loop still visits, this one included
    pending,                \* ids of the orders the bar touches, not yet filled
    activeOrders,           \* id -> resting order
    positionQty, entryPrice, balance, peakBalance, maxDrawdown,
    winningTrades, losingTrades,
    fees, closings,         \* history: fees paid; balance after every closing fill
    forced                  \* history: the same of the forced close after the loop, if any

book == <<activeOrders, pending>>
position == <<positionQty, entryPrice>>
account == <<balance, fees>>
statistics == <<peakBalance, maxDrawdown, winningTrades, losingTrades, closings, forced>>
vars == <<strategy, tick, pc, bar, next, left, book, position, account, statistics>>

RestingOrder == [type : {"LIMIT", "STOP_MARKET", "TAKE_PROFIT_MARKET"}, side : Sides,
                 price : Int, qty : Nat \ {0}]

TypeOK ==
    /\ strategy \in Running /\ tick \in Tick
    /\ pc \in {"replay", "closing", "done"}
    /\ {bar, next} \subseteq Bars
    /\ left \in 0..MaxBars /\ (pc = "replay" => left > 0)
    /\ DOMAIN activeOrders \subseteq Nat /\ IsFiniteSet(DOMAIN activeOrders)
    /\ pending \subseteq DOMAIN activeOrders
    /\ \A id \in DOMAIN activeOrders : activeOrders[id] \in RestingOrder
    /\ {positionQty, entryPrice, balance, peakBalance, fees} \subseteq Int
    /\ {maxDrawdown, winningTrades, losingTrades} \subseteq Nat
    /\ positionQty = 0 => entryPrice = 0
    /\ closings \in Seq(Int) /\ forced \in Seq(Int)

NoOrders == << >>

Init ==
    /\ strategy \in Running
    /\ tick = [orders |-> << >>, mem |-> FreshMemory, standDown |-> FALSE]
    /\ pc = "replay" /\ left \in 1..MaxBars
    /\ bar \in Bars /\ next \in Bars
    /\ activeOrders = NoOrders /\ pending = {}
    /\ positionQty = 0 /\ entryPrice = 0
    /\ balance = Scale * InitialBalance /\ peakBalance = balance
    /\ maxDrawdown = 0 /\ winningTrades = 0 /\ losingTrades = 0
    /\ fees = 0 /\ closings = << >> /\ forced = << >>

-----------------------------------------------------------------------------
(* Fills *)

\* Mutant: shorts win like longs.
WinsLongOnly(pnl, price) == price > entryPrice

\* A trade won if it made a profit before fees.
Wins(pnl, price) == pnl > 0

CountTrade(pnl, price) ==
    IF Wins(pnl, price) THEN winningTrades' = winningTrades + 1 /\ UNCHANGED losingTrades
                        ELSE losingTrades' = losingTrades + 1 /\ UNCHANGED winningTrades

\* Mutant: the peak stays where it was.
CurveFromStart(after) ==
    /\ peakBalance' = peakBalance
    /\ maxDrawdown' = Larger(maxDrawdown, peakBalance - after)
    /\ closings' = Append(closings, after) /\ UNCHANGED forced

\* The curve of the balance and its largest fall.
Curve(after) ==
    /\ peakBalance' = Larger(peakBalance, after)
    /\ maxDrawdown' = Larger(maxDrawdown, peakBalance' - after)
    /\ closings' = Append(closings, after) /\ UNCHANGED forced

\* A fill that pays a fee.  Only one that closes something enters the statistics.
Fill(side, qty, price, fee) ==
    LET s == SignedQty(side, qty)
        pnl == ClosedPnl(positionQty, entryPrice, s, price)
        after == balance - fee + (IF Opposes(positionQty, s) THEN Scale * pnl ELSE 0)
    IN  /\ balance' = after /\ fees' = fees + fee
        /\ positionQty' = positionQty + s
        /\ entryPrice' = EntryAfter(positionQty, entryPrice, s, price)
        /\ IF Opposes(positionQty, s) THEN CountTrade(pnl, price) /\ Curve(after)
                                      ELSE UNCHANGED statistics

-----------------------------------------------------------------------------
(* Matching *)

\* The range of the candle touches the order.  A stop triggers on the far side.
Touched(order, k) ==
    IF (order.side = "BUY") = (order.type = "STOP_MARKET")
    THEN k.high >= order.price
    ELSE k.low <= order.price

Touches(orders, k) == {id \in DOMAIN orders : Touched(orders[id], k)}

\* One touched order fills at its price, whatever the position is by then, and
\* leaves the book; the other order of its entry stays.
Match(id) ==
    /\ pc = "replay" /\ id \in pending
    /\ LET order == activeOrders[id]
       IN  Fill(order.side, order.qty, order.price, order.price * order.qty)
    /\ activeOrders' = [i \in DOMAIN activeOrders \ {id} |-> activeOrders[i]]
    /\ pending' = pending \ {id}
    /\ UNCHANGED <<strategy, tick, pc, bar, next, left>>

-----------------------------------------------------------------------------
(* Decisions *)

QtyOf(d) == IF d.size > 0 THEN d.size ELSE DefaultNotional \div bar.close

Decisions == OnTick(strategy, bar.close, positionQty, tick.mem)

\* Mutant: the next candle is matched against the orders before the decision.
DecideTouchingOldBook(t, orders) ==
    /\ pc = "replay" /\ pending = {}
    /\ tick' = t /\ activeOrders' = orders
    /\ left' = left - 1 /\ bar' = next
    /\ IF left' > 0
       THEN pc' = "replay" /\ next' \in Bars /\ pending' = Touches(activeOrders, next)
       ELSE pc' = "closing" /\ UNCHANGED next /\ pending' = {}
    /\ UNCHANGED strategy

\* The rest of the candle: the strategy returns t, the orders become those of
\* the argument, and the loop visits the next candle or ends.
Decide(t, orders) ==
    /\ pc = "replay" /\ pending = {}
    /\ tick' = t
    /\ activeOrders' = orders
    /\ left' = left - 1
    /\ bar' = next
    /\ IF left' > 0
       THEN pc' = "replay" /\ next' \in Bars /\ pending' = Touches(orders, next)
       ELSE pc' = "closing" /\ UNCHANGED next /\ pending' = {}
    /\ UNCHANGED strategy

\* The decisions of one kind that are not skipped for their size.
Placed(t, type) == {k \in DOMAIN t.orders : t.orders[k].type = type /\ QtyOf(t.orders[k]) > 0}

Hold(t) ==
    /\ \A type \in {"Market", "Ioc"} : Placed(t, type) = {}
    /\ \A k \in DOMAIN t.orders : t.orders[k].type # "Gtc"
    /\ Decide(t, activeOrders)
    /\ UNCHANGED <<position, account, statistics>>

\* The book with one more order, if its price is positive.  Ids are only names: the
\* lowest that no resting order has.
With(orders, order) ==
    LET id == CHOOSE i \in 1 .. Cardinality(DOMAIN orders) + 1 : i \notin DOMAIN orders
    IN  IF order.price > 0
        THEN [i \in DOMAIN orders \cup {id} |-> IF i = id THEN order ELSE orders[i]]
        ELSE orders

\* A stop and a target of the size of the entry.
Protection(d, type, price) ==
    [type |-> type, side |-> IF d.side = "SELL" THEN "BUY" ELSE "SELL",
     price |-> price, qty |-> QtyOf(d)]

Protected(d) ==
    With(With(activeOrders, Protection(d, "STOP_MARKET", d.sl)),
         Protection(d, "TAKE_PROFIT_MARKET", d.tp))

\* A market order fills at the open of the next candle and pays the fee on all of
\* it.  No strategy returns a second order with it.
MarketEntry(t) ==
    \E m \in Placed(t, "Market") :
        LET d == t.orders[m]
        IN  /\ Fill(d.side, QtyOf(d), next.open, next.open * QtyOf(d))
            /\ Decide(t, Protected(d))

\* An Ioc order does so too, but pays only for what it closes and sets no stops.
IocFill(t) ==
    \E m \in Placed(t, "Ioc") :
        LET d == t.orders[m]
            s == SignedQty(d.side, QtyOf(d))
            closed == IF Opposes(positionQty, s) THEN ClosedQty(positionQty, s) ELSE 0
        IN  /\ Fill(d.side, QtyOf(d), next.open, next.open * closed)
            /\ Decide(t, activeOrders)

\* Limit orders replace the whole book, stops included.
LimitBook(t) ==
    [k \in Placed(t, "Gtc") |->
        [type |-> "LIMIT", side |-> t.orders[k].side, price |-> t.orders[k].price,
         qty |-> QtyOf(t.orders[k])]]

PlaceLimits(t) ==
    /\ \E k \in DOMAIN t.orders : t.orders[k].type = "Gtc"
    /\ Decide(t, LimitBook(t))
    /\ UNCHANGED <<position, account, statistics>>

\* After the loop a position is closed at the last close, without a fee and without
\* a look at the drawdown.
Finish ==
    /\ pc = "closing"
    /\ pc' = "done"
    /\ IF positionQty = 0 THEN UNCHANGED <<position, account, statistics>>
       ELSE LET pnl == ClosedPnl(positionQty, entryPrice, -positionQty, bar.close)
            IN  /\ balance' = balance + Scale * pnl
                /\ CountTrade(pnl, bar.close)
                /\ positionQty' = 0 /\ entryPrice' = 0      \* nothing reads them again
                /\ forced' = <<balance'>>
                /\ UNCHANGED <<fees, peakBalance, maxDrawdown, closings>>
    /\ UNCHANGED <<strategy, tick, bar, next, left, book>>

Next ==
    \/ \E id \in pending : Match(id)
    \/ \E t \in Decisions : Hold(t) \/ MarketEntry(t) \/ IocFill(t) \/ PlaceLimits(t)
    \/ Finish

Spec == Init /\ [][Next]_vars

-----------------------------------------------------------------------------
(* Properties *)

\* Before fees, the backtest implements the account the engine implements too:
\* what the position would give back at its average price moves at every fill, and
\* at the closing of the end, by the price of the lots and nothing else.
Books == INSTANCE Account WITH
            Seeds   <- {<<0, 0>>},
            holding <- positionQty,
            cash    <- ((balance + fees) \div Scale) - positionQty * entryPrice,
            offers  <- {activeOrders[id].price : id \in DOMAIN activeOrders}
                          \cup {bar.close, next.open}

BooksBalance == Books!Spec

\* Of all falls of the curve, from one point of it to a later one, this is the largest.
LargestFall(curve, size) ==
    /\ \E j \in DOMAIN curve : \E i \in 1..j : size = curve[i] - curve[j]
    /\ \A j \in DOMAIN curve : \A i \in 1..j : curve[i] - curve[j] <= size

\* The drawdown that is reported is the largest fall of the balance over the closing
\* fills of the loop.  It leaves out the forced close, which is a trade too: the
\* largest fall with it is the larger of the reported one and what the final balance
\* is below the peak.
DrawdownUpToForcedClose ==
    LET curve == <<Scale * InitialBalance>> \o closings
    IN  /\ LargestFall(curve, maxDrawdown)
        /\ forced # << >> =>
             LargestFall(curve \o forced, Larger(maxDrawdown, peakBalance - balance))

\* The counts of trades agree with the money: before fees, the balance is not above
\* the start without a winning trade, and not below it without a losing one.
CountsAgreeWithMoney ==
    /\ winningTrades = 0 => balance + fees <= Scale * InitialBalance
    /\ losingTrades = 0 => balance + fees >= Scale * InitialBalance
=============================================================================
