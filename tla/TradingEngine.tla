--------------------------- MODULE TradingEngine ----------------------------
(***************************************************************************)
(* One TradingEngine of src/trading.go in simulated mode: a goroutine that *)
(* on every candle matches its resting orders against the candle's range,  *)
(* asks its strategy for decisions and executes them under a risk gate.    *)
(* The goroutine is sequential, but Go iterates the map of orders in any   *)
(* order, so each match is a step of its own.                              *)
(***************************************************************************)
EXTENDS Strategies, Position, FiniteSets

CONSTANTS
    Running,            \* ids of the strategies an engine may be started with
    Candles,            \* the candles the exchange may return
    Seeds,              \* <<qty, entry>> the first syncPosition may find; it takes
                        \* a single lot for no position
    InitialBalance,     \* SIMULATED_BALANCE
    TradeNotional,      \* TRADE_USDT times TRADE_LEVERAGE, in cents of a lot
    MaxDayLoss,         \* MAX_DAILY_LOSS
    DayLength,          \* candles in 24 hours
    MaxFills,           \* bound: no candle starts after this many fills
    MaxLost             \* bound: rows the database does not get

Kline == [low : Nat, high : Nat, close : Nat]

ASSUME EngineAssumption ==
    /\ Running \subseteq StrategyIds
    /\ Candles \subseteq Kline
    /\ \A k \in Candles : k.low > 0 /\ k.low <= k.close /\ k.close <= k.high
    /\ Seeds \subseteq Int \X Int
    /\ \A seed \in Seeds : seed[1] \notin {-1, 1} /\ (seed[1] = 0 => seed[2] = 0)
    /\ {InitialBalance, MaxDayLoss} \subseteq Int
    /\ {TradeNotional, DayLength, MaxFills, MaxLost} \subseteq Nat

VARIABLES
    strategy,           \* the strategy this engine runs
    pc,                 \* "idle": waiting for the ticker; "matching": inside onCandle
    kline,              \* the last candle fetched
    pending,            \* ids simulateFills has found touched and not yet filled
    tick,               \* what the last OnTick returned
    positionQty, entryPrice, positionOpenedAt, simulatedBalance,
    activeOrders,       \* id -> resting limit order
    globalSL, globalTP, \* 0: none
    risk,
    executions, trades, \* the rows handed to the database, in order
    lostExecutions,     \* those of them, by index, that are in no table
    lostTrades,
    clock               \* applyFill calls so far; stands for time.Now()

position == <<positionQty, entryPrice, positionOpenedAt, simulatedBalance>>
lost     == <<lostExecutions, lostTrades>>
ledger   == <<executions, trades, lost, clock>>
stops    == <<globalSL, globalTP>>
vars == <<strategy, pc, kline, pending, tick, position, activeOrders, stops, risk, ledger>>

NoKline == [low |-> 0, high |-> 0, close |-> 0]

RestingOrder == [side : Sides, price : Int, qty : Nat \ {0}]
NoOrders == << >>

\* DailyStart appears as age, the candles since then up to the one that passes
\* 24 hours, and as since, the number of trades closed before it.
RiskState == [dailyLoss : Int, age : 0..(DayLength + 1), since : Nat,
              consecutive : Nat, totalTrades : Nat, totalPnL : Int]

TypeOK ==
    /\ strategy \in Running
    /\ pc \in {"idle", "matching"}
    /\ kline \in Candles \cup {NoKline}
    /\ pc = "matching" => kline \in Candles
    /\ tick \in Tick
    /\ {positionQty, entryPrice, simulatedBalance, globalSL, globalTP} \subseteq Int
    /\ positionOpenedAt \in Nat
    /\ DOMAIN activeOrders \subseteq Nat /\ IsFiniteSet(DOMAIN activeOrders)
    /\ \A id \in DOMAIN activeOrders : activeOrders[id] \in RestingOrder
    /\ pending \subseteq DOMAIN activeOrders
    /\ risk \in RiskState
    /\ executions \in Seq(Execution)
    /\ trades \in Seq(Trade)
    /\ lostExecutions \subseteq DOMAIN executions
    /\ lostTrades \subseteq DOMAIN trades
    /\ clock \in Nat

-----------------------------------------------------------------------------
\* startTradingEngine and the first syncPosition, which runs in simulated mode
\* too: with API keys the engine starts from the position of the real account.
Init ==
    /\ strategy \in Running
    /\ \E seed \in Seeds : positionQty = seed[1] /\ entryPrice = seed[2]
    /\ positionOpenedAt = 0
    /\ simulatedBalance = InitialBalance
    /\ pc = "idle" /\ kline = NoKline /\ pending = {}
    /\ tick = [orders |-> << >>, mem |-> FreshMemory, standDown |-> FALSE]
    /\ activeOrders = NoOrders
    /\ globalSL = 0 /\ globalTP = 0
    /\ risk = [dailyLoss |-> 0, age |-> DayLength + 1, since |-> 0,
               consecutive |-> 0, totalTrades |-> 0, totalPnL |-> 0]
    /\ executions = << >> /\ trades = << >> /\ clock = 0
    /\ lostExecutions = {} /\ lostTrades = {}

Older(r) == [r EXCEPT !.age = Smaller(@ + 1, DayLength + 1)]

\* riskCheck: a new day forgives the losses; then two limits.
RolledOver(r) ==
    IF r.age > DayLength
    THEN [dailyLoss |-> 0, age |-> 0, since |-> Len(trades), consecutive |-> 0,
          totalTrades |-> r.totalTrades, totalPnL |-> r.totalPnL]
    ELSE r

TrippedOneLate(r) == r.dailyLoss >= MaxDayLoss \/ r.consecutive > 3

Tripped(r) == r.dailyLoss >= MaxDayLoss \/ r.consecutive >= 3

RecordedKeepsStreak(r, pnl) ==
    [r EXCEPT !.totalPnL = @ + pnl, !.totalTrades = @ + 1,
              !.dailyLoss = IF pnl < 0 THEN @ + Abs(pnl) ELSE @,
              !.consecutive = IF pnl < 0 THEN @ + 1 ELSE @]

\* recordResult
Recorded(r, pnl) ==
    [dailyLoss |-> IF pnl < 0 THEN r.dailyLoss + Abs(pnl) ELSE r.dailyLoss,
     age |-> r.age, since |-> r.since,
     consecutive |-> IF pnl < 0 THEN r.consecutive + 1 ELSE 0,
     totalTrades |-> r.totalTrades + 1, totalPnL |-> r.totalPnL + pnl]

\* LogTradeExecution and LogTradeSummary, one statement a row: without a database
\* the row is dropped, and a Create that fails is only logged.  The engine goes on.
Statements ==
    /\ \E gone \in SUBSET (Len(executions) + 1..Len(executions')) :
         lostExecutions' = lostExecutions \cup gone
    /\ \E gone \in SUBSET (Len(trades) + 1..Len(trades')) : lostTrades' = lostTrades \cup gone
    /\ Cardinality(lostExecutions') + Cardinality(lostTrades') <= MaxLost

\* applyFill, with the risk state r at the time of the call.  A process that dies
\* between two of the statements ends the rows of its run_id as if the rest of
\* this fill's had been lost.
ApplyFill(side, qty, price, r) ==
    LET s == SignedQty(side, qty)
        pnl == ClosedPnl(positionQty, entryPrice, s, price)
        now == clock + 1
        trade == [position |-> SideOf(positionQty), qty |-> ClosedQty(positionQty, s),
                  entry |-> entryPrice, exit |-> price, pnl |-> pnl,
                  balance |-> simulatedBalance + pnl,
                  opened |-> IF positionOpenedAt = 0 THEN now ELSE positionOpenedAt,
                  closed |-> now]
    IN  /\ clock' = now
        /\ positionQty' = positionQty + s
        /\ entryPrice' = EntryAfter(positionQty, entryPrice, s, price)
        /\ positionOpenedAt' = OpenedAfter(positionQty, positionOpenedAt, s, now)
        /\ executions' = executions \o ExecutionRows(side, qty, positionQty, price, now)
        /\ IF Opposes(positionQty, s)
           THEN /\ simulatedBalance' = simulatedBalance + pnl
                /\ trades' = Append(trades, trade)
                /\ risk' = Recorded(r, pnl)
           ELSE /\ risk' = r
                /\ UNCHANGED <<simulatedBalance, trades>>
        /\ Statements

-----------------------------------------------------------------------------
\* onCandle returns early when the candles cannot be fetched; time passes.
FetchFails ==
    /\ pc = "idle"
    /\ risk' = Older(risk)
    /\ UNCHANGED <<strategy, pc, kline, pending, tick, position, activeOrders, stops, ledger>>

\* The candle's range touches a limit order.
Crossed(order, k) ==
    \/ order.side = "BUY" /\ k.low <= order.price
    \/ order.side = "SELL" /\ k.high >= order.price

\* A new candle: simulateFills selects the orders it fills.
Candle(k) ==
    /\ pc = "idle" /\ clock < MaxFills
    /\ pc' = "matching"
    /\ kline' = k
    /\ pending' = {id \in DOMAIN activeOrders : Crossed(activeOrders[id], k)}
    /\ risk' = Older(risk)
    /\ UNCHANGED <<strategy, tick, position, activeOrders, stops, ledger>>

\* simulateFills fills one of them at its own price and deletes it.
Match(id) ==
    /\ pc = "matching" /\ id \in pending
    /\ LET order == activeOrders[id]
       IN  ApplyFill(order.side, order.qty, order.price, risk)
    /\ activeOrders' = [i \in DOMAIN activeOrders \ {id} |-> activeOrders[i]]
    /\ pending' = pending \ {id}
    /\ UNCHANGED <<strategy, pc, kline, tick, stops>>

\* What the strategy may return for the candle in hand.
Decisions == OnTick(strategy, kline.close, positionQty, tick.mem)

\* The rest of onCandle: the strategy returns t, and the goroutine goes idle.
Decide(t) ==
    /\ pc = "matching" /\ pending = {}
    /\ tick' = t
    /\ pc' = "idle" /\ kline' = NoKline
    /\ UNCHANGED <<strategy, pending>>

\* The close price is beyond the engine's own stop or target.
StopHit(q, price) ==
    globalSL > 0 /\ ((q > 0 /\ price <= globalSL) \/ (q < 0 /\ price >= globalSL))
TargetHit(q, price) ==
    globalTP > 0 /\ ((q > 0 /\ price >= globalTP) \/ (q < 0 /\ price <= globalTP))
ExitHit(q, price) == StopHit(q, price) \/ TargetHit(q, price)

\* No decisions and nothing to exit.
Hold(t) ==
    /\ Decide(t)
    /\ t.orders = << >>
    /\ ~ExitHit(positionQty, kline.close)
    /\ UNCHANGED <<position, activeOrders, stops, risk, ledger>>

GlobalExitKeepsStops(t) ==
    /\ Decide(t)
    /\ t.orders = << >> /\ ExitHit(positionQty, kline.close)
    /\ activeOrders' = NoOrders
    /\ ApplyFill(ReducingSide(positionQty), Abs(positionQty), kline.close, risk)
    /\ UNCHANGED stops

\* checkGlobalExitConditions, only when the strategy decided nothing.
GlobalExit(t) ==
    /\ Decide(t)
    /\ t.orders = << >> /\ positionQty # 0
    /\ ExitHit(positionQty, kline.close)
    /\ activeOrders' = NoOrders
    /\ ApplyFill(ReducingSide(positionQty), Abs(positionQty), kline.close, risk)
    /\ globalSL' = 0 /\ globalTP' = 0

-----------------------------------------------------------------------------
\* executeDecisions: size 0 becomes what TradeNotional buys at this price.
QtyOf(d, price) == IF d.size > 0 THEN d.size ELSE TradeNotional \div price

MarketOrders(orders, price) ==
    {k \in DOMAIN orders : orders[k].type = "Market" /\ QtyOf(orders[k], price) > 0}

\* The loop breaks after the first market order.
Reached(orders, price, k) == \A m \in MarketOrders(orders, price) : k <= m

Rests(orders) == {k \in DOMAIN orders : orders[k].type = "Gtc"}

BookAfterKeepsOld(orders, price) ==
    LET new == 10 * (1 + Cardinality(DOMAIN activeOrders))
    IN  [k \in DOMAIN activeOrders \cup {new + i : i \in Rests(orders)} |->
            IF k \in DOMAIN activeOrders THEN activeOrders[k]
            ELSE [side |-> orders[k - new].side, price |-> orders[k - new].price,
                  qty |-> QtyOf(orders[k - new], price)]]

\* A limit decision replaces the whole book; Ioc decisions match no branch.
\* Orders get the index of their decision as id (the code counts on: nothing
\* compares ids of two calls).
BookAfter(orders, price) ==
    IF Rests(orders) = {} THEN activeOrders
    ELSE [k \in {i \in Rests(orders) : Reached(orders, price, i) /\ QtyOf(orders[i], price) > 0} |->
            [side |-> orders[k].side, price |-> orders[k].price, qty |-> QtyOf(orders[k], price)]]

\* The gate is shut: the decisions are dropped, old orders stay in the book.
RiskBlocked(t) ==
    /\ Decide(t)
    /\ t.orders # << >>
    /\ Tripped(RolledOver(risk))
    /\ risk' = RolledOver(risk)
    /\ UNCHANGED <<position, activeOrders, stops, ledger>>

\* The gate is open and no market order is executed.
PlaceLimits(t) ==
    /\ Decide(t)
    /\ t.orders # << >>
    /\ ~Tripped(RolledOver(risk))
    /\ MarketOrders(t.orders, kline.close) = {}
    /\ activeOrders' = BookAfter(t.orders, kline.close)
    /\ risk' = RolledOver(risk)
    /\ UNCHANGED <<position, stops, ledger>>

\* The gate is open: the first market order fills at the close price and leaves
\* its stop and target with the engine.
MarketEntry(t) ==
    /\ Decide(t)
    /\ ~Tripped(RolledOver(risk))
    /\ \E m \in MarketOrders(t.orders, kline.close) :
         LET d == t.orders[m]
         IN  /\ Reached(t.orders, kline.close, m)
             /\ ApplyFill(d.side, QtyOf(d, kline.close), kline.close, RolledOver(risk))
             /\ globalSL' = IF d.sl > 0 THEN d.sl ELSE globalSL
             /\ globalTP' = IF d.tp > 0 THEN d.tp ELSE globalTP
    /\ activeOrders' = BookAfter(t.orders, kline.close)

Next ==
    \/ FetchFails
    \/ \E k \in Candles : Candle(k)
    \/ \E id \in pending : Match(id)
    \/ \E t \in Decisions : Hold(t)
    \/ \E t \in Decisions : GlobalExit(t)
    \/ \E t \in Decisions : RiskBlocked(t)
    \/ \E t \in Decisions : PlaceLimits(t)
    \/ \E t \in Decisions : MarketEntry(t)

Spec == Init /\ [][Next]_vars

-----------------------------------------------------------------------------
(***************************************************************************)
(* Money.  What the engine would hold in cash if it gave its position back *)
(* at its average entry price moves, at every fill, by the price of the    *)
(* lots traded and nothing else: applyFill neither makes nor loses money   *)
(* when it adds, reduces, closes or reverses, beyond a cent per lot of     *)
(* rounding in an average.  Checked by refinement of module Account.       *)
(***************************************************************************)
Offers == {activeOrders[id].price : id \in DOMAIN activeOrders} \cup {kline.close}

Books == INSTANCE Account WITH
            holding <- positionQty,
            cash    <- simulatedBalance - positionQty * entryPrice,
            offers  <- Offers

BooksBalance == Books!Spec

\* The position the engine found at startup.
SeedQty == IF executions = << >> THEN positionQty ELSE executions[1].before

Lots(i) == SignedQty(executions[i].side, executions[i].qty)

\* The rows, by index, that are in trade_executions.
ExecutionTable == DOMAIN executions \ lostExecutions

\* The last of some rows, or of some moments.
LastOf(some) == CHOOSE i \in some : \A j \in some : j <= i

\* The position that rows of the table lead to.
LeadTo(rows) == IF rows = {} THEN SeedQty ELSE executions[LastOf(rows)].after

\* The table replays from the position at startup to the engine's: every fill
\* starts where those before it led, and its one or two rows add up to what it
\* did to the position.
Replays(table) ==
    /\ positionQty = LeadTo(table)
    /\ \A i \in table :
         LET row == executions[i]
             others == {j \in table \ {i} : executions[j].at = row.at}
         IN  /\ row.before = LeadTo({j \in table : executions[j].at < row.at})
             /\ IF others = {} THEN row.after = row.before + Lots(i)
                ELSE \A j \in others : row.after = row.before + Lots(i) + Lots(j)

\* The trade_executions rows account for the position, and a row that the database
\* did not get shows: a table that lost no row replays, and one that lost a single
\* row, be it half of a reversal, the first or the last, does not.
ExecutionsReplay ==
    Cardinality(lostExecutions) <= 1 => (Replays(ExecutionTable) <=> lostExecutions = {})

\* The balance after the first n rows of trade_history.
BalanceAfter(n) == IF n = 0 THEN InitialBalance ELSE trades[n].balance

\* The moments, up to the given one, at which some of the rows open a position.
Openings(rows, moment) ==
    {executions[j].at : j \in {i \in rows : /\ executions[i].at <= moment
                                           /\ executions[i].action \in {"OPEN", "REVERSE_OPEN"}}}

\* The trade_history rows account for the balance, row by row where none is lost
\* in between, and each names the moment its position was opened: that of the last
\* opening before it, either a row of trade_executions or one that was lost, and
\* then no opening found there has that moment, so the loss shows.  (The close of
\* a position found on the account at startup, which no fill opened, names its own.)
TradeHistoryAudits ==
    /\ Len(trades) \notin lostTrades => simulatedBalance = BalanceAfter(Len(trades))
    /\ \A i \in DOMAIN trades \ lostTrades :
         LET row == trades[i]
             found == Openings(ExecutionTable, row.closed - 1)
             missing == Openings(lostExecutions, row.closed - 1)
             last == LastOf(found \cup missing)
         IN  /\ i - 1 \notin lostTrades => row.balance = BalanceAfter(i - 1) + row.pnl
             /\ row.opened = IF found \cup missing = {} THEN row.closed ELSE last
             /\ row.opened \in missing => row.opened \notin found

-----------------------------------------------------------------------------
LossOf(row) == IF row.pnl < 0 THEN Abs(row.pnl) ELSE 0

\* What the rows after the first since of them lost, and how many of these, at the
\* end, are losses in a row.
LossAfter(rows, since) ==
    SumBetween([i \in DOMAIN rows |-> LossOf(rows[i])], since, Len(rows))
StreakAfter(rows, since) ==
    Cardinality({i \in since + 1..Len(rows) : \A j \in i..Len(rows) : rows[j].pnl < 0})

\* The counters of the risk gate are the losses of the trades closed since the
\* day began, however fills, winning trades and days interleave.
RiskFollowsTrades ==
    /\ risk.dailyLoss = LossAfter(trades, risk.since)
    /\ risk.consecutive = StreakAfter(trades, risk.since)

\* Once the trades of the day hold three losses in a row, or lose the daily
\* limit, no decision puts an order in the book or enlarges the position until
\* the next day, whatever the strategy asks.
GateStopsEntries ==
    [][/\ pc = "matching" /\ pc' = "idle"
       /\ \/ StreakAfter(trades, risk'.since) >= 3
          \/ LossAfter(trades, risk'.since) >= MaxDayLoss
       => /\ activeOrders' \in {activeOrders, NoOrders}
          /\ Abs(positionQty') <= Abs(positionQty)]_vars

-----------------------------------------------------------------------------
\* ema_macd_rsi closes only through the engine's globalSL and globalTP.  Every
\* position it opened has a stop on its losing side and a target, if any, on its
\* winning side; without a position, or with one it did not open, no stop of an
\* earlier position is left to fire.
StopsBelongToPosition ==
    strategy = "ema_macd_rsi" =>
      IF positionOpenedAt = 0 THEN globalSL = 0 /\ globalTP = 0
      ELSE /\ positionQty # 0
           /\ globalSL > 0
           /\ Sign(positionQty) * (entryPrice - globalSL) >= 0
           /\ globalTP > 0 => Sign(positionQty) * (globalTP - entryPrice) >= 0

\* The lots of a side in a book, one by one.
LotsOn(book, side) ==
    UNION {{id} \X (1..book[id].qty) : id \in {i \in DOMAIN book : book[i].side = side}}

RestingLots(side) == Cardinality(LotsOn(activeOrders, side))

\* What the quotes of the market makers can let their position grow to: the
\* checks against maxPosition ignore the other orders of the same batch.
InventoryLimit ==
    CASE strategy = "grid_mm"   -> GridMaxPosition + (GridLevels - 1) * GridSize
      [] strategy = "simple_mm" -> SimpleMaxPosition + SimpleSize
      [] OTHER -> Abs(SeedQty)

\* Even if the whole of one side of the book fills, the position stays within
\* that limit (or within the position found at startup, when that is larger):
\* no old batch of orders survives next to a new one.
InventoryBounded ==
    strategy \in {"grid_mm", "simple_mm"} =>
      LET limit == Larger(InventoryLimit, Abs(SeedQty))
      IN  /\ positionQty + RestingLots("BUY") <= limit
          /\ positionQty - RestingLots("SELL") >= -limit
=============================================================================
