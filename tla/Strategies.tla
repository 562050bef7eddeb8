----------------------------- MODULE Strategies -----------------------------
(***************************************************************************)
(* The four trading strategies of src/strategy, as the decisions OnTick    *)
(* returns for a price and a position.  Prices are whole cents (the code   *)
(* rounds every quote to two decimals), quantities whole lots of 0.001.    *)
(* What the indicators conclude from the candles (EMA, RSI, MACD, ATR, the *)
(* breakout window) is an input: any conclusion is possible on any tick.   *)
(***************************************************************************)
EXTENDS Integers, Sequences

CONSTANTS
    GridSpacingBps,     \* distance between grid levels, in 1/10000 of the mid price
    GridLevels,         \* numLevels
    GridSize,           \* sizePerLevel
    GridMaxPosition,    \* maxPosition of the grid
    SimpleSpreadBps,    \* full spread of the simple market maker
    SimpleSize,         \* size of each of its quotes
    MomentumSize,       \* 0: the engine sizes the order
    TrailingStopBps,
    Lookback,           \* ticks the breakout window needs before it decides
    Atrs                \* the values ATR(14) may take

ASSUME StrategyAssumption ==
    /\ {GridSpacingBps, GridLevels, GridSize, GridMaxPosition} \subseteq Nat \ {0}
    /\ {SimpleSpreadBps, SimpleSize} \subseteq Nat \ {0}
    /\ {MomentumSize, TrailingStopBps, Lookback} \subseteq Nat
    /\ Atrs \subseteq Nat

Sides == {"BUY", "SELL"}
StrategyIds == {"ema_macd_rsi", "momentum_breakout", "simple_mm", "grid_mm"}

\* size 0 asks the engine to size the order; sl, tp count only when positive.
Decision == [type : {"Market", "Gtc", "Ioc"}, side : Sides, size : Nat,
             price : Int, sl : Int, tp : Int]

Order(type, side, size, price) ==
    [type |-> type, side |-> side, size |-> size, price |-> price, sl |-> 0, tp |-> 0]

AbsQty(q) == IF q < 0 THEN -q ELSE q

\* The side that reduces position q.
ReducingSide(q) == IF q > 0 THEN "SELL" ELSE "BUY"

\* math.Round(x*100)/100 of the price n/d.
Cents(n, d) == (2 * n + d) \div (2 * d)

-----------------------------------------------------------------------------
\* ema_macd_rsi: enters only when flat, with a stop at 2 ATR and a target at 4.
EmaOnTick(price, qty, signal, atr) ==
    LET dir == IF signal = "long" THEN 1 ELSE -1
        side == IF signal = "long" THEN "BUY" ELSE "SELL"
    IN  IF qty # 0 \/ signal = "none" THEN << >>
        ELSE << [Order("Market", side, 0, price) EXCEPT
                    !.sl = price - dir * 2 * atr, !.tp = price + dir * 4 * atr] >>

(***************************************************************************)
(* momentum_breakout keeps the number of ticks its window holds and the    *)
(* water marks of its trailing stop.  Bid and ask are the close price in   *)
(* every snapshot the engine builds.                                       *)
(***************************************************************************)
Memory == [seen : 0..Lookback, hi : Int, lo : Int]

FreshMemory == [seen |-> 0, hi |-> 0, lo |-> 0]

HighMark(price, mem) == IF mem.hi = 0 \/ price > mem.hi THEN price ELSE mem.hi
LowMark(price, mem)  == IF mem.lo = 0 \/ price < mem.lo THEN price ELSE mem.lo

\* The trailing stop of the position is reached at this price.
Trailed(price, qty, mem) ==
    \/ qty > 0 /\ 10000 * price <= HighMark(price, mem) * (10000 - TrailingStopBps)
    \/ qty < 0 /\ 10000 * price >= LowMark(price, mem) * (10000 + TrailingStopBps)

MomentumOnTick(price, qty, signal, mem) ==
    IF mem.seen < Lookback \/ (qty = 0 /\ signal = "none") THEN << >>
    ELSE IF qty = 0
         THEN << Order("Ioc", IF signal = "long" THEN "BUY" ELSE "SELL", MomentumSize, price) >>
    ELSE IF Trailed(price, qty, mem)
         THEN << Order("Ioc", ReducingSide(qty), AbsQty(qty), price) >>
    ELSE << >>

MomentumMemory(price, qty, mem) ==
    IF mem.seen < Lookback THEN [mem EXCEPT !.seen = @ + 1]
    ELSE IF qty = 0 THEN [seen |-> mem.seen, hi |-> 0, lo |-> 0]
    ELSE IF qty > 0 THEN [mem EXCEPT !.hi = IF Trailed(price, qty, mem) THEN 0 ELSE HighMark(price, mem)]
    ELSE [mem EXCEPT !.lo = IF Trailed(price, qty, mem) THEN 0 ELSE LowMark(price, mem)]

-----------------------------------------------------------------------------
\* Both market makers, in a trend or in high volatility: quote nothing but one
\* order for the whole position, n/d of the mid price beyond it so that it crosses.
StandDown(price, qty, n, d) ==
    IF qty = 0 THEN << >>
    ELSE << Order("Gtc", ReducingSide(qty), AbsQty(qty),
                  Cents(price * (IF qty > 0 THEN d - n ELSE d + n), d)) >>

Larger(a, b) == IF a > b THEN a ELSE b

GridBid(price, i) ==
    Order("Gtc", "BUY", GridSize, Cents(price * (10000 - i * GridSpacingBps), 10000))
GridAsk(price, i) ==
    Order("Gtc", "SELL", GridSize, Cents(price * (10000 + i * GridSpacingBps), 10000))

\* Both conditions of the loop over the levels test the same position, so each
\* side is quoted on every level or on none.
GridQuotes(price, qty) ==
    LET bids == qty + GridSize <= GridMaxPosition
        asks == qty - GridSize >= -GridMaxPosition
    IN  CASE bids /\ asks -> [k \in 1..(2 * GridLevels) |->
                                IF k % 2 = 1 THEN GridBid(price, (k + 1) \div 2)
                                             ELSE GridAsk(price, k \div 2)]
          [] bids /\ ~asks -> [k \in 1..GridLevels |-> GridBid(price, k)]
          [] asks /\ ~bids -> [k \in 1..GridLevels |-> GridAsk(price, k)]
          [] OTHER -> << >>

GridOnTick(price, qty, standDown) ==
    IF standDown
    THEN StandDown(price, qty, Larger(3 * GridSpacingBps, 40), 40000)
    ELSE GridQuotes(price, qty)

\* maxPosition of the simple market maker, fixed at five quotes.
SimpleMaxPosition == 5 * SimpleSize

\* A quote around the mid price shifted up by 0.3 spread per quote size held:
\* half = -5 below the shifted mid, half = 5 above it.
SimpleQuote(price, qty, half) ==
    Cents(price * (100000 * SimpleSize + 3 * qty * SimpleSpreadBps
                     + half * SimpleSize * SimpleSpreadBps),
          100000 * SimpleSize)

SimpleOnTick(price, qty, standDown) ==
    LET bid == << Order("Gtc", "BUY", SimpleSize, SimpleQuote(price, qty, -5)) >>
        ask == << Order("Gtc", "SELL", SimpleSize, SimpleQuote(price, qty, 5)) >>
    IN  IF standDown THEN StandDown(price, qty, Larger(7 * SimpleSpreadBps, 160), 200000)
        ELSE (IF qty <= SimpleMaxPosition THEN bid ELSE << >>)
             \o (IF qty >= -SimpleMaxPosition THEN ask ELSE << >>)

-----------------------------------------------------------------------------
\* What a call of OnTick may return: the decisions, the strategy's memory after
\* the call, and whether it stood down.
Tick == [orders : Seq(Decision), mem : Memory, standDown : BOOLEAN]

Signals == {"long", "short", "none"}

\* What detectMarketRegime may find: whether a market maker should stand down.
Regimes == BOOLEAN

OnTick(id, price, qty, mem) ==
    LET tick(orders, m, s) == [orders |-> orders, mem |-> m, standDown |-> s]
    IN  CASE id = "ema_macd_rsi" ->
               {tick(EmaOnTick(price, qty, sig, atr), mem, FALSE) : sig \in Signals, atr \in Atrs}
          [] id = "momentum_breakout" ->
               {tick(MomentumOnTick(price, qty, sig, mem), MomentumMemory(price, qty, mem), FALSE) :
                  sig \in Signals}
          [] id = "simple_mm" -> {tick(SimpleOnTick(price, qty, s), mem, s) : s \in Regimes}
          [] id = "grid_mm" -> {tick(GridOnTick(price, qty, s), mem, s) : s \in Regimes}
=============================================================================
