---------------------------- MODULE LiveTrading -----------------------------
(***************************************************************************)
(* A TradingEngine of src/trading.go in live mode against the Binance      *)
(* account.  The goroutine learns its position from syncPosition only, it  *)
(* sends the requests of a candle one after the other and ignores their    *)
(* errors, and the account fills orders between any two of its steps.      *)
(***************************************************************************)
EXTENDS Strategies, FiniteSets, Bags

Ext == INSTANCE BagsExt

CONSTANTS
    Running,        \* ids of the strategies ACTIVE_STRATEGY may name
    Closes,         \* close prices the exchange may report
    TradeNotional,  \* TRADE_USDT times TRADE_LEVERAGE, in cents of a lot
    MaxFaults,      \* bound: requests that fail
    MaxBatches      \* bound: candles on which the engine sends orders

ASSUME LiveAssumption ==
    /\ Running \subseteq StrategyIds
    /\ Closes \subseteq Nat \ {0} /\ Closes # {}
    /\ {TradeNotional, MaxFaults, MaxBatches} \subseteq Nat

VARIABLES
    strategy, tick,         \* the strategy, and what its last OnTick returned
    pc,                     \* "idle", or "synced": inside onCandle after syncPosition
    positionQty, globalSL, globalTP,    \* what the engine believes
    requests,               \* what it has still to send of this candle's batch
    held, book,             \* the account: net lots and a bag of open orders
    late,                   \* a bag of requests that timed out and may yet arrive
    faults, batches,        \* history: requests that failed, batches sent,
    arrived, standDowns     \* lots of the market requests that arrived late, batches
                            \* of a market maker that stood down

history == <<faults, batches, arrived, standDowns>>
engine  == <<positionQty, globalSL, globalTP>>
account == <<held, book>>
vars == <<strategy, tick, pc, engine, requests, account, late, history>>

Types == {"LIMIT", "STOP_MARKET", "TAKE_PROFIT_MARKET"}
OpenOrder == [type : Types, side : Sides, qty : Nat, price : Int]
Request == OpenOrder \cup [type : {"MARKET"}, side : Sides, qty : Nat, price : Int]
                     \cup [type : {"CANCEL_ALL"}]

TypeOK ==
    /\ strategy \in Running /\ tick \in Tick
    /\ pc \in {"idle", "synced"}
    /\ {positionQty, globalSL, globalTP, held} \subseteq Int
    /\ requests \in Seq(Request)
    /\ IsABag(book) /\ BagToSet(book) \subseteq OpenOrder
    /\ IsABag(late) /\ BagToSet(late) \subseteq Request
    /\ {faults, batches, arrived, standDowns} \subseteq Nat /\ faults <= MaxFaults

Init ==
    /\ strategy \in Running
    /\ tick = [orders |-> << >>, mem |-> FreshMemory, standDown |-> FALSE]
    /\ pc = "idle" /\ requests = << >>
    /\ positionQty = 0 /\ globalSL = 0 /\ globalTP = 0
    /\ held = 0 /\ book = EmptyBag /\ late = EmptyBag
    /\ faults = 0 /\ batches = 0 /\ arrived = 0 /\ standDowns = 0

-----------------------------------------------------------------------------
(* The engine *)

\* Mutants, here and below: slips the properties must notice, used by no action.
NetQtyLongOnly(qty) == IF qty > 1 THEN qty ELSE 0

\* syncPosition takes a single lot, or less, for no position.
NetQty(qty) == IF qty > 1 \/ qty < -1 THEN qty ELSE 0

SyncPosition ==
    /\ pc = "idle" /\ requests = << >>
    /\ pc' = "synced"
    /\ positionQty' = NetQty(held)
    /\ UNCHANGED <<strategy, tick, globalSL, globalTP, requests, account, late, history>>

\* The engine goes on with the position it believed in.
SyncFails ==
    /\ pc = "idle" /\ requests = << >> /\ faults < MaxFaults
    /\ pc' = "synced" /\ faults' = faults + 1
    /\ UNCHANGED <<strategy, tick, engine, requests, account, late, batches, arrived, standDowns>>

FetchFails ==
    /\ pc = "synced"
    /\ pc' = "idle"
    /\ UNCHANGED <<strategy, tick, engine, requests, account, late, history>>

\* The close price is beyond the stop or the target the engine remembers.
ExitHit(price) ==
    \/ /\ positionQty > 0
       /\ (globalSL > 0 /\ price <= globalSL) \/ (globalTP > 0 /\ price >= globalTP)
    \/ /\ positionQty < 0
       /\ (globalSL > 0 /\ price >= globalSL) \/ (globalTP > 0 /\ price <= globalTP)

Decide(t) == pc = "synced" /\ pc' = "idle" /\ tick' = t

QtyOf(d, price) == IF d.size > 0 THEN d.size ELSE TradeNotional \div price

\* executeDecisions has no branch for Ioc and skips an order of size 0.
Ignored(d, price) == d.type = "Ioc" \/ QtyOf(d, price) = 0

Hold(price, t) ==
    /\ Decide(t)
    /\ IF t.orders = << >> THEN ~ExitHit(price) ELSE Ignored(t.orders[1], price)
    /\ UNCHANGED <<strategy, engine, requests, account, late, history>>

CancelAll == [type |-> "CANCEL_ALL"]

Place(type, side, qty, price) == [type |-> type, side |-> side, qty |-> qty, price |-> price]

ExitKeepsStops(price, t) ==
    /\ Decide(t) /\ t.orders = << >> /\ ExitHit(price) /\ batches < MaxBatches
    /\ requests' = <<CancelAll, Place("MARKET", ReducingSide(positionQty), AbsQty(positionQty), 0)>>
    /\ batches' = batches + 1
    /\ UNCHANGED <<strategy, engine, account, late, faults, arrived, standDowns>>

\* checkGlobalExitConditions sends an ordinary market order, which may open the
\* opposite position when a stop has closed this one meanwhile, and forgets the
\* stops, whatever becomes of the requests.
GlobalExit(price, t) ==
    /\ Decide(t) /\ t.orders = << >> /\ ExitHit(price) /\ batches < MaxBatches
    /\ requests' = <<CancelAll, Place("MARKET", ReducingSide(positionQty), AbsQty(positionQty), 0)>>
    /\ globalSL' = 0 /\ globalTP' = 0
    /\ batches' = batches + 1
    /\ UNCHANGED <<strategy, positionQty, account, late, faults, arrived, standDowns>>

OppositePositionSide(side) == IF side = "SELL" THEN "LONG" ELSE "SHORT"

Opposite(side) == IF side = "SELL" THEN "BUY" ELSE "SELL"

\* A market decision is the last one executed: entry, then its stop and target.
EntryRequests(d, price) ==
    LET q == QtyOf(d, price)
        closing(type, at) ==
            IF at > 0 THEN <<Place(type, Opposite(d.side), q, at)>> ELSE << >>
    IN  <<Place("MARKET", d.side, q, 0)>>
        \o closing("STOP_MARKET", d.sl) \o closing("TAKE_PROFIT_MARKET", d.tp)

QuotesWithoutCancel(orders, price) ==
    [k \in DOMAIN orders |-> Place("LIMIT", orders[k].side, QtyOf(orders[k], price), orders[k].price)]

\* A batch of limit decisions replaces the whole book.
Quotes(orders, price) ==
    <<CancelAll>> \o
    [k \in DOMAIN orders |-> Place("LIMIT", orders[k].side, QtyOf(orders[k], price), orders[k].price)]

\* executeDecisions for a market decision.  Its risk gate never shuts: only
\* applyFill calls recordResult, and only simulated fills call applyFill.
Enter(price, t) ==
    /\ Decide(t) /\ batches < MaxBatches
    /\ t.orders # << >> /\ t.orders[1].type = "Market" /\ QtyOf(t.orders[1], price) > 0
    /\ requests' = EntryRequests(t.orders[1], price)
    /\ globalSL' = IF t.orders[1].sl > 0 THEN t.orders[1].sl ELSE globalSL
    /\ globalTP' = IF t.orders[1].tp > 0 THEN t.orders[1].tp ELSE globalTP
    /\ batches' = batches + 1
    /\ UNCHANGED <<strategy, positionQty, account, late, faults, arrived, standDowns>>

\* executeDecisions for limit decisions.
Requote(price, t) ==
    /\ Decide(t) /\ batches < MaxBatches
    /\ t.orders # << >> /\ t.orders[1].type = "Gtc"
    /\ requests' = Quotes(t.orders, price)
    /\ batches' = batches + 1 /\ standDowns' = standDowns + (IF t.standDown THEN 1 ELSE 0)
    /\ UNCHANGED <<strategy, engine, account, late, faults, arrived>>

\* The process ends at any moment and starts again: the account keeps its
\* position and its orders, the engine forgets all but its configuration.
Restart ==
    /\ pc' = "idle" /\ requests' = << >>
    /\ positionQty' = 0 /\ globalSL' = 0 /\ globalTP' = 0
    /\ tick' = [orders |-> << >>, mem |-> FreshMemory, standDown |-> FALSE]
    /\ UNCHANGED <<strategy, account, late, history>>

-----------------------------------------------------------------------------
(* Requests and the account *)

Signed(side, qty) == IF side = "SELL" THEN -qty ELSE qty

\* What a request does when it reaches the exchange.
Effect(r) ==
    CASE r.type = "CANCEL_ALL" -> book' = EmptyBag /\ UNCHANGED held
      [] r.type = "MARKET" -> held' = held + Signed(r.side, r.qty) /\ UNCHANGED book
      [] OTHER -> book' = Ext!BagAdd(book, r) /\ UNCHANGED held

Accepted ==
    /\ requests # << >>
    /\ Effect(Head(requests))
    /\ requests' = Tail(requests)
    /\ UNCHANGED <<strategy, tick, pc, engine, late, history>>

\* Rejected or lost: placeOrder returns an error nobody looks at.
Refused ==
    /\ requests # << >> /\ faults < MaxFaults
    /\ requests' = Tail(requests) /\ faults' = faults + 1
    /\ UNCHANGED <<strategy, tick, pc, engine, account, late, batches, arrived, standDowns>>

\* The http client gives up after 10 seconds, the request is still on its way.
TimesOut ==
    /\ requests # << >> /\ faults < MaxFaults
    /\ requests' = Tail(requests) /\ faults' = faults + 1
    /\ late' = Ext!BagAdd(late, Head(requests))
    /\ UNCHANGED <<strategy, tick, pc, engine, account, batches, arrived, standDowns>>

ArrivesLate(r) ==
    /\ BagIn(r, late)
    /\ Effect(r)
    /\ late' = Ext!BagRemove(late, r)
    /\ arrived' = arrived + (IF r.type = "MARKET" THEN r.qty ELSE 0)
    /\ UNCHANGED <<strategy, tick, pc, engine, requests, faults, batches, standDowns>>

\* A limit order trades, in part or in full, at any time.
LimitFills(o, q) ==
    /\ BagIn(o, book) /\ o.type = "LIMIT"
    /\ held' = held + Signed(o.side, q)
    /\ LET rest == Ext!BagRemove(book, o)
       IN  book' = IF q < o.qty THEN Ext!BagAdd(rest, [o EXCEPT !.qty = @ - q]) ELSE rest
    /\ UNCHANGED <<strategy, tick, pc, engine, requests, late, history>>

\* closePosition: a stop or target that triggers closes the whole position of
\* the other side, or expires.
Triggers(o) ==
    /\ BagIn(o, book) /\ o.type # "LIMIT"
    /\ book' = Ext!BagRemove(book, o)
    /\ held' = IF o.side = ReducingSide(held) THEN 0 ELSE held
    /\ UNCHANGED <<strategy, tick, pc, engine, requests, late, history>>

\* Without a position the exchange may drop such an order.
Expires(o) ==
    /\ BagIn(o, book) /\ o.type # "LIMIT" /\ held = 0
    /\ book' = Ext!BagRemove(book, o)
    /\ UNCHANGED <<strategy, tick, pc, engine, requests, held, late, history>>

OnTicks(price) == OnTick(strategy, price, positionQty, tick.mem)

Next ==
    \/ SyncPosition \/ SyncFails \/ FetchFails
    \/ \E p \in Closes : \E t \in OnTicks(p) : Hold(p, t)
    \/ \E p \in Closes : \E t \in OnTicks(p) : GlobalExit(p, t)
    \/ \E p \in Closes : \E t \in OnTicks(p) : Enter(p, t)
    \/ \E p \in Closes : \E t \in OnTicks(p) : Requote(p, t)
    \/ Restart
    \/ Accepted \/ Refused \/ TimesOut
    \/ \E r \in BagToSet(late) : ArrivesLate(r)
    \/ \E o \in BagToSet(book) : \E q \in 1..o.qty : LimitFills(o, q)
    \/ \E o \in BagToSet(book) : Triggers(o) \/ Expires(o)

Spec == Init /\ [][Next]_vars

-----------------------------------------------------------------------------
\* The lots a market entry buys at the lowest price.
EntryQty == LET cheapest == CHOOSE p \in Closes : \A q \in Closes : p <= q
            IN  TradeNotional \div cheapest

\* ema_macd_rsi enters only when it believes to be flat, so its position is at most one
\* entry, and one more for each request that ever failed: a missed sync or a lost
\* request costs one entry, not one per candle.  A market request that timed out adds
\* the lots it carries when it arrives, and syncPosition misses a single lot.
OneEntryPerFault ==
    strategy = "ema_macd_rsi" => AbsQty(held) <= (1 + faults) * EntryQty + arrived + 1

\* As long as no request failed, a position whose stop the engine remembers has
\* that protection on the exchange as well: a stop order on its closing side,
\* through exits that race with triggers and orders left over from earlier trades.
RememberedStopIsOnBook ==
    strategy = "ema_macd_rsi" /\ faults = 0 /\ requests = << >> /\ held # 0 /\ globalSL # 0 =>
      \E o \in BagToSet(book) : o.type = "STOP_MARKET" /\ o.side = ReducingSide(held)

\* The lots of the limit orders of a side in a book, one by one.
LotsOn(orders, side) ==
    UNION {({o} \X (1..orders[o])) \X (1..o.qty) :
             o \in {p \in BagToSet(orders) : p.type = "LIMIT" /\ p.side = side}}

RestingLots(side) == Cardinality(LotsOn(book, side))

\* The lots one batch of the grid quotes on a side.
BatchLots == GridLevels * GridSize

\* The grid quotes on a side when it believes to be at least one order below its
\* maximum there, unless it holds a lot it cannot see; the fills of the batch
\* before, which came after syncPosition, and its new quotes add to that.
GridLimit == Larger(GridMaxPosition - GridSize, 1) + 2 * BatchLots

\* As long as no request failed, the grid stays within that limit even if one whole
\* side of its book fills: the position read at the start of the candle is stale when
\* the orders are placed, but by one batch only, and no batch survives the next.  Every
\* time it stands down may cost one batch more, as it then offers its whole position,
\* the part included that the order of the stand-down before has meanwhile closed.
GridInventoryBounded ==
    strategy = "grid_mm" /\ faults = 0 =>
      LET limit == GridLimit + standDowns * BatchLots
      IN  held + RestingLots("BUY") <= limit /\ held - RestingLots("SELL") >= -limit

\* The one order of a market maker that stands down is a "reduce-only order": even if
\* it fills as a whole it closes no more than is held.
StandDownOnlyReduces ==
    strategy \in {"grid_mm", "simple_mm"} /\ faults = 0 /\ tick.standDown /\ tick.orders # << >>
    /\ pc = "idle" /\ requests = << >> =>
      \A side \in Sides : RestingLots(side) <= Larger(0, -Signed(side, held))
=============================================================================
