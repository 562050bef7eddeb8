# Formal models of nexus_bot

TLA+ models of this repository's trading engines, sniper, scanner, statistics
and settings, the TLC runs that check them on small instances, and proofs,
checked by TLAPS, that hold for every value of the constants.  Paths below are
relative to the repository's `src/`.

    tlc -workers 2 -config engine_market_making.cfg TradingEngineMC.tla
    for m in TradingLemmas TradingEngineProofs BacktesterProofs LiveTradingProofs \
             DexProofs PoolScannerProofs AlphaProofs ConfigApiProofs
    do tlapm $m.tla; done

## 1. Inventory of the system

One Go process.  It watches a chain for new pools, screens them, keeps
statistics about wallets in MySQL, and trades perpetual futures on Binance with
a set of strategies.

| Component | State | Operations | Interacts by | Hard behaviour | Correct when |
|---|---|---|---|---|---|
| TradingEngine, simulated (`trading.go`) | position, entry price, balance, resting orders, stop and target, risk counters | `onCandle`: `simulateFills`, `OnTick`, `executeDecisions`, `checkGlobalExitConditions`; `applyFill` | one goroutine per strategy; writes rows through `database` | fills of one candle in map order; positions that flip; rows that the database does not get; gate and rollover | money is conserved, rows replay or show what is lost, the gate stops entries, stops die with their position |
| TradingEngine, live (`trading.go`) | last synced position, stop and target; the account has the rest | `syncPosition`, requests to the exchange | HTTP | stale position, ignored errors, timeouts, restarts, races with exchange-side orders | failures cost a bounded number of entries; positions stay protected; inventory bounded |
| Strategies (`strategy/`) | memory of `momentum_breakout` | `OnTick` | called by the engine and the backtester | skewed quotes, limits per level | quotes and limits as configured |
| DEX sniper (`dex_sniper.go`) | `positions`: token to position or nil placeholder; subscription | `SniperBuyAndTrack`, `monitorPositions`, `monitorRugPulls`, `executeSell` | a map under a mutex, transactions | three kinds of goroutines, unlocked writes, timeouts, reverted or late transactions | a token is bought once, sold once, never lost, never blocked |
| DEX clients (`dex/`) | nonce on the chain | buy, sell, approve, balance | RPC | concurrent nonces, lost answers | only overlapping calls can cost a transaction; no gap in the nonces |
| Pool scanner, subscriptions (`scanner/`, `main.go`, `utils/`) | LRU of pools, semaphore, BNB price | `runSubscription`, `ProcessNewPool` | WSS, goroutines | check-then-add, back pressure, marking before screening, a panic that ends the process, calls that never return | a process screens a pool once unless two goroutines race or the LRU drops it; who is alerted finds a row; subscriptions go on |
| Watcher (`watcher/`) | shared LRU | `handleSmartMoneyBuy` | calls the scanner | runs the pipeline inside its event loop | as above |
| Alpha engine (`alpha/`) | wallet, trade and cluster tables | evaluate, cluster, track sells | two tickers on one database | rewrites without a transaction, ignored errors, count-then-create | wallets of one id belong together; entities describe them; a sale is booked once, and none is missed |
| Config and API (`config/`, `api/`) | encrypted key-value rows | GET, POST | HTTP, read by engines at start | several keys, errors ignored, fall-back to the environment | the engine starts with what was saved last; key and secret belong together |
| RPC client (`rpc/`) | token bucket | `Call` with five tries | used by scanner and alpha | retry under a limiter | bounded tries |
| Backtester (`backtester.go`) | position, orders, statistics | replay of candles | strategies | fills in map order, stop and target not linked, a forced close after the loop | statistics agree with the money |
| Notifier, metrics, dashboard | none that others read | output | HTTP | none | - |

`initSniperEngine`, `SniperBuyAndTrack`, `RunBacktest`,
`ScoringEngine.SetSmartWallets`, `RecordSmartWalletTrade` and
`SyncSmartWalletsToDB` have no caller at this commit.  The sniper is modelled as
`README.md` describes its use, one call per screened token; the scanner lets any
pool have smart buyers, although without a list of wallets none passes; the alpha
engine and the sell tracker work on tables in which trades are recorded.

## 2. Modules

| Module | Models | Extends |
|---|---|---|
| `Strategies` | `OnTick` of the four strategies | - |
| `Position` | the arithmetic and the rows of `applyFill` | - |
| `TradingEngine` | the engine in simulated mode | `Strategies`, `Position`; instance of `Account` |
| `Account` | what any account promises: abstract specification | - |
| `TradingLemmas` | lemmas: what strategies return, what fills and ledgers add up to | `Strategies`, `Position` |
| `TradingEngineProofs` | theorems about `TradingEngine` | `TradingEngine`, `TradingLemmas` |
| `TradingEngineMC` | values for its runs | `TradingEngine` |
| `LiveTrading` | the engine in live mode and the Binance account | `Strategies` |
| `LiveTradingProofs` | theorems about `LiveTrading` | `LiveTrading`, `TradingLemmas` |
| `SniperEngine`, `SniperEngineMC` | the sniper, its goroutines and the chain | - |
| `WalletNonce` | nonces and prices of all transactions of the wallet, and the mempool | - |
| `DexProofs` | theorems about both | `SniperEngine`, `WalletNonce` |
| `PoolScanner`, `PoolScannerMC` | subscriptions, watcher, LRU, screening, table of tokens | - |
| `PoolScannerProofs` | theorems about `PoolScanner` | `PoolScanner` |
| `Backtester`, `BacktesterMC` | `RunBacktest` | `Strategies`, `Position`; instance of `Account` |
| `BacktesterProofs` | theorems about `Backtester` | `Backtester`, `TradingLemmas` |
| `AlphaTables` | what the two tickers of `alpha/` share: clock, table of trades, statements that may fail | - |
| `AlphaEngine`, `AlphaEngineMC` | evaluation, clustering and aggregation of wallets | `AlphaTables` |
| `SellTracker` | the scan for sales of recorded purchases | `AlphaTables` |
| `AlphaProofs` | theorems about both | `AlphaEngine`, `SellTracker` |
| `ConfigApi`, `ConfigApiMC` | settings: POST, table, reads of the starting engine | - |
| `ConfigApiProofs` | theorems about `ConfigApi` | `ConfigApi` |

Operators whose names extend another's (`RecordedKeepsStreak` next to
`Recorded`) are slips a programmer could make.  No action uses them; each exists
to show that some property notices it (`mutants` in `PROJECT.json`).

Two choices of form serve the proofs.  `LiveTrading` takes the community module of bags
by `INSTANCE`, since the prover cannot read a module that extends it; and the
definitions of `WalletNonce` and `SellTracker` that would otherwise be called `Init`,
`Next`, `Spec` and `TypeOK` carry their module's name (`NonceTypeOK`,
`TrackerTypeOK`), so that `DexProofs` can extend `WalletNonce` together with
`SniperEngine`, and `AlphaProofs` can extend `SellTracker` together with
`AlphaEngine`.  The two modules of a proof module are separate specifications: each
theorem is about one of them.

### Strategies

The comparisons of indicators are inputs: `OnTick(id, price, qty, mem)` is the
set of what one call may return, over every signal (`long`, `short`, `none`),
every ATR in `Atrs` and every regime.  Everything a strategy decides from its
position is kept: which quotes are allowed, skewed or reduce-only, stops and
targets, the trailing stop of `momentum_breakout` with its water marks.  More
behaviours are allowed than real candles produce, so what holds here holds there.

### TradingEngine

`pc` is `idle` between candles and `matching` inside `onCandle`.  `Candle`
selects the orders the range touches, `Match` fills one of them (in any order:
Go's map iteration), and then one of `Hold`, `GlobalExit`, `RiskBlocked`,
`PlaceLimits`, `MarketEntry` is the rest of `onCandle`, by what the strategy
returned and by the risk gate.  `FetchFails` is the early return.  `executions`
and `trades` are the rows that `applyFill` hands to `LogTradeExecution` and
`LogTradeSummary`, for `trade_executions` and `trade_history`; `clock`
counts calls of `applyFill` and stands for `time.Now()`.  Each row is a statement of
its own that is skipped without a database and whose failure is only logged:
`Statements` picks the rows of a fill that get lost, and `lostExecutions` and
`lostTrades` remember them, so that a table is the rows without those.  The engine
never reads either table.  A process that dies between two statements of a fill leaves
the rows of its `run_id` as if the rest of them had been lost; the next process
starts from `Init`, with a `run_id` of its own.  `DailyStart` is the age
of the risk day in candles, saturating one above `DayLength`.

Quantities are whole lots of 0.001 and money is in cents, so the thresholds of
0.0001 on floats mean zero; an average entry price is rounded down.  The order
ids of a batch are the positions of its decisions.  The counters of the risk gate
are stated by `LossAfter` and `StreakAfter` over the rows of `trade_history` since the
day began, and what rests on a side of the book by the set of its lots, one by one: a
sum over a set without a recursive definition.  The initial position may be
the real account's (`syncPosition` runs in simulated mode too), never a single
lot, which `syncPosition` reads as none.

### LiveTrading

`SyncPosition` (or `SyncFails`), then one decision, whose requests are sent one at
a time: `Accepted`, `Refused`, or `TimesOut` with the request still on its way
(`ArrivesLate`).  Between any two steps the account may fill a limit order in
part or in full, trigger a `closePosition` order or expire it.  `Restart` forgets
everything the process keeps in memory and keeps the account.  The account is
external: its actions come from how the code uses the exchange.  It accepts
orders the real one might refuse; that is what `Refused` stands for.

### SniperEngine

One action per critical section or per call to the chain.  A buyer goes through
`Reserve`, `BuySent`, `BuyConfirmed`, `BalanceRead`, `ApproveSent`,
`ApproveConfirmed`, `Store`; `GiveUp` is every error path, with the cleanup, and
with the possibility that a failed broadcast reached the chain.  Both monitors
run `executeSell` as `SellRemove`, `SellSent`, `SellConfirmed` or `SellFails`.
`Visit` includes the write to a position outside the lock.  The chain mines,
reverts or forgets any transaction.  `alive` becomes FALSE where the code would
dereference a nil entry.  `Init` chooses whether the WSS client could be dialled.

### WalletNonce

A call of `TransactOpts` and of the operation around it is `AskNonce`, `Sign`
(price, gas estimate, signature), `Send` and `EndWait`, or `Fail` anywhere before
the broadcast; `Send` without an answer is a broadcast that the node received and
the caller takes for an error.  The node is one mempool that replaces a
transaction by a dearer one of the same nonce, mines in order and may `Drop` one.
A purchase pays a bonus or the EIP-1559 cap, approvals and sales the suggested
price, so a purchase can push a sale out.  `raced` marks a call that lost its
nonce to another one after it had asked.  The properties are about what this race
does *not* explain.  A mempool spread over several nodes is not modelled.

### PoolScanner

`Take` and `Spawn` are the two halves of the `select` branch of
`runSubscription`: between them the loop holds a log and waits for the semaphore.
The places of the semaphore are the workers in `Handlers`; the watcher is one more
worker, since it runs the pipeline in its own loop.  A worker goes through
`Check`, `Add`, `Fetched`, `AuditAgain` or `AuditPasses`, `FactsPass`, `Alerted`,
`FindRow`, `CreateRow`; `Reject` is every early return.  `Hang` is a call without a
timeout that never returns: `http.Get` in `IsSecureTokenV2`, the queries of the holder
analysis, Discord's `http.Post`, the statements of the database.  `Deliver` may repeat a log, as after a reorganisation; `Reconnect`
drops the channel with the logs in it.  `HandlerToken` keeps a quirk of the V3
handler: it reads `token1` from the text of the topic, so it screens a garbled
address when WBNB is `token0` and drops the pool when WBNB is `token1`.

`FetchPanics` is the slice of `fetchTokenString` (`main.go:232`): it tests the length
that the answer announces against 100 and not against the answer.  Nothing recovers, so
the panic ends the process (`ProcessEnds`) with both subscriptions, the channels, the
LRU and every other worker, wherever that is; `Stopped` is any other end.  `Restart`
is external: whoever runs the program.  `alerts`, the rows and `unsaved`, the tokens
whose last alert a failed statement or the end of the process left without a row,
outlive the process; `screenings` counts what one process did, since the next one
starts with an empty LRU and may screen everything again.

### Backtester

`Match` fills one of the orders that a candle touches, in any order, `Decide` and
its four callers are the rest of the loop, `Finish` the closing after it.  Money
is in units of `1 / Scale` of a cent, so that the fee of 0.04% is an integer.
Market and resting orders pay it in full, `Ioc` orders for what they close, the
closing after the loop not at all.  `closings` is the balance after each closing fill
of the loop, the curve that `peakBalance` and `maxDrawdown` follow; `forced` is the
balance after the closing behind the loop, which counts as a trade and follows
neither.

### AlphaEngine

One action is one statement or one step of the union-find.  Only the weights of
pairs matter: they are kept as integers in `1 / TimeWindow`.  Rows of trades are
written at any time, a statement may fail, and `Crash` ends a run anywhere.
`Path` and `Found` are the recursive `find` with its path compression.  `Path`, the
wallets that `find` walks, is stated without recursion, as the smallest set that
holds a wallet and the parents of its members; `Connected` is the reference the
union-find is compared with, stated without trees.  The sum of an entity's trades
is the number of elements of `TradesOfAll`, the trades of its wallets one by one,
so that the proofs need no recursive sum.

### SellTracker

`StartScan` reads the records and the latest block, `Known`, `Look` and `Record`
treat one record.  A tick of the clock is a block.  A count that fails reads 0, so
`Look` and `Record` may go on although a sale is booked.  A sale that is known
hides later purchases of the same token from all scans of the week, and a sale
later than `SellWindow` blocks after the first purchase is never found: the
properties are about sales inside the window.

### ConfigApi

`Post` opens a request, `Save` saves one key in any order, `Answer` reports
success.  `Read` is one `GetConfig` of `startTradingEngine`, in the order of the
code.  `settled` is what the last request left of a setting when that is beyond
doubt; `Unknown` after a failed save, while a request is open, when two
overlapped, and after a restart with another `MASTER_KEY`.

## 3. Runs

| Run | Expected | Shows |
|---|---|---|
| `engine_directional` | pass | `ema_macd_rsi` and `momentum_breakout`: types, `StopsBelongToPosition`, `GateStopsEntries` |
| `engine_market_making` | pass | `simple_mm` and `grid_mm`, with a row that may be lost: `ExecutionsReplay`, `TradeHistoryAudits`, `RiskFollowsTrades`, `InventoryBounded`, and the refinement `BooksBalance` |
| `sniper` | pass | `OpenIsSellable`; without the rug watch `PlaceholderExclusive...` and `NothingLostSilently...`; liveness: `PlaceholderResolves` |
| `sniper_double_buy` | violation | with both sellers a token is bought twice |
| `live` | pass | `OneEntryPerFault`, `RememberedStopIsOnBook`, `GridInventoryBounded` |
| `live_stand_down` | violation | the order of a market maker that stands down may open the opposite position |
| `wallet` | pass | `ReplacedOnlyInRace`, `RefusedOnlyInRace`, `NoGapWithoutDrop`: three goroutines, five calls, a dropped transaction, crashes |
| `scanner` | pass | with calls that hang and a process that ends and restarts: `RepeatsNeedRaceOrEviction`, `AlertedIsSaved`; liveness: `SubscriptionsGoOn` |
| `backtest` | pass | all strategies: `DrawdownUpToForcedClose`, `CountsAgreeWithMoney`, and the refinement `BooksBalance` |
| `alpha` | pass | `ClustersAreComponents`, `OneIdOneComponent`, `EntitiesMatchClusters` |
| `sells` | pass | `SalesAreReal`, `ScanBooksEverySale` |
| `config` | pass | `StartUsesSettled`, `CredentialsBelongTogether`, `ConfiguredStays` |

`sniper_double_buy` and `live_stand_down` are the findings of `PROJECT.json`, with the
lines that say otherwise.  Some bounds differ from what one would read in the
documentation, on purpose, because they are what the code keeps:
`GridInventoryBounded` has room for the batch filled behind the engine's back, for a
lot it cannot see, and for one batch more each time the grid stands down, since it
then offers its whole position although the order of an earlier stand-down may have
closed part of it; `OneEntryPerFault` counts one entry per failed request, the
lots of requests that arrived late, and the one lot that `syncPosition` takes for
none (`trading.go:687`, `trading.go:696`);
`ExecutionsReplay` says that a table without a loss replays and that one that lost a
single row does not, not that every loss of several rows shows, since those of a whole
fill, or of a round trip, may leave no trace;
`AlertedIsSaved` excepts tokens whose last alert was followed by a failed statement, the
end of the process or a call that hangs, and `SubscriptionsGoOn` allows a subscription
to stand still when calls that never return hold every place of the semaphore;
`InventoryBounded` lets a grid exceed `maxPosition` by the other levels of one
batch and `simple_mm` reach six times its size where README.md says five; and
`NothingLostSilently...` excepts tokens for which a call failed after money was
spent, since the code forgets those (T004 of the remediation list).

### Where the code and its documents differ

The models do what the code does.  Met while modelling, besides the finding:

* `strategy/grid_mm.go:109` says "Respect max position"; the test after it looks
  at one level at a time, so a batch of several may pass the limit together.
* `strategy/mm_regime_test.go:40` expects "no grid orders during trend
  stand-down"; `trading.go:245` leaves the earlier quotes in the book.
* `README.md:131` says that `momentum_breakout` enters on a breakout; its orders
  are `Ioc`, which `executeDecisions` drops (`trading.go:497-542`) and the
  backtester fills (`backtester.go:269`).
* `SCENARIO_ARCHITECTURE.md:73` names a breaker on consecutive losses as a hard
  rule; in live mode nothing calls `recordResult`, so the gate never shuts.
* `trading.go:239` means the global exit for strategies without stop orders; it
  runs for the others too and, when the exchange has just stopped the position
  out, opens the opposite one.
* `README.md:26` promises a rug watch of the positions; the subscription watches
  the pools that were open when it began (`dex_sniper.go:290-306`).
* `README.md` says each backtest fill pays 0.04%; an `Ioc` entry pays nothing.
* `README.md:29` has the backtester calculate the maximal drawdown; the forced close
  after the loop (`backtester.go:330-345`) changes the balance and counts as a trade but
  enters neither peak nor drawdown, so the figure that is reported can be too small.
  `DrawdownUpToForcedClose` says by how much: the largest fall is the larger of that
  figure and what the final balance is below the peak.
* `api/api.go:54` answers that the settings are stored, whatever was stored.

### Bounds, and why they are enough

* Prices: three closes for the directional engine (stop, target and neither are
  all reached), six candles for the market makers (quiet, a sweep of either side,
  a sweep of both, and a close at either end), two for the live engine.
* Fills: no candle starts after `MaxFills` of them: 7 for the directional engine,
  the three losing round trips that trip the gate and one entry more, and 4 for
  the market makers, enough to build up a position, reverse it and come back.
  `DayLength` is 6 candles for the directional engine, so that three losing round
  trips fit in a day, and 2 for the market makers; either way the day rolls over inside a run.
* Lost rows: one for the market makers, in either table and at any fill, which is
  what `ExecutionsReplay` speaks about; none for the directional engine, whose
  properties do not depend on the tables.
* Levels 2 and sizes 1 or 2: the smallest with more than one level, a partial fill
  and a single lot, which `syncPosition` does not see.
* Live: four batches, enough for orders of one trade to meet the position of
  the next but one, with one failing request. The grid of `live` has one level
  of two lots, so that partial fills and the invisible single lot occur; its
  limit is tight (one lot less is violated). Several levels in one batch are
  the simulated runs'. Restarts, late arrivals of what timed out and the
  account's own steps are unbounded. Of the two closes one buys an entry of
  four lots and one an entry of a single lot, the one `syncPosition` does not
  see.
* Sniper: two buyers and two tokens, for the races on one entry, the monitors' queue
  and the subscription; `sniper_double_buy` needs three buyers of one token (a
  victim, a thief and the next buyer; symmetric).  Each buyer calls once; more calls
  are more buyers.  The theorems hold for any number of either.
* Wallet: three goroutines, two suggested prices and a cap between what a sale and
  what a purchase pays, so that each kind can be replaced and refused; five calls
  let a call meet the transaction of an earlier one of the same goroutine.
* Scanner: two places of the semaphore and up to two hung calls, so that none, one or
  both of the places are lost, or one and the watcher; ends of the process and restarts
  without a bound; a V2 pool that its subscription and the watcher may bring up and a V3 pool
  whose handler returns at once.  The LRU holds one key, so the watcher's own key
  evicts the pool's.  Two tries of the audit stand for three.
* Backtest: up to five candles, which is an entry, its stop or target, the orphan
  of the two, and the closing of what that opens.
* Alpha: three wallets are the fewest with a component joined by a chain; three
  trades are the fewest for that chain.  Two of the wallets share a source of
  funds.  Clock 0 to 2 with a day of 1, a week of 2 and a window of 1: trades fall
  out of the day, the week and the window, and runs of different days name
  clusters next to each other.
* Sells: two wallets, two purchases, two failures (the number that can book a sale
  twice), a window of two blocks and a week of three.
* Config: two requests that may overlap, one failing statement and one restart,
  with another master key or the same; the environment enables live trading and
  has no account, so an engine that starts live has read a saved account.

Deadlock is checked in the runs of the trading engines and of the scanner.  The
others may stop: the sniper's process may panic or all calls have returned, a
backtest ends, and the rest use up their bounds.

### Fairness

`SniperEngine` assumes weak fairness of every buyer's and every seller's next
step: each call runs under a context with a timeout, `bindWaitMined` returns when
it expires, and the Go scheduler runs every goroutine.  Nothing is assumed of the
chain, of the arrival of purchases, of the tickers or of the subscription.  
`PoolScanner` assumes weak fairness of every worker that is not inside a hung
call and of the subscriptions' loops, and
strong fairness of `Spawn`: Go serves senders blocked on a channel in the order of
their arrival, so a loop that waits for the semaphore gets a place if places
become free again and again.  Only the calls through the RPC client have a timeout; any
other may hang, at its step (`Hang`), and then nothing is assumed of it.  Nothing is
assumed of the node, of the watcher's transfers, of the end of the process or of its
restart.

The other modules state no liveness: they are driven by a ticker or a user and
promise no progress of their own.

## 4. Proofs

Every invariant and action property of the passing runs is a theorem; so is the
refinement of `Account` by both of its implementations.
The theorems hold for all values of the constants that satisfy the named assumption of
their module (`StrategyAssumption`, `EngineAssumption`, ...): any number of
goroutines, wallets, tokens, fills, failures, restarts and blocks.  The bounds that keep TLC's
runs finite are constants too, so that the theorems hold for each of their values.

Each argument has the same shape.  `TypeCorrect` comes first.  The property is then
strengthened to an invariant that is inductive (its name ends in `Inv`), one lemma
says that the initial states satisfy it and one that every step keeps it, with a step
per action.

`TradingLemmas` has what the engine, its live mode and the backtester share.
`OnTickType`: whatever a strategy returns is a sequence of well-formed decisions, with
well-formed memory.  `EmaDecides`, `GridSides` and `SimpleSides` say what one batch can
ask for on one side, given the position it was computed from.  `Remainder` bounds
what rounding an average price loses, `FillKeepsWorth` states what a fill does to money
by cases: adding, reducing, closing, reversing.  Sums over rows are
recursive functions; what they add up to (`RunningExists`, `RunningAgree`, `SumGrows`) is
shown by the least index at which it would fail (`LeastElement`), since the library's
induction theorems cannot be instantiated.

`TradingEngineProofs`:

* `TypeCorrect`.  A resting order has a positive quantity, pending ids are in the book,
  and inside `onCandle` there is a candle, which is what the fills need.
* `EngineImplementsAccount`: `BooksBalance` under the mapping holding = `positionQty`,
  cash = `simulatedBalance - positionQty * entryPrice`.  Every action is a trade of
  the account or a stutter.
* `StopsFollowPosition`, with `StopsInv`: `ema_macd_rsi` has nothing in the book, so
  only its own decisions and the engine's exits move its position.  The theorem
  assumes `RangesBelowPrices`, that two average true ranges are below the price:
  otherwise the stop of a long entry is not positive and `executeDecisions` drops it.
  With `Atrs = {0, 60}` TLC finds the property violated; the run's values satisfy the
  assumption.
* `ExecutionsReplayHolds` and `TradeHistoryIsTrue`, with `LedgerInv`, which is about all
  rows, lost or not: each execution starts where the one before it ended
  (`HistoryReplays`), each closed trade agrees with the balance before it and with the
  last opening (`HistoryAudits`), the rows of a fill are dated alike, later than those
  before, and one of two is half of a reversal (`RowsInv`).  What a table shows follows:
  without a loss it replays (`WholeTableReplays`); a missing row takes with it what no
  other row says (`LostRowShows`): if it is half of a reversal, the other half does not
  add up, if other rows follow, the first of them starts elsewhere, and if none does,
  the table does not end at the engine's position.
* `RiskFollowsTradesHolds`, with `Follows`: the counters are `LossAfter` and
  `StreakAfter` of the rows since `since`.  A trade that is recorded extends both by
  one row, a rollover starts them at none.  `GateStopsEntriesHolds` follows: a limit
  reached by the trades of the day is one the counters have reached.
* `InventoryBoundedHolds`, with `InventoryInv`: each side of the book fits as a whole.
  The lots of a side form a set, so that a fill takes its lots out of the set it adds to
  the position, and a new batch replaces the set; `GridSides` and `SimpleSides` bound
  what it replaces it with.

`LiveTradingProofs`:

* `OneEntryPerFaultHolds`, with `EntryFacts`: the bound holds also of the account after
  whatever is in the queue arrives (`PendingWithin`), and `BeliefWithin` says what the
  position the engine believes in implies: an exit sized by it stays within the bound,
  and so does an entry when it believes to be flat.  Without that, an exit that crosses
  a trigger or an entry after a missed sync could take the position anywhere.
* `RememberedStopHolds`, with `StopInv`: the stop is at the exchange, is in what is left
  of the batch of its entry, or the whole batch is still to be sent.  It assumes
  `RangesBelowPrices` too: an entry without a stop keeps the stop price of the trade
  before.
* `GridInventoryHolds`, with `GridInv`: for each side, what is held, rests and is
  still to be sent fits the limit, and while the engine is between `syncPosition` and
  its decision (`ReadFits`) the position it read is at most one batch of fills away.
  Books and late requests are bags; the lemmas about them are in the module.

`DexProofs`, about `SniperEngine`:

* `TypeCorrect` needs that a buyer or a sale past its first step has a token.
* `OpenIsSellableHolds`, with `PurchaseOrder`: how far the two transactions of a call
  are at each of its steps.
* `PlaceholderIsExclusive`, with `AloneInv`: without the rug watch the monitor is the
  only seller, what it has in its snapshot is still there (nobody else deletes an open
  position), and a placeholder and its buyer belong together.  With the second seller
  exactly this part fails, and `sniper_double_buy` shows how.
* `NothingIsLostSilently`, with `KeptInv`: a purchase that may still be mined is waited
  for, and what the wallet owns beyond the sale in progress is kept by an entry.

and about `WalletNonce`:

* `NonceTypeCorrect`, with the mempool's rule that a nonce has at most one transaction.
* `ReplacedOnlyInRaceHolds` and `RefusedOnlyInRaceHolds`.  Nothing in them says why a
  call that was not raced finds its nonce free; `NonceStillFree` does.  It holds when
  the nonce is asked for, a transaction of the same nonce marks the call as raced, and
  mining or dropping takes nothing out that the call relies on.
* `NoGapWithoutDropHolds`, with `NoNonceSkipped`: all nonces below that of a call that
  has not been sent are mined or taken, as long as nothing was dropped.

`PoolScannerProofs`:

* `AlertedIsSavedHolds`, with `SaveInv`: past the audit a worker carries a real token;
  a step leaves the savers alone, or the saver that ends leaves a row or the database's
  refusal behind.  `EndSave` is the end of the process: whoever was between alert and
  row is named by `unsaved`.
* `TypeCorrect`, with the cache: no key twice, never more keys than its size.
* `RepeatsAreExplained`, with `ScreenInv`: a pool screened once is in the cache unless
  its repetition is excused already; a worker between `Contains` and `Add` finds it
  unscreened or excused, and of two such workers both are excused.  A process that
  starts has screened nothing (`EndScreen`).

`BacktesterProofs`: `TypeCorrect`; `DrawdownHolds`, with `PeakIsHighest` (without it
nothing says that the next fall is measured from high enough): `FallGrows` says what one
more point does to the largest fall of a curve, for a closing fill of the loop and for
the forced close alike; `CountsAgreeHolds`, in
both directions, wins against profit and losses against loss; `BacktestImplementsAccount`,
whose steps are those of the engine by `FillKeepsWorth`, plus the closing after the loop.

`AlphaProofs`, about `AlphaEngine`:

* The trees.  `Rooted` says that every walk of `find` meets a root.  `OneRoot`,
  `Compressed` and `Linking` say that a walk meets only one, that path compression
  changes no root, and that linking one root to another moves just the wallets below
  it.  What would be an induction along the walk is `FromRoots`: a set that holds the
  roots, and whoever has its parent in it, is all wallets.  It follows from `Path` being
  the smallest closed set.
* `UnionTrees`, and with it `UniteInv`: two wallets have one root exactly when the pairs
  treated so far link them (`TreesOf`), whatever pair comes next and whichever of its
  wallets comes first.  `ClustersAre` turns that into components at the end.
* `TypeCorrect`, with `TypeInv`: a run has no more clusters left to name than numbers,
  since clusters are the image of the wallets under their roots.
* `OneIdOneComponentHolds`, `ClustersAreComponentsHolds` and
  `EntitiesMatchClustersHolds`, with `IdsInv`.  None of the three is inductive.  While
  ids are written, what is left to name are whole components (`NameInv`), whose wallets
  have no id, and no wallet has a number beyond the last one given (`FreshInv`): so a
  member that gets the id of its cluster shares it with nobody else.  Ids therefore mean
  components at every step (`IdsAreComponents`).  `JoinedAreNamed` says that as long as
  no statement failed nobody who is joined to another is forgotten, `AggregateInv` that
  a count of the grouping query is still true when it is saved, although other rows are
  saved before it, and `FinishInv` keeps both until the next run begins.

and about `SellTracker`: `TrackerTypeCorrect`; `SalesAreRealHolds`, with `RealInv` (what
a scan has left are recorded purchases, and what it found is a sale on the chain that is
not booked unless a statement failed); `ScanBooksEverySaleHolds`, with `DueInv` (as long
as nothing of the scan failed, a sale that was due when it began is booked, in sight of a
record that is still to be looked at, or about to be booked).

`ConfigApiProofs`:

* `TypeCorrect` needs that an open request has only settings left that its body names.
* `ConfiguredStaysHolds`, an action property.  `SaveReads` says what a save that
  succeeds does to later reads, `SameReads` that nothing else changes them.
* `StartUsesSettledHolds`, with `CleanIsAlone` (a request that nothing disturbed is the
  only open one, and what it has saved so far is readable) and `SettledIsRead` (a
  settled setting reads as settled, and no open request is about to save it).
* `CredentialsBelongTogetherHolds`, with `PairInv`: bodies name pairs that belong
  together, the rows of key and secret do unless `halves` says otherwise, and between
  the engine's two reads the key it has is still that of the table.

Model-checked only: the liveness properties `PlaceholderResolves` and
`SubscriptionsGoOn` (fairness and `ENABLED` are out of the prover's reach), and the two
violations.

## 5. Not modelled

Left out:

* the RPC client: five tries under a token bucket, by one caller at a time.  To its
  callers it is a call that answers, fails or takes long, and so every module has it;
* the dashboard, notifications and metrics: output only;
* scores, win rates, ROI and prices of the alpha engine and the queries behind the
  scanner's checks: arithmetic on answers of a node, which decides nothing these
  models distinguish; the answers themselves are inputs;
* the cached BNB price, which scales an amount that is stored and printed;
* reads of the alpha engine whose error is ignored (`alpha/evaluate.go:26`, `37` and
  `71`, `alpha/clustering.go:22` and `173`): a failed one leaves its result empty or
  zero, and the run goes on with that.  The properties of `AlphaEngine` that a failed
  read could upset speak of runs that met no failure;
* how the process is run: a supervisor that restarts it, or nobody;
* indicator arithmetic in floating point, encryption, SQL and HTTP encodings;
* `setLeverage`, the entry price and several position rows of live mode.
