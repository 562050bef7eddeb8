--------------------------- MODULE TradingLemmas ---------------------------
(***************************************************************************)
(* What the engine, its live mode and the backtester have in common: the   *)
(* decisions the strategies return, the arithmetic of a fill, and sums     *)
(* over the rows of a ledger, for every value of the constants.            *)
(***************************************************************************)
EXTENDS Strategies, Position, FiniteSetTheorems, TLAPS

-----------------------------------------------------------------------------
(* What the strategies return. *)

\* A rounded price is an integer.
LEMMA CentsInt == ASSUME NEW n \in Int, NEW d \in Nat \ {0} PROVE Cents(n, d) \in Int
  BY DEF Cents

\* The decision helpers build decisions.
LEMMA OrderIsDecision ==
    ASSUME NEW type \in {"Market", "Gtc", "Ioc"}, NEW side \in Sides,
           NEW size \in Nat, NEW price \in Int
    PROVE  Order(type, side, size, price) \in Decision
  BY DEF Order, Decision

LEMMA AbsQtyNat == ASSUME NEW q \in Int PROVE AbsQty(q) \in Nat
  BY DEF AbsQty

LEMMA ReducingSideType == ASSUME NEW q PROVE ReducingSide(q) \in Sides
  BY DEF ReducingSide, Sides

\* A market maker that stands down returns at most one decision.
LEMMA StandDownType ==
    ASSUME NEW price \in Int, NEW qty \in Int, NEW n \in Int, NEW d \in Nat \ {0}
    PROVE  StandDown(price, qty, n, d) \in Seq(Decision)
<1>1. AbsQty(qty) \in Nat /\ ReducingSide(qty) \in Sides
  BY AbsQtyNat, ReducingSideType
<1>2. price * (IF qty > 0 THEN d - n ELSE d + n) \in Int
  OBVIOUS
<1>3. Order("Gtc", ReducingSide(qty), AbsQty(qty),
            Cents(price * (IF qty > 0 THEN d - n ELSE d + n), d)) \in Decision
  BY <1>1, <1>2, CentsInt, OrderIsDecision
<1> QED
  BY <1>3 DEF StandDown

LEMMA EmaType ==
    ASSUME NEW price \in Int, NEW qty \in Int, NEW sig \in Signals, NEW atr \in Nat
    PROVE  EmaOnTick(price, qty, sig, atr) \in Seq(Decision)
<1> DEFINE dir == IF sig = "long" THEN 1 ELSE -1
           side == IF sig = "long" THEN "BUY" ELSE "SELL"
           d == [Order("Market", side, 0, price) EXCEPT
                    !.sl = price - dir * 2 * atr, !.tp = price + dir * 4 * atr]
<1>1. price - dir * 2 * atr \in Int /\ price + dir * 4 * atr \in Int
  OBVIOUS
<1>2. d \in Decision
  BY <1>1 DEF Order, Decision, Sides
<1> QED
  BY <1>2 DEF EmaOnTick

LEMMA MomentumType ==
    ASSUME NEW price \in Int, NEW qty \in Int, NEW sig \in Signals, NEW mem \in Memory
    PROVE  /\ MomentumOnTick(price, qty, sig, mem) \in Seq(Decision)
           /\ MomentumMemory(price, qty, mem) \in Memory
<1>1. MomentumSize \in Nat /\ Lookback \in Nat
  BY StrategyAssumption
<1>2. Order("Ioc", IF sig = "long" THEN "BUY" ELSE "SELL", MomentumSize, price) \in Decision
  BY <1>1, OrderIsDecision DEF Sides
<1>3. Order("Ioc", ReducingSide(qty), AbsQty(qty), price) \in Decision
  BY AbsQtyNat, ReducingSideType, OrderIsDecision
<1>4. MomentumOnTick(price, qty, sig, mem) \in Seq(Decision)
  BY <1>2, <1>3 DEF MomentumOnTick
<1>5. HighMark(price, mem) \in Int /\ LowMark(price, mem) \in Int
  BY DEF HighMark, LowMark, Memory
<1>6. MomentumMemory(price, qty, mem) \in Memory
  <2> DEFINE hi == IF Trailed(price, qty, mem) THEN 0 ELSE HighMark(price, mem)
             lo == IF Trailed(price, qty, mem) THEN 0 ELSE LowMark(price, mem)
  <2>1. hi \in Int /\ lo \in Int
    BY <1>5
  <2> HIDE DEF hi, lo
  <2>2. /\ mem.seen < Lookback => [mem EXCEPT !.seen = @ + 1] \in Memory
        /\ [seen |-> mem.seen, hi |-> 0, lo |-> 0] \in Memory
        /\ [mem EXCEPT !.hi = hi] \in Memory
        /\ [mem EXCEPT !.lo = lo] \in Memory
    <3>1. mem.seen < Lookback => [mem EXCEPT !.seen = @ + 1] \in Memory
      BY <1>1 DEF Memory
    <3>2. [seen |-> mem.seen, hi |-> 0, lo |-> 0] \in Memory
      BY <1>1 DEF Memory
    <3>3. [mem EXCEPT !.hi = hi] \in Memory
      BY <1>1, <2>1 DEF Memory
    <3>4. [mem EXCEPT !.lo = lo] \in Memory
      BY <1>1, <2>1 DEF Memory
    <3> QED
      BY <3>1, <3>2, <3>3, <3>4
  <2>3. MomentumMemory(price, qty, mem) =
          IF mem.seen < Lookback THEN [mem EXCEPT !.seen = @ + 1]
          ELSE IF qty = 0 THEN [seen |-> mem.seen, hi |-> 0, lo |-> 0]
          ELSE IF qty > 0 THEN [mem EXCEPT !.hi = hi] ELSE [mem EXCEPT !.lo = lo]
    BY Zenon DEF MomentumMemory, hi, lo
  <2> QED
    BY <2>2, <2>3
<1> QED
  BY <1>4, <1>6

LEMMA GridType ==
    ASSUME NEW price \in Int, NEW qty \in Int, NEW s \in BOOLEAN
    PROVE  GridOnTick(price, qty, s) \in Seq(Decision)
<1>1. /\ GridLevels \in Nat \ {0} /\ GridSize \in Nat \ {0} /\ GridSpacingBps \in Nat \ {0}
      /\ GridMaxPosition \in Nat
  BY StrategyAssumption
<1>2. ASSUME NEW i \in Int PROVE GridBid(price, i) \in Decision /\ GridAsk(price, i) \in Decision
  <2>1. /\ price * (10000 - i * GridSpacingBps) \in Int
        /\ price * (10000 + i * GridSpacingBps) \in Int
    BY <1>1
  <2> QED
    BY <2>1, <1>1, CentsInt, OrderIsDecision DEF GridBid, GridAsk, Sides
<1>3. [k \in 1..(2 * GridLevels) |-> IF k % 2 = 1 THEN GridBid(price, (k + 1) \div 2)
                                             ELSE GridAsk(price, k \div 2)] \in Seq(Decision)
  <2>1. ASSUME NEW k \in 1..(2 * GridLevels)
        PROVE  (k + 1) \div 2 \in Int /\ k \div 2 \in Int
    BY <1>1
  <2> QED
    BY <1>1, <1>2, <2>1
<1>4. [k \in 1..GridLevels |-> GridBid(price, k)] \in Seq(Decision)
  BY <1>1, <1>2
<1>5. [k \in 1..GridLevels |-> GridAsk(price, k)] \in Seq(Decision)
  BY <1>1, <1>2
<1>6. GridQuotes(price, qty) \in Seq(Decision)
  BY <1>3, <1>4, <1>5 DEF GridQuotes
<1>7. Larger(3 * GridSpacingBps, 40) \in Int
  BY <1>1 DEF Larger
<1> QED
  BY <1>6, <1>7, StandDownType DEF GridOnTick

LEMMA SimpleType ==
    ASSUME NEW price \in Int, NEW qty \in Int, NEW s \in BOOLEAN
    PROVE  SimpleOnTick(price, qty, s) \in Seq(Decision)
<1>1. SimpleSize \in Nat \ {0} /\ SimpleSpreadBps \in Nat \ {0}
  BY StrategyAssumption
<1>2. ASSUME NEW half \in Int PROVE SimpleQuote(price, qty, half) \in Int
  <2>1. /\ price * (100000 * SimpleSize + 3 * qty * SimpleSpreadBps
                     + half * SimpleSize * SimpleSpreadBps) \in Int
        /\ 100000 * SimpleSize \in Nat \ {0}
    BY <1>1
  <2> QED
    BY <2>1, CentsInt DEF SimpleQuote
<1>3. << Order("Gtc", "BUY", SimpleSize, SimpleQuote(price, qty, -5)) >> \in Seq(Decision)
  BY <1>1, <1>2, OrderIsDecision DEF Sides
<1>4. << Order("Gtc", "SELL", SimpleSize, SimpleQuote(price, qty, 5)) >> \in Seq(Decision)
  BY <1>1, <1>2, OrderIsDecision DEF Sides
<1>5. Larger(7 * SimpleSpreadBps, 160) \in Int
  BY <1>1 DEF Larger
<1>6. StandDown(price, qty, Larger(7 * SimpleSpreadBps, 160), 200000) \in Seq(Decision)
  BY <1>5, StandDownType
<1> QED
  BY <1>3, <1>4, <1>6 DEF SimpleOnTick

\* Whatever the indicators say, every strategy returns a well-formed tick.
THEOREM OnTickType ==
    ASSUME NEW id \in StrategyIds, NEW price \in Int, NEW qty \in Int, NEW mem \in Memory
    PROVE  OnTick(id, price, qty, mem) \subseteq Tick
<1> SUFFICES ASSUME NEW t \in OnTick(id, price, qty, mem) PROVE t \in Tick
  OBVIOUS
<1> DEFINE tick0(orders, m, s) == [orders |-> orders, mem |-> m, standDown |-> s]
<1>0. ASSUME NEW orders \in Seq(Decision), NEW m \in Memory, NEW s \in BOOLEAN
      PROVE  tick0(orders, m, s) \in Tick
  BY DEF Tick
<1>1. CASE id = "ema_macd_rsi"
  <2>1. PICK sig \in Signals, atr \in Atrs :
          t = tick0(EmaOnTick(price, qty, sig, atr), mem, FALSE)
    BY <1>1 DEF OnTick
  <2> QED
    BY <2>1, <1>0, EmaType, StrategyAssumption
<1>2. CASE id = "momentum_breakout"
  <2>1. PICK sig \in Signals :
          t = tick0(MomentumOnTick(price, qty, sig, mem), MomentumMemory(price, qty, mem), FALSE)
    BY <1>2 DEF OnTick
  <2> QED
    BY <2>1, <1>0, MomentumType
<1>3. CASE id = "simple_mm"
  <2>1. PICK s \in BOOLEAN : t = tick0(SimpleOnTick(price, qty, s), mem, s)
    BY <1>3 DEF OnTick, Regimes
  <2> QED
    BY <2>1, <1>0, SimpleType
<1>4. CASE id = "grid_mm"
  <2>1. PICK s \in BOOLEAN : t = tick0(GridOnTick(price, qty, s), mem, s)
    BY <1>4 DEF OnTick, Regimes
  <2> QED
    BY <2>1, <1>0, GridType
<1> QED
  BY <1>1, <1>2, <1>3, <1>4 DEF StrategyIds

\* A decision with a stop and a target.
LEMMA WithExits ==
    ASSUME NEW r \in Decision, NEW a \in Int, NEW b \in Int
    PROVE  [r EXCEPT !.sl = a, !.tp = b] \in Decision
  BY DEF Decision

\* ema_macd_rsi decides only when flat: one market order, with its stop and its target.
LEMMA EmaDecides ==
    ASSUME NEW price \in Int, NEW qty, NEW mem,
           NEW t \in OnTick("ema_macd_rsi", price, qty, mem), t.orders # << >>
    PROVE  /\ qty = 0
           /\ DOMAIN t.orders = {1}
           /\ t.orders[1] \in Decision /\ t.orders[1].type = "Market" /\ t.orders[1].size = 0
           /\ \E dir \in {1, -1}, atr \in Atrs :
                /\ t.orders[1].side = IF dir = 1 THEN "BUY" ELSE "SELL"
                /\ t.orders[1].sl = price - dir * 2 * atr
                /\ t.orders[1].tp = price + dir * 4 * atr
<1>1. PICK sig \in Signals, atr \in Atrs :
        t = [orders |-> EmaOnTick(price, qty, sig, atr), mem |-> mem, standDown |-> FALSE]
  BY DEF OnTick
<1>2. t.orders = EmaOnTick(price, qty, sig, atr)
  BY <1>1
<1>3. qty = 0 /\ sig \in {"long", "short"}
  BY <1>2 DEF EmaOnTick, Signals
<1> DEFINE dir == IF sig = "long" THEN 1 ELSE -1
           side == IF sig = "long" THEN "BUY" ELSE "SELL"
           plain == Order("Market", side, 0, price)
           sl == price - dir * 2 * atr
           tp == price + dir * 4 * atr
           d == [plain EXCEPT !.sl = sl, !.tp = tp]
<1>4. dir \in {1, -1} /\ side = IF dir = 1 THEN "BUY" ELSE "SELL"
  OBVIOUS
<1>5. t.orders = << d >>
  BY <1>2, <1>3 DEF EmaOnTick
<1>6. atr \in Nat
  BY StrategyAssumption
<1>7. /\ d \in Decision /\ d.type = "Market" /\ d.side = side /\ d.size = 0
      /\ d.sl = price - dir * 2 * atr /\ d.tp = price + dir * 4 * atr
  <2>1. sl \in Int /\ tp \in Int
    BY <1>4, <1>6
  <2>2. plain \in Decision /\ plain.type = "Market" /\ plain.side = side /\ plain.size = 0
    BY <1>6 DEF Order, Decision, Sides
  <2> HIDE DEF plain, sl, tp
  <2>3. d \in Decision
    BY <2>1, <2>2, WithExits
  <2>4. d.type = plain.type /\ d.side = plain.side /\ d.size = plain.size
    BY <2>2 DEF Decision
  <2>5. d.sl = sl /\ d.tp = tp
    BY <2>2 DEF Decision
  <2> QED
    BY <2>2, <2>3, <2>4, <2>5 DEF sl, tp
<1> HIDE DEF d, dir, side
<1>8. DOMAIN t.orders = {1} /\ t.orders[1] = d
  BY <1>5
<1> QED
  BY <1>3, <1>4, <1>7, <1>8

-----------------------------------------------------------------------------
(* The arithmetic of a fill. *)

LEMMA SignedQtyType ==
    ASSUME NEW side \in Sides, NEW qty \in Nat \ {0}
    PROVE  SignedQty(side, qty) \in Int \ {0}
  BY DEF SignedQty

LEMMA AbsType == ASSUME NEW x \in Int PROVE Abs(x) \in Nat /\ (x # 0 => Abs(x) > 0)
  BY DEF Abs

LEMMA ClosedQtyType ==
    ASSUME NEW old \in Int, NEW s \in Int PROVE ClosedQty(old, s) \in Nat
  BY AbsType DEF ClosedQty, Smaller

LEMMA ClosedPnlType ==
    ASSUME NEW old \in Int, NEW entry \in Int, NEW s \in Int, NEW price \in Int
    PROVE  ClosedPnl(old, entry, s, price) \in Int
<1>1. ClosedQty(old, s) \in Int
  BY ClosedQtyType
<1> QED
  BY <1>1 DEF ClosedPnl

\* Division with remainder.
LEMMA Remainder ==
    ASSUME NEW a \in Int, NEW n \in Nat \ {0}
    PROVE  /\ a \div n \in Int
           /\ 0 <= a - n * (a \div n) /\ a - n * (a \div n) < n
  OBVIOUS

LEMMA EntryType ==
    ASSUME NEW old \in Int, NEW entry \in Int, NEW s \in Int, NEW price \in Int
    PROVE  EntryAfter(old, entry, s, price) \in Int
<1>1. CASE old + s # 0
  <2>1. Abs(old) \in Int /\ Abs(s) \in Int /\ Abs(old + s) \in Nat \ {0}
    BY <1>1, AbsType
  <2>2. entry * Abs(old) + price * Abs(s) \in Int
    BY <2>1
  <2>3. AverageEntry(old, entry, s, price) \in Int
    BY <2>1, <2>2, Remainder DEF AverageEntry
  <2> QED
    BY <2>3 DEF EntryAfter
<1>2. CASE old + s = 0
  BY <1>2 DEF EntryAfter
<1> QED
  BY <1>1, <1>2

LEMMA RowsType ==
    ASSUME NEW side \in Sides, NEW qty \in Nat \ {0}, NEW old \in Int, NEW price \in Int,
           NEW now \in Nat
    PROVE  ExecutionRows(side, qty, old, price, now) \in Seq(Execution)
<1> DEFINE s == SignedQty(side, qty)
           new == old + s
           row(action, q) == << [action |-> action, side |-> side, qty |-> q, price |-> price,
                                 before |-> old, after |-> new, at |-> now] >>
           closing == IF Opposes(old, s)
                      THEN row(CloseAction(old, new), ClosedQty(old, s)) ELSE << >>
           opening == CASE new # 0 /\ old = 0 -> row("OPEN", Abs(new))
                        [] new # 0 /\ Adds(old, s) -> row("ADD", Abs(s))
                        [] Flips(old, new) -> row("REVERSE_OPEN", Abs(new))
                        [] OTHER -> << >>
<1>1. s \in Int /\ new \in Int
  BY SignedQtyType
<1>2. ASSUME NEW action \in Actions, NEW q \in Nat PROVE row(action, q) \in Seq(Execution)
  <2>1. [action |-> action, side |-> side, qty |-> q, price |-> price,
         before |-> old, after |-> new, at |-> now] \in Execution
    BY <1>1 DEF Execution, Sides
  <2> QED
    BY <2>1
<1>3. CloseAction(old, new) \in Actions
  BY DEF CloseAction, Actions
<1>4. closing \in Seq(Execution)
  <2>1. CASE Opposes(old, s)
    <3>1. ClosedQty(old, s) \in Nat
      BY <1>1, <2>1, ClosedQtyType
    <3> QED
      BY <1>2, <1>3, <2>1, <3>1
  <2>2. CASE ~Opposes(old, s)
    BY <2>2
  <2> QED
    BY <2>1, <2>2
<1>5. /\ row("OPEN", Abs(new)) \in Seq(Execution)
      /\ row("ADD", Abs(s)) \in Seq(Execution)
      /\ row("REVERSE_OPEN", Abs(new)) \in Seq(Execution)
  BY <1>1, <1>2, AbsType DEF Actions
<1>6. opening \in Seq(Execution)
  BY <1>5
<1> HIDE DEF closing, opening
<1>7. closing \o opening \in Seq(Execution)
  BY <1>4, <1>6
<1> QED
  BY <1>7 DEF ExecutionRows, closing, opening

\* What a fill leaves unexplained when the position is valued at its average entry price:
\* nothing, or less than a cent per lot held when an average was taken.
LEMMA FillKeepsWorth ==
    ASSUME NEW q \in Int, NEW e \in Int, NEW s \in Int \ {0}, NEW price \in Int
    PROVE  LET gain == IF Opposes(q, s) THEN ClosedPnl(q, e, s, price) ELSE 0
               after == EntryAfter(q, e, s, price)
               rest == gain - (q + s) * after + q * e + s * price
           IN  /\ Adds(q, s) => Abs(rest) < Abs(q + s)
               /\ ~Adds(q, s) => rest = 0
<1> DEFINE pnl == ClosedPnl(q, e, s, price)
           gain == IF Opposes(q, s) THEN pnl ELSE 0
           after == EntryAfter(q, e, s, price)
           rest == gain - (q + s) * after + q * e + s * price
<1>1. CASE Adds(q, s)
  <2> DEFINE cost == e * Abs(q) + price * Abs(s)
             n == Abs(q + s)
  <2>1. q + s # 0 /\ gain = 0
    BY <1>1 DEF Adds, Opposes
  <2>2. n \in Nat \ {0} /\ cost \in Int /\ Abs(q) \in Int /\ Abs(s) \in Int
    <3>1. q + s \in Int
      OBVIOUS
    <3> QED
      BY <2>1, <3>1, AbsType
  <2>3. after = cost \div n
    <3>1. q # 0 /\ ~Flips(q, q + s)
      BY <1>1 DEF Adds, Flips
    <3>2. EntryAfter(q, e, s, price) = AverageEntry(q, e, s, price)
      BY <1>1, <2>1, <3>1 DEF EntryAfter
    <3> QED
      BY <3>2 DEF AverageEntry
  <2> HIDE DEF after, gain
  <2>4. 0 <= cost - n * after /\ cost - n * after < n /\ after \in Int
    <3> HIDE DEF cost, n
    <3> QED
      BY <2>2, <2>3, Remainder
  <2>5. CASE q > 0
    <3>1. n = q + s /\ cost = e * q + price * s
      BY <1>1, <2>5 DEF Abs, Adds
    <3>2. rest = cost - n * after
      BY <2>1, <2>4, <3>1
    <3> QED
      BY <1>1, <2>4, <3>1, <3>2 DEF Abs, gain, after
  <2>6. CASE q < 0
    <3>1. n = -(q + s) /\ cost = -(e * q) - price * s
      BY <1>1, <2>6 DEF Abs, Adds
    <3>2. rest = -(cost - n * after)
      BY <2>1, <2>4, <3>1
    <3> QED
      BY <1>1, <2>4, <3>1, <3>2 DEF Abs, gain, after
  <2> QED
    BY <1>1, <2>5, <2>6 DEF Adds
<1>2. CASE q = 0
  <2>1. after = price /\ gain = 0 /\ ~Adds(q, s)
    BY <1>2 DEF EntryAfter, Adds, Opposes, Flips
  <2> QED
    BY <1>2, <2>1
<1>3. CASE Opposes(q, s)
  <2>1. ~Adds(q, s) /\ gain = pnl
    BY <1>3 DEF Adds, Opposes
  <2>2. CASE q + s = 0
    <3>1. after = 0 /\ s = -q
      BY <2>2 DEF EntryAfter
    <3>2. pnl = (price - e) * q
      BY <1>3, <3>1 DEF ClosedPnl, ClosedQty, Smaller, Abs, Opposes
    <3> HIDE DEF after, pnl, gain
    <3>3. rest = 0
      BY <2>1, <3>1, <3>2
    <3> QED
      BY <2>1, <3>3 DEF after, pnl, gain
  <2>3. CASE q + s # 0 /\ Flips(q, q + s)
    <3>1. after = price
      BY <1>3, <2>3 DEF EntryAfter, Adds, Opposes, Flips
    <3>2. pnl = (price - e) * q
      BY <1>3, <2>3 DEF ClosedPnl, ClosedQty, Smaller, Abs, Opposes, Flips
    <3> HIDE DEF after, pnl, gain
    <3>3. rest = 0
      BY <2>1, <3>1, <3>2
    <3> QED
      BY <2>1, <3>3 DEF after, pnl, gain
  <2>4. CASE q + s # 0 /\ ~Flips(q, q + s)
    <3>1. after = e
      BY <1>3, <2>4 DEF EntryAfter, Adds, Opposes, Flips
    <3>2. pnl = -((price - e) * s)
      BY <1>3, <2>4 DEF ClosedPnl, ClosedQty, Smaller, Abs, Opposes, Flips
    <3> HIDE DEF after, pnl, gain
    <3>3. rest = 0
      BY <2>1, <3>1, <3>2
    <3> QED
      BY <2>1, <3>3 DEF after, pnl, gain
  <2> QED
    BY <2>2, <2>3, <2>4
<1> QED
  BY <1>1, <1>2, <1>3 DEF Adds, Opposes

-----------------------------------------------------------------------------
(* Sums.  The library's induction theorems take the statement to prove as  *)
(* a parameter; here induction is the least element of the set of numbers  *)
(* at which it would fail.                                                 *)

\* Induction: a set of natural numbers that is not empty has a least element.
LEMMA LeastElement ==
    ASSUME NEW T \in SUBSET Nat, T # {}
    PROVE  \E x \in T : \A y \in T : x <= y
<1> DEFINE R == {ss \in Nat \X Nat : ss[1] < ss[2]}
<1>1. IsWellFoundedOn(R, Nat)
  BY NatLessThanWellFounded DEF OpToRel
<1> HIDE DEF R
<1>2. PICK x \in T : \A y \in T : ~(<<y, x>> \in R)
  BY <1>1, WFMin
<1>3. ASSUME NEW y \in T PROVE x <= y
  <2>1. y \in Nat /\ x \in Nat /\ <<y, x>> \notin R
    BY <1>2
  <2> QED
    BY <2>1 DEF R
<1> QED
  BY <1>3

IsRunning(f, v, a, n) == f = [i \in a .. n |-> IF i = a THEN 0 ELSE f[i - 1] + v[i]]

LEMMA RunningExists ==
    ASSUME NEW v, NEW a \in Int, NEW k \in Nat
    PROVE  \E f : IsRunning(f, v, a, a + k)
<1> DEFINE T == {m \in Nat : ~\E f : IsRunning(f, v, a, a + m)}
<1> SUFFICES ASSUME T # {} PROVE FALSE
  OBVIOUS
<1>1. PICK m \in T : \A y \in T : m <= y
  BY LeastElement
<1>2. CASE m = 0
  <2>1. IsRunning([i \in a .. a |-> 0], v, a, a)
    BY DEF IsRunning
  <2> QED
    BY <1>2, <2>1
<1>3. CASE m # 0
  <2>1. m - 1 \in Nat /\ m - 1 \notin T /\ m \in Nat
    BY <1>1, <1>3
  <2>2. PICK g : IsRunning(g, v, a, a + (m - 1))
    BY <2>1
  <2> DEFINE f == [i \in a .. a + m |-> IF i = a + m THEN g[i - 1] + v[i] ELSE g[i]]
  <2>3. IsRunning(f, v, a, a + m)
    <3>1. \A i \in a .. a + m : f[i] = IF i = a THEN 0 ELSE f[i - 1] + v[i]
      BY <1>3, <2>1, <2>2 DEF IsRunning
    <3> QED
      BY <3>1 DEF IsRunning
  <2> QED
    BY <2>3
<1> QED
  BY <1>2, <1>3

LEMMA RunningIs ==
    ASSUME NEW v, NEW a \in Int, NEW n \in Int, a <= n
    PROVE  LET f == RunningSum(v, a, n)
           IN  /\ DOMAIN f = a .. n /\ f[a] = 0
               /\ \A i \in a + 1 .. n : f[i] = f[i - 1] + v[i]
<1> DEFINE f == RunningSum(v, a, n)
<1>1. f = CHOOSE g : IsRunning(g, v, a, n)
  BY DEF RunningSum, IsRunning
<1>2. n - a \in Nat /\ a + (n - a) = n
  OBVIOUS
<1>3. \E g : IsRunning(g, v, a, n)
  BY <1>2, RunningExists
<1>4. IsRunning(f, v, a, n)
  BY <1>1, <1>3
<1> HIDE DEF f
<1>5. /\ DOMAIN f = a .. n
      /\ \A i \in a .. n : f[i] = IF i = a THEN 0 ELSE f[i - 1] + v[i]
  BY <1>4 DEF IsRunning
<1> QED
  BY <1>5 DEF f

\* Two running sums of values that agree agree.
LEMMA RunningAgree ==
    ASSUME NEW v, NEW w, NEW a \in Int, NEW n \in Int, NEW m \in Int, a <= n, n <= m,
           \A i \in a + 1 .. n : v[i] = w[i]
    PROVE  RunningSum(v, a, n)[n] = RunningSum(w, a, m)[n]
<1> DEFINE f == RunningSum(v, a, n)
           g == RunningSum(w, a, m)
           T == {k \in Nat : a + k <= n /\ f[a + k] # g[a + k]}
<1>1. /\ f[a] = 0 /\ g[a] = 0
      /\ \A i \in a + 1 .. n : f[i] = f[i - 1] + v[i]
      /\ \A i \in a + 1 .. m : g[i] = g[i - 1] + w[i]
  BY RunningIs
<1> HIDE DEF f, g
<1>2. T = {}
  <2> SUFFICES ASSUME T # {} PROVE FALSE
    OBVIOUS
  <2>1. PICK k \in T : \A y \in T : k <= y
    BY LeastElement
  <2>2. k # 0
    BY <1>1, <2>1
  <2>3. k - 1 \in Nat /\ k - 1 \notin T /\ k \in Nat
    BY <2>1, <2>2
  <2>4. f[a + (k - 1)] = g[a + (k - 1)]
    BY <2>3
  <2>5. a + k \in a + 1 .. n /\ a + k \in a + 1 .. m /\ (a + k) - 1 = a + (k - 1)
    BY <2>1, <2>2
  <2>6. f[a + k] = g[a + k]
    BY <1>1, <2>4, <2>5
  <2> QED
    BY <2>1, <2>6
<1>3. n - a \in Nat /\ a + (n - a) = n
  OBVIOUS
<1>4. f[n] = g[n]
  <2>1. n - a \notin T
    BY <1>2
  <2> QED
    BY <1>3, <2>1
<1> QED
  BY <1>4 DEF f, g

LEMMA SumEmpty == ASSUME NEW v, NEW a \in Int PROVE SumBetween(v, a, a) = 0
  BY RunningIs DEF SumBetween

\* The sum of values that begin like v is the sum of v, and one more adds its value.
LEMMA SumGrows ==
    ASSUME NEW v, NEW w, NEW a \in Int, NEW n \in Int, a <= n, NEW m, m = n + 1,
           \A i \in a + 1 .. n : v[i] = w[i]
    PROVE  SumBetween(w, a, m) = SumBetween(v, a, n) + w[m]
<1>2. RunningSum(w, a, n + 1)[n] = SumBetween(v, a, n)
  BY RunningAgree DEF SumBetween
<1>3. RunningSum(w, a, n + 1)[n + 1] = RunningSum(w, a, n + 1)[n] + w[n + 1]
  <2>1. n + 1 \in a + 1 .. n + 1 /\ (n + 1) - 1 = n /\ a <= n + 1
    OBVIOUS
  <2> QED
    BY <2>1, RunningIs
<1> QED
  BY <1>2, <1>3 DEF SumBetween

-----------------------------------------------------------------------------
(* What the market makers quote. *)

\* The decisions of a batch on a side, and their lots, one by one.
Quoted(orders, side) == {k \in DOMAIN orders : orders[k].side = side}

QuotedLots(orders, side) ==
    UNION {{k} \X (1..orders[k].size) : k \in Quoted(orders, side)}

LEMMA LotsOfQuotes ==
    ASSUME NEW orders, NEW side, NEW n \in Nat, NEW q \in Nat,
           IsFiniteSet(Quoted(orders, side)), Cardinality(Quoted(orders, side)) <= n,
           \A k \in Quoted(orders, side) : orders[k].size = q
    PROVE  /\ IsFiniteSet(QuotedLots(orders, side))
           /\ Cardinality(QuotedLots(orders, side)) \in Nat
           /\ Cardinality(QuotedLots(orders, side)) <= n * q
<1> DEFINE K == Quoted(orders, side)
           L == QuotedLots(orders, side)
<1>1. L = K \X (1..q)
  BY DEF QuotedLots
<1> HIDE DEF K, L
<1>2. IsFiniteSet(1..q) /\ Cardinality(1..q) = q
  BY FS_Interval
<1>3. IsFiniteSet(L) /\ Cardinality(L) = Cardinality(K) * q
  BY <1>1, <1>2, FS_Product DEF K
<1>4. Cardinality(K) \in Nat /\ Cardinality(K) <= n
  BY FS_CardinalityType DEF K
<1>5. Cardinality(K) * q \in Nat /\ Cardinality(K) * q <= n * q
  BY <1>4
<1> QED
  BY <1>3, <1>5 DEF L

\* Half of the first 2n numbers are odd, half are even.
LEMMA OddAndEven ==
    ASSUME NEW n \in Nat, NEW r \in {0, 1}, NEW S, S = {k \in 1..(2 * n) : k % 2 = r}
    PROVE  IsFiniteSet(S) /\ Cardinality(S) <= n
<1> DEFINE g == [k \in S |-> (k + 1) \div 2]
<1>1. \A k \in S : (k + 1) \div 2 \in 1..n
  OBVIOUS
<1>2. \A j, k \in S : (j + 1) \div 2 = (k + 1) \div 2 => j = k
  OBVIOUS
<1>3. g \in Injection(S, 1..n)
  BY <1>1, <1>2 DEF Injection, IsInjective
<1>4. IsFiniteSet(1..n) /\ Cardinality(1..n) = n
  BY FS_Interval
<1> HIDE DEF g
<1> QED
  BY <1>3, <1>4, FS_Injection

\* A side is not quoted, or its quotes give back what is held, or there was room.
QuotesWithin(orders, side, qty, step, most, total) ==
    LET lots == Cardinality(QuotedLots(orders, side))
        held == SignedQty(side, qty)
    IN  /\ IsFiniteSet(QuotedLots(orders, side)) /\ lots \in Nat
        /\ lots = 0 \/ lots <= -held \/ (held + step <= most /\ lots <= total)

\* All orders of a market maker rest and are for something.
Resting(orders) == \A k \in DOMAIN orders : orders[k].type = "Gtc" /\ orders[k].size \in Nat \ {0}

LEMMA NoQuotes ==
    ASSUME NEW orders, NEW side, Quoted(orders, side) = {}, NEW qty, NEW step, NEW most, NEW total
    PROVE  QuotesWithin(orders, side, qty, step, most, total)
<1>1. QuotedLots(orders, side) = {}
  BY DEF QuotedLots
<1> QED
  BY <1>1, FS_EmptySet DEF QuotesWithin

LEMMA StandDownQuotes ==
    ASSUME NEW price, NEW qty \in Int, NEW n, NEW d, NEW orders, orders = StandDown(price, qty, n, d),
           NEW side \in Sides, NEW step, NEW most, NEW total
    PROVE  Resting(orders) /\ QuotesWithin(orders, side, qty, step, most, total)
<1>1. CASE qty = 0
  <2>1. DOMAIN orders = {}
    BY <1>1 DEF StandDown
  <2> QED
    BY <2>1, NoQuotes DEF Resting, Quoted
<1>2. CASE qty # 0
  <2>1. /\ DOMAIN orders = {1} /\ orders[1].type = "Gtc" /\ orders[1].side = ReducingSide(qty)
        /\ orders[1].size = AbsQty(qty)
    BY <1>2 DEF StandDown, Order
  <2>2. Resting(orders) /\ AbsQty(qty) \in Nat
    BY <1>2, <2>1 DEF Resting, AbsQty
  <2>3. CASE side # ReducingSide(qty)
    BY <2>1, <2>2, <2>3, NoQuotes DEF Quoted
  <2>4. CASE side = ReducingSide(qty)
    <3>1. Quoted(orders, side) = {1}
      BY <2>1, <2>4 DEF Quoted
    <3>2. IsFiniteSet({1}) /\ Cardinality({1}) = 1
      BY FS_Singleton
    <3>3. /\ IsFiniteSet(QuotedLots(orders, side))
          /\ Cardinality(QuotedLots(orders, side)) \in Nat
          /\ Cardinality(QuotedLots(orders, side)) <= 1 * AbsQty(qty)
      BY <2>1, <2>2, <3>1, <3>2, LotsOfQuotes
    <3>4. SignedQty(side, qty) = -AbsQty(qty)
      BY <1>2, <2>4 DEF SignedQty, ReducingSide, AbsQty
    <3>5. \A a \in Nat : 1 * a = a /\ -(-a) = a
      OBVIOUS
    <3> QED
      BY <2>2, <3>3, <3>4, <3>5 DEF QuotesWithin
  <2> QED
    BY <2>3, <2>4
<1> QED
  BY <1>1, <1>2

\* The grid quotes a side on every level, when it is an order short of its maximum there.
LEMMA GridSides ==
    ASSUME NEW price, NEW qty \in Int, NEW s \in BOOLEAN, NEW side \in Sides,
           NEW orders, orders = GridOnTick(price, qty, s)
    PROVE  /\ Resting(orders)
           /\ QuotesWithin(orders, side, qty, GridSize, GridMaxPosition, GridLevels * GridSize)
           /\ ~s /\ QuotedLots(orders, side) # {} =>
                /\ SignedQty(side, qty) + GridSize <= GridMaxPosition
                /\ Cardinality(QuotedLots(orders, side)) <= GridLevels * GridSize
<1>1. GridLevels \in Nat \ {0} /\ GridSize \in Nat \ {0} /\ GridMaxPosition \in Nat \ {0}
  BY StrategyAssumption
<1>2. CASE s
  BY <1>2, StandDownQuotes DEF GridOnTick
<1>3. CASE ~s
  <2> DEFINE bids == qty + GridSize <= GridMaxPosition
             asks == qty - GridSize >= -GridMaxPosition
             room == SignedQty(side, qty) + GridSize <= GridMaxPosition
             K == Quoted(orders, side)
  <2>1. orders = CASE bids /\ asks -> [k \in 1..(2 * GridLevels) |->
                                IF k % 2 = 1 THEN GridBid(price, (k + 1) \div 2)
                                             ELSE GridAsk(price, k \div 2)]
          [] bids /\ ~asks -> [k \in 1..GridLevels |-> GridBid(price, k)]
          [] asks /\ ~bids -> [k \in 1..GridLevels |-> GridAsk(price, k)]
          [] OTHER -> << >>
    BY <1>3 DEF GridOnTick, GridQuotes
  <2>2. room <=> IF side = "BUY" THEN bids ELSE asks
    BY <1>1 DEF SignedQty, Sides
  <2>3. \A i : /\ GridBid(price, i).type = "Gtc" /\ GridBid(price, i).side = "BUY"
               /\ GridBid(price, i).size = GridSize
               /\ GridAsk(price, i).type = "Gtc" /\ GridAsk(price, i).side = "SELL"
               /\ GridAsk(price, i).size = GridSize
    BY DEF GridBid, GridAsk, Order
  <2>4. \A k \in DOMAIN orders : orders[k].type = "Gtc" /\ orders[k].size = GridSize
    BY <2>1, <2>3
  <2>5. /\ IsFiniteSet(1..GridLevels) /\ Cardinality(1..GridLevels) = GridLevels
        /\ IsFiniteSet({}) /\ Cardinality({}) = 0
    BY <1>1, FS_Interval, FS_EmptySet
  <2>6. /\ IsFiniteSet(K) /\ Cardinality(K) <= GridLevels
        /\ K # {} => room
    <3>1. CASE bids /\ asks
      <4>1. /\ DOMAIN orders = 1..(2 * GridLevels)
            /\ \A k \in DOMAIN orders : orders[k].side = IF k % 2 = 1 THEN "BUY" ELSE "SELL"
        BY <2>1, <2>3, <3>1
      <4>2. \A k \in 1..(2 * GridLevels) : k % 2 \in {0, 1}
        BY <1>1
      <4>3. K = {k \in 1..(2 * GridLevels) : k % 2 = IF side = "BUY" THEN 1 ELSE 0}
        BY <4>1, <4>2 DEF Quoted, Sides
      <4> HIDE DEF K
      <4>4. IsFiniteSet(K) /\ Cardinality(K) <= GridLevels
        BY <1>1, <4>3, OddAndEven
      <4> QED
        BY <2>2, <3>1, <4>4
    <3>2. CASE bids /\ ~asks
      <4>1. K = IF side = "BUY" THEN 1..GridLevels ELSE {}
        BY <2>1, <2>3, <3>2 DEF Quoted, Sides
      <4> QED
        BY <1>1, <2>2, <2>5, <3>2, <4>1
    <3>3. CASE asks /\ ~bids
      <4>1. K = IF side = "SELL" THEN 1..GridLevels ELSE {}
        BY <2>1, <2>3, <3>3 DEF Quoted, Sides
      <4> QED
        BY <1>1, <2>2, <2>5, <3>3, <4>1 DEF Sides
    <3>4. CASE ~bids /\ ~asks
      <4>1. K = {}
        BY <2>1, <3>4 DEF Quoted
      <4> QED
        BY <1>1, <2>5, <4>1
    <3> QED
      BY <3>1, <3>2, <3>3, <3>4
  <2>7. Resting(orders)
    BY <1>1, <2>4 DEF Resting
  <2>8. CASE K = {}
    BY <1>3, <2>7, <2>8, NoQuotes DEF QuotedLots
  <2>9. CASE K # {}
    <3>1. \A k \in K : orders[k].size = GridSize
      BY <2>4 DEF Quoted
    <3>2. /\ IsFiniteSet(QuotedLots(orders, side))
          /\ Cardinality(QuotedLots(orders, side)) \in Nat
          /\ Cardinality(QuotedLots(orders, side)) <= GridLevels * GridSize
      BY <1>1, <2>6, <3>1, LotsOfQuotes
    <3> QED
      BY <2>6, <2>7, <2>9, <3>2 DEF QuotesWithin
  <2> QED
    BY <2>8, <2>9
<1> QED
  BY <1>2, <1>3

\* The simple market maker quotes a side once, unless it is beyond its maximum there.
LEMMA SimpleSides ==
    ASSUME NEW price, NEW qty \in Int, NEW s \in BOOLEAN, NEW side \in Sides,
           NEW orders, orders = SimpleOnTick(price, qty, s)
    PROVE  /\ Resting(orders)
           /\ QuotesWithin(orders, side, qty, 0, SimpleMaxPosition, SimpleSize)
<1>1. SimpleSize \in Nat \ {0} /\ SimpleMaxPosition \in Nat
  BY StrategyAssumption DEF SimpleMaxPosition
<1>2. CASE s
  BY <1>2, StandDownQuotes DEF SimpleOnTick
<1>3. CASE ~s
  <2> DEFINE bid == Order("Gtc", "BUY", SimpleSize, SimpleQuote(price, qty, -5))
             ask == Order("Gtc", "SELL", SimpleSize, SimpleQuote(price, qty, 5))
             bids == qty <= SimpleMaxPosition
             asks == qty >= -SimpleMaxPosition
             room == SignedQty(side, qty) + 0 <= SimpleMaxPosition
             K == Quoted(orders, side)
  <2>1. /\ bid.type = "Gtc" /\ bid.side = "BUY" /\ bid.size = SimpleSize
        /\ ask.type = "Gtc" /\ ask.side = "SELL" /\ ask.size = SimpleSize
    BY DEF Order
  <2>2. orders = (IF bids THEN <<bid>> ELSE << >>) \o (IF asks THEN <<ask>> ELSE << >>)
    BY <1>3 DEF SimpleOnTick
  <2>3. room <=> IF side = "BUY" THEN bids ELSE asks
    BY <1>1 DEF SignedQty, Sides
  <2> HIDE DEF bid, ask
  <2>4. /\ DOMAIN orders \subseteq {1, 2}
        /\ \A k \in DOMAIN orders : orders[k] \in {bid, ask}
        /\ \A k \in DOMAIN orders : orders[k] = bid => bids /\ k = 1
        /\ \A k \in DOMAIN orders : orders[k] = ask => asks /\ k = IF bids THEN 2 ELSE 1
    <3> DEFINE first == IF bids THEN <<bid>> ELSE << >>
               second == IF asks THEN <<ask>> ELSE << >>
               S == {bid, ask}
    <3>1. bid # ask
      BY <2>1
    <3>2. /\ first \in Seq(S) /\ Len(first) = (IF bids THEN 1 ELSE 0) /\ (bids => first[1] = bid)
          /\ second \in Seq(S) /\ Len(second) = (IF asks THEN 1 ELSE 0) /\ (asks => second[1] = ask)
      <4>1. /\ <<bid>> \in Seq(S) /\ Len(<<bid>>) = 1 /\ <<bid>>[1] = bid
            /\ <<ask>> \in Seq(S) /\ Len(<<ask>>) = 1 /\ <<ask>>[1] = ask
            /\ << >> \in Seq(S) /\ Len(<< >>) = 0
        OBVIOUS
      <4>2. /\ IF bids THEN first = <<bid>> ELSE first = << >>
            /\ IF asks THEN second = <<ask>> ELSE second = << >>
        OBVIOUS
      <4> HIDE DEF first, second
      <4> QED
        BY <4>1, <4>2
    <3>3. orders = first \o second
      BY <2>2
    <3> HIDE DEF first, second, S
    <3>4. \A k \in DOMAIN orders :
             \/ k = 1 /\ Len(first) = 1 /\ orders[k] = first[1]
             \/ k = Len(first) + 1 /\ Len(second) = 1 /\ orders[k] = second[1]
      BY <3>2, <3>3
    <3> QED
      BY <3>1, <3>2, <3>4
  <2>5. \A k \in DOMAIN orders : orders[k].type = "Gtc" /\ orders[k].size = SimpleSize
    BY <2>1, <2>4
  <2>6. Resting(orders)
    BY <1>1, <2>5 DEF Resting
  <2>7. CASE K = {}
    BY <2>6, <2>7, NoQuotes
  <2>8. CASE K # {}
    <3>1. room /\ \E k : K = {k}
      <4>1. CASE side = "BUY"
        BY <2>1, <2>3, <2>4, <2>8, <4>1 DEF Quoted
      <4>2. CASE side = "SELL"
        BY <2>1, <2>3, <2>4, <2>8, <4>2 DEF Quoted
      <4> QED
        BY <4>1, <4>2 DEF Sides
    <3>2. IsFiniteSet(K) /\ Cardinality(K) = 1
      BY <3>1, FS_Singleton
    <3>3. /\ IsFiniteSet(QuotedLots(orders, side))
          /\ Cardinality(QuotedLots(orders, side)) \in Nat
          /\ Cardinality(QuotedLots(orders, side)) <= 1 * SimpleSize
      BY <1>1, <2>5, <3>2, LotsOfQuotes DEF Quoted
    <3>4. 1 * SimpleSize = SimpleSize
      BY <1>1
    <3> QED
      BY <2>6, <3>1, <3>3, <3>4 DEF QuotesWithin
  <2> QED
    BY <2>7, <2>8
<1> QED
  BY <1>2, <1>3
=============================================================================
