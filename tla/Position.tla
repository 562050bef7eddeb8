------------------------------ MODULE Position ------------------------------
(***************************************************************************)
(* The arithmetic of applyFill in src/trading.go: what a fill of q lots at *)
(* a price does to a net position with an average entry price.  The code   *)
(* computes in float64; here quantities are whole lots, so its threshold   *)
(* of 0.0001 for "flat" is zero, and an average is rounded down to a cent. *)
(***************************************************************************)
EXTENDS Integers, Sequences

Abs(x) == IF x < 0 THEN -x ELSE x
Smaller(a, b) == IF a < b THEN a ELSE b
Sign(x) == IF x > 0 THEN 1 ELSE IF x < 0 THEN -1 ELSE 0

SignedQty(side, qty) == IF side = "SELL" THEN -qty ELSE qty

\* A fill of s signed lots works against the position old, or adds to it.
Opposes(old, s) == (old > 0 /\ s < 0) \/ (old < 0 /\ s > 0)
Adds(old, s)    == (old > 0 /\ s > 0) \/ (old < 0 /\ s < 0)

\* The position changes sign.
Flips(old, new) == old # 0 /\ new # 0 /\ (new > 0) # (old > 0)

\* Mutants, here and below: slips the properties must notice, used by no action.
ClosedQtyWholeFill(old, s) == Abs(s)
ClosedQtyUnsigned(old, s) == Smaller(old, s)

ClosedQty(old, s) == Smaller(Abs(old), Abs(s))

ClosedPnlLongOnly(old, entry, s, price) == (price - entry) * ClosedQty(old, s)

ClosedPnl(old, entry, s, price) ==
    (IF old > 0 THEN price - entry ELSE entry - price) * ClosedQty(old, s)

AverageEntry(old, entry, s, price) ==
    (entry * Abs(old) + price * Abs(s)) \div Abs(old + s)

EntryAfter(old, entry, s, price) ==
    LET new == old + s
    IN  CASE new = 0 -> 0
          [] new # 0 /\ Adds(old, s) -> AverageEntry(old, entry, s, price)
          [] new # 0 /\ (old = 0 \/ Flips(old, new)) -> price
          [] OTHER -> entry

OpenedAfterKeepsOnFlip(old, opened, s, now) ==
    IF old + s = 0 THEN 0 ELSE IF old = 0 THEN now ELSE opened

\* positionOpenedAt after a fill at time now; 0 is the zero time.
OpenedAfter(old, opened, s, now) ==
    LET new == old + s
    IN  CASE new = 0 -> 0
          [] new # 0 /\ (old = 0 \/ Flips(old, new)) -> now
          [] OTHER -> opened

SideOf(q) == IF q > 0 THEN "LONG" ELSE IF q < 0 THEN "SHORT" ELSE "NONE"

-----------------------------------------------------------------------------
\* The rows one fill writes to trade_executions: one for what it closes, one
\* for what it opens or adds.
Actions == {"OPEN", "ADD", "REDUCE", "CLOSE", "REVERSE_CLOSE", "REVERSE_OPEN"}

Execution == [action : Actions, side : {"BUY", "SELL"}, qty : Nat, price : Int,
              before : Int, after : Int, at : Nat]

CloseAction(old, new) ==
    IF new = 0 THEN "CLOSE" ELSE IF Flips(old, new) THEN "REVERSE_CLOSE" ELSE "REDUCE"

ExecutionRows(side, qty, old, price, now) ==
    LET s == SignedQty(side, qty)
        new == old + s
        row(action, q) == << [action |-> action, side |-> side, qty |-> q, price |-> price,
                              before |-> old, after |-> new, at |-> now] >>
    IN  (IF Opposes(old, s) THEN row(CloseAction(old, new), ClosedQty(old, s)) ELSE << >>)
        \o (CASE new # 0 /\ old = 0 -> row("OPEN", Abs(new))
              [] new # 0 /\ Adds(old, s) -> row("ADD", Abs(s))
              [] Flips(old, new) -> row("REVERSE_OPEN", Abs(new))
              [] OTHER -> << >>)

\* The row of trade_history a fill that closes something writes.
Trade == [position : {"LONG", "SHORT"}, qty : Nat, entry : Int, exit : Int, pnl : Int,
          balance : Int, opened : Nat, closed : Nat]

-----------------------------------------------------------------------------
\* v[a + 1] + ... + v[n], for what the rows of a table add up to.
RunningSum(v, a, n) == LET sum[i \in a..n] == IF i = a THEN 0 ELSE sum[i - 1] + v[i] IN sum
SumBetween(v, a, n) == RunningSum(v, a, n)[n]
=============================================================================
