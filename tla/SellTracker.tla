---------------------------- MODULE SellTracker -----------------------------
(***************************************************************************)
(* trackSmartWalletSells: every half hour it looks on the chain for the    *)
(* first sale after each purchase of the last days and books it.  One step *)
(* is one query of the chain or one statement of the database; either may  *)
(* fail, which nobody looks at, and the process may crash between any two. *)
(***************************************************************************)
EXTENDS AlphaTables

CONSTANTS
    SellWindow,         \* 2000 blocks
    MaxBuys             \* bound

ASSUME TrackerAssumption == SellWindow \in Nat \ {0} /\ MaxBuys \in Nat

\* A tick of the clock is a block.
VARIABLES
    sales,      \* chain: blocks in which a wallet sent a token to its pool or to a router
    scan,       \* what the running scan has read
    due, whole  \* history: pairs the last scan should have booked; nothing of it failed

trackerHistory == <<due, whole>>
trackerVars == <<clock, sales, trades, scan, failures, trackerHistory>>

Bags == Wallets \X Tokens       \* what a wallet has of a token

TradeRow == [of : Bags, action : {"BUY", "SELL"}, block : 0..MaxClock, time : 0..MaxClock]

IdleScan == [step |-> "idle", left |-> {}, latest |-> 0, found |-> None]

TrackerTypeOK ==
    /\ clock \in 0..MaxClock /\ failures \in 0..MaxFailures
    /\ sales \in [Bags -> SUBSET (0..clock)]
    /\ trades \subseteq TradeRow
    /\ scan \in [step : {"idle", "look", "record"}, left : SUBSET [of : Bags, block : 0..MaxClock],
                latest : 0..clock, found : TradeRow \cup {None}]
    /\ IF scan.step = "record" THEN scan.found \in TradeRow /\ scan.found.block <= scan.latest
                              ELSE scan.found = None
    /\ due \subseteq Bags /\ whole \in BOOLEAN

TrackerInit ==
    /\ clock = 0 /\ sales = [s \in Bags |-> {}]
    /\ trades = {} /\ scan = IdleScan /\ failures = 0
    /\ due = {} /\ whole = FALSE

Rows(of, action) == {r \in trades : r.of = of /\ r.action = action}

-----------------------------------------------------------------------------
(* Outside: blocks with sales are mined, purchases are recorded.            *)

Mine(sold) ==
    /\ clock < MaxClock
    /\ clock' = clock + 1
    /\ sales' = [s \in Bags |-> sales[s] \cup (IF s \in sold THEN {clock'} ELSE {})]
    /\ UNCHANGED <<trades, scan, failures, trackerHistory>>

\* RecordSmartWalletTrade
Buy(of) ==
    /\ Cardinality({r \in trades : r.action = "BUY"}) < MaxBuys
    /\ trades' = trades \cup {[of |-> of, action |-> "BUY", block |-> clock, time |-> clock]}
    /\ UNCHANGED <<clock, sales, scan, failures, trackerHistory>>

\* The process ends and starts again.
TrackerCrash ==
    /\ scan # IdleScan
    /\ scan' = IdleScan /\ whole' = FALSE
    /\ UNCHANGED <<clock, sales, trades, failures, due>>

-----------------------------------------------------------------------------
\* The first purchase of each wallet and token, of those not a week old.
Records ==
    LET bought == {r \in trades : r.action = "BUY" /\ r.time + Week > clock}
        first(s) == Min({r.block : r \in {b \in bought : b.of = s}})
    IN  {[of |-> s, block |-> first(s)] : s \in {r.of : r \in bought}}

\* What is in the window of a record, after its block and not later than latest.
InWindow(record, latest) ==
    {b \in sales[record.of] : record.block < b /\ b <= record.block + SellWindow /\ b <= latest}

\* Mutant: the window is not cut off at the latest block.
LogsPastLatest(record) ==
    sales[record.of] \cap (record.block + 1 .. record.block + SellWindow)

\* Mutant: the window starts a block late.
LogsFromNext(record) ==
    LET from == record.block + 2
        to == Min({record.block + SellWindow, scan.latest})
    IN  sales[record.of] \cap (from .. to)

\* The answer of the one query that is made for a record.
Logs(record) ==
    LET from == record.block + 1
        to == Min({record.block + SellWindow, scan.latest})
    IN  sales[record.of] \cap (from .. to)

\* The scan reads its records and the number of the latest block; if that fails it
\* ends.
StartScan ==
    /\ scan.step = "idle" /\ Records # {}
    /\ scan' = [IdleScan EXCEPT !.step = "look", !.left = Records, !.latest = clock]
    /\ due' = {r.of : r \in {q \in Records : InWindow(q, clock) # {}}}
    /\ whole' = TRUE
    /\ UNCHANGED <<clock, sales, trades, failures>>

\* A record whose sale is known is skipped.
Known(record) ==
    /\ scan.step = "look" /\ record \in scan.left
    /\ Rows(record.of, "SELL") # {}
    /\ scan' = [scan EXCEPT !.left = @ \ {record}]
    /\ UNCHANGED <<clock, sales, trades, failures, trackerHistory>>

\* No sale is known, or the count failed and reads 0.  The query of the chain may
\* fail or find nothing; otherwise the first sale is taken.
Look(record) ==
    LET logs == Logs(record)
        row == [of |-> record.of, action |-> "SELL", block |-> Min(logs), time |-> clock]
    IN  /\ scan.step = "look" /\ record \in scan.left
        /\ Statement(Rows(record.of, "SELL") = {})
        /\ \E answer \in BOOLEAN :
             /\ scan' = IF answer /\ logs # {}
                        THEN [scan EXCEPT !.left = @ \ {record}, !.step = "record", !.found = row]
                        ELSE [scan EXCEPT !.left = @ \ {record}]
             /\ whole' = (whole /\ answer)
        /\ UNCHANGED <<clock, sales, trades, due>>

Booked(row) == {r \in Rows(row.of, "SELL") : r.block = row.block}

\* Mutant: created without the count.
RecordUncounted ==
    /\ scan.step = "record"
    /\ trades' = trades \cup {[scan.found EXCEPT !.time = clock]}
    /\ scan' = [scan EXCEPT !.step = "look", !.found = None]
    /\ UNCHANGED <<clock, sales, failures, trackerHistory>>

\* RecordSmartWalletTradeWithPrice: a count, which reads 0 when it fails, and a row
\* if it is 0.  The time of the row is that of the scan.
Record ==
    /\ scan.step = "record"
    /\ \/ /\ Booked(scan.found) = {} /\ Statement(TRUE)
          /\ trades' = trades \cup {[scan.found EXCEPT !.time = clock]}
          /\ UNCHANGED whole
       \/ /\ Booked(scan.found) # {} /\ Statement(TRUE)
          /\ UNCHANGED <<trades, whole>>
       \/ /\ Booked(scan.found) # {} /\ Statement(FALSE)     \* the count fails
          /\ trades' = trades \cup {[scan.found EXCEPT !.time = clock]}
          /\ UNCHANGED whole
       \/ /\ Statement(FALSE) /\ UNCHANGED trades            \* the insertion fails
          /\ whole' = FALSE
    /\ scan' = [scan EXCEPT !.step = "look", !.found = None]
    /\ UNCHANGED <<clock, sales, due>>

EndScan ==
    /\ scan.step = "look" /\ scan.left = {}
    /\ scan' = IdleScan
    /\ UNCHANGED <<clock, sales, trades, failures, trackerHistory>>

TrackerNext ==
    \/ \E sold \in SUBSET Bags : Mine(sold)
    \/ \E of \in Bags : Buy(of)
    \/ StartScan \/ Record \/ EndScan \/ TrackerCrash
    \/ \E record \in scan.left : Known(record) \/ Look(record)

TrackerSpec == TrackerInit /\ [][TrackerNext]_trackerVars

-----------------------------------------------------------------------------
(* Properties *)

\* Every sale that is booked happened, within the window after a purchase that was
\* recorded.  It is booked once, also when scans crash and the set of purchases that
\* count changes, unless the database failed twice: both counts guard the row.
SalesAreReal ==
    \A s \in {r \in trades : r.action = "SELL"} :
      /\ s.block \in sales[s.of]
      /\ \E b \in Rows(s.of, "BUY") : b.block < s.block /\ s.block <= b.block + SellWindow
      /\ failures < 2 => Booked(s) = {s}

\* A scan that met no failure leaves no sale unknown that was in its windows.
ScanBooksEverySale ==
    scan.step = "idle" /\ whole => \A s \in due : Rows(s, "SELL") # {}
=============================================================================
