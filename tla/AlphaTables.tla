---------------------------- MODULE AlphaTables -----------------------------
(***************************************************************************)
(* What the two tickers of package alpha share: the wallets, the database  *)
(* whose statements may fail, and its table of trades.  AlphaEngine        *)
(* evaluates the wallets, SellTracker books their sales; each keeps of a   *)
(* row what its own code reads.                                            *)
(***************************************************************************)
EXTENDS Naturals, FiniteSets, FiniteSetsExt

CONSTANTS
    Wallets, Tokens,
    Week,                   \* 7 days
    None,
    MaxClock, MaxFailures   \* bounds

ASSUME TablesAssumption ==
    /\ IsFiniteSet(Wallets) /\ None \notin Wallets
    /\ Week \in Nat \ {0} /\ {MaxClock, MaxFailures} \subseteq Nat

VARIABLES
    clock,
    trades,     \* table smart_wallet_trades
    failures    \* statements that failed so far

\* A statement is executed (ok), or fails and changes nothing.
Statement(ok) ==
    /\ ~ok => failures < MaxFailures
    /\ failures' = IF ok THEN failures ELSE failures + 1
=============================================================================
