---------------------------- MODULE BacktesterMC ----------------------------
(* Values for the run of Backtester. *)
EXTENDS Backtester

Candle4(open, low, high, close) ==
    [open |-> open, low |-> low, high |-> high, close |-> close]

\* A quiet candle, a fall, a rise, and one whose range reaches stops and targets
\* on both sides.
FourBars == {Candle4(100, 100, 100, 100), Candle4(100, 80, 100, 90),
             Candle4(90, 90, 110, 110), Candle4(110, 80, 120, 100)}
=============================================================================
