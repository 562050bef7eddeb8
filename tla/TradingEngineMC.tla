-------------------------- MODULE TradingEngineMC ---------------------------
(* Values for the model-checking runs of TradingEngine. *)
EXTENDS TradingEngine

Candle3(low, close, high) == [low |-> low, high |-> high, close |-> close]

\* Directional strategies look at the close only.
Ticks3 == {Candle3(p, p, p) : p \in {90, 100, 110}}

\* Quiet candles, and candles whose range sweeps one or both sides of the book.
Sweeps == {Candle3(100, 100, 100), Candle3(90, 100, 100), Candle3(100, 100, 110),
           Candle3(80, 100, 120), Candle3(80, 90, 100), Candle3(100, 110, 120)}

FlatStart == {<<0, 0>>}

\* Flat, or long an odd lot that an earlier process left on the account.
FlatOrOdd == {<<0, 0>>, <<3, 100>>}
=============================================================================
