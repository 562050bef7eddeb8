---------------------------- MODULE AlphaEngineMC ---------------------------
(* Values for the run of AlphaEngine. *)
EXTENDS AlphaEngine, TLC

CONSTANTS w1, w2, w3

ThreeWallets == {w1, w2, w3}
\* Two of them have the same source of funds, and differ in nothing else.
OneSource == {{w1, w2}}
Interchangeable == Permutations({w1, w2})
=============================================================================
