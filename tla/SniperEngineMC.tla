--------------------------- MODULE SniperEngineMC ---------------------------
(* Values for the model-checking runs of SniperEngine. *)
EXTENDS SniperEngine, TLC

BuyersAlike == Permutations(Buyers)
=============================================================================
