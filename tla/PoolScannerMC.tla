---------------------------- MODULE PoolScannerMC ----------------------------
(* Values for the run of PoolScanner: the V2 pool of a token, which the    *)
(* watcher may find too, and a V3 pool whose handler returns at once.      *)
EXTENDS PoolScanner, TLC

CONSTANTS p1, p2, a

TwoPools == {p1, p2}
VersionOf2 == p1 :> "v2" @@ p2 :> "v3"
TokenOf2 == p1 :> a @@ p2 :> a
Wbnb2 == p1 :> "token1" @@ p2 :> "token1"
=============================================================================
