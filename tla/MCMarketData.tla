---------------------------- MODULE MCMarketData ----------------------------
(* Bounds for the run of MarketData: two windows that share the rows on    *)
(* disk, the longer of several pages, and hours enough for pulls, caches   *)
(* and retention to fall out of step.                                      *)
EXTENDS MarketData
Lengths == {2, 3}
=============================================================================
