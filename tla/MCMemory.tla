------------------------------ MODULE MCMemory ------------------------------
(* Bounds for the run of Memory: two closes, of two kinds, and            *)
(* an index preloaded with three outcomes of one of the setups.            *)
EXTENDS Memory

Sell(r, s)  == [side |-> "sell", regime |-> r, signal |-> s]
Closed(r, s, p) == [setup |-> Sell(r, s), pnl |-> p]
SomeTrades  == {Closed("trend", "momentum", -3), Closed("chop", "flow", 2)}
Inst(n)     == [id |-> <<"inst", n>>, kind |-> "institutional",
                text |-> Sell("trend", "momentum"), pnl |-> 5]
SomeStarts  == {<<Inst(1), Inst(2), Inst(3)>>}
=============================================================================
