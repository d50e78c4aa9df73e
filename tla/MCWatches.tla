----------------------------- MODULE MCWatches -----------------------------
(* Bounds for the run of Watches: a price watch and a drawdown watch, and  *)
(* two submissions that are refused.                                       *)
EXTENDS Watches

Submit(k, t, o, n) == [kind |-> k, target |-> t, op |-> o, threshold |-> n]
Submissions ==
    {Submit("price", "ETH", "lt", 2), Submit("regime", "chop", "", 0),
     Submit("price", "", "lt", 2), Submit("volume", "", "gt", 1)}

Shows(s, p, r, d) == [symbol |-> s, price |-> p, regime |-> r, drawdown |-> d, equity |-> 3]
Bars == {Shows("ETH", 1, "trend_up", 0), Shows("ETH", 3, "chop", 1)}
=============================================================================
