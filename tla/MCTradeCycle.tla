--------------------------- MODULE MCTradeCycle ---------------------------
(* Limited: three cycles, each fault once (the mode twice).                *)
EXTENDS TradeCycle

Limits(calls, crash, lost, unbooked, convert, switch) ==
    [e \in Events |-> CASE e = "call"     -> calls
                        [] e = "crash"    -> crash
                        [] e = "lost"     -> lost
                        [] e = "unbooked" -> unbooked
                        [] e = "convert"  -> convert
                        [] e = "mode"     -> switch]

Limited == Limits(3, 1, 1, 1, 1, 2)
=============================================================================
