---------------------------- MODULE MCAutopilot ----------------------------
(* Bounds for the run of Autopilot: the configuration of the environment   *)
(* and what the cockpit may set in its place.                              *)
EXTENDS Autopilot

Limits(call, crash, write, read, set, refuse) ==
    [e \in Events |-> CASE e = "call"   -> call
                        [] e = "crash"  -> crash
                        [] e = "write"  -> write
                        [] e = "read"   -> read
                        [] e = "set"    -> set
                        [] e = "refuse" -> refuse]

Mixed == Limits(4, 1, 1, 1, 1, 1)

Off    == [enabled |-> FALSE, profit_target_pct |-> None, profit_target_abs |-> None,
           protect_principal |-> TRUE, trailing_giveback_pct |-> None,
           daily_profit_target_pct |-> None, loss_cooldown_hours |-> 0]
Banker == [Off EXCEPT !.enabled = TRUE, !.profit_target_pct = 10]
Daily  == [Banker EXCEPT !.trailing_giveback_pct = 20, !.daily_profit_target_pct = 30,
                         !.loss_cooldown_hours = 1]

OnlyOff == {Off}
=============================================================================
