---------------------------- MODULE MCRiskEngine ----------------------------
(* Bounds for the run of RiskEngine: one overlay trade, one restart.       *)
EXTENDS RiskEngine

Limits(overlay, restart) ==
    [e \in Events |-> IF e = "overlay" THEN overlay ELSE restart]

OneEach == Limits(1, 1)
=============================================================================
