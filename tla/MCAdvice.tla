------------------------------ MODULE MCAdvice ------------------------------
(* Bounds for the run of Advice: one research thread, one regime, two      *)
(* round trips of the traded symbol, and hours enough for its forecast to  *)
(* be fresh, stale and expired.                                            *)
EXTENDS Advice
=============================================================================
