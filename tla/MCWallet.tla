------------------------------ MODULE MCWallet ------------------------------
(* Bounds for the run of Wallet: orders of up to two trades, calls and     *)
(* transactions enough for two callers to meet and one to swap twice.      *)
EXTENDS Wallet
=============================================================================
