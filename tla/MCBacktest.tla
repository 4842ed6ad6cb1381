----------------------------- MODULE MCBacktest -----------------------------
(* Model-checking instance of Backtest. *)
EXTENDS Backtest
=============================================================================
