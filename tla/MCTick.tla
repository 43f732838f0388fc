------------------------------- MODULE MCTick -------------------------------
(* Instances of Tick for TLC.                                              *)
EXTENDS Tick

MCTPs == 0..(TP_MOD - 1)
=============================================================================
