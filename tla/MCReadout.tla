----------------------------- MODULE MCReadout ------------------------------
(* TLC instances of Readout: a master and one slave, a buffer of two slots, *)
(* so that it is full after one trigger and wraps around after two.         *)
EXTENDS Readout
=============================================================================
