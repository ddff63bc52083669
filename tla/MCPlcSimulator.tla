-------------------------- MODULE MCPlcSimulator --------------------------
(* A small instance of PlcSimulator for TLC; the values are in the cfg.    *)
EXTENDS PlcSimulator
=============================================================================
