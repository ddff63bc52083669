-------------------------- MODULE MCPlcHarqNetwork --------------------------
(* Small instances of PlcHarqNetwork for TLC; the other values are in the  *)
(* configurations.                                                         *)
EXTENDS PlcHarqNetwork

(* One time unit of propagation between any two nodes.                     *)
MCDelay == [m \in Node |-> [n \in Node |-> 1]]
=============================================================================
