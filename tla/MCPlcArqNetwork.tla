-------------------------- MODULE MCPlcArqNetwork --------------------------
(* Small instances of PlcArqNetwork for TLC; the other values are in the   *)
(* configurations.                                                         *)
EXTENDS PlcArqNetwork

(* One time unit of propagation between any two nodes.                     *)
MCDelay == [m \in Node |-> [n \in Node |-> 1]]
=============================================================================
