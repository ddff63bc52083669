---------------------------- MODULE MCPlcReceiver ---------------------------
(* A small instance of PlcReceiver for TLC.  No two different sets of      *)
(* signals have the same sum.                                              *)
EXTENDS PlcReceiver

MCPsd == [t \in TxId |-> {4 ^ t, 2 * 4 ^ t}]
=============================================================================
