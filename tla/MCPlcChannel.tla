---------------------------- MODULE MCPlcChannel ----------------------------
(* Small instances of PlcChannel for TLC: the devices and the load "w" are *)
(* joined in a star, so that each loads every link between two others.     *)
EXTENDS PlcChannel

(* The PHYs have impedance objects of their own, copied by SetRxImpedance  *)
(* and SetTxImpedance.                                                     *)
MCRx == [d \in Device |-> <<"rx", d>>]
MCTx == [d \in Device |-> <<IF d = "c" THEN "tx" ELSE "rx", d>>]
MCImpedances == [o \in Outlet |-> IF o \in Device THEN {MCRx[o], MCTx[o]}
                                  ELSE {<<"load", o>>, NoImpedance}]

(* PLC_NetDeviceHelper's default: the devices have no impedance.           *)
MCOpen == [d \in Device |-> NoImpedance]
MCOpenImpedances == [o \in Outlet |-> IF o \in Device THEN {NoImpedance} ELSE {"w", NoImpedance}]

MCTaps == [l \in Link |-> Outlet \ {l[1], l[2]}]
=============================================================================
