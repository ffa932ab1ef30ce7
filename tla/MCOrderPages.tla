---------------------------- MODULE MCOrderPages ----------------------------
(* An instance of OrderPages small enough for TLC: pages of two, one order   *)
(* for an instrument that is not registered.                                 *)
EXTENDS OrderPages

Ids   == 1 .. 6
Known == Ids \ {4}
=============================================================================
