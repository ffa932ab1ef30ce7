------------------------------ MODULE MCStartup ------------------------------
(* An instance of Startup small enough for TLC: the opening of a long        *)
(* position, found pending, perhaps filled in part.                          *)
EXTENDS Startup, MCTradingEngine

Left == o2 :> Swap("BUY", "LONG", 2)

Change == (Cash :> 1) @@ (Coin :> 0)

Flat == [k \in Position |-> 0]
=============================================================================
