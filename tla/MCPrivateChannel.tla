-------------------------- MODULE MCPrivateChannel --------------------------
(* An instance of PrivateChannel small enough for TLC.                       *)
EXTENDS PrivateChannel

CONSTANTS spot, account, swap

(* The channels TradingEngine::Init subscribes to, in order. *)
Three == <<spot, account, swap>>
=============================================================================
