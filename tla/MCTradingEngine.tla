--------------------------- MODULE MCTradingEngine ---------------------------
(* Instances of TradingEngine small enough for TLC.                          *)
EXTENDS Quiet, TLC

CONSTANTS o1, o2, o3, Coin, Cash, Perp

Spot(side, price, volume) ==
  [market |-> "SPOT", side |-> side, mode |-> "CASH", type |-> "LIMIT",
   price |-> price, volume |-> volume, base |-> Coin, quote |-> Cash]

Swap(side, posSide, volume) ==
  [market |-> "SWAP", side |-> side, mode |-> "CROSS", type |-> "MARKET",
   price |-> 1, volume |-> volume, instrument |-> Perp, posSide |-> posSide]

(* A buy and a sell of coins the account already has, each of which may be  *)
(* filled at its price or at a better one, the sell in two parts; a single  *)
(* buy; and the close of a carried long position.                           *)
Desk     == (o1 :> Spot("BUY", 4, 1)) @@ (o2 :> Spot("SELL", 2, 2))
OneUnit  == o1 :> Spot("BUY", 2, 1)
OneClose == o3 :> Swap("SELL", "LONG", 1)

Funds  == (Cash :> 4) @@ (Coin :> 1)
Stock  == (Cash :> 4) @@ (Coin :> 2)

(* A price better than the one asked; or that, the one asked, and a fee. *)
Better == {[price |-> 1, fee |-> 0]}
Market == {[price |-> 2, fee |-> 0], [price |-> 4, fee |-> 0], [price |-> 4, fee |-> -1]}

Longs == [k \in Position |-> IF k[2] = "LONG" THEN 1 ELSE 0]
=============================================================================
