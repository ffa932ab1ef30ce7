------------------------------ MODULE SwapBook ------------------------------
(***************************************************************************)
(* The arithmetic of PositionManager's swap side                           *)
(* (trading_engine/position_manager.cpp): contracts held per instrument    *)
(* and position side.  The average opening price, which only a sync that   *)
(* finds a mismatch writes, is left out.                                   *)
(***************************************************************************)
EXTENDS Integers

SwapTerms(Instrument) ==
  [market : {"SWAP"}, side : {"BUY", "SELL"}, mode : {"CROSS", "ISOLATED"},
   type : {"LIMIT", "MARKET"}, price : Nat, volume : Nat \ {0},
   instrument : Instrument, posSide : {"NET", "LONG", "SHORT"}]

PositionKey(ord) == <<ord.instrument, ord.posSide>>

IsOpening(ord) == ord.side = IF ord.posSide = "SHORT" THEN "SELL" ELSE "BUY"

UpdateSwapOnFill(swap, ord, n) ==
  IF n <= 0 THEN swap
  ELSE [swap EXCEPT ![PositionKey(ord)] =
          IF IsOpening(ord) THEN @ + n
          ELSE IF @ - n < 0 THEN 0 ELSE @ - n]

(* Mutant: only a position seen for the first time is taken over. *)
SyncSwapFirstSight(swap, key, contracts) ==
  IF swap[key] = 0 THEN [swap EXCEPT ![key] = contracts] ELSE swap

SyncSwapFromExchange(swap, key, contracts) == [swap EXCEPT ![key] = contracts]
=============================================================================
