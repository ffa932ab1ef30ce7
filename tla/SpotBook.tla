------------------------------ MODULE SpotBook ------------------------------
(***************************************************************************)
(* The arithmetic of PositionManager's spot side                           *)
(* (trading_engine/position_manager.cpp): per currency what is available,  *)
(* what the exchange has frozen for open orders, and what the strategy has *)
(* reserved for orders the exchange has not confirmed yet.  Each operator  *)
(* is the body of the method of its name, which runs under mutex_.         *)
(*                                                                         *)
(* Amounts are integers: the scaled int64_t prices and volumes, not the    *)
(* doubles decoded from them.  A fee, which is negative if it is paid, is  *)
(* in the currency received, where the exchange charges it.  The borrowed  *)
(* column, which only Sync writes, is left out.                            *)
(***************************************************************************)
EXTENDS Integers

(* The terms of an order.  price is what the strategy asked; a report about  *)
(* a market order carries no price.                                          *)
SpotTerms(Currency) ==
  [market : {"SPOT"}, side : {"BUY", "SELL"}, mode : {"CASH", "CROSS"},
   type : {"LIMIT", "MARKET"}, price : Nat, volume : Nat \ {0},
   base : Currency, quote : Currency]

Book(Currency) == [Currency -> [available : Int, frozen : Int, reserved : Nat]]

AtLeast0(x) == IF x > 0 THEN x ELSE 0

ReportPrice(ord) == IF ord.type = "LIMIT" THEN ord.price ELSE 0

LockedCurrency(ord) == IF ord.side = "SELL" THEN ord.base ELSE ord.quote

Amount(ord, price, n) == IF ord.side = "BUY" THEN price * n ELSE n

EarnedCurrency(ord) == IF ord.side = "BUY" THEN ord.base ELSE ord.quote

Earned(ord, price, n) == IF ord.side = "BUY" THEN n ELSE price * n

(* Only a margin sell leaves the account's own balance alone. *)
Locks(ord, mode) == ord.side = "BUY" \/ mode = "CASH"

Effective(book, c) == book[c].available - book[c].reserved

(* available += toAvailable and frozen += toFrozen, in currency c. *)
Move(book, c, toAvailable, toFrozen) ==
  [book EXCEPT ![c] = [available |-> @.available + toAvailable,
                       frozen    |-> @.frozen + toFrozen,
                       reserved  |-> @.reserved]]

Unreserve(book, c, amount) == [book EXCEPT ![c].reserved = AtLeast0(@ - amount)]

(* Mutant: the reservation has the wrong sign. *)
ReserveSpotNegated(book, ord) ==
  [book EXCEPT ![LockedCurrency(ord)].reserved = @ - Amount(ord, ord.price, ord.volume)]

ReserveSpot(book, ord) ==
  [book EXCEPT ![LockedCurrency(ord)].reserved = @ + Amount(ord, ord.price, ord.volume)]

(* Mutant: the reservation is given up and nothing is frozen. *)
UpdateSpotOnNewOnlyReleases(book, ord, mode) ==
  IF Locks(ord, mode)
  THEN Unreserve(book, LockedCurrency(ord), Amount(ord, ReportPrice(ord), ord.volume)) ELSE book

UpdateSpotOnNew(book, ord, mode) ==
  LET c      == LockedCurrency(ord)
      amount == Amount(ord, ReportPrice(ord), ord.volume)
  IN  IF Locks(ord, mode) THEN Move(Unreserve(book, c, amount), c, -amount, amount) ELSE book

(* Mutant: a fill is booked at the price the order asked for. *)
UpdateSpotOnFillAsAsked(book, ord, mode, n, avg, fee) ==
  LET paid == IF Locks(ord, mode) THEN Amount(ord, ord.price, n) ELSE 0
      left == Move(book, LockedCurrency(ord), 0, -paid)
  IN  IF n <= 0 THEN book
      ELSE Move(left, EarnedCurrency(ord), Earned(ord, ord.price, n) + fee, 0)

(* n is the increment over what the tracker had; it is booked at avg, the     *)
(* average price of the whole order so far and not of the increment.          *)
UpdateSpotOnFill(book, ord, mode, n, avg, fee) ==
  LET paid == IF Locks(ord, mode) THEN Amount(ord, avg, n) ELSE 0
      left == Move(book, LockedCurrency(ord), 0, -paid)
  IN  IF n <= 0 THEN book
      ELSE Move(left, EarnedCurrency(ord), Earned(ord, avg, n) + fee, 0)

(* Mutant: a cancellation gives back the filled part too. *)
UpdateSpotOnCancelWhole(book, ord, mode, filled) ==
  LET amount == Amount(ord, ReportPrice(ord), ord.volume)
  IN  IF Locks(ord, mode) THEN Move(book, LockedCurrency(ord), amount, -amount) ELSE book

UpdateSpotOnCancel(book, ord, mode, filled) ==
  LET remaining == ord.volume - filled
      amount    == Amount(ord, ReportPrice(ord), remaining)
  IN  IF remaining > 0 /\ Locks(ord, mode)
      THEN Move(book, LockedCurrency(ord), amount, -amount) ELSE book

(* The frozen amount stands for the order if there is enough of it, however   *)
(* it came to be frozen.                                                      *)
UpdateSpotOnRejected(book, ord, mode) ==
  LET c      == LockedCurrency(ord)
      amount == Amount(ord, ReportPrice(ord), ord.volume)
  IN  IF ~Locks(ord, mode) THEN book
      ELSE IF book[c].frozen >= amount THEN Move(book, c, amount, -amount)
      ELSE Unreserve(book, c, amount)

(* Mutant: the sync forgets what is frozen. *)
SyncSpotAvailableOnly(book, c, balance) == [book EXCEPT ![c].available = balance.available]

SyncSpotFromExchange(book, c, balance) ==
  [book EXCEPT ![c] = [available |-> balance.available, frozen |-> balance.frozen,
                       reserved |-> @.reserved]]
=============================================================================
