-------------------------------- MODULE Ledger --------------------------------
(***************************************************************************)
(* What TradingEngine's books owe to the reports under way, while only     *)
(* reports move them (ChannelSpec): in which order the reports come, what  *)
(* each order may still bring the engine, and what the tables will be when *)
(* the report in the listener's hand and those in the inbox are applied.   *)
(***************************************************************************)
EXTENDS TradingEngine

(* A report received and not applied yet is in the listener's hand. *)
InHand == h[Listener].pc \notin {"idle", "tell"}

ToApply == Range(inbox) \cup (IF InHand THEN {h[Listener].report} ELSE {})

(* Of two reports about an order the earlier ends nothing and fills no more. *)
Before(r, s) ==
  r.order = s.order => r.status \notin Terminal /\ r.filled <= s.filled

InOrder ==
  /\ \A i, j \in DOMAIN inbox : i < j => Before(inbox[i], inbox[j])
  /\ InHand => \A r \in Range(inbox) : Before(h[Listener].report, r)

(* What has been applied of an order is what the tracker holds and no more    *)
(* than any report still to be applied says; or its end has been applied.     *)
Following(o) == /\ applied[o] = tracker[o]
                /\ \A r \in ToApply : r.order = o => applied[o] <= r.filled

Ended(o) == /\ Closed(o)
            /\ applied[o] <= exch[o].filled
            /\ \A r \in ToApply : r.order # o

AppliedInv == InOrder /\ \A o \in Order : Following(o) \/ Ended(o)

-----------------------------------------------------------------------------
(* What order o may still add to what the strategy is told it may spend of    *)
(* currency c: the amount asked for while the order is on its way or its      *)
(* rejection is to be applied, the rest while its cancellation is, and what   *)
(* it earned and the engine has not taken yet, if sells are filled at price.  *)
Rest(o) == Amount(Terms[o], Terms[o].price, Terms[o].volume - exch[o].filled)

EndToApply(o) ==
  \E r \in ToApply : r.order = o /\ r.status \in {"CANCELLED", "REJECTED"}

Back(o) ==
  CASE InFlight(o)                                -> Asked(o)
    [] exch[o].st = "refused" /\ EndToApply(o)    -> Asked(o)
    [] exch[o].st = "cancelled" /\ EndToApply(o)  -> Rest(o)
    [] OTHER                                      -> 0

Returning(o, c) ==
  IF Reserves(o) /\ LockedCurrency(Terms[o]) = c THEN Back(o) ELSE 0

Gaining(price, o, c) ==
  IF IsSpot(o) /\ EarnedCurrency(Terms[o]) = c
  THEN Earned(Terms[o], price[o], exch[o].filled - applied[o]) ELSE 0

Due(price, o, c) == Returning(o, c) + Gaining(price, o, c)

Dues(price, c) == SumFunctionOnSet([o \in emitted |-> Due(price, o, c)], emitted)

(* The prices the sells are filled at, if each is filled at one. *)
Prices == [Order -> Nat]

SoldAt(price) ==
  \A o \in Order : IsSpot(o) /\ Terms[o].side = "SELL" =>
    \A d \in exch[o].deals : d.price = price[o]

Steady(price) == Undisturbed /\ SoldAt(price) /\ \A o \in Order : Even(o)

Backed ==
  \A price \in Prices : Steady(price) =>
    \A c \in Currency : Effective(book, c) + Dues(price, c) <= wallet[c].available

(* Why: the volumes, the modes and, of an order filled at one price and free  *)
(* of fees, the averages and the fees that reports carry.                     *)
FilledAt(o, p) == \A d \in exch[o].deals : d.price = p

PricedReport(r) ==
  /\ \A p \in Nat : FilledAt(r.order, p) => r.avg = p
  /\ FeeFree(r.order) => r.fee = 0

ExactReport(r) ==
  /\ r.status = "CANCELLED" => r.filled = exch[r.order].filled
  /\ r.status # "REJECTED" => r.mode = Terms[r.order].mode
  /\ r.status \in Filling => PricedReport(r)

ReportsExact == \A r \in ToApply : ExactReport(r)

Volumes ==
  \A o \in Order :
    /\ exch[o].filled <= Terms[o].volume
    /\ exch[o].st \in {"unknown", "refused"} => exch[o].filled = 0 /\ exch[o].deals = {}
    /\ \A p \in Nat : FilledAt(o, p) => exch[o].value = p * exch[o].filled

Orderly == TypeOK /\ EngineInv /\ Volumes /\ AppliedInv /\ ReportsExact

LedgerInv == /\ Orderly
             /\ IsFiniteSet(emitted)
             /\ pushes = 0 => account = <<>>
             /\ Backed
===============================================================================
