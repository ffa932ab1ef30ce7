-------------------------------- MODULE Quiet --------------------------------
(***************************************************************************)
(* Why TradingEngine's tables are the exchange's once every report sent    *)
(* has been applied: what each table holds of an order at every point of   *)
(* HandleOrderUpdate, while no report is lost and no balance pushed.       *)
(***************************************************************************)
EXTENDS Ledger

(* The balances are followed as sums over the orders; a fee is not of them. *)
Plain == AsBooked /\ \A o \in emitted : FeeFree(o)

-----------------------------------------------------------------------------
(* The reports that are still to come to a point of the function. *)
UpTo(pcs) == Range(inbox) \cup (IF h[Listener].pc \in pcs THEN {h[Listener].report} ELSE {})

ToTrack   == UpTo({"live?", "cid?", "recover", "relive", "track"})
ToRelease == UpTo({"live?", "cid?", "recover", "relive", "track", "release"})

NewIn(S, o) == \E r \in S : r.order = o /\ r.status = "NEW"
EndIn(S, o) == \E r \in S : r.order = o /\ r.status \in Terminal

(* The order of the reports about one order: the acceptance is the first of   *)
(* them, and as long as one comes the end is still to come if there was one.  *)
NewFirst ==
  /\ \A i, j \in DOMAIN inbox :
       i < j /\ inbox[j].status = "NEW" => inbox[i].order # inbox[j].order
  /\ InHand => \A r \in Range(inbox) : r.status = "NEW" => h[Listener].report.order # r.order

EndComes ==
  \A r \in ToApply : Closed(r.order) /\ r.status \notin Terminal => EndIn(Range(inbox), r.order)

(* What is left to apply of an order is in its last report of a fill. *)
CaughtUp(o) ==
  \/ applied[o] = exch[o].filled
  \/ \E r \in ToApply : r.order = o /\ r.status \in Filling /\ r.filled = exch[o].filled

Whole ==
  /\ \A o \in Order : exch[o].st = "filled" => exch[o].filled = Terms[o].volume
  /\ \A r \in ToApply : /\ r.status = "FILLED" => r.filled = exch[r.order].filled
                        /\ r.status \in {"NEW", "REJECTED"} => r.filled = 0
                        /\ r.status = "REJECTED" => r.mode = "CASH"

(* Only a refusal of an order with a reservation is recovered from. *)
RecoversRefusals ==
  /\ h[Listener].pc = "live?" => h[Listener].report.status # "NEW"
  /\ h[Listener].pc \in {"cid?", "recover", "relive"} => h[Listener].report.status = "REJECTED"
  /\ h[Listener].pc \in {"recover", "relive"} => Holds(h[Listener].report.order)
  /\ NoId \in live => h[Listener].pc = "track" /\ h[Listener].report.status = "REJECTED"

(* The tables, order by order. *)
LiveExact(o) ==
  o \in live <=> Accepted(o) /\ ~NewIn(ToTrack, o) /\ (Closed(o) => EndIn(ToTrack, o))

CidExact(o) ==
  o \in cids <=> /\ Holds(o)
                 /\ \/ hand = o \/ o \in Range(wire)
                    \/ \E r \in ToRelease : r.order = o /\ r.status \in {"NEW", "REJECTED"}

TrackerExact(o) == Closed(o) /\ ~EndIn(ToApply, o) => tracker[o] = 0

TablesExact ==
  /\ conn = Channel
  /\ NewFirst /\ EndComes /\ Whole /\ RecoversRefusals
  /\ \A o \in Order : CaughtUp(o) /\ LiveExact(o) /\ CidExact(o) /\ TrackerExact(o)

-----------------------------------------------------------------------------
(* The balances, as sums over the orders: what an order of which n was filled *)
(* and left is frozen keeps of currency c, and what it has made of c in all,  *)
(* if sells are filled at price.                                              *)
Locking(o, c) == Reserves(o) /\ LockedCurrency(Terms[o]) = c

Worth(o, n) == Amount(Terms[o], Terms[o].price, n)

Kept(o, c, left) == IF Locking(o, c) THEN Worth(o, left) ELSE 0

Gain(price, o, c, n) ==
  IF IsSpot(o) /\ EarnedCurrency(Terms[o]) = c THEN Earned(Terms[o], price[o], n) ELSE 0

Made(price, o, c, n, left) == Gain(price, o, c, n) - Kept(o, c, n) - Kept(o, c, left)

(* Where the engine has the amount of order o: frozen, or still reserved. *)
Recovered(o) ==
  /\ h[Listener].pc \in {"relive", "track", "release", "apply"}
  /\ h[Listener].report.order = o /\ h[Listener].report.status = "REJECTED"
  /\ Holds(o)

Held(o) ==
  \/ Accepted(o) /\ ~NewIn(ToApply, o) /\ (Closed(o) => EndIn(ToApply, o))
  \/ Recovered(o)

Reserved(o) ==
  \/ exch[o].st = "unknown"
  \/ NewIn(ToApply, o)
  \/ exch[o].st = "refused" /\ EndIn(ToApply, o) /\ ~Recovered(o)

(* What is left of an order, frozen at the exchange and in the engine's book. *)
Resting(o) == IF Open(o) THEN Terms[o].volume - exch[o].filled ELSE 0
Keeping(o) == IF Held(o) THEN Terms[o].volume - applied[o] ELSE 0

(* What is reserved for it until the exchange's decision is applied. *)
Awaited(o, c) == IF Reserved(o) THEN Kept(o, c, Terms[o].volume) ELSE 0

InAll(f) == SumFunctionOnSet(f, emitted)

WalletExact(price, c) ==
  /\ wallet[c].available =
       Deposit[c] + InAll([o \in emitted |-> Made(price, o, c, exch[o].filled, Resting(o))])
  /\ wallet[c].frozen = InAll([o \in emitted |-> Kept(o, c, Resting(o))])

BookExact(price, c) ==
  /\ book[c].available =
       Deposit[c] + InAll([o \in emitted |-> Made(price, o, c, applied[o], Keeping(o))])
  /\ book[c].frozen = InAll([o \in emitted |-> Kept(o, c, Keeping(o))])
  /\ book[c].reserved = InAll([o \in emitted |-> Awaited(o, c)])

-----------------------------------------------------------------------------
(* The positions, as sums over the orders; and what they will be after each   *)
(* of the reports to come, which is never less than nothing and in the end    *)
(* what the exchange has.                                                     *)
Contract(o, k, n) ==
  IF ~IsSpot(o) /\ PositionKey(Terms[o]) = k
  THEN IF IsOpening(Terms[o]) THEN n ELSE 0 - n
  ELSE 0

Net(k, fills) == Carried[k] + InAll([o \in emitted |-> Contract(o, k, fills[o])])

Filled == [o \in Order |-> exch[o].filled]

PositionExact(k) == swap[k] = Net(k, applied) /\ holding[k] = Net(k, Filled)

Taking(fills, r) ==
  IF r.status \in Filling THEN [fills EXCEPT ![r.order] = r.filled] ELSE fills

Possible(fills) ==
  /\ \A o \in Order : fills[o] <= exch[o].filled
  /\ \A k \in Position : Net(k, fills) >= 0

Course(fills) ==
  /\ fills[0] = IF InHand THEN Taking(applied, h[Listener].report) ELSE applied
  /\ \A i \in 1 .. Len(inbox) : fills[i] = Taking(fills[i - 1], inbox[i])
  /\ \A i \in 0 .. Len(inbox) : Possible(fills[i])
  /\ fills[Len(inbox)] = Filled

PositionsCovered == \E fills \in [0 .. Len(inbox) -> [Order -> Nat]] : Course(fills)

-----------------------------------------------------------------------------
(* As long as no report was lost, the table of live orders, that of the       *)
(* unconfirmed ones and the fill tracker hold of every order exactly what     *)
(* the reports applied so far, and those still to come, say of it: every      *)
(* return and every branch of HandleOrderUpdate leaves them right             *)
(* (trading_engine.cpp 268-370).                                              *)
TablesAgree == drops = 0 => TablesExact

(* The account is what the orders made of the deposits; and the engine's      *)
(* books are, in the middle of a report too, what the orders made of them as  *)
(* far as their reports were applied: UpdateSpotOnNew, UpdateSpotOnFill,      *)
(* UpdateSpotOnCancel, UpdateSpotOnRejected and the swap books take of an     *)
(* order what it brings, each once.  So it is of limit buys filled at their   *)
(* own price, sells each filled at one price and swap orders that cannot go   *)
(* short, while no fee is charged, no report lost, no balance pushed and no   *)
(* margin sell refused.                                                       *)
BooksExact(price) == /\ \A c \in Currency : WalletExact(price, c) /\ BookExact(price, c)
                     /\ \A k \in Position : PositionExact(k)

SalePrice(o) == IF exch[o].deals = {} THEN 0 ELSE (CHOOSE d \in exch[o].deals : TRUE).price

BooksAgree == Plain => BooksExact([o \in Order |-> SalePrice(o)])

BooksAgreeAt == \A price \in Prices : Plain /\ SoldAt(price) => BooksExact(price)

QuietInv == LedgerInv /\ TablesAgree /\ BooksAgreeAt /\ (Plain => PositionsCovered)
===============================================================================
