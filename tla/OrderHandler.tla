---------------------------- MODULE OrderHandler ----------------------------
(***************************************************************************)
(* TradingEngine::HandleOrderUpdate (trading_engine/trading_engine.cpp),   *)
(* which the listener thread runs for every order message and the          *)
(* reconciler thread for every report it replays, with no lock around the  *)
(* whole: each step below is one critical section of the function, or the  *)
(* push at its end, and two threads may be anywhere in it.                 *)
(*                                                                         *)
(* An order stands for the identifiers it travels under: the client order  *)
(* id the dispatcher made up and the order id the exchange gave it.  Every *)
(* order is this program's own, so no client order id is empty.            *)
(***************************************************************************)
EXTENDS SpotBook, SwapBook

CONSTANTS Order,        \* the orders of this run
          Terms,        \* Terms[o]: what order o asks for
          Currency,     \* the currencies spot orders move
          Instrument,   \* the instruments swap orders move
          Thread,       \* the threads that call HandleOrderUpdate
          NoId          \* the empty order id of a rejection off the order channel

ASSUME TermsAssumption ==
  Terms \in [Order -> SpotTerms(Currency) \cup SwapTerms(Instrument)]
ASSUME NoIdAssumption == NoId \notin Order

VARIABLES live,      \* live_order_instruments_: ids believed open
          cids,      \* client_order_id_to_reservation_: sent, not confirmed
          book,      \* spot_positions_ and spot_reserved_
          swap,      \* swap_positions_
          tracker,   \* both fill trackers: filled volume already applied, or 0
          told,      \* the last report pushed to the strategy under each id
          applied,   \* history: how much volume of each order was applied
          h          \* h[t]: where thread t is in HandleOrderUpdate

handlerVars == <<live, cids, book, swap, tracker, told, applied, h>>

Id       == Order \cup {NoId}
Position == Instrument \X {"NET", "LONG", "SHORT"}
Terminal == {"FILLED", "CANCELLED", "REJECTED"}
Status   == Terminal \cup {"NEW", "PARTIALLY_FILLED"}

IsSpot(o) == Terms[o].market = "SPOT"

(* The orders the engine keeps a reservation for. *)
Reserves(o) == IsSpot(o) /\ Locks(Terms[o], Terms[o].mode)

(* avg is the average price of all that was filled, fee that of the last fill. *)
Report == [order : Order, id : Id, mode : {"CASH", "CROSS", "ISOLATED"},
           status : Status, filled : Nat, avg : Nat, fee : Int]

FillReport(o, status, filled, avg, fee) ==
  [order |-> o, id |-> o, mode |-> Terms[o].mode, status |-> status, filled |-> filled,
   avg |-> avg, fee |-> fee]

(* Of a report that is not of a fill, price and fee are not looked at. *)
ChannelReport(o, status, filled) == FillReport(o, status, filled, 0, 0)

HandlerPc == {"idle", "live?", "cid?", "recover", "relive", "track",
              "release", "apply", "tell"}

HandlerInit == /\ live = {}
               /\ cids = {}
               /\ tracker = [o \in Order |-> 0]
               /\ told = [i \in Id |-> "none"]
               /\ applied = [o \in Order |-> 0]
               /\ h = [t \in Thread |-> [pc |-> "idle"]]

-----------------------------------------------------------------------------
Idle(t) == h[t].pc = "idle"
At(t, pc) == h[t].pc = pc
GoTo(t, pc) == h' = [h EXCEPT ![t].pc = pc]
Return(t)   == h' = [h EXCEPT ![t] = [pc |-> "idle"]]

(* Thread t calls HandleOrderUpdate(r, r.order). *)
Begin(t, r) ==
  /\ Idle(t)
  /\ h' = [h EXCEPT ![t] =
             [pc |-> IF r.status = "NEW" THEN "track" ELSE "live?", report |-> r]]

(* A report about an order whose NEW never came: apply that NEW first. *)
CheckLive(t) ==
  /\ At(t, "live?")
  /\ GoTo(t, IF h[t].report.id \in live THEN "track" ELSE "cid?")
  /\ UNCHANGED <<live, cids, book, swap, tracker, told, applied>>

CheckCid(t) ==
  /\ At(t, "cid?")
  /\ GoTo(t, IF h[t].report.order \in cids THEN "recover" ELSE "track")
  /\ UNCHANGED <<live, cids, book, swap, tracker, told, applied>>

RecoverBook(t) ==
  /\ At(t, "recover")
  /\ LET r == h[t].report IN
       book' = IF IsSpot(r.order) THEN UpdateSpotOnNew(book, Terms[r.order], r.mode) ELSE book
  /\ GoTo(t, "relive")
  /\ UNCHANGED <<live, cids, swap, tracker, told, applied>>

(* Mutant: the order recovered is taken for live under the id it was sent with. *)
RecoverLiveAsSent(t) ==
  /\ At(t, "relive")
  /\ live' = live \cup {h[t].report.order}
  /\ GoTo(t, "track")
  /\ UNCHANGED <<cids, book, swap, tracker, told, applied>>

RecoverLive(t) ==
  /\ At(t, "relive")
  /\ live' = live \cup {h[t].report.id}
  /\ GoTo(t, "track")
  /\ UNCHANGED <<cids, book, swap, tracker, told, applied>>

(* The table of live orders; a cancellation of an order not in it is dropped. *)
(* Mutant: the test of the table is the wrong way round. *)
DuplicateIfLive(r) == r.status = "CANCELLED" /\ r.id \in live
Duplicate(r) == r.status = "CANCELLED" /\ r.id \notin live

SkipDuplicate(t) ==
  /\ At(t, "track")
  /\ Duplicate(h[t].report)
  /\ Return(t)
  /\ UNCHANGED <<live, cids, book, swap, tracker, told, applied>>

(* Mutant: a partial fill ends the order like a full one. *)
TrackLiveUntilFill(live_, r) ==
  IF r.status = "NEW" THEN live_ \cup {r.id} ELSE live_ \ {r.id}

TrackLive(live_, r) ==
  IF r.status = "NEW" THEN live_ \cup {r.id}
  ELSE IF r.status \in Terminal THEN live_ \ {r.id}
  ELSE live_

Track(t) ==
  /\ At(t, "track")
  /\ LET r == h[t].report IN
       /\ ~Duplicate(r)
       /\ live' = TrackLive(live, r)
       /\ GoTo(t, IF r.status = "PARTIALLY_FILLED" THEN "apply" ELSE "release")
  /\ UNCHANGED <<cids, book, swap, tracker, told, applied>>

Release(t) ==
  /\ At(t, "release")
  /\ cids' = cids \ {h[t].report.order}
  /\ GoTo(t, "apply")
  /\ UNCHANGED <<live, book, swap, tracker, told, applied>>

(* The position manager: one method, one critical section. *)
Filling == {"FILLED", "PARTIALLY_FILLED"}

Increment(r) == r.filled - tracker[r.order]

ApplySpot(r) ==
  LET ord == Terms[r.order] IN
  CASE r.status = "NEW"       -> UpdateSpotOnNew(book, ord, r.mode)
    [] r.status = "CANCELLED" -> UpdateSpotOnCancel(book, ord, r.mode, r.filled)
    [] r.status = "REJECTED"  -> UpdateSpotOnRejected(book, ord, r.mode)
    [] OTHER -> UpdateSpotOnFill(book, ord, r.mode, Increment(r), r.avg, r.fee)

ApplySwap(r) ==
  IF r.status \in Filling
  THEN UpdateSwapOnFill(swap, Terms[r.order], Increment(r))
  ELSE swap

(* Mutants: a partial fill is not remembered, or as a fill of the whole order. *)
TrackFillAtEnd(r) ==
  IF r.status \in {"FILLED", "CANCELLED"} THEN [tracker EXCEPT ![r.order] = 0] ELSE tracker

TrackFillVolume(r) ==
  CASE r.status \in {"FILLED", "CANCELLED"} -> [tracker EXCEPT ![r.order] = 0]
    [] r.status = "PARTIALLY_FILLED" -> [tracker EXCEPT ![r.order] = Terms[r.order].volume]
    [] OTHER -> tracker

TrackFill(r) ==
  CASE r.status \in {"FILLED", "CANCELLED"} -> [tracker EXCEPT ![r.order] = 0]
    [] r.status = "PARTIALLY_FILLED" -> [tracker EXCEPT ![r.order] = r.filled]
    [] OTHER -> tracker

Apply(t) ==
  /\ At(t, "apply")
  /\ LET r == h[t].report IN
       /\ book' = IF IsSpot(r.order) THEN ApplySpot(r) ELSE book
       /\ swap' = IF IsSpot(r.order) THEN swap ELSE ApplySwap(r)
       /\ tracker' = TrackFill(r)
       /\ applied' = [applied EXCEPT ![r.order] =
                        IF r.status \in Filling THEN @ + AtLeast0(Increment(r)) ELSE @]
  /\ GoTo(t, "tell")
  /\ UNCHANGED <<live, cids, told>>

Tell(t) ==
  /\ At(t, "tell")
  /\ told' = [told EXCEPT ![h[t].report.id] = h[t].report.status]
  /\ Return(t)
  /\ UNCHANGED <<live, cids, book, swap, tracker, applied>>

HandlerStep(t) == \/ CheckLive(t) \/ CheckCid(t)
                  \/ RecoverBook(t) \/ RecoverLive(t)
                  \/ SkipDuplicate(t) \/ Track(t) \/ Release(t)
                  \/ Apply(t) \/ Tell(t)

-----------------------------------------------------------------------------
HandlerState ==
  [pc : {"idle"}] \cup [pc : HandlerPc \ {"idle"}, report : Report]

HandlerTypeOK == /\ live \subseteq Id
                 /\ cids \subseteq Order
                 /\ book \in Book(Currency)
                 /\ swap \in [Position -> Int]
                 /\ tracker \in [Order -> Nat]
                 /\ told \in [Id -> Status \cup {"none"}]
                 /\ applied \in [Order -> Nat]
                 /\ h \in [Thread -> HandlerState]
=============================================================================
