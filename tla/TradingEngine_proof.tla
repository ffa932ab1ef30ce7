------------------------- MODULE TradingEngine_proof -------------------------
(***************************************************************************)
(* Proofs about TradingEngine for every set of orders, terms, deposits and *)
(* every number of lost connections and failed calls, reconciler included: *)
(* what the methods of PositionManager keep, type correctness, and that    *)
(* what the engine believes and tells is what the exchange has done        *)
(* (EngineInv).                                                            *)
(***************************************************************************)
EXTENDS TradingEngine, SequenceTheorems, TLAPS

-----------------------------------------------------------------------------
(* The spot book, for all currencies, orders and amounts. *)

(* A price times a volume is an amount. *)
LEMMA ProductNat ==
  ASSUME NEW a \in Nat, NEW b \in Nat
  PROVE  a * b \in Nat
OBVIOUS

(* What an order locks is not negative. *)
LEMMA AmountNat ==
  ASSUME NEW Ccy, NEW ord \in SpotTerms(Ccy), NEW price \in Nat, NEW n \in Nat
  PROVE  Amount(ord, price, n) \in Nat
BY ProductNat DEF Amount

(* What an order earns is not negative. *)
LEMMA EarnedNat ==
  ASSUME NEW ord, NEW price \in Nat, NEW n \in Nat
  PROVE  Earned(ord, price, n) \in Nat
BY ProductNat DEF Earned

(* An average price is a price. *)
LEMMA AverageNat ==
  ASSUME NEW value \in Nat, NEW n \in Nat, n > 0
  PROVE  value \div n \in Nat
OBVIOUS

(* Of any number of units, negative ones too, it is an integer. *)
LEMMA AmountInt ==
  ASSUME NEW Ccy, NEW ord \in SpotTerms(Ccy), NEW price \in Nat, NEW n \in Int
  PROVE  Amount(ord, price, n) \in Int
BY DEF Amount

(* The fields of the terms of a spot order. *)
LEMMA TermsTypes ==
  ASSUME NEW Ccy, NEW ord \in SpotTerms(Ccy)
  PROVE  /\ ord.price \in Nat /\ ord.volume \in Nat /\ ord.volume > 0
         /\ ord.base \in Ccy /\ ord.quote \in Ccy
         /\ LockedCurrency(ord) \in Ccy /\ EarnedCurrency(ord) \in Ccy
         /\ ReportPrice(ord) \in Nat
BY DEF SpotTerms, LockedCurrency, EarnedCurrency, ReportPrice

(* Moving amounts between two columns keeps the book typed. *)
LEMMA MoveTyped ==
  ASSUME NEW Ccy, NEW b \in Book(Ccy), NEW c \in Ccy, NEW a \in Int, NEW f \in Int
  PROVE  Move(b, c, a, f) \in Book(Ccy)
BY DEF Move, Book

(* Giving back a reservation leaves no negative reservation. *)
LEMMA UnreserveTyped ==
  ASSUME NEW Ccy, NEW b \in Book(Ccy), NEW c \in Ccy, NEW amount \in Nat
  PROVE  Unreserve(b, c, amount) \in Book(Ccy)
BY DEF Unreserve, Book, AtLeast0

(* Each method leaves a book, whatever the book and the order. *)
LEMMA ReserveTyped ==
  ASSUME NEW Ccy, NEW b \in Book(Ccy), NEW ord \in SpotTerms(Ccy)
  PROVE  ReserveSpot(b, ord) \in Book(Ccy)
<1>1. Amount(ord, ord.price, ord.volume) \in Nat
  BY TermsTypes, AmountNat
<1> QED BY <1>1, TermsTypes DEF ReserveSpot, Book

(* UpdateSpotOnNew keeps the book typed. *)
LEMMA NewTyped ==
  ASSUME NEW Ccy, NEW b \in Book(Ccy), NEW ord \in SpotTerms(Ccy), NEW mode
  PROVE  UpdateSpotOnNew(b, ord, mode) \in Book(Ccy)
<1> DEFINE amount == Amount(ord, ReportPrice(ord), ord.volume)
<1>1. amount \in Nat /\ LockedCurrency(ord) \in Ccy
  BY TermsTypes, AmountNat
<1> HIDE DEF amount
<1>2. Unreserve(b, LockedCurrency(ord), amount) \in Book(Ccy)
  BY <1>1, UnreserveTyped
<1>3. Move(Unreserve(b, LockedCurrency(ord), amount), LockedCurrency(ord), -amount, amount)
        \in Book(Ccy)
  BY <1>1, <1>2, MoveTyped
<1> QED BY <1>3 DEF UpdateSpotOnNew, amount

(* UpdateSpotOnFill keeps the book typed, whatever the increment. *)
LEMMA FillTyped ==
  ASSUME NEW Ccy, NEW b \in Book(Ccy), NEW ord \in SpotTerms(Ccy), NEW mode, NEW n \in Int,
         NEW avg \in Nat, NEW fee \in Int
  PROVE  UpdateSpotOnFill(b, ord, mode, n, avg, fee) \in Book(Ccy)
<1> SUFFICES ASSUME n > 0 PROVE UpdateSpotOnFill(b, ord, mode, n, avg, fee) \in Book(Ccy)
  BY DEF UpdateSpotOnFill
<1> DEFINE paid == IF Locks(ord, mode) THEN Amount(ord, avg, n) ELSE 0
           left == Move(b, LockedCurrency(ord), 0, -paid)
           got  == Earned(ord, avg, n) + fee
<1>1. n \in Nat
  OBVIOUS
<1>2. paid \in Nat
  BY <1>1, AmountNat
<1>3. got \in Int /\ EarnedCurrency(ord) \in Ccy
  BY <1>1, EarnedNat, TermsTypes
<1> HIDE DEF paid, got
<1>4. left \in Book(Ccy)
  BY <1>2, TermsTypes, MoveTyped
<1> HIDE DEF left
<1>5. Move(left, EarnedCurrency(ord), got, 0) \in Book(Ccy)
  BY <1>3, <1>4, MoveTyped
<1> QED BY <1>5 DEF UpdateSpotOnFill, left, paid, got

(* UpdateSpotOnCancel keeps the book typed, whatever was filled. *)
LEMMA CancelTyped ==
  ASSUME NEW Ccy, NEW b \in Book(Ccy), NEW ord \in SpotTerms(Ccy), NEW mode, NEW filled \in Nat
  PROVE  UpdateSpotOnCancel(b, ord, mode, filled) \in Book(Ccy)
<1> DEFINE remaining == ord.volume - filled
           amount    == Amount(ord, ReportPrice(ord), remaining)
<1>1. CASE remaining > 0
  <2>1. remaining \in Nat
    BY <1>1, TermsTypes
  <2>2. amount \in Nat /\ LockedCurrency(ord) \in Ccy
    BY <2>1, TermsTypes, AmountNat
  <2> HIDE DEF amount
  <2>3. Move(b, LockedCurrency(ord), amount, -amount) \in Book(Ccy)
    BY <2>2, MoveTyped
  <2> QED BY <2>3 DEF UpdateSpotOnCancel, amount
<1> QED BY <1>1 DEF UpdateSpotOnCancel

(* UpdateSpotOnRejected keeps the book typed. *)
LEMMA RejectedTyped ==
  ASSUME NEW Ccy, NEW b \in Book(Ccy), NEW ord \in SpotTerms(Ccy), NEW mode
  PROVE  UpdateSpotOnRejected(b, ord, mode) \in Book(Ccy)
<1> DEFINE c      == LockedCurrency(ord)
           amount == Amount(ord, ReportPrice(ord), ord.volume)
<1>1. amount \in Nat /\ c \in Ccy
  BY TermsTypes, AmountNat
<1> HIDE DEF amount, c
<1>2. Move(b, c, amount, -amount) \in Book(Ccy)
  BY <1>1, MoveTyped
<1>3. Unreserve(b, c, amount) \in Book(Ccy)
  BY <1>1, UnreserveTyped
<1> QED BY <1>2, <1>3 DEF UpdateSpotOnRejected, c, amount

(* SyncSpotFromExchange keeps the book typed. *)
LEMMA SyncTyped ==
  ASSUME NEW Ccy, NEW b \in Book(Ccy), NEW c \in Ccy, NEW balance,
         balance.available \in Int, balance.frozen \in Int
  PROVE  SyncSpotFromExchange(b, c, balance) \in Book(Ccy)
BY DEF SyncSpotFromExchange, Book

-----------------------------------------------------------------------------
(* What belongs to the account in a currency, free or frozen. *)
Total(b, c) == b[c].available + b[c].frozen

(* An amount moved from one column to the other leaves their sum. *)
LEMMA MoveKeepsTotal ==
  ASSUME NEW Ccy, NEW b \in Book(Ccy), NEW c \in Ccy, NEW d \in Ccy, NEW a \in Int
  PROVE  Total(Move(b, c, a, -a), d) = Total(b, d)
BY DEF Move, Book, Total

(* Acceptance, cancellation and rejection of an order move money between free *)
(* and frozen and never make or destroy any: only fills and syncs change what *)
(* the account has (UpdateSpotOnNew, UpdateSpotOnCancel, UpdateSpotOnRejected).*)
THEOREM OnlyFillsChangeTotals ==
  ASSUME NEW Ccy, NEW b \in Book(Ccy), NEW ord \in SpotTerms(Ccy), NEW mode,
         NEW filled \in Nat, NEW d \in Ccy
  PROVE  /\ Total(UpdateSpotOnNew(b, ord, mode), d) = Total(b, d)
         /\ Total(UpdateSpotOnCancel(b, ord, mode, filled), d) = Total(b, d)
         /\ Total(UpdateSpotOnRejected(b, ord, mode), d) = Total(b, d)
<1> DEFINE c      == LockedCurrency(ord)
           amount == Amount(ord, ReportPrice(ord), ord.volume)
           freed  == Amount(ord, ReportPrice(ord), ord.volume - filled)
<1>0. amount \in Nat /\ c \in Ccy
  BY TermsTypes, AmountNat
<1>1. amount \in Int /\ amount \in Nat /\ c \in Ccy /\ -amount \in Int
  <2> HIDE DEF amount
  <2> QED BY <1>0
<1>2. Total(Unreserve(b, c, amount), d) = Total(b, d)
  <2> HIDE DEF amount, c
  <2> QED BY <1>1 DEF Total, Unreserve, Book
<1>3. Total(UpdateSpotOnNew(b, ord, mode), d) = Total(b, d)
  <2>1. Unreserve(b, c, amount) \in Book(Ccy)
    BY <1>1, UnreserveTyped
  <2>2. Total(Move(Unreserve(b, c, amount), c, -amount, -(-amount)), d)
          = Total(Unreserve(b, c, amount), d)
    <3> HIDE DEF amount, c
    <3> QED BY <1>1, <2>1, MoveKeepsTotal
  <2>3. -(-amount) = amount
    BY <1>1
  <2> QED BY <1>2, <2>2, <2>3 DEF UpdateSpotOnNew
<1>4. Total(UpdateSpotOnCancel(b, ord, mode, filled), d) = Total(b, d)
  <2>1. CASE ord.volume - filled > 0
    <3>1. ord.volume - filled \in Nat
      BY <2>1, TermsTypes
    <3>2. freed \in Int
      BY <3>1, TermsTypes, AmountNat
    <3> QED BY <1>1, <3>2, MoveKeepsTotal DEF UpdateSpotOnCancel
  <2> QED BY <2>1 DEF UpdateSpotOnCancel
<1>5. Total(UpdateSpotOnRejected(b, ord, mode), d) = Total(b, d)
  BY <1>1, <1>2, MoveKeepsTotal DEF UpdateSpotOnRejected
<1> QED BY <1>3, <1>4, <1>5

(* Confirming a reserved limit order changes nothing the strategy may spend:   *)
(* the amount leaves the reservation and the free balance at the same time.    *)
THEOREM ConfirmationKeepsEffective ==
  ASSUME NEW Ccy, NEW b \in Book(Ccy), NEW ord \in SpotTerms(Ccy), NEW mode,
         NEW d \in Ccy, ord.type = "LIMIT",
         b[LockedCurrency(ord)].reserved >= Amount(ord, ord.price, ord.volume)
  PROVE  Effective(UpdateSpotOnNew(b, ord, mode), d) = Effective(b, d)
<1> DEFINE c      == LockedCurrency(ord)
           amount == Amount(ord, ord.price, ord.volume)
<1>1. amount \in Nat /\ c \in Ccy /\ amount = Amount(ord, ReportPrice(ord), ord.volume)
  BY TermsTypes, AmountNat DEF ReportPrice
<1>2. b[c].reserved >= amount
  OBVIOUS
<1> HIDE DEF amount, c
<1>3. Effective(Move(Unreserve(b, c, amount), c, -amount, amount), d) = Effective(b, d)
  BY <1>1, <1>2 DEF Effective, Move, Unreserve, Book, AtLeast0
<1> QED BY <1>1, <1>3 DEF UpdateSpotOnNew, c

-----------------------------------------------------------------------------
(* Types: orders and reports. *)

(* Spot orders have spot terms, the others swap terms. *)
LEMMA TermsSplit ==
  ASSUME NEW o \in Order
  PROVE  /\ IsSpot(o) => Terms[o] \in SpotTerms(Currency)
         /\ ~IsSpot(o) => Terms[o] \in SwapTerms(Instrument)
         /\ Terms[o].mode \in {"CASH", "CROSS", "ISOLATED"}
         /\ Terms[o].volume \in Nat
BY TermsAssumption DEF IsSpot, SpotTerms, SwapTerms

(* A position order moves a position the engine has. *)
LEMMA KeyTyped ==
  ASSUME NEW o \in Order, ~IsSpot(o)
  PROVE  PositionKey(Terms[o]) \in Position
<1>1. Terms[o] \in SwapTerms(Instrument)
  BY TermsSplit
<1> QED BY <1>1 DEF SwapTerms, PositionKey, Position

(* What the order channel and REST say of an order is a report. *)
LEMMA FillReportTyped ==
  ASSUME NEW o \in Order, NEW status \in Status, NEW filled \in Nat, NEW avg \in Nat, NEW fee \in Int
  PROVE  FillReport(o, status, filled, avg, fee) \in Report
<1>1. Terms[o].mode \in {"CASH", "CROSS", "ISOLATED"}
  BY TermsSplit
<1> QED BY <1>1 DEF FillReport, Report, Id

(* And so is one that is not of a fill. *)
LEMMA ChannelReportTyped ==
  ASSUME NEW o \in Order, NEW status \in Status, NEW filled \in Nat
  PROVE  ChannelReport(o, status, filled) \in Report
BY FillReportTyped DEF ChannelReport

(* What is offered to an order has a price and a fee. *)
LEMMA OfferedTyped ==
  ASSUME NEW o \in Order, NEW d \in Offered(o)
  PROVE  d \in Deal /\ d.price \in Nat /\ d.fee \in Int
<1>1. CASE IsSpot(o)
  BY <1>1, DealsAssumption DEF Offered, Deal
<1>2. CASE ~IsSpot(o)
  <2>1. Terms[o].price \in Nat
    BY <1>2, TermsSplit DEF SwapTerms
  <2> QED BY <1>2, <2>1 DEF Offered, Deal
<1> QED BY <1>1, <1>2

(* Taking the fill of a report leaves the positions typed. *)
LEMMA SwapFillTyped ==
  ASSUME NEW s \in [Position -> Int], NEW o \in Order, ~IsSpot(o), NEW n \in Int
  PROVE  UpdateSwapOnFill(s, Terms[o], n) \in [Position -> Int]
<1>1. PositionKey(Terms[o]) \in Position
  BY KeyTyped
<1> HIDE DEF Position
<1> QED BY <1>1 DEF UpdateSwapOnFill

-----------------------------------------------------------------------------
(* Types: HandleOrderUpdate. *)

(* A thread inside the function has the report it was called with. *)
LEMMA ReportOf ==
  ASSUME HandlerTypeOK, NEW t \in Thread, ~Idle(t)
  PROVE  /\ h[t] \in [pc : HandlerPc \ {"idle"}, report : Report]
         /\ h[t].report \in Report
         /\ h[t].report.order \in Order
         /\ h[t].report.id \in Id
         /\ h[t].report.status \in Status
         /\ h[t].report.filled \in Nat
         /\ h[t].report.avg \in Nat /\ h[t].report.fee \in Int
BY DEF HandlerTypeOK, HandlerState, Idle, Report

(* Where the function goes next is a place of the function. *)
LEMMA GoToTyped ==
  ASSUME HandlerTypeOK, NEW t \in Thread, ~Idle(t),
         NEW pc \in HandlerPc \ {"idle"}, GoTo(t, pc)
  PROVE  h' \in [Thread -> HandlerState]
<1>1. h[t] \in [pc : HandlerPc \ {"idle"}, report : Report]
  BY ReportOf
<1>2. h \in [Thread -> HandlerState]
  BY DEF HandlerTypeOK
<1>3. [h[t] EXCEPT !.pc = pc] \in HandlerState
  BY <1>1 DEF HandlerState
<1>4. h' = [h EXCEPT ![t] = [h[t] EXCEPT !.pc = pc]]
  BY <1>2 DEF GoTo
<1> QED BY <1>2, <1>3, <1>4

(* A thread that returns from the function is idle. *)
LEMMA ReturnTyped ==
  ASSUME HandlerTypeOK, NEW t \in Thread, Return(t)
  PROVE  h' \in [Thread -> HandlerState]
BY DEF HandlerTypeOK, HandlerState, Return

(* A thread that calls the function has a report. *)
LEMMA BeginTyped ==
  ASSUME HandlerTypeOK, NEW t \in Thread, NEW r \in Report, Begin(t, r)
  PROVE  h' \in [Thread -> HandlerState]
BY DEF HandlerTypeOK, HandlerState, HandlerPc, Begin

(* What the position manager does with a report leaves the books typed. *)
LEMMA ApplyTyped ==
  ASSUME HandlerTypeOK, NEW r \in Report
  PROVE  /\ IsSpot(r.order) => ApplySpot(r) \in Book(Currency)
         /\ ~IsSpot(r.order) => ApplySwap(r) \in [Position -> Int]
         /\ TrackFill(r) \in [Order -> Nat]
         /\ Increment(r) \in Int
<1> DEFINE ord == Terms[r.order]
<1>1. /\ r.order \in Order /\ r.filled \in Nat /\ r.status \in Status
      /\ r.avg \in Nat /\ r.fee \in Int
  BY DEF Report
<1>2. Increment(r) \in Int /\ TrackFill(r) \in [Order -> Nat]
  BY <1>1 DEF HandlerTypeOK, Increment, TrackFill, Status, Terminal
<1>3. ASSUME IsSpot(r.order) PROVE ApplySpot(r) \in Book(Currency)
  <2>1. ord \in SpotTerms(Currency) /\ book \in Book(Currency)
    BY <1>1, <1>3, TermsSplit DEF HandlerTypeOK
  <2> HIDE DEF ord
  <2>2. /\ UpdateSpotOnNew(book, ord, r.mode) \in Book(Currency)
        /\ UpdateSpotOnCancel(book, ord, r.mode, r.filled) \in Book(Currency)
        /\ UpdateSpotOnRejected(book, ord, r.mode) \in Book(Currency)
        /\ UpdateSpotOnFill(book, ord, r.mode, Increment(r), r.avg, r.fee) \in Book(Currency)
    BY <1>1, <1>2, <2>1, NewTyped, CancelTyped, RejectedTyped, FillTyped
  <2> QED BY <1>1, <2>2 DEF ApplySpot, ord, Status, Terminal
<1>4. ASSUME ~IsSpot(r.order) PROVE ApplySwap(r) \in [Position -> Int]
  <2>1. swap \in [Position -> Int]
    BY DEF HandlerTypeOK
  <2>2. UpdateSwapOnFill(swap, ord, Increment(r)) \in [Position -> Int]
    BY <1>1, <1>2, <1>4, <2>1, SwapFillTyped
  <2> QED BY <2>1, <2>2 DEF ApplySwap
<1> QED BY <1>2, <1>3, <1>4

(* Every step of HandleOrderUpdate keeps the engine's tables typed. *)
LEMMA HandlerTyped ==
  ASSUME HandlerTypeOK, NEW t \in Thread, HandlerStep(t)
  PROVE  HandlerTypeOK'
<1> USE DEF HandlerTypeOK
<1> DEFINE r == h[t].report
<1>0. ~Idle(t)
  BY DEF HandlerStep, CheckLive, CheckCid, RecoverBook, RecoverLive, SkipDuplicate, Track,
         Release, Apply, Tell, At, Idle
<1>1. /\ r \in Report /\ r.order \in Order /\ r.id \in Id
      /\ r.status \in Status /\ r.filled \in Nat
  BY <1>0, ReportOf
<1>2. ASSUME NEW pc \in HandlerPc \ {"idle"}, GoTo(t, pc)
      PROVE  h' \in [Thread -> HandlerState]
  BY <1>0, <1>2, GoToTyped
<1>3. CASE CheckLive(t)
  <2>1. (IF r.id \in live THEN "track" ELSE "cid?") \in HandlerPc \ {"idle"}
    BY DEF HandlerPc
  <2> QED BY <1>2, <1>3, <2>1 DEF CheckLive
<1>4. CASE CheckCid(t)
  <2>1. (IF r.order \in cids THEN "recover" ELSE "track") \in HandlerPc \ {"idle"}
    BY DEF HandlerPc
  <2> QED BY <1>2, <1>4, <2>1 DEF CheckCid
<1>5. CASE RecoverBook(t)
  <2>1. IsSpot(r.order) => UpdateSpotOnNew(book, Terms[r.order], r.mode) \in Book(Currency)
    BY <1>1, TermsSplit, NewTyped
  <2>2. book' \in Book(Currency)
    BY <1>5, <2>1 DEF RecoverBook
  <2>3. "relive" \in HandlerPc \ {"idle"}
    BY DEF HandlerPc
  <2> QED BY <1>2, <1>5, <2>2, <2>3 DEF RecoverBook
<1>6. CASE RecoverLive(t)
  <2>1. "track" \in HandlerPc \ {"idle"}
    BY DEF HandlerPc
  <2> QED BY <1>1, <1>2, <1>6, <2>1 DEF RecoverLive
<1>7. CASE SkipDuplicate(t)
  BY <1>7, ReturnTyped DEF SkipDuplicate
<1>8. CASE Track(t)
  <2>1. (IF r.status = "PARTIALLY_FILLED" THEN "apply" ELSE "release") \in HandlerPc \ {"idle"}
    BY DEF HandlerPc
  <2>2. live' \subseteq Id
    BY <1>1, <1>8 DEF Track, TrackLive
  <2> QED BY <1>2, <1>8, <2>1, <2>2 DEF Track
<1>9. CASE Release(t)
  <2>1. "apply" \in HandlerPc \ {"idle"}
    BY DEF HandlerPc
  <2> QED BY <1>2, <1>9, <2>1 DEF Release
<1>10. CASE Apply(t)
  <2>1. "tell" \in HandlerPc \ {"idle"}
    BY DEF HandlerPc
  <2>2. h' \in [Thread -> HandlerState]
    BY <1>2, <1>10, <2>1 DEF Apply
  <2>3. /\ IsSpot(r.order) => ApplySpot(r) \in Book(Currency)
        /\ ~IsSpot(r.order) => ApplySwap(r) \in [Position -> Int]
        /\ TrackFill(r) \in [Order -> Nat]
        /\ Increment(r) \in Int
    BY <1>1, ApplyTyped
  <2>4. book' \in Book(Currency) /\ swap' \in [Position -> Int] /\ tracker' \in [Order -> Nat]
    BY <1>10, <2>3 DEF Apply
  <2>5. applied' \in [Order -> Nat]
    BY <1>1, <1>10, <2>3 DEF Apply, AtLeast0
  <2>6. UNCHANGED <<live, cids, told>>
    BY <1>10 DEF Apply
  <2> QED BY <2>2, <2>4, <2>5, <2>6
<1>11. CASE Tell(t)
  <2>1. told' \in [Id -> Status \cup {"none"}]
    BY <1>1, <1>11 DEF Tell
  <2>2. h' \in [Thread -> HandlerState]
    BY <1>11, ReturnTyped DEF Tell
  <2> QED BY <1>11, <2>1, <2>2 DEF Tell
<1> QED BY <1>3, <1>4, <1>5, <1>6, <1>7, <1>8, <1>9, <1>10, <1>11 DEF HandlerStep

-----------------------------------------------------------------------------
(* Types: the rest of the engine. *)

(* The two threads of the engine. *)
LEMMA ThreadsTyped == Listener \in Thread /\ Reconciler \in Thread
BY ThreadAssumption

(* What a queue gives and what it is left with. *)
LEMMA QueueTyped ==
  ASSUME NEW S, NEW q \in Seq(S), q # <<>>
  PROVE  Head(q) \in S /\ Tail(q) \in Seq(S)
BY HeadTailProperties

(* A report put in the inbox, or lost with the connection. *)
LEMMA NotifyTyped ==
  ASSUME inbox \in Seq(Report), NEW channel, NEW r \in Report, Notify(channel, r)
  PROVE  inbox' \in Seq(Report)
BY AppendProperties DEF Notify

(* What an order asks for is an amount in a currency. *)
LEMMA AskedTyped ==
  ASSUME NEW o \in Order, Reserves(o)
  PROVE  /\ Terms[o] \in SpotTerms(Currency)
         /\ Asked(o) \in Nat
         /\ LockedCurrency(Terms[o]) \in Currency
<1>1. Terms[o] \in SpotTerms(Currency)
  BY TermsSplit DEF Reserves
<1>2. Terms[o].price \in Nat /\ Terms[o].volume \in Nat /\ LockedCurrency(Terms[o]) \in Currency
  BY <1>1, TermsTypes
<1> QED BY <1>1, <1>2, AmountNat DEF Asked

(* Freezing an amount, or thawing a negative one, keeps balances typed. *)
LEMMA FreezeTyped ==
  ASSUME wallet \in [Currency -> [available : Int, frozen : Int]],
         NEW c \in Currency, NEW amount \in Int, Freeze(c, amount)
  PROVE  wallet' \in [Currency -> [available : Int, frozen : Int]]
<1> DEFINE once == [wallet EXCEPT ![c].available = @ - amount]
<1>1. once \in [Currency -> [available : Int, frozen : Int]]
  OBVIOUS
<1>2. wallet' = [once EXCEPT ![c].frozen = @ + amount]
  BY DEF Freeze
<1> HIDE DEF once
<1> QED BY <1>1, <1>2

(* The strategy and the dispatcher. *)
LEMMA EmitTyped ==
  ASSUME TypeOK, NEW o \in Order, Emit(o)
  PROVE  TypeOK'
<1>1. book' \in Book(Currency)
  BY AskedTyped, ReserveTyped DEF TypeOK, HandlerTypeOK, Emit
<1>2. signals' \in Seq(Order)
  BY AppendProperties DEF TypeOK, Emit
<1> QED BY <1>1, <1>2 DEF TypeOK, HandlerTypeOK, Emit, RecTypeOK, exchangeVars, channelVars, accountVars, recVars

(* RunOrderDispatcher takes a signal. *)
LEMMA DispatchTyped ==
  ASSUME TypeOK, Dispatch
  PROVE  TypeOK'
<1>1. Head(signals) \in Order /\ Tail(signals) \in Seq(Order)
  BY QueueTyped DEF TypeOK, Dispatch
<1> QED BY <1>1 DEF TypeOK, HandlerTypeOK, Dispatch, RecTypeOK, exchangeVars, channelVars, accountVars, recVars

(* RunOrderDispatcher sends the order, or loses it. *)
LEMMA SendTyped ==
  ASSUME TypeOK, Send
  PROVE  TypeOK'
<1>1. wire' \in Seq(Order)
  BY AppendProperties DEF TypeOK, Send
<1> QED BY <1>1 DEF TypeOK, HandlerTypeOK, Send, RecTypeOK, accountVars, handlerVars, strategyVars,
                    exchangeVars, recVars

(* The exchange. *)
LEMMA AcceptTyped ==
  ASSUME TypeOK, Accept
  PROVE  TypeOK'
<1> DEFINE o == Head(wire)
<1>1. o \in Order /\ Tail(wire) \in Seq(Order)
  BY QueueTyped DEF TypeOK, Accept
<1>2. wallet' \in [Currency -> [available : Int, frozen : Int]]
  <2>1. wallet \in [Currency -> [available : Int, frozen : Int]]
    BY DEF TypeOK
  <2>2. IF Reserves(o) THEN Freeze(LockedCurrency(Terms[o]), Asked(o)) ELSE UNCHANGED wallet
    BY DEF Accept
  <2> QED BY <1>1, <2>1, <2>2, AskedTyped, FreezeTyped
<1>3. inbox' \in Seq(Report)
  BY <1>1, ChannelReportTyped, NotifyTyped DEF TypeOK, Accept, Status
<1>4. exch' \in [Order -> [st : ExchState, filled : Nat, value : Nat, fee : Int, deals : SUBSET Deal]]
  BY <1>1 DEF TypeOK, Accept, ExchState
<1> QED BY <1>1, <1>2, <1>3, <1>4
        DEF TypeOK, HandlerTypeOK, Accept, RecTypeOK, accountVars, handlerVars, strategyVars, recVars

(* The report made of a refusal. *)
LEMMA RefusalTyped ==
  ASSUME NEW o \in Order, NEW r,
         r = [ChannelReport(o, "REJECTED", 0) EXCEPT !.id = NoId, !.mode = "CASH"]
  PROVE  /\ r \in Report
         /\ r.order = o /\ r.id = NoId /\ r.mode = "CASH" /\ r.status = "REJECTED" /\ r.filled = 0
<1>1. ChannelReport(o, "REJECTED", 0) \in Report
  BY ChannelReportTyped DEF Status, Terminal
<1> QED BY <1>1 DEF Report, Id, ChannelReport, FillReport

(* The exchange refuses an order. *)
LEMMA RefuseTyped ==
  ASSUME TypeOK, Refuse
  PROVE  TypeOK'
<1> DEFINE o == Head(wire)
           r == [ChannelReport(o, "REJECTED", 0) EXCEPT !.id = NoId, !.mode = "CASH"]
<1>1. o \in Order /\ Tail(wire) \in Seq(Order)
  BY QueueTyped DEF TypeOK, Refuse
<1>2. r \in Report
  BY <1>1, RefusalTyped
<1>3. inbox' \in Seq(Report)
  BY <1>2, NotifyTyped DEF TypeOK, Refuse
<1>4. exch' \in [Order -> [st : ExchState, filled : Nat, value : Nat, fee : Int, deals : SUBSET Deal]]
  BY <1>1 DEF TypeOK, Refuse, ExchState
<1> QED BY <1>1, <1>3, <1>4
        DEF TypeOK, HandlerTypeOK, Refuse, RecTypeOK, accountVars, handlerVars, strategyVars, recVars

(* A credit changes two columns of one currency. *)
LEMMA CreditIs ==
  ASSUME NEW Ccy, NEW w \in [Ccy -> [available : Int, frozen : Int]],
         NEW c \in Ccy, NEW a \in Int, NEW f \in Int
  PROVE  /\ Credit(w, c, a, f) \in [Ccy -> [available : Int, frozen : Int]]
         /\ \A x \in Ccy :
              /\ Credit(w, c, a, f)[x].available = w[x].available + (IF x = c THEN a ELSE 0)
              /\ Credit(w, c, a, f)[x].frozen = w[x].frozen + (IF x = c THEN f ELSE 0)
BY DEF Credit

(* A settlement leaves balances. *)
LEMMA SettleTyped ==
  ASSUME NEW o \in Order, Terms[o] \in SpotTerms(Currency), NEW n \in Nat,
         NEW d \in Deal, d.price \in Nat, d.fee \in Int, Settle(o, n, d),
         wallet \in [Currency -> [available : Int, frozen : Int]]
  PROVE  wallet' \in [Currency -> [available : Int, frozen : Int]]
<1> DEFINE free == IF Reserves(o) THEN Amount(Terms[o], Terms[o].price, n) ELSE 0
           cost == IF Reserves(o) THEN Amount(Terms[o], d.price, n) ELSE 0
           got  == Earned(Terms[o], d.price, n) + d.fee
           paid == Credit(wallet, LockedCurrency(Terms[o]), free - cost, -free)
<1>1. /\ Terms[o].price \in Nat
      /\ LockedCurrency(Terms[o]) \in Currency /\ EarnedCurrency(Terms[o]) \in Currency
  BY TermsTypes
<1>2. free \in Nat /\ cost \in Nat
  BY <1>1, AmountNat
<1>3. got \in Int
  BY EarnedNat
<1>4. wallet' = Credit(paid, EarnedCurrency(Terms[o]), got, 0)
  BY DEF Settle
<1> HIDE DEF free, cost, got
<1>5. paid \in [Currency -> [available : Int, frozen : Int]]
  <2>1. free - cost \in Int /\ -free \in Int
    BY <1>2
  <2> QED BY <1>1, <2>1, CreditIs
<1> HIDE DEF paid
<1> QED BY <1>1, <1>3, <1>4, <1>5, CreditIs

(* The exchange matches an order, on spot or on swap. *)
LEMMA TradeTyped ==
  ASSUME TypeOK, NEW o \in Order, NEW n \in 1 .. Terms[o].volume, NEW d \in Offered(o), Trade(o, n, d)
  PROVE  TypeOK'
<1> DEFINE filled == exch[o].filled + n
           done   == filled = Terms[o].volume
<1>1. n \in Nat /\ filled \in Nat
  <2>1. Terms[o].volume \in Nat
    BY TermsSplit
  <2>2. exch[o].filled \in Nat
    BY DEF TypeOK
  <2>3. n \in Nat
    BY <2>1
  <2> QED BY <2>2, <2>3
<1> DEFINE value == exch[o].value + d.price * n
<1>a. /\ d \in Deal /\ d.price \in Nat /\ d.fee \in Int /\ n > 0
      /\ exch[o].value \in Nat /\ exch[o].fee \in Int /\ exch[o].deals \in SUBSET Deal
  BY OfferedTyped DEF TypeOK
<1>b. value \in Nat
  BY <1>1, <1>a, ProductNat
<1> HIDE DEF value
<1>2. exch' \in [Order -> [st : ExchState, filled : Nat, value : Nat, fee : Int, deals : SUBSET Deal]]
  <2> DEFINE e == [st |-> IF done THEN "filled" ELSE "open", filled |-> filled, value |-> value,
                   fee |-> exch[o].fee + d.fee, deals |-> exch[o].deals \cup {d}]
  <2>1. e \in [st : ExchState, filled : Nat, value : Nat, fee : Int, deals : SUBSET Deal]
    BY <1>1, <1>a, <1>b DEF ExchState
  <2>2. exch' = [exch EXCEPT ![o] = e]
    BY DEF Trade, TypeOK, value
  <2> HIDE DEF e
  <2> QED BY <2>1, <2>2 DEF TypeOK
<1>3. inbox' \in Seq(Report)
  <2>1. (IF done THEN "FILLED" ELSE "PARTIALLY_FILLED") \in Status
    BY DEF Status, Terminal
  <2>2. value \div filled \in Nat
    <3>1. filled > 0
      <4>1. exch[o].filled \in Nat
        BY DEF TypeOK
      <4> QED BY <1>1, <1>a, <4>1
    <3> HIDE DEF filled
    <3> QED BY <1>1, <1>b, <3>1, AverageNat
  <2>3. FillReport(o, IF done THEN "FILLED" ELSE "PARTIALLY_FILLED", filled, value \div filled, d.fee)
          \in Report
    BY <1>1, <1>a, <2>1, <2>2, FillReportTyped
  <2> QED BY <2>3, NotifyTyped DEF TypeOK, Trade, value
<1>4. CASE IsSpot(o)
  <2>1. Terms[o] \in SpotTerms(Currency)
    BY <1>4, TermsSplit
  <2>2. Settle(o, n, d) /\ holding' = holding
    BY <1>4 DEF Trade
  <2>6. wallet' \in [Currency -> [available : Int, frozen : Int]]
    BY <1>1, <1>a, <2>1, <2>2, SettleTyped DEF TypeOK
  <2>7. holding' = holding
    BY <2>2
  <2> QED BY <1>2, <1>3, <2>6, <2>7
          DEF TypeOK, HandlerTypeOK, Trade, RecTypeOK, accountVars, handlerVars, strategyVars, recVars
<1>5. CASE ~IsSpot(o)
  <2>1. PositionKey(Terms[o]) \in Position
    BY <1>5, KeyTyped
  <2>2. holding' \in [Position -> Int] /\ wallet' = wallet
    BY <1>1, <1>5, <2>1 DEF TypeOK, Trade
  <2> QED BY <1>2, <1>3, <2>2
          DEF TypeOK, HandlerTypeOK, Trade, RecTypeOK, accountVars, handlerVars, strategyVars, recVars
<1> QED BY <1>4, <1>5

(* The exchange cancels an order. *)
LEMMA CancelStepTyped ==
  ASSUME TypeOK, NEW o \in Order, Cancel(o)
  PROVE  TypeOK'
<1>1. exch' \in [Order -> [st : ExchState, filled : Nat, value : Nat, fee : Int, deals : SUBSET Deal]]
  BY DEF TypeOK, Cancel, ExchState
<1>2. inbox' \in Seq(Report)
  BY ChannelReportTyped, NotifyTyped DEF TypeOK, Cancel, Status, Terminal
<1>3. wallet' \in [Currency -> [available : Int, frozen : Int]]
  <2>1. CASE Reserves(o)
    <3> DEFINE left == Terms[o].volume - exch[o].filled
    <3>1. left \in Int
      BY TermsSplit DEF TypeOK
    <3>2. Amount(Terms[o], Terms[o].price, left) \in Int
      <4> HIDE DEF left
      <4> QED BY <2>1, <3>1, AskedTyped, TermsTypes, AmountInt
    <3> QED BY <2>1, <3>2, AskedTyped, FreezeTyped DEF TypeOK, Cancel
  <2> QED BY <2>1 DEF TypeOK, Cancel
<1> QED BY <1>1, <1>2, <1>3
        DEF TypeOK, HandlerTypeOK, Cancel, RecTypeOK, accountVars, handlerVars, strategyVars, recVars

(* The connection and the listener. *)
LEMMA ChannelTyped ==
  ASSUME TypeOK, Drop \/ Reconnect
  PROVE  TypeOK'
<1>1. CASE Drop
  <2>1. wire' \in Seq(Order) /\ inbox' \in Seq(Report) /\ account' \in Seq(Balance)
    BY <1>1, EmptySeq DEF Drop
  <2>2. drops' \in 0 .. MaxDrops
    BY <1>1, BoundsAssumption DEF Drop, TypeOK
  <2> QED BY <1>1, <2>1, <2>2
          DEF TypeOK, HandlerTypeOK, Drop, RecTypeOK, accountVars, handlerVars, strategyVars, exchangeVars, recVars
<1>2. CASE Reconnect
  BY <1>2 DEF TypeOK, HandlerTypeOK, Reconnect, RecTypeOK, accountVars, handlerVars, strategyVars,
              exchangeVars, recVars
<1> QED BY <1>1, <1>2

(* The listener takes the next report. *)
LEMMA ReceiveTyped ==
  ASSUME TypeOK, Receive
  PROVE  TypeOK'
<1>1. Head(inbox) \in Report /\ Tail(inbox) \in Seq(Report)
  BY QueueTyped DEF TypeOK, Receive
<1>2. h' \in [Thread -> HandlerState]
  BY <1>1, ThreadsTyped, BeginTyped DEF TypeOK, Receive
<1> QED BY <1>1, <1>2 DEF TypeOK, HandlerTypeOK, Receive, RecTypeOK, accountVars, strategyVars, exchangeVars, recVars

(* The account channel. *)
LEMMA PushTyped ==
  ASSUME TypeOK, NEW c \in Currency, PushBalance(c)
  PROVE  TypeOK'
<1>1. BalanceOf(c) \in Balance
  BY DEF TypeOK, BalanceOf, Balance
<1>2. account' \in Seq(Balance)
  BY <1>1, AppendProperties DEF TypeOK, PushBalance
<1>3. pushes' \in 0 .. MaxPushes
  BY BoundsAssumption DEF TypeOK, PushBalance
<1> QED BY <1>2, <1>3 DEF TypeOK, HandlerTypeOK, PushBalance, RecTypeOK, handlerVars, strategyVars,
                          exchangeVars, recVars

(* The listener takes the next balance. *)
LEMMA ApplyBalanceTyped ==
  ASSUME TypeOK, ApplyBalance
  PROVE  TypeOK'
<1> DEFINE b == Head(account)
<1>1. b \in Balance /\ Tail(account) \in Seq(Balance)
  BY QueueTyped DEF TypeOK, ApplyBalance
<1>2. book' \in Book(Currency)
  <2>1. b.currency \in Currency /\ b.available \in Int /\ b.frozen \in Int
    BY <1>1 DEF Balance
  <2>2. book \in Book(Currency) /\ book' = SyncSpotFromExchange(book, b.currency, b)
    BY DEF TypeOK, HandlerTypeOK, ApplyBalance
  <2> HIDE DEF b
  <2> QED BY <2>1, <2>2, SyncTyped
<1> QED BY <1>1, <1>2 DEF TypeOK, HandlerTypeOK, ApplyBalance, RecTypeOK, strategyVars,
                          exchangeVars, recVars

(* A step of HandleOrderUpdate, by either thread. *)
LEMMA HandleTyped ==
  ASSUME TypeOK, NEW t \in Thread, Handle(t)
  PROVE  TypeOK'
<1>1. HandlerTypeOK'
  BY HandlerTyped DEF TypeOK, Handle
<1> QED BY <1>1 DEF TypeOK, Handle, RecTypeOK, strategyVars, exchangeVars, channelVars, accountVars, recVars

(* The reconciler. *)

(* What REST shows of the pending orders, balances and positions. *)
LEMMA AnswersTyped ==
  ASSUME TypeOK
  PROVE  /\ \A market : NowPending(market) \subseteq PendingOrder
         /\ NowBalances \subseteq Balance
         /\ NowPositions \subseteq Contracts
BY DEF TypeOK, NowPending, PendingOrder, NowBalances, BalanceOf, Balance, NowPositions, Contracts

(* A failed call is counted, a complete one is not. *)
LEMMA FailuresTyped ==
  ASSUME TypeOK, Complete \/ Failed
  PROVE  failures' \in 0 .. MaxFailures
BY BoundsAssumption DEF TypeOK, Complete, Failed

(* A step that only advances the reconciler's loop. *)
LEMMA LoopTyped ==
  ASSUME TypeOK, KeepAllButRec, failures' \in 0 .. MaxFailures, RecTypeOK'
  PROVE  TypeOK'
BY DEF TypeOK, HandlerTypeOK, KeepAllButRec, handlerVars, strategyVars, exchangeVars, channelVars, accountVars

(* A step that calls HandleOrderUpdate. *)
LEMMA ReplayTyped ==
  ASSUME TypeOK, NEW r \in Report, Begin(Reconciler, r), RecTypeOK',
         UNCHANGED <<live, cids, book, swap, tracker, told, applied, strategyVars, hand,
                     exchangeVars, channelVars, failures>>
  PROVE  TypeOK'
<1>1. h' \in [Thread -> HandlerState]
  BY ThreadsTyped, BeginTyped DEF TypeOK
<1> QED BY <1>1 DEF TypeOK, HandlerTypeOK, strategyVars, exchangeVars, channelVars, accountVars

(* What REST says of an order that has ended is a report. *)
LEMMA EndReportTyped ==
  ASSUME TypeOK, NEW o \in Order, ReportedStatus(o) \in Status
  PROVE  EndReport(o) \in Report
<1>1. exch[o].filled \in Nat /\ exch[o].value \in Nat /\ exch[o].fee \in Int
  BY DEF TypeOK
<1>2. Average(o) \in Nat
  BY <1>1, AverageNat DEF Average
<1> QED BY <1>1, <1>2, FillReportTyped DEF EndReport

(* A step of a round of the reconciler. *)
LEMMA RoundTyped ==
  ASSUME TypeOK, RoundStep
  PROVE  TypeOK'
<1> USE DEF RecTypeOK
<1>0. /\ rec \in [pc : RecPc, pending : SUBSET PendingOrder, orphans : SUBSET Id, cids : SUBSET Order,
                 balances : SUBSET Balance, positions : SUBSET Contracts]
      /\ failures \in 0 .. MaxFailures
      /\ live \subseteq Id /\ cids \subseteq Order
  BY DEF TypeOK, HandlerTypeOK
<1>1. CASE QuerySpotPending
  <2>1. PICK page \in SUBSET NowPending("SPOT") :
          /\ Complete \/ Failed
          /\ rec' = [rec EXCEPT !.pc = "swaps", !.pending = page]
    BY <1>1 DEF QuerySpotPending
  <2>2. RecTypeOK'
    BY <1>0, <2>1, AnswersTyped DEF RecPc
  <2> QED BY <1>1, <2>1, <2>2, FailuresTyped, LoopTyped DEF QuerySpotPending
<1>2. CASE QuerySwapPending
  <2>1. PICK page \in SUBSET NowPending("SWAP") :
          /\ Complete \/ Failed
          /\ rec' = [rec EXCEPT !.pc = "orphans", !.pending = @ \cup page]
    BY <1>2 DEF QuerySwapPending
  <2>2. RecTypeOK'
    BY <1>0, <2>1, AnswersTyped DEF RecPc
  <2> QED BY <1>2, <2>1, <2>2, FailuresTyped, LoopTyped DEF QuerySwapPending
<1>3. CASE FindOrphans
  <2>1. RecTypeOK'
    BY <1>0, <1>3 DEF FindOrphans, RecPc
  <2> QED BY <1>0, <1>3, <2>1, LoopTyped DEF FindOrphans
<1>4. ASSUME NEW i \in rec.orphans, SkipOrphan(i) PROVE TypeOK'
  <2>1. RecTypeOK'
    BY <1>0, <1>4 DEF SkipOrphan
  <2>2. failures' \in 0 .. MaxFailures
    BY <1>0, <1>4, FailuresTyped DEF SkipOrphan
  <2> QED BY <1>4, <2>1, <2>2, LoopTyped DEF SkipOrphan
<1>5. ASSUME NEW o \in rec.orphans, ReplayEnd(o) PROVE TypeOK'
  <2>1. o \in Order
    BY <1>0, <1>5 DEF ReplayEnd, Id
  <2>2. ReportedStatus(o) \in Status
    BY <2>1 DEF TypeOK, ReportedStatus, Status, Terminal, ExchState
  <2>3. EndReport(o) \in Report
    BY <2>1, <2>2, EndReportTyped
  <2>4. RecTypeOK'
    BY <1>0, <1>5 DEF ReplayEnd
  <2> QED BY <1>5, <2>3, <2>4, ReplayTyped DEF ReplayEnd
<1>6. CASE CopyCids
  <2>1. RecTypeOK'
    BY <1>0, <1>6 DEF CopyCids, RecPc
  <2> QED BY <1>0, <1>6, <2>1, LoopTyped DEF CopyCids
<1>7. ASSUME NEW o \in rec.cids, SkipCid(o) PROVE TypeOK'
  <2>1. RecTypeOK'
    BY <1>0, <1>7 DEF SkipCid
  <2> QED BY <1>0, <1>7, <2>1, LoopTyped DEF SkipCid
<1>8. ASSUME NEW o \in rec.cids, ReplayNew(o) PROVE TypeOK'
  <2>1. o \in Order
    BY <1>0
  <2>2. PICK m \in rec.pending : Begin(Reconciler, ChannelReport(o, "NEW", m.filled))
    BY <1>8 DEF ReplayNew
  <2>3. m.filled \in Nat
    BY <1>0, <2>2 DEF PendingOrder
  <2>4. ChannelReport(o, "NEW", m.filled) \in Report
    BY <2>1, <2>3, ChannelReportTyped DEF Status
  <2>5. RecTypeOK'
    BY <1>0, <1>8 DEF ReplayNew
  <2> QED BY <1>8, <2>2, <2>4, <2>5, ReplayTyped DEF ReplayNew
<1>9. CASE QueryBalances
  <2>1. PICK answer \in SUBSET NowBalances :
          /\ Complete \/ Failed
          /\ rec' = [rec EXCEPT !.pc = "sync", !.pending = {}, !.balances = answer]
    BY <1>9 DEF QueryBalances
  <2>2. RecTypeOK'
    BY <1>0, <2>1, AnswersTyped DEF RecPc
  <2> QED BY <1>9, <2>1, <2>2, FailuresTyped, LoopTyped DEF QueryBalances
<1>10. ASSUME NEW b \in rec.balances, SyncBalance(b) PROVE TypeOK'
  <2>1. b.currency \in Currency /\ b.available \in Int /\ b.frozen \in Int
    BY <1>0, <1>10 DEF Balance
  <2>2. book' \in Book(Currency)
    BY <1>10, <2>1, SyncTyped DEF TypeOK, HandlerTypeOK, SyncBalance
  <2>3. RecTypeOK'
    BY <1>0, <1>10 DEF SyncBalance
  <2> QED BY <1>10, <2>2, <2>3
          DEF TypeOK, HandlerTypeOK, SyncBalance, strategyVars, exchangeVars, channelVars, accountVars
<1>11. CASE QuerySwapPositions
  <2>1. PICK answer \in SUBSET NowPositions :
          /\ Complete \/ Failed
          /\ rec' = [rec EXCEPT !.pc = "syncswap", !.positions = answer]
    BY <1>11 DEF QuerySwapPositions
  <2>2. RecTypeOK'
    BY <1>0, <2>1, AnswersTyped DEF RecPc
  <2> QED BY <1>11, <2>1, <2>2, FailuresTyped, LoopTyped DEF QuerySwapPositions
<1>12. ASSUME NEW p \in rec.positions, SyncPosition(p) PROVE TypeOK'
  <2>1. p.key \in Position /\ p.contracts \in Int
    BY <1>0, <1>12 DEF Contracts
  <2>2. swap' \in [Position -> Int]
    BY <1>12, <2>1 DEF TypeOK, HandlerTypeOK, SyncPosition, SyncSwapFromExchange
  <2>3. RecTypeOK'
    BY <1>0, <1>12 DEF SyncPosition
  <2> QED BY <1>12, <2>2, <2>3
          DEF TypeOK, HandlerTypeOK, SyncPosition, strategyVars, exchangeVars, channelVars, accountVars
<1>13. CASE FinishRound
  <2>1. RecTypeOK'
    BY <1>13 DEF FinishRound, RecIdle, RecPc
  <2> QED BY <1>0, <1>13, <2>1, LoopTyped DEF FinishRound
<1> QED BY <1>1, <1>2, <1>3, <1>4, <1>5, <1>6, <1>7, <1>8, <1>9, <1>10, <1>11, <1>12, <1>13
        DEF RoundStep

(* The engine starts typed. *)
LEMMA InitTyped == Init => TypeOK
<1> SUFFICES ASSUME Init PROVE TypeOK
  OBVIOUS
<1>1. book \in Book(Currency) /\ wallet \in [Currency -> [available : Int, frozen : Int]]
  BY DepositAssumption DEF Init, Book
<1>2. swap \in [Position -> Int] /\ holding \in [Position -> Int]
  BY DepositAssumption DEF Init
<1>3. h \in [Thread -> HandlerState]
  BY DEF Init, HandlerInit, HandlerState
<1>4. RecTypeOK
  BY DEF Init, RecTypeOK, RecIdle, RecPc
<1>5. exch \in [Order -> [st : ExchState, filled : Nat, value : Nat, fee : Int, deals : SUBSET Deal]]
  BY DEF Init, Unsent, ExchState
<1>6. HandlerTypeOK
  BY <1>1, <1>2, <1>3 DEF Init, HandlerInit, HandlerTypeOK
<1> QED BY <1>1, <1>2, <1>4, <1>5, <1>6, EmptySeq, BoundsAssumption DEF Init, TypeOK

(* Every step of every thread, and of the exchange, keeps the types. *)
LEMMA StepTyped ==
  ASSUME TypeOK, [Next]_vars
  PROVE  TypeOK'
<1>1. CASE ChannelNext
  BY <1>1, EmitTyped, DispatchTyped, SendTyped, AcceptTyped, RefuseTyped, TradeTyped,
     CancelStepTyped, ChannelTyped, PushTyped, ApplyBalanceTyped, ReceiveTyped, HandleTyped,
     ThreadsTyped DEF ChannelNext, ExchangeStep, ListenerStep
<1>2. CASE ReconcilerStep
  BY <1>2, RoundTyped, HandleTyped, ThreadsTyped DEF ReconcilerStep
<1>3. CASE UNCHANGED vars
  BY <1>3 DEF vars, TypeOK, HandlerTypeOK, RecTypeOK, handlerVars, strategyVars, exchangeVars,
              channelVars, accountVars, recVars
<1> QED BY <1>1, <1>2, <1>3 DEF Next

(* Every amount, table, queue and report of the engine keeps its type, and    *)
(* what is reserved is never negative, whatever the threads, the exchange and *)
(* the connection do.                                                         *)
THEOREM EngineTypeCorrect == Spec => []TypeOK
<1> QED BY InitTyped, StepTyped, PTL DEF Spec

-----------------------------------------------------------------------------
(* What the engine believes: the exchange never goes back on what it did.     *)

(* Whatever a report could truly say of any order before, it can say after. *)
Grows ==
  \A o \in Order : /\ Accepted(o) => Accepted(o)'
                   /\ exch[o].st \in {"filled", "cancelled", "refused"} => exch'[o].st = exch[o].st
                   /\ exch[o].filled <= exch'[o].filled

(* A report is about an order the exchange has decided on. *)
LEMMA TrueIsKnown ==
  ASSUME TypeOK, NEW r \in Report, TrueReport(r)
  PROVE  exch[r.order].st # "unknown"
BY DEF TrueReport, Report, Status, Terminal, Accepted

(* A true report stays true. *)
LEMMA TrueStays ==
  ASSUME TypeOK, TypeOK', Grows, NEW r \in Report, TrueReport(r)
  PROVE  TrueReport(r)'
<1>1. r.order \in Order /\ r.filled \in Nat
  BY DEF Report
<1>2. exch[r.order].filled \in Nat /\ exch'[r.order].filled \in Nat
  BY <1>1 DEF TypeOK
<1> QED BY <1>1, <1>2 DEF Grows, TrueReport

-----------------------------------------------------------------------------
(* An order takes one way to the exchange, once (SentOnce). *)

(* A queue that takes a new entry, and one that gives its first. *)
LEMMA RangeAppend ==
  ASSUME NEW S, NEW q \in Seq(S), NEW e \in S
  PROVE  /\ Range(Append(q, e)) = Range(q) \cup {e}
         /\ IsInjective(q) /\ e \notin Range(q) => IsInjective(Append(q, e))
<1> DEFINE a == Append(q, e)
<1>1. /\ a \in Seq(S) /\ Len(a) = Len(q) + 1 /\ a[Len(q) + 1] = e
      /\ \A i \in 1 .. Len(q) : a[i] = q[i]
      /\ Len(q) \in Nat /\ DOMAIN q = 1 .. Len(q) /\ DOMAIN a = 1 .. Len(a)
  BY AppendProperties, LenProperties
<1> HIDE DEF a
<1>2. Range(a) = Range(q) \cup {e}
  BY <1>1 DEF Range
<1>3. IsInjective(q) /\ e \notin Range(q) => IsInjective(a)
  BY <1>1 DEF Range, IsInjective
<1> QED BY <1>2, <1>3 DEF a

(* A queue that gives its first entry. *)
LEMMA RangeTail ==
  ASSUME NEW S, NEW q \in Seq(S), q # <<>>
  PROVE  /\ Range(q) = {Head(q)} \cup Range(Tail(q))
         /\ IsInjective(q) => IsInjective(Tail(q)) /\ Head(q) \notin Range(Tail(q))
<1> DEFINE t == Tail(q)
<1>1. /\ t \in Seq(S) /\ Len(t) = Len(q) - 1 /\ Head(q) = q[1]
      /\ \A i \in 1 .. Len(t) : t[i] = q[i + 1]
      /\ Len(q) \in Nat /\ Len(q) > 0 /\ DOMAIN q = 1 .. Len(q) /\ DOMAIN t = 1 .. Len(t)
  BY HeadTailProperties, LenProperties, EmptySeq
<1> HIDE DEF t
<1>2. \A i \in DOMAIN q : i # 1 => i - 1 \in DOMAIN t /\ t[i - 1] = q[i]
  BY <1>1
<1>3. \A i \in DOMAIN t : i + 1 \in DOMAIN q /\ t[i] = q[i + 1]
  BY <1>1
<1>4. 1 \in DOMAIN q /\ Head(q) = q[1]
  BY <1>1
<1>5. Range(q) = {Head(q)} \cup Range(t)
  BY <1>2, <1>3, <1>4 DEF Range
<1>6. ASSUME IsInjective(q) PROVE IsInjective(t) /\ Head(q) \notin Range(t)
  <2>1. \A i, j \in DOMAIN t : t[i] = t[j] => i = j
    BY <1>1, <1>3, <1>6 DEF IsInjective
  <2>2. \A i \in DOMAIN t : t[i] # Head(q)
    BY <1>1, <1>3, <1>4, <1>6 DEF IsInjective
  <2> QED BY <2>1, <2>2 DEF IsInjective, Range
<1> QED BY <1>5, <1>6 DEF t

(* A queue with nothing in it. *)
LEMMA RangeEmpty == Range(<<>>) = {} /\ IsInjective(<<>>)
BY DEF Range, IsInjective

(* The queues hold orders. *)
LEMMA RangesTyped ==
  ASSUME TypeOK
  PROVE  Range(signals) \subseteq Order /\ Range(wire) \subseteq Order
BY RangeOfSeq DEF TypeOK

(* An order emitted for the first time is nowhere else. *)
LEMMA SentEmit ==
  ASSUME TypeOK, SentOnce, NEW o \in Order, Emit(o)
  PROVE  SentOnce'
<1>1. ~InFlight(o) /\ exch[o].st = "unknown"
  BY DEF SentOnce, Emit
<1>2. UNCHANGED <<hand, wire, exch>> /\ emitted' = emitted \cup {o}
  BY DEF Emit, exchangeVars, channelVars, accountVars
<1>3. /\ Range(signals') \subseteq Range(signals) \cup {o}
      /\ IsInjective(signals')
  <2>1. signals \in Seq(Order) /\ o \notin Range(signals) /\ IsInjective(signals)
    BY <1>1 DEF TypeOK, InFlight, SentOnce
  <2>2. /\ Range(Append(signals, o)) = Range(signals) \cup {o}
        /\ IsInjective(Append(signals, o))
    BY <2>1, RangeAppend
  <2>3. signals' = signals \/ signals' = Append(signals, o)
    BY DEF Emit
  <2> QED BY <2>1, <2>2, <2>3
<1> QED BY <1>1, <1>2, <1>3 DEF SentOnce, InFlight

(* An order popped from the ring is in hand and no longer in the ring. *)
LEMMA SentDispatch ==
  ASSUME TypeOK, SentOnce, Dispatch
  PROVE  SentOnce'
<1> DEFINE o == Head(signals)
<1>1. /\ Range(signals) = {o} \cup Range(signals')
      /\ IsInjective(signals') /\ o \notin Range(signals')
  <2>1. signals \in Seq(Order) /\ signals # <<>> /\ signals' = Tail(signals)
    BY DEF TypeOK, Dispatch
  <2> QED BY <2>1, RangeTail DEF SentOnce
<1>2. UNCHANGED <<emitted, wire, exch>> /\ hand = None /\ hand' = o
  BY DEF Dispatch, exchangeVars, channelVars, accountVars
<1>3. o \in Order /\ None \notin Order
  BY <1>1, RangesTyped, NoneAssumption
<1> HIDE DEF o
<1> QED BY <1>1, <1>2, <1>3 DEF SentOnce, InFlight

(* An order sent is on the wire, or lost, and no longer in hand. *)
LEMMA SentSend ==
  ASSUME TypeOK, SentOnce, Send
  PROVE  SentOnce'
<1>1. hand \in Order /\ hand' = None /\ None \notin Order
  BY NoneAssumption DEF TypeOK, Send
<1>2. UNCHANGED <<emitted, signals, exch>>
  BY DEF Send, strategyVars, exchangeVars
<1>3. /\ Range(wire') \subseteq Range(wire) \cup {hand}
      /\ IsInjective(wire')
  <2>1. wire \in Seq(Order) /\ hand \notin Range(wire) /\ IsInjective(wire)
    BY DEF TypeOK, SentOnce
  <2>2. /\ Range(Append(wire, hand)) = Range(wire) \cup {hand}
        /\ IsInjective(Append(wire, hand))
    BY <1>1, <2>1, RangeAppend
  <2>3. wire' = wire \/ wire' = Append(wire, hand)
    BY DEF Send
  <2> QED BY <2>1, <2>2, <2>3
<1>4. None \notin Range(wire')
  BY <1>1, <1>3, RangesTyped
<1> QED BY <1>1, <1>2, <1>3, <1>4, RangesTyped DEF SentOnce, InFlight

(* The exchange decides on the first request of the wire. *)
LEMMA SentDecide ==
  ASSUME TypeOK, SentOnce, wire # <<>>, wire' = Tail(wire),
         UNCHANGED <<emitted, signals, hand>>,
         NEW st \in ExchState, exch' = [exch EXCEPT ![Head(wire)].st = st]
  PROVE  SentOnce'
<1> DEFINE o == Head(wire)
<1>1. /\ Range(wire) = {o} \cup Range(wire')
      /\ IsInjective(wire') /\ o \notin Range(wire')
  BY RangeTail DEF TypeOK, SentOnce
<1>2. o \in Order /\ InFlight(o)
  BY <1>1, RangesTyped DEF InFlight
<1>3. \A x \in Order : x # o => exch'[x] = exch[x]
  BY DEF TypeOK
<1> HIDE DEF o
<1> QED BY <1>1, <1>2, <1>3 DEF SentOnce, InFlight

(* A step that decides no order and moves none. *)
LEMMA SentStays ==
  ASSUME TypeOK, SentOnce, UNCHANGED <<emitted, signals, hand>>,
         wire' = wire \/ wire' = <<>>,
         \A o \in Order : exch'[o].st = "unknown" <=> exch[o].st = "unknown"
  PROVE  SentOnce'
<1>1. IsInjective(wire') /\ Range(wire') \subseteq Range(wire)
  BY RangeEmpty DEF SentOnce
<1>2. Range(wire)' = Range(wire') /\ IsInjective(wire)' = IsInjective(wire')
  OBVIOUS
<1> QED BY <1>1, <1>2 DEF SentOnce, InFlight

-----------------------------------------------------------------------------
(* Everything under way stays true, if what is new is true.                   *)
LEMMA TruthfulStays ==
  ASSUME TypeOK, TypeOK', Grows, Truthful,
         \A r \in Range(inbox') : r \in Range(inbox) \/ TrueReport(r)',
         \A t \in Thread : ~Idle(t)' => \/ ~Idle(t) /\ h'[t].report = h[t].report
                                        \/ TrueReport(h[t].report)',
         \A m \in rec'.pending : m \in rec.pending \/ (Accepted(m.order) /\ m.filled <= exch[m.order].filled)',
         \A o \in rec'.orphans \cap Order : o \in rec.orphans \/ Accepted(o)
  PROVE  Truthful'
<1>1. ASSUME NEW r \in Range(inbox') PROVE TrueReport(r)'
  <2>1. CASE r \in Range(inbox)
    <3>1. r \in Report
      BY <2>1, RangeOfSeq DEF TypeOK
    <3> QED BY <2>1, <3>1, TrueStays DEF Truthful
  <2> QED BY <2>1
<1>2. ASSUME NEW t \in Thread, ~Idle(t)' PROVE TrueReport(h[t].report)'
  <2>1. CASE ~Idle(t) /\ h'[t].report = h[t].report
    <3> DEFINE r == h[t].report
    <3>1. r \in Report /\ TrueReport(r)
      BY <2>1, ReportOf DEF TypeOK, Truthful
    <3>2. PICK q \in Report : q = r
      BY <3>1
    <3>3. TrueReport(q)'
      BY <3>1, <3>2, TrueStays
    <3>4. h'[t].report = q
      BY <2>1, <3>2
    <3> QED BY <3>3, <3>4 DEF TrueReport
  <2> QED BY <1>2, <2>1
<1>3. ASSUME NEW m \in rec'.pending
      PROVE  (Accepted(m.order) /\ m.filled <= exch[m.order].filled)'
  <2>1. CASE m \in rec.pending
    <3>1. m.order \in Order /\ m.filled \in Nat
      BY <2>1 DEF TypeOK, RecTypeOK, PendingOrder
    <3>2. exch[m.order].filled \in Nat /\ exch'[m.order].filled \in Nat
      BY <3>1 DEF TypeOK
    <3>3. Accepted(m.order) /\ m.filled <= exch[m.order].filled
      BY <2>1 DEF Truthful
    <3> QED BY <3>1, <3>2, <3>3 DEF Grows
  <2> QED BY <1>3, <2>1
<1>4. /\ \A r \in Range(inbox') : TrueReport(r)'
      /\ \A t \in Thread : ~Idle(t)' => TrueReport(h[t].report)'
      /\ \A m \in rec'.pending : (Accepted(m.order) /\ m.filled <= exch[m.order].filled)'
      /\ \A o \in rec'.orphans \cap Order : Accepted(o)'
  BY <1>1, <1>2, <1>3 DEF Truthful, Grows
<1> QED BY <1>4 DEF Truthful

(* Two things a step keeps, the second of which is not so while the engine    *)
(* starts on orders it has not read yet: what the engine believes is true, and *)
(* nothing is lost from its tables.                                           *)
StillBelieves == Believes' /\ (NeverLost => NeverLost')

(* A step outside the engine's tables: the dispatcher may add to cids, the    *)
(* exchange may open an order that was on the wire, a thread may enter        *)
(* HandleOrderUpdate.                                                         *)
LEMMA OutsideKeeps ==
  ASSUME TypeOK, TypeOK', Grows, Believes, Truthful', SentOnce',
         UNCHANGED <<live, tracker, told>>, cids \subseteq cids',
         \A t \in Thread : h'[t] = h[t] \/ h'[t].pc # "release",
         \A o \in Order : Open(o)' => Open(o) \/ o \in Range(wire),
         \A o \in Order : Holds(o) /\ (hand' = o \/ o \in Range(wire')) => o \in cids'
  PROVE  StillBelieves
<1> USE DEF Believes
<1>1. Confirming'
  <2>1. ASSUME NEW t \in Thread, At(t, "release")'
        PROVE  h'[t].report.order \in live' \/ Closed(h[t].report.order)'
    <3>1. h'[t] = h[t] /\ At(t, "release")
      BY <2>1 DEF At
    <3>2. h[t].report.order \in Order
      BY <3>1, ReportOf DEF TypeOK, At, Idle
    <3>3. h[t].report.order \in live \/ Closed(h[t].report.order)
      BY <3>1 DEF Confirming
    <3> QED BY <3>1, <3>2, <3>3 DEF Grows, Closed
  <2>2. \A o \in Order : (Holds(o) <=> Holds(o)')
    BY DEF Holds
  <2>3. \A o \in Order : (hand' = o \/ o \in Range(wire')) /\ Holds(o) => o \in cids'
    OBVIOUS
  <2> QED BY <2>1, <2>3 DEF Confirming, Holds, Reserves, IsSpot, Asked
<1>2. NeverLost => NeverLost'
  BY DEF NeverLost, Confirming, Holds, Reserves, IsSpot, Asked
<1>3. ToldTruth'
  <2>1. \A o \in Order : told'[o] \in Terminal => Closed(o)'
    BY DEF ToldTruth, Closed, Grows
  <2>2. \A o \in live' \cap Order : exch'[o].st \notin {"unknown", "refused"}
    BY DEF ToldTruth, TypeOK, ExchState, Grows, Accepted
  <2> QED BY <2>1, <2>2 DEF ToldTruth
<1>4. TrackerBehind'
  <2> SUFFICES ASSUME NEW o \in Order
               PROVE  tracker'[o] <= exch'[o].filled
    BY DEF TrackerBehind
  <2>1. tracker'[o] \in Nat /\ exch[o].filled \in Nat /\ exch'[o].filled \in Nat
    BY DEF TypeOK, HandlerTypeOK
  <2>2. tracker'[o] <= exch[o].filled /\ exch[o].filled <= exch'[o].filled
    BY DEF TrackerBehind, Grows
  <2> QED BY <2>1, <2>2
<1> QED BY <1>1, <1>2, <1>3, <1>4 DEF StillBelieves

(* A step that leaves the exchange alone lets it grow. *)
LEMMA SameGrows ==
  ASSUME TypeOK, exch' = exch
  PROVE  Grows
BY DEF Grows, Accepted, TypeOK

(* A new report, when there is a connection to carry it. *)
LEMMA RangeNotify ==
  ASSUME TypeOK, NEW channel, NEW r \in Report, Notify(channel, r)
  PROVE  \A x \in Range(inbox') : x \in Range(inbox) \/ x = r
<1>1. Range(Append(inbox, r)) = Range(inbox) \cup {r}
  BY RangeAppend DEF TypeOK
<1>2. inbox' = inbox \/ inbox' = Append(inbox, r)
  BY DEF Notify
<1> QED BY <1>1, <1>2

(* The strategy and the dispatcher. *)
LEMMA EmitKeeps ==
  ASSUME TypeOK, TypeOK', Believes, NEW o \in Order, Emit(o)
  PROVE  StillBelieves
<1>1. UNCHANGED <<live, cids, tracker, told, h, hand, wire, exch, inbox, rec>>
  BY DEF Emit, exchangeVars, channelVars, accountVars, recVars
<1>2. SentOnce'
  BY SentEmit DEF Believes
<1>3. Grows
  BY <1>1, SameGrows
<1>4. Truthful'
  BY <1>1, <1>3, TruthfulStays DEF Believes, Idle
<1>5. \A x \in Order : Holds(x) /\ (hand' = x \/ x \in Range(wire')) => x \in cids'
  BY <1>1 DEF Believes, Confirming
<1> QED BY <1>1, <1>2, <1>3, <1>4, <1>5, OutsideKeeps DEF Open

(* The dispatcher remembers the order before it sends it. *)
LEMMA DispatchKeeps ==
  ASSUME TypeOK, TypeOK', Believes, Dispatch
  PROVE  StillBelieves
<1>1. UNCHANGED <<live, tracker, told, h, wire, exch, inbox, rec>>
  BY DEF Dispatch, exchangeVars, channelVars, accountVars, recVars
<1>2. SentOnce'
  BY SentDispatch DEF Believes
<1>3. Grows
  BY <1>1, SameGrows
<1>4. Truthful'
  BY <1>1, <1>3, TruthfulStays DEF Believes, Idle
<1>5. cids \subseteq cids'
  BY DEF Dispatch
<1>6. \A x \in Order : Holds(x) /\ (hand' = x \/ x \in Range(wire')) => x \in cids'
  BY <1>1, <1>5 DEF Believes, Confirming, Dispatch
<1> QED BY <1>1, <1>2, <1>3, <1>4, <1>5, <1>6, OutsideKeeps DEF Open

(* An order sent was remembered. *)
LEMMA SendKeeps ==
  ASSUME TypeOK, TypeOK', Believes, Send
  PROVE  StillBelieves
<1>1. UNCHANGED <<live, cids, tracker, told, h, exch, inbox, rec>>
  BY DEF Send, handlerVars, exchangeVars, recVars
<1>2. SentOnce'
  BY SentSend DEF Believes
<1>3. Grows
  BY <1>1, SameGrows
<1>4. Truthful'
  BY <1>1, <1>3, TruthfulStays DEF Believes, Idle
<1>5. hand \in Order /\ hand' = None /\ None \notin Order
  BY NoneAssumption DEF TypeOK, Send
<1>6. \A x \in Range(wire') : x \in Range(wire) \/ x = hand
  <2>1. Range(Append(wire, hand)) = Range(wire) \cup {hand}
    BY <1>5, RangeAppend DEF TypeOK
  <2>2. wire' = wire \/ wire' = Append(wire, hand)
    BY DEF Send
  <2> QED BY <2>1, <2>2
<1>7. \A x \in Order : Holds(x) /\ (hand' = x \/ x \in Range(wire')) => x \in cids'
  BY <1>1, <1>5, <1>6 DEF Believes, Confirming
<1> QED BY <1>1, <1>2, <1>3, <1>4, <1>7, OutsideKeeps DEF Open

(* The exchange. *)

(* A decision about the first request of the wire is news to every report. *)
LEMMA DecideGrows ==
  ASSUME TypeOK, SentOnce, wire # <<>>,
         NEW st \in ExchState, exch' = [exch EXCEPT ![Head(wire)].st = st]
  PROVE  /\ Grows
         /\ Head(wire) \in Order /\ Head(wire) \in Range(wire)
         /\ exch'[Head(wire)].st = st
         /\ exch'[Head(wire)].filled = exch[Head(wire)].filled
         /\ \A x \in Order : x # Head(wire) => exch'[x] = exch[x]
<1>1. Head(wire) \in Order /\ Head(wire) \in Range(wire)
  BY RangeTail, RangesTyped DEF TypeOK
<1>2. exch[Head(wire)].st = "unknown"
  BY <1>1 DEF SentOnce, InFlight
<1>3. \A x \in Order : x # Head(wire) => exch'[x] = exch[x]
  BY DEF TypeOK
<1>4. exch'[Head(wire)].st = st /\ exch'[Head(wire)].filled = exch[Head(wire)].filled
  BY <1>1 DEF TypeOK
<1>5. \A x \in Order : exch[x].filled \in Nat
  BY DEF TypeOK
<1>6. Grows
  BY <1>2, <1>3, <1>4, <1>5 DEF Grows, Accepted
<1> QED BY <1>1, <1>3, <1>4, <1>6

(* An order the exchange takes was remembered, and its report is true. *)
LEMMA AcceptKeeps ==
  ASSUME TypeOK, TypeOK', Believes, Accept
  PROVE  StillBelieves
<1> DEFINE o == Head(wire)
<1>1. /\ UNCHANGED <<live, cids, tracker, told, h, hand, emitted, signals, rec>>
      /\ wire # <<>> /\ wire' = Tail(wire)
      /\ exch' = [exch EXCEPT ![o].st = "open"] /\ "open" \in ExchState
  BY DEF Accept, handlerVars, strategyVars, recVars, ExchState
<1>2. SentOnce'
  BY <1>1, SentDecide DEF Believes
<1>3. /\ Grows /\ o \in Order /\ o \in Range(wire)
      /\ exch'[o].st = "open" /\ exch'[o].filled = exch[o].filled
      /\ \A x \in Order : x # o => exch'[x] = exch[x]
  BY <1>1, DecideGrows DEF Believes
<1>4. PICK r \in Report : r = ChannelReport(o, "NEW", 0)
  BY <1>3, ChannelReportTyped DEF Status
<1>5. TrueReport(r)'
  BY <1>3, <1>4 DEF TrueReport, ChannelReport, FillReport, Accepted, TypeOK
<1>6. \A x \in Range(inbox') : x \in Range(inbox) \/ x = r
  BY <1>4, RangeNotify DEF Accept
<1> HIDE DEF o
<1>7. Truthful'
  BY <1>1, <1>3, <1>5, <1>6, TruthfulStays DEF Believes, Idle
<1>8. \A x \in Order : Holds(x) /\ (hand' = x \/ x \in Range(wire')) => x \in cids'
  BY <1>1, RangeTail DEF Believes, Confirming, TypeOK
<1> QED BY <1>1, <1>2, <1>3, <1>7, <1>8, OutsideKeeps DEF Open

(* The report of a refusal is true. *)
LEMMA RefuseKeeps ==
  ASSUME TypeOK, TypeOK', Believes, Refuse
  PROVE  StillBelieves
<1> DEFINE o == Head(wire)
<1>1. /\ UNCHANGED <<live, cids, tracker, told, h, hand, emitted, signals, rec>>
      /\ wire # <<>> /\ wire' = Tail(wire)
      /\ exch' = [exch EXCEPT ![o].st = "refused"] /\ "refused" \in ExchState
  BY DEF Refuse, handlerVars, strategyVars, recVars, ExchState
<1>2. SentOnce'
  BY <1>1, SentDecide DEF Believes
<1>3. /\ Grows /\ o \in Order /\ o \in Range(wire)
      /\ exch'[o].st = "refused" /\ exch'[o].filled = exch[o].filled
      /\ \A x \in Order : x # o => exch'[x] = exch[x]
  BY <1>1, DecideGrows DEF Believes
<1>4. PICK r \in Report : r = [ChannelReport(o, "REJECTED", 0) EXCEPT !.id = NoId, !.mode = "CASH"]
  BY <1>3, RefusalTyped
<1>a. r.order = o /\ r.id = NoId /\ r.status = "REJECTED" /\ r.filled = 0
  BY <1>3, <1>4, RefusalTyped
<1>5. TrueReport(r)'
  BY <1>3, <1>a DEF TrueReport, TypeOK
<1>6. \A x \in Range(inbox') : x \in Range(inbox) \/ x = r
  BY <1>4, RangeNotify DEF Refuse
<1> HIDE DEF o
<1>7. Truthful'
  BY <1>1, <1>3, <1>5, <1>6, TruthfulStays DEF Believes, Idle
<1>8. \A x \in Order : Holds(x) /\ (hand' = x \/ x \in Range(wire')) => x \in cids'
  BY <1>1, RangeTail DEF Believes, Confirming, TypeOK
<1> QED BY <1>1, <1>2, <1>3, <1>7, <1>8, OutsideKeeps DEF Open

(* What happens to an open order, reported at the same time. *)
LEMMA OpenKeeps ==
  ASSUME TypeOK, TypeOK', Believes, NEW o \in Order, Open(o),
         UNCHANGED <<handlerVars, strategyVars, hand, wire, rec>>,
         exch'[o].st \in {"open", "filled", "cancelled"}, exch[o].filled <= exch'[o].filled,
         \A x \in Order : x # o => exch'[x] = exch[x],
         NEW r \in Report, TrueReport(r)', NEW channel, Notify(channel, r)
  PROVE  StillBelieves
<1>1. UNCHANGED <<live, cids, tracker, told, h, emitted, signals>>
  BY DEF handlerVars, strategyVars
<1>2. Grows
  <2>1. ASSUME NEW x \in Order, x # o
        PROVE  exch'[x] = exch[x] /\ exch[x].filled <= exch'[x].filled
    <3>1. exch[x].filled \in Nat
      BY DEF TypeOK
    <3> QED BY <2>1, <3>1
  <2>2. exch[o].st = "open"
    BY DEF Open
  <2> QED BY <2>1, <2>2 DEF Grows, Accepted
<1>3. SentOnce'
  BY <1>1, SentStays DEF Believes, Open
<1>4. \A x \in Range(inbox') : x \in Range(inbox) \/ x = r
  BY RangeNotify
<1>5. Truthful'
  BY <1>1, <1>2, <1>4, TruthfulStays DEF Believes, Idle
<1>6. \A x \in Order : Holds(x) /\ (hand' = x \/ x \in Range(wire')) => x \in cids'
  BY <1>1 DEF Believes, Confirming
<1> QED BY <1>1, <1>2, <1>3, <1>5, <1>6, OutsideKeeps DEF Open

(* The report of a trade is true, and reports of less stay true. *)
LEMMA TradeKeeps ==
  ASSUME TypeOK, TypeOK', Believes, NEW o \in Order, NEW n \in 1 .. Terms[o].volume, NEW d \in Offered(o), Trade(o, n, d)
  PROVE  StillBelieves
<1> DEFINE filled == exch[o].filled + n
           done   == filled = Terms[o].volume
<1>1. n \in Nat /\ exch[o].filled \in Nat /\ filled \in Nat
  <2>1. Terms[o].volume \in Nat
    BY TermsSplit
  <2>2. exch[o].filled \in Nat
    BY DEF TypeOK
  <2>3. n \in Nat
    BY <2>1
  <2> QED BY <2>2, <2>3
<1> DEFINE avg == (exch[o].value + d.price * n) \div filled
<1>2. /\ Open(o)
      /\ UNCHANGED <<handlerVars, strategyVars, hand, wire, rec>>
      /\ Notify(Terms[o].market,
                FillReport(o, IF done THEN "FILLED" ELSE "PARTIALLY_FILLED", filled, avg, d.fee))
  BY DEF Trade, recVars
<1>3. /\ exch'[o].st = (IF done THEN "filled" ELSE "open") /\ exch'[o].filled = filled
      /\ \A x \in Order : x # o => exch'[x] = exch[x]
  BY DEF TypeOK, Trade
<1>4. (IF done THEN "FILLED" ELSE "PARTIALLY_FILLED") \in Status
  BY DEF Status, Terminal
<1>a. avg \in Nat /\ d.fee \in Int
  <2>1. d.price \in Nat /\ d.fee \in Int /\ exch[o].value \in Nat /\ n > 0
    BY OfferedTyped DEF TypeOK
  <2>2. PICK value \in Nat : value = exch[o].value + d.price * n
    BY <1>1, <2>1, ProductNat
  <2> QED BY <1>1, <2>1, <2>2, AverageNat
<1> HIDE DEF avg
<1>5. PICK r \in Report :
        r = FillReport(o, IF done THEN "FILLED" ELSE "PARTIALLY_FILLED", filled, avg, d.fee)
  BY <1>1, <1>4, <1>a, FillReportTyped
<1>6. TrueReport(r)'
  BY <1>1, <1>3, <1>5 DEF TrueReport, FillReport, Accepted
<1>7. exch[o].filled <= exch'[o].filled
  BY <1>1, <1>3
<1> QED BY <1>2, <1>3, <1>5, <1>6, <1>7, OpenKeeps

(* The report of a cancellation is true. *)
LEMMA CancelKeeps ==
  ASSUME TypeOK, TypeOK', Believes, NEW o \in Order, Cancel(o)
  PROVE  StillBelieves
<1>1. /\ exch' = [exch EXCEPT ![o].st = "cancelled"]
      /\ Open(o)
      /\ UNCHANGED <<handlerVars, strategyVars, hand, wire, rec>>
      /\ Notify(Terms[o].market, ChannelReport(o, "CANCELLED", exch[o].filled))
  BY DEF Cancel, recVars
<1>2. /\ exch'[o].st = "cancelled" /\ exch'[o].filled = exch[o].filled /\ exch[o].filled \in Nat
      /\ \A x \in Order : x # o => exch'[x] = exch[x]
  BY <1>1 DEF TypeOK
<1>3. PICK r \in Report : r = ChannelReport(o, "CANCELLED", exch[o].filled)
  BY <1>2, ChannelReportTyped DEF Status, Terminal
<1>4. TrueReport(r)'
  BY <1>2, <1>3 DEF TrueReport, ChannelReport, FillReport, Accepted
<1> QED BY <1>1, <1>2, <1>3, <1>4, OpenKeeps

(* The connection: a drop leaves fewer requests and reports under way. *)
LEMMA ChannelKeeps ==
  ASSUME TypeOK, TypeOK', Believes, Drop \/ Reconnect
  PROVE  StillBelieves
<1>1. /\ UNCHANGED <<live, cids, tracker, told, h, hand, emitted, signals, exch, rec>>
      /\ wire' = wire \/ wire' = <<>>
      /\ inbox' = inbox \/ inbox' = <<>>
  BY DEF Drop, Reconnect, handlerVars, strategyVars, exchangeVars, recVars
<1>2. Grows
  BY <1>1, SameGrows
<1>3. SentOnce'
  BY <1>1, SentStays DEF Believes
<1>4. Range(wire') \subseteq Range(wire) /\ Range(inbox') \subseteq Range(inbox)
  BY <1>1, RangeEmpty
<1>5. Truthful'
  BY <1>1, <1>2, <1>4, TruthfulStays DEF Believes, Idle
<1>6. \A x \in Order : Holds(x) /\ (hand' = x \/ x \in Range(wire')) => x \in cids'
  BY <1>1, <1>4 DEF Believes, Confirming
<1> QED BY <1>1, <1>2, <1>3, <1>5, <1>6, OutsideKeeps DEF Open

(* A thread enters HandleOrderUpdate with a report the exchange confirms. *)
LEMMA BeginKeeps ==
  ASSUME TypeOK, TypeOK', Believes, NEW t \in Thread, NEW r \in Report, TrueReport(r), Begin(t, r),
         UNCHANGED <<live, cids, tracker, told, hand, emitted, signals, wire, exch>>,
         Range(inbox') \subseteq Range(inbox), rec'.pending = rec.pending,
         rec'.orphans \subseteq rec.orphans
  PROVE  StillBelieves
<1>1. Grows
  BY SameGrows
<1>2. SentOnce'
  BY SentStays DEF Believes
<1>3. TrueReport(r)'
  BY <1>1, TrueStays
<1>4. /\ h'[t].report = r /\ h'[t].pc \in {"track", "live?"}
      /\ \A u \in Thread : u # t => h'[u] = h[u]
  BY DEF Begin, TypeOK, HandlerTypeOK
<1>5. ASSUME NEW u \in Thread, ~Idle(u)'
      PROVE  (~Idle(u) /\ h'[u].report = h[u].report) \/ TrueReport(h[u].report)'
  <2>1. CASE u = t
    <3>1. h'[u].report = r
      BY <1>4, <2>1
    <3> QED BY <1>3, <3>1 DEF TrueReport
  <2>2. CASE u # t
    BY <1>4, <1>5, <2>2 DEF Idle
  <2> QED BY <2>1, <2>2
<1>6. Truthful'
  BY <1>1, <1>5, TruthfulStays DEF Believes
<1>7. \A u \in Thread : h'[u] = h[u] \/ h'[u].pc # "release"
  BY <1>4
<1>8. \A x \in Order : Holds(x) /\ (hand' = x \/ x \in Range(wire')) => x \in cids'
  BY DEF Believes, Confirming
<1> QED BY <1>1, <1>2, <1>6, <1>7, <1>8, OutsideKeeps DEF Open

(* The listener starts on a true report. *)
LEMMA ReceiveKeeps ==
  ASSUME TypeOK, TypeOK', Believes, Receive
  PROVE  StillBelieves
<1>1. Head(inbox) \in Report /\ Range(inbox) = {Head(inbox)} \cup Range(inbox')
  BY QueueTyped, RangeTail DEF TypeOK, Receive
<1>2. PICK r \in Report : r = Head(inbox)
  BY <1>1
<1>3. TrueReport(r)
  BY <1>1, <1>2 DEF Believes, Truthful
<1>4. Begin(Listener, r) /\ Listener \in Thread
  BY <1>2, ThreadsTyped DEF Receive
<1>5. UNCHANGED <<live, cids, tracker, told, hand, emitted, signals, wire, exch, rec>>
  BY DEF Receive, strategyVars, exchangeVars, recVars
<1> QED BY <1>1, <1>3, <1>4, <1>5, BeginKeeps

-----------------------------------------------------------------------------
(* HandleOrderUpdate keeps what the engine believes. *)

(* A step of the function about the report r of thread t. *)
Working(t, r) == /\ ~Idle(t) /\ r = h[t].report /\ TrueReport(r)
                 /\ r.order \in Order /\ r.id \in Id /\ r.status \in Status /\ r.filled \in Nat
                 /\ r.filled <= exch[r.order].filled /\ exch[r.order].st # "unknown"

(* No step of it changes what the exchange did, what is on its way there or   *)
(* what any thread is working on.                                             *)
LEMMA InsideKeeps ==
  ASSUME TypeOK, TypeOK', Believes, NEW t \in Thread, Handle(t)
  PROVE  /\ SentOnce' /\ Truthful'
         /\ UNCHANGED <<exch, hand, wire>>
         /\ \A u \in Thread : u # t => h'[u] = h[u]
         /\ \A u \in Thread : ~Idle(u)' => ~Idle(u) /\ h'[u].report = h[u].report
         /\ \E r \in Report : Working(t, r)
<1>1. UNCHANGED <<emitted, signals, hand, wire, exch, inbox, rec>>
  BY DEF Handle, strategyVars, exchangeVars, channelVars, accountVars, recVars
<1>2. ~Idle(t) /\ (Return(t) \/ \E pc \in HandlerPc : GoTo(t, pc))
  BY DEF Handle, HandlerStep, CheckLive, CheckCid, RecoverBook, RecoverLive, SkipDuplicate, Track,
         Release, Apply, Tell, At, Idle, HandlerPc
<1>3. /\ \A u \in Thread : u # t => h'[u] = h[u]
      /\ \A u \in Thread : ~Idle(u)' => ~Idle(u) /\ h'[u].report = h[u].report
  <2>1. h[t] \in [pc : HandlerPc \ {"idle"}, report : Report] /\ h \in [Thread -> HandlerState]
    BY <1>2, ReportOf DEF TypeOK, HandlerTypeOK
  <2>2. CASE Return(t)
    BY <2>1, <2>2 DEF Return, Idle
  <2>3. ASSUME NEW pc \in HandlerPc, GoTo(t, pc)
        PROVE  /\ \A u \in Thread : u # t => h'[u] = h[u]
               /\ h'[t].report = h[t].report
    BY <2>1, <2>3 DEF GoTo
  <2> QED BY <1>2, <2>2, <2>3 DEF Idle
<1>4. Grows
  BY <1>1, SameGrows
<1>5. SentOnce' /\ Truthful'
  BY <1>1, <1>3, <1>4, SentStays, TruthfulStays DEF Believes
<1>6. PICK r \in Report : r = h[t].report
  BY <1>2, ReportOf DEF TypeOK
<1>7. TrueReport(r)
  BY <1>2, <1>6 DEF Believes, Truthful
<1>8. Working(t, r)
  BY <1>2, <1>6, <1>7, TrueIsKnown, ReportOf DEF Working, TypeOK, TrueReport
<1> QED BY <1>1, <1>3, <1>5, <1>8

(* What a true report says of its order, by the id it carries. *)
LEMMA ReportSays ==
  ASSUME TypeOK, NEW t \in Thread, NEW r \in Report, Working(t, r)
  PROVE  /\ r.id \in Order => r.id = r.order /\ r.status # "REJECTED" /\ Accepted(r.order)
         /\ r.status \in Terminal => Closed(r.order)
         /\ r.status = "NEW" => r.id = r.order
BY NoIdAssumption DEF Working, TrueReport, Terminal, Closed, Accepted, Status

(* Steps that only move the thread, or move it and change the balances. *)
LEMMA MoveKeeps ==
  ASSUME TypeOK, TypeOK', Believes, NEW t \in Thread, Handle(t),
         UNCHANGED <<live, cids, tracker, told>>, h'[t].pc # "release"
  PROVE  StillBelieves
<1>1. /\ SentOnce' /\ Truthful' /\ UNCHANGED <<exch, hand, wire>>
      /\ \A u \in Thread : u # t => h'[u] = h[u]
  BY InsideKeeps
<1>2. Grows
  BY <1>1, SameGrows
<1>3. \A x \in Order : Holds(x) /\ (hand' = x \/ x \in Range(wire')) => x \in cids'
  BY <1>1 DEF Believes, Confirming
<1>4. \A u \in Thread : h'[u] = h[u] \/ h'[u].pc # "release"
  BY <1>1
<1> QED BY <1>1, <1>2, <1>3, <1>4, OutsideKeeps DEF Open

(* Recovering from a missed acceptance: the order joins the live ones. *)
LEMMA RecoverLiveKeeps ==
  ASSUME TypeOK, TypeOK', Believes, NEW t \in Thread, Handle(t), RecoverLive(t)
  PROVE  StillBelieves
<1>1. PICK r \in Report : Working(t, r)
  BY InsideKeeps
<1>2. /\ SentOnce' /\ Truthful' /\ UNCHANGED <<exch, hand, wire>>
      /\ \A u \in Thread : u # t => h'[u] = h[u]
  BY InsideKeeps
<1>3. /\ live' = live \cup {r.id} /\ UNCHANGED <<cids, tracker, told>>
      /\ h'[t].pc = "track"
  BY <1>1, ReportOf DEF RecoverLive, GoTo, Working, TypeOK, HandlerTypeOK
<1>4. ToldTruth'
  BY <1>1, <1>2, <1>3, ReportSays DEF Believes, ToldTruth, Accepted, Closed
<1>5. (NeverLost => NeverLost') /\ TrackerBehind'
  BY <1>2, <1>3 DEF Believes, NeverLost, TrackerBehind, Open, Holds, Reserves, IsSpot, Asked
<1>6. Confirming'
  <2>1. \A u \in Thread : At(u, "release")' => u # t /\ h'[u] = h[u]
    BY <1>2, <1>3 DEF At
  <2>2. ASSUME NEW u \in Thread, At(u, "release")'
        PROVE  h'[u].report.order \in live' \/ Closed(h[u].report.order)'
    BY <1>2, <1>3, <2>1, <2>2 DEF Believes, Confirming, At, Closed
  <2>3. \A o \in Order : (hand' = o \/ o \in Range(wire')) /\ Holds(o) => o \in cids'
    BY <1>2, <1>3 DEF Believes, Confirming
  <2> QED BY <2>2, <2>3 DEF Confirming, Holds, Reserves, IsSpot, Asked
<1> QED BY <1>2, <1>4, <1>5, <1>6 DEF Believes, StillBelieves

(* The table of live orders. *)
LEMMA TrackKeeps ==
  ASSUME TypeOK, TypeOK', Believes, NEW t \in Thread, Handle(t), Track(t)
  PROVE  StillBelieves
<1>1. PICK r \in Report : Working(t, r)
  BY InsideKeeps
<1>2. /\ SentOnce' /\ Truthful' /\ UNCHANGED <<exch, hand, wire>>
      /\ \A u \in Thread : u # t => h'[u] = h[u]
  BY InsideKeeps
<1>3. /\ live' = TrackLive(live, r) /\ UNCHANGED <<cids, tracker, told>>
      /\ h'[t].pc = IF r.status = "PARTIALLY_FILLED" THEN "apply" ELSE "release"
      /\ h'[t].report = r
  BY <1>1, ReportOf DEF Track, GoTo, Working, TypeOK, HandlerTypeOK
<1>4. /\ \A o \in Order : o \in live' /\ o \notin live => Accepted(o)
      /\ \A o \in Order : o \in live /\ o \notin live' => Closed(o)
  BY <1>1, <1>3, ReportSays DEF TrackLive
<1>5. ToldTruth'
  <2>1. \A o \in Order : told'[o] \in Terminal => Closed(o)'
    BY <1>2, <1>3 DEF Believes, ToldTruth, Closed
  <2>2. ASSUME NEW o \in live' \cap Order PROVE exch'[o].st \notin {"unknown", "refused"}
    <3>1. CASE o \in live
      BY <1>2, <2>2, <3>1 DEF Believes, ToldTruth
    <3>2. CASE o \notin live
      BY <1>2, <1>4, <2>2, <3>2 DEF Accepted
    <3> QED BY <3>1, <3>2
  <2> QED BY <2>1, <2>2 DEF ToldTruth
<1>6. (NeverLost => NeverLost') /\ TrackerBehind'
  BY <1>2, <1>3, <1>4 DEF Believes, NeverLost, TrackerBehind, Open, Closed, Holds, Reserves, IsSpot, Asked
<1>7. Confirming'
  <2>1. ASSUME At(t, "release")'
        PROVE  r.order \in live' \/ Closed(r.order)
    <3>1. r.status # "PARTIALLY_FILLED"
      BY <1>3, <2>1 DEF At
    <3>2. r.status = "NEW" \/ r.status \in Terminal
      BY <1>1, <3>1 DEF Working, Status
    <3> QED BY <1>1, <1>3, <3>2, ReportSays DEF TrackLive
  <2>2. ASSUME NEW u \in Thread, u # t, At(u, "release")'
        PROVE  h'[u].report.order \in live' \/ Closed(h'[u].report.order)
    <3>1. h'[u] = h[u] /\ At(u, "release")
      BY <1>2, <2>2 DEF At
    <3>2. h[u].report.order \in Order
      BY <3>1, ReportOf DEF TypeOK, At, Idle
    <3> QED BY <1>4, <3>1, <3>2 DEF Believes, Confirming
  <2>3. \A o \in Order : (hand' = o \/ o \in Range(wire')) /\ Holds(o) => o \in cids'
    BY <1>2, <1>3 DEF Believes, Confirming
  <2>4. ASSUME NEW u \in Thread, At(u, "release")'
        PROVE  h'[u].report.order \in live' \/ Closed(h[u].report.order)'
    BY <1>2, <1>3, <2>1, <2>2, <2>4 DEF Closed
  <2> QED BY <2>3, <2>4 DEF Confirming, Holds, Reserves, IsSpot, Asked
<1> QED BY <1>2, <1>5, <1>6, <1>7 DEF Believes, StillBelieves

(* The table of unconfirmed orders, cleared only of what is live or closed. *)
LEMMA ReleaseKeeps ==
  ASSUME TypeOK, TypeOK', Believes, NEW t \in Thread, Handle(t), Release(t)
  PROVE  StillBelieves
<1>1. PICK r \in Report : Working(t, r)
  BY InsideKeeps
<1>2. /\ SentOnce' /\ Truthful' /\ UNCHANGED <<exch, hand, wire>>
      /\ \A u \in Thread : u # t => h'[u] = h[u]
  BY InsideKeeps
<1>3. /\ cids' = cids \ {r.order} /\ UNCHANGED <<live, tracker, told>>
      /\ h'[t].pc = "apply" /\ At(t, "release")
  BY <1>1, ReportOf DEF Release, GoTo, Working, TypeOK, HandlerTypeOK
<1>4. r.order \in live \/ Closed(r.order)
  BY <1>1, <1>3 DEF Believes, Confirming, Working
<1>5. ToldTruth' /\ TrackerBehind'
  BY <1>2, <1>3 DEF Believes, ToldTruth, TrackerBehind, Closed
<1>6. NeverLost => NeverLost'
  BY <1>2, <1>3, <1>4 DEF Believes, NeverLost, Open, Closed, Holds, Reserves, IsSpot, Asked
<1>7. Confirming'
  <2>1. \A o \in Order : hand = o \/ o \in Range(wire) => o # r.order
    BY <1>1 DEF Believes, SentOnce, InFlight, Working
  <2>2. \A o \in Order : (hand' = o \/ o \in Range(wire')) /\ Holds(o) => o \in cids'
    BY <1>2, <1>3, <2>1 DEF Believes, Confirming
  <2>3. ASSUME NEW u \in Thread, At(u, "release")'
        PROVE  h'[u].report.order \in live' \/ Closed(h[u].report.order)'
    <3>1. u # t /\ h'[u] = h[u]
      BY <1>2, <1>3, <2>3 DEF At
    <3> QED BY <1>2, <1>3, <2>3, <3>1 DEF Believes, Confirming, At, Closed
  <2> QED BY <2>2, <2>3 DEF Confirming, Holds, Reserves, IsSpot, Asked
<1> QED BY <1>2, <1>5, <1>6, <1>7 DEF Believes, StillBelieves

(* The fill tracker takes a true volume or none. *)
LEMMA ApplyKeeps ==
  ASSUME TypeOK, TypeOK', Believes, NEW t \in Thread, Handle(t), Apply(t)
  PROVE  StillBelieves
<1>1. PICK r \in Report : Working(t, r)
  BY InsideKeeps
<1>2. /\ SentOnce' /\ Truthful' /\ UNCHANGED <<exch, hand, wire>>
      /\ \A u \in Thread : u # t => h'[u] = h[u]
  BY InsideKeeps
<1>3. /\ tracker' = TrackFill(r) /\ UNCHANGED <<live, cids, told>>
      /\ h'[t].pc = "tell"
  BY <1>1, ReportOf DEF Apply, GoTo, Working, TypeOK, HandlerTypeOK
<1>4. TrackerBehind'
  <2>1. ASSUME NEW o \in Order PROVE tracker'[o] <= exch[o].filled
    <3>1. /\ tracker[o] \in Nat /\ exch[o].filled \in Nat /\ tracker[o] <= exch[o].filled
          /\ tracker \in [Order -> Nat]
      BY DEF Believes, TrackerBehind, TypeOK, HandlerTypeOK
    <3>2. CASE o = r.order
      <4>1. tracker'[o] \in {0, tracker[o], r.filled}
        BY <1>3, <3>1, <3>2 DEF TrackFill
      <4> QED BY <1>1, <3>1, <3>2, <4>1 DEF Working
    <3>3. CASE o # r.order
      <4>1. tracker'[o] = tracker[o]
        BY <1>3, <3>1, <3>3 DEF TrackFill
      <4> QED BY <3>1, <4>1
    <3> QED BY <3>2, <3>3
  <2> QED BY <1>2, <2>1 DEF TrackerBehind
<1>5. ToldTruth' /\ (NeverLost => NeverLost')
  BY <1>2, <1>3 DEF Believes, ToldTruth, NeverLost, Open, Closed, Holds, Reserves, IsSpot, Asked
<1>6. Confirming'
  <2>1. \A o \in Order : (hand' = o \/ o \in Range(wire')) /\ Holds(o) => o \in cids'
    BY <1>2, <1>3 DEF Believes, Confirming
  <2>2. ASSUME NEW u \in Thread, At(u, "release")'
        PROVE  h'[u].report.order \in live' \/ Closed(h[u].report.order)'
    <3>1. u # t /\ h'[u] = h[u]
      BY <1>2, <1>3, <2>2 DEF At
    <3> QED BY <1>2, <1>3, <2>2, <3>1 DEF Believes, Confirming, At, Closed
  <2> QED BY <2>1, <2>2 DEF Confirming, Holds, Reserves, IsSpot, Asked
<1> QED BY <1>2, <1>4, <1>5, <1>6 DEF Believes, StillBelieves

(* The strategy is told what the report says. *)
LEMMA TellKeeps ==
  ASSUME TypeOK, TypeOK', Believes, NEW t \in Thread, Handle(t), Tell(t)
  PROVE  StillBelieves
<1>1. PICK r \in Report : Working(t, r)
  BY InsideKeeps
<1>2. /\ SentOnce' /\ Truthful' /\ UNCHANGED <<exch, hand, wire>>
      /\ \A u \in Thread : u # t => h'[u] = h[u]
  BY InsideKeeps
<1>3. /\ told' = [told EXCEPT ![r.id] = r.status] /\ UNCHANGED <<live, cids, tracker>>
      /\ h'[t].pc = "idle"
  BY <1>1, ReportOf DEF Tell, Return, Working, TypeOK, HandlerTypeOK
<1>4. ToldTruth'
  <2>1. ASSUME NEW o \in Order, told'[o] \in Terminal PROVE Closed(o)
    <3>1. told \in [Id -> Status \cup {"none"}] /\ o \in Id
      BY DEF TypeOK, HandlerTypeOK, Id
    <3>2. CASE o = r.id
      <4>1. r.status \in Terminal /\ r.id = r.order
        BY <1>1, <1>3, <2>1, <3>1, <3>2, ReportSays
      <4> QED BY <1>1, <3>2, <4>1, ReportSays
    <3>3. CASE o # r.id
      BY <1>3, <2>1, <3>1, <3>3 DEF Believes, ToldTruth
    <3> QED BY <3>2, <3>3
  <2> QED BY <1>2, <1>3, <2>1 DEF Believes, ToldTruth, Closed
<1>5. (NeverLost => NeverLost') /\ TrackerBehind'
  BY <1>2, <1>3 DEF Believes, NeverLost, TrackerBehind, Open, Holds, Reserves, IsSpot, Asked
<1>6. Confirming'
  <2>1. \A o \in Order : (hand' = o \/ o \in Range(wire')) /\ Holds(o) => o \in cids'
    BY <1>2, <1>3 DEF Believes, Confirming
  <2>2. ASSUME NEW u \in Thread, At(u, "release")'
        PROVE  h'[u].report.order \in live' \/ Closed(h[u].report.order)'
    <3>1. u # t /\ h'[u] = h[u]
      BY <1>2, <1>3, <2>2 DEF At
    <3> QED BY <1>2, <1>3, <2>2, <3>1 DEF Believes, Confirming, At, Closed
  <2> QED BY <2>1, <2>2 DEF Confirming, Holds, Reserves, IsSpot, Asked
<1> QED BY <1>2, <1>4, <1>5, <1>6 DEF Believes, StillBelieves

(* Every step of HandleOrderUpdate keeps what the engine believes. *)
LEMMA HandleKeeps ==
  ASSUME TypeOK, TypeOK', Believes, NEW t \in Thread, Handle(t)
  PROVE  StillBelieves
<1>1. CASE CheckLive(t) \/ CheckCid(t) \/ RecoverBook(t) \/ SkipDuplicate(t)
  <2>1. UNCHANGED <<live, cids, tracker, told>>
    BY <1>1 DEF CheckLive, CheckCid, RecoverBook, SkipDuplicate
  <2>2. h'[t].pc # "release"
    <3>1. ~Idle(t)
      BY <1>1 DEF CheckLive, CheckCid, RecoverBook, SkipDuplicate, At, Idle
    <3>2. h[t] \in [pc : HandlerPc \ {"idle"}, report : Report] /\ h \in [Thread -> HandlerState]
      BY <3>1, ReportOf DEF TypeOK, HandlerTypeOK
    <3>3. CASE CheckLive(t)
      BY <3>2, <3>3 DEF CheckLive, GoTo
    <3>4. CASE CheckCid(t)
      BY <3>2, <3>4 DEF CheckCid, GoTo
    <3>5. CASE RecoverBook(t)
      BY <3>2, <3>5 DEF RecoverBook, GoTo
    <3>6. CASE SkipDuplicate(t)
      BY <3>2, <3>6 DEF SkipDuplicate, Return
    <3> QED BY <1>1, <3>3, <3>4, <3>5, <3>6
  <2> QED BY <2>1, <2>2, MoveKeeps
<1> QED BY <1>1, RecoverLiveKeeps, TrackKeeps, ReleaseKeeps, ApplyKeeps, TellKeeps
        DEF Handle, HandlerStep

-----------------------------------------------------------------------------
(* The reconciler keeps what the engine believes. *)

(* A step of its loop that calls nothing, with a true snapshot. *)
LEMMA LoopKeeps ==
  ASSUME TypeOK, TypeOK', Believes,
         UNCHANGED <<live, cids, tracker, told, h, hand, emitted, signals, wire, exch, inbox>>,
         \A m \in rec'.pending : m \in rec.pending \/ (Accepted(m.order) /\ m.filled <= exch[m.order].filled),
         \A o \in rec'.orphans \cap Order : o \in rec.orphans \/ Accepted(o)
  PROVE  StillBelieves
<1>1. Grows
  BY SameGrows
<1>2. SentOnce'
  BY SentStays DEF Believes
<1>3. \A m \in rec'.pending : m \in rec.pending \/ (Accepted(m.order) /\ m.filled <= exch[m.order].filled)'
  BY DEF Accepted
<1>4. Truthful'
  BY <1>1, <1>3, TruthfulStays DEF Believes, Idle
<1>5. \A x \in Order : Holds(x) /\ (hand' = x \/ x \in Range(wire')) => x \in cids'
  BY DEF Believes, Confirming
<1> QED BY <1>1, <1>2, <1>4, <1>5, OutsideKeeps DEF Open

(* The account channel is no concern of the order tables. *)
LEMMA AccountKeeps ==
  ASSUME TypeOK, TypeOK', Believes, ApplyBalance \/ \E c \in Currency : PushBalance(c)
  PROVE  StillBelieves
<1>1. /\ UNCHANGED <<live, cids, tracker, told, h, hand, emitted, signals, wire, exch, inbox>>
      /\ rec' = rec
  BY DEF ApplyBalance, PushBalance, handlerVars, strategyVars, exchangeVars, recVars
<1> QED BY <1>1, LoopKeeps

(* What a round of the reconciler does: true snapshots, and reports made of them. *)
LEMMA RoundKeeps ==
  ASSUME TypeOK, TypeOK', Believes, RoundStep
  PROVE  StillBelieves
<1> DEFINE Others == UNCHANGED <<live, cids, tracker, told, h, hand, emitted, signals, wire, exch, inbox>>
           Calls  == UNCHANGED <<live, cids, tracker, told, hand, emitted, signals, wire, exch, inbox>>
<1>0. /\ rec \in [pc : RecPc, pending : SUBSET PendingOrder, orphans : SUBSET Id, cids : SUBSET Order,
                 balances : SUBSET Balance, positions : SUBSET Contracts]
      /\ KeepAllButRec => Others
  BY DEF TypeOK, RecTypeOK, KeepAllButRec, handlerVars, strategyVars, exchangeVars, channelVars, accountVars
<1>1. \A market : \A m \in NowPending(market) : Accepted(m.order) /\ m.filled <= exch[m.order].filled
  <2> SUFFICES ASSUME NEW o \in Order, Open(o)
               PROVE  Accepted(o) /\ exch[o].filled <= exch[o].filled
    BY DEF NowPending
  <2>1. exch[o].filled \in Nat
    BY DEF TypeOK
  <2> QED BY <2>1 DEF Open, Accepted
<1>2. CASE QuerySpotPending
  <2>1. PICK page \in SUBSET NowPending("SPOT") : rec' = [rec EXCEPT !.pc = "swaps", !.pending = page]
    BY <1>2 DEF QuerySpotPending
  <2>2. rec'.pending = page /\ rec'.orphans = rec.orphans
    BY <1>0, <2>1
  <2> QED BY <1>0, <1>1, <1>2, <2>2, LoopKeeps DEF QuerySpotPending
<1>3. CASE QuerySwapPending
  <2>1. PICK page \in SUBSET NowPending("SWAP") :
          rec' = [rec EXCEPT !.pc = "orphans", !.pending = @ \cup page]
    BY <1>3 DEF QuerySwapPending
  <2>2. rec'.pending = rec.pending \cup page /\ rec'.orphans = rec.orphans
    BY <1>0, <2>1
  <2> QED BY <1>0, <1>1, <1>3, <2>2, LoopKeeps DEF QuerySwapPending
<1>4. ASSUME NEW o \in rec.orphans, ReplayEnd(o) PROVE StillBelieves
  <2>1. o \in Order /\ exch[o].filled \in Nat /\ Closed(o)
    BY <1>0, <1>4 DEF ReplayEnd, Id, TypeOK
  <2>2. ReportedStatus(o) \in Status
    BY <2>1 DEF ReportedStatus, Status, Terminal, Closed
  <2>3. PICK r \in Report : r = EndReport(o)
    BY <2>1, <2>2, EndReportTyped
  <2>4. Accepted(o)
    BY <2>1 DEF Believes, Truthful
  <2>5. TrueReport(r)
    BY <2>1, <2>3, <2>4 DEF TrueReport, EndReport, FillReport, ReportedStatus, Closed, Accepted
  <2>6. Calls /\ rec'.pending = rec.pending /\ rec'.orphans \subseteq rec.orphans /\ Begin(Reconciler, r)
    BY <1>0, <1>4, <2>3 DEF ReplayEnd, strategyVars, exchangeVars, channelVars, accountVars
  <2> QED BY <2>5, <2>6, ThreadsTyped, BeginKeeps
<1>5. ASSUME NEW o \in rec.cids, ReplayNew(o) PROVE StillBelieves
  <2>1. PICK m \in rec.pending : m.order = o /\ Begin(Reconciler, ChannelReport(o, "NEW", m.filled))
    BY <1>5 DEF ReplayNew
  <2>2. o \in Order /\ m.filled \in Nat /\ Accepted(o) /\ m.filled <= exch[o].filled
    BY <1>0, <2>1 DEF PendingOrder, Believes, Truthful
  <2>3. PICK r \in Report : r = ChannelReport(o, "NEW", m.filled)
    BY <2>2, ChannelReportTyped DEF Status
  <2>4. TrueReport(r)
    BY <2>2, <2>3 DEF TrueReport, ChannelReport, FillReport
  <2>5. Calls /\ rec'.pending = rec.pending /\ rec'.orphans \subseteq rec.orphans /\ Begin(Reconciler, r)
    BY <1>0, <1>5, <2>1, <2>3 DEF ReplayNew, strategyVars, exchangeVars, channelVars, accountVars
  <2> QED BY <2>4, <2>5, ThreadsTyped, BeginKeeps
<1>6. CASE QueryBalances
  <2>1. Others /\ rec'.pending = {} /\ rec'.orphans \subseteq rec.orphans
    BY <1>0, <1>6 DEF QueryBalances
  <2> QED BY <2>1, LoopKeeps
<1>7. CASE FinishRound
  <2>1. Others /\ rec'.pending = {} /\ rec'.orphans \subseteq rec.orphans
    BY <1>0, <1>7 DEF FinishRound, RecIdle
  <2> QED BY <2>1, LoopKeeps
<1>8. ASSUME \/ CopyCids \/ QuerySwapPositions
             \/ \E i \in rec.orphans : SkipOrphan(i)
             \/ \E o \in rec.cids : SkipCid(o)
             \/ \E b \in rec.balances : SyncBalance(b)
             \/ \E p \in rec.positions : SyncPosition(p)
      PROVE  StillBelieves
  <2>1. Others
    BY <1>0, <1>8 DEF CopyCids, QuerySwapPositions, SkipOrphan, SkipCid, SyncBalance,
                      SyncPosition, strategyVars, exchangeVars, channelVars, accountVars
  <2>2. rec'.pending = rec.pending /\ rec'.orphans \subseteq rec.orphans
    BY <1>0, <1>8 DEF CopyCids, QuerySwapPositions, SkipOrphan, SkipCid, SyncBalance, SyncPosition
  <2> QED BY <2>1, <2>2, LoopKeeps
<1>9. CASE FindOrphans
  <2>1. Others /\ rec'.pending = rec.pending /\ rec'.orphans \subseteq live
    BY <1>0, <1>9 DEF FindOrphans
  <2>2. \A o \in live \cap Order : Accepted(o)
    BY DEF Believes, ToldTruth, Accepted, TypeOK, ExchState
  <2> QED BY <2>1, <2>2, LoopKeeps
<1> QED BY <1>2, <1>3, <1>4, <1>5, <1>6, <1>7, <1>8, <1>9 DEF RoundStep

-----------------------------------------------------------------------------
(* At the start nothing is under way and nothing is believed. *)
LEMMA InitBelieves == Init => EngineInv
<1> SUFFICES ASSUME Init PROVE EngineInv
  OBVIOUS
<1>1. SentOnce
  BY RangeEmpty, NoneAssumption DEF Init, Unsent, SentOnce, InFlight
<1>2. Truthful
  BY RangeEmpty DEF Init, HandlerInit, Truthful, Idle, RecIdle
<1>3. Confirming
  BY RangeEmpty, NoneAssumption DEF Init, HandlerInit, Confirming, At
<1>4. NeverLost /\ ToldTruth /\ TrackerBehind
  BY DEF Init, Unsent, HandlerInit, NeverLost, Open, ToldTruth, Id, Terminal, TrackerBehind
<1> QED BY <1>1, <1>2, <1>3, <1>4 DEF EngineInv, Believes

(* Every step keeps what the engine believes, and loses nothing. *)
LEMMA StepBelieves ==
  ASSUME TypeOK, TypeOK', Believes, [Next]_vars
  PROVE  StillBelieves
<1>1. CASE ChannelNext
  BY <1>1, EmitKeeps, DispatchKeeps, SendKeeps, AcceptKeeps, RefuseKeeps, TradeKeeps, CancelKeeps,
     ChannelKeeps, AccountKeeps, ReceiveKeeps, HandleKeeps, ThreadsTyped
     DEF ChannelNext, ExchangeStep, ListenerStep
<1>2. CASE ReconcilerStep
  BY <1>2, RoundKeeps, HandleKeeps, ThreadsTyped DEF ReconcilerStep
<1>3. CASE UNCHANGED vars
  BY <1>3, LoopKeeps DEF vars, handlerVars, strategyVars, exchangeVars, channelVars, accountVars, recVars
<1> QED BY <1>1, <1>2, <1>3 DEF Next

(* And so the whole invariant, once nothing is lost. *)
LEMMA StepKeeps ==
  ASSUME TypeOK, TypeOK', EngineInv, [Next]_vars
  PROVE  EngineInv'
BY StepBelieves DEF EngineInv, StillBelieves

(* What the engine believes is true at every moment: an order goes to the     *)
(* exchange once, every report still to be applied is one the exchange's      *)
(* state confirms, and an order whose acceptance is being applied is live.    *)
THEOREM EngineInvariant == Spec => []EngineInv
<1> QED BY InitTyped, StepTyped, InitBelieves, StepKeeps, PTL DEF Spec

(* An order with a reservation that rests at the exchange is in one of the    *)
(* two tables the reconciler looks at, whatever was lost.                     *)
THEOREM NothingLost == Spec => []NeverLost
<1>1. EngineInv => NeverLost
  BY DEF EngineInv, Believes
<1> QED BY <1>1, EngineInvariant, PTL

(* The strategy is told of no end that did not happen, and nothing is taken   *)
(* for live that the exchange never took.                                     *)
THEOREM TruthTold == Spec => []ToldTruth
<1>1. EngineInv => ToldTruth
  BY DEF EngineInv, Believes
<1> QED BY <1>1, EngineInvariant, PTL

(* No fill tracker runs ahead of the exchange.                                *)
THEOREM TrackersBehind == Spec => []TrackerBehind
<1>1. EngineInv => TrackerBehind
  BY DEF EngineInv, Believes
<1> QED BY <1>1, EngineInvariant, PTL

-----------------------------------------------------------------------------
(* The engine implements OrderPromise.                                        *)

(* A step that sends nothing new, decides nothing and tells nothing is a      *)
(* stutter of the promise.                                                    *)
LEMMA PromiseStutters ==
  ASSUME UNCHANGED <<emitted, told>>, \A o \in Order : exch'[o].st = exch[o].st
  PROVE  UNCHANGED Promise!vars
BY DEF Promise!vars

(* What the exchange makes of one order. *)
LEMMA PromiseBecome ==
  ASSUME TypeOK, NEW o \in Order, UNCHANGED <<emitted, told>>,
         NEW to \in ExchState, exch'[o].st = to, \A x \in Order : x # o => exch'[x].st = exch[x].st
  PROVE  Promise!Become(o, exch[o].st, to)
<1> DEFINE now == [x \in Order |-> exch[x].st]
           then == [x \in Order |-> exch'[x].st]
<1>1. then = [now EXCEPT ![o] = to]
  OBVIOUS
<1> QED BY <1>1 DEF Promise!Become

(* An order on the wire has been asked for and is undecided; the exchange     *)
(* takes it or refuses it.                                                    *)
LEMMA PromiseDecide ==
  ASSUME TypeOK, Believes, Accept \/ Refuse
  PROVE  Promise!Next
<1>1. PICK o \in Order : wire # <<>> /\ Head(wire) = o
  BY QueueTyped DEF Accept, Refuse, TypeOK
<1>2. o \in emitted /\ exch[o].st = "unknown"
  <2>1. o \in Range(wire)
    BY <1>1, RangesTyped DEF Range, TypeOK
  <2> QED BY <2>1 DEF Believes, SentOnce, InFlight
<1>3. UNCHANGED <<emitted, told>>
  BY DEF Accept, Refuse, handlerVars, strategyVars
<1>4. PICK to \in {"open", "refused"} : exch' = [exch EXCEPT ![o].st = to]
  BY <1>1 DEF Accept, Refuse
<1>5. exch'[o].st = to /\ \A x \in Order : x # o => exch'[x].st = exch[x].st
  BY <1>4 DEF TypeOK
<1>6. Promise!Become(o, "unknown", to)
  BY <1>2, <1>3, <1>5, PromiseBecome DEF ExchState
<1> QED BY <1>2, <1>6 DEF Promise!Next, Promise!Decide

(* Fills leave an order open until the last; a cancellation ends it.          *)
LEMMA PromiseEnd ==
  ASSUME TypeOK, NEW o \in Order,
         (\E n \in 1 .. Terms[o].volume, d \in Offered(o) : Trade(o, n, d)) \/ Cancel(o)
  PROVE  Promise!Next \/ UNCHANGED Promise!vars
<1>1. UNCHANGED <<emitted, told>> /\ exch[o].st = "open"
  BY DEF Trade, Cancel, Open, handlerVars, strategyVars
<1>2. PICK to \in {"open", "filled", "cancelled"} :
        exch'[o].st = to /\ \A x \in Order : x # o => exch'[x].st = exch[x].st
  BY DEF Trade, Cancel, TypeOK
<1>3. CASE to = "open"
  <2>1. \A x \in Order : exch'[x].st = exch[x].st
    BY <1>1, <1>2, <1>3
  <2> QED BY <1>1, <2>1, PromiseStutters
<1>4. CASE to # "open"
  <2>1. Promise!Become(o, "open", to)
    BY <1>1, <1>2, PromiseBecome DEF ExchState
  <2> QED BY <1>2, <1>4, <2>1 DEF Promise!Next, Promise!End
<1> QED BY <1>3, <1>4

(* The last step of HandleOrderUpdate tells a true report, under the order's  *)
(* id or, of a refusal, under none; the others tell nothing.                  *)
LEMMA PromiseTell ==
  ASSUME TypeOK, TypeOK', Believes, NEW t \in Thread, Handle(t)
  PROVE  Promise!Next \/ UNCHANGED Promise!vars
<1>1. UNCHANGED <<emitted, exch>>
  BY DEF Handle, strategyVars, exchangeVars
<1>2. PICK r \in Report : Working(t, r)
  BY InsideKeeps
<1>3. CASE ~Tell(t)
  <2>1. told' = told
    BY <1>3 DEF Handle, HandlerStep, CheckLive, CheckCid, RecoverBook, RecoverLive, SkipDuplicate, Track,
                Release, Apply
  <2> QED BY <1>1, <2>1, PromiseStutters
<1>4. CASE Tell(t)
  <2>1. told' = [told EXCEPT ![r.id] = r.status]
    BY <1>2, <1>4, ReportOf DEF Tell, Working
  <2>2. told \in [Id -> Status \cup {"none"}] /\ Order \subseteq Id
    BY DEF TypeOK, HandlerTypeOK, Id
  <2>3. CASE r.id \notin Order
    <3>1. [o \in Order |-> told'[o]] = [o \in Order |-> told[o]]
      BY <2>1, <2>2, <2>3
    <3> QED BY <1>1, <3>1 DEF Promise!vars
  <2>4. CASE r.id \in Order
    <3>1. /\ r.id = r.order /\ Accepted(r.order)
          /\ r.status \in {"NEW", "PARTIALLY_FILLED", "FILLED", "CANCELLED"}
          /\ r.status = "FILLED" => exch[r.order].st = "filled"
          /\ r.status = "CANCELLED" => exch[r.order].st = "cancelled"
      <4>1. r.id = r.order /\ r.status # "REJECTED" /\ Accepted(r.order)
        BY <1>2, <2>4, ReportSays
      <4>2. r.status \in Status /\ TrueReport(r)
        BY <1>2 DEF Working
      <4> QED BY <4>1, <4>2 DEF TrueReport, Status, Terminal
    <3>2. [o \in Order |-> told'[o]] = [[o \in Order |-> told[o]] EXCEPT ![r.id] = r.status]
      BY <2>1, <2>2, <2>4
    <3>3. Promise!Says(r.status, exch[r.id].st)
      BY <3>1 DEF Promise!Says, Accepted
    <3>4. Promise!Tell(r.id)
      BY <1>1, <2>4, <3>1, <3>2, <3>3 DEF Promise!Tell
    <3> QED BY <2>4, <3>4 DEF Promise!Next
  <2> QED BY <2>3, <2>4
<1> QED BY <1>3, <1>4

(* A step of the reconciler's loop leaves the live table, what is told, sent  *)
(* and held by the exchange alone, and fails a call at most.                  *)
LEMMA RoundLeaves ==
  ASSUME RoundStep
  PROVE  /\ UNCHANGED <<live, told, emitted, wire, exch>>
         /\ failures' = failures \/ failures' = failures + 1
<1>1. ASSUME KeepAllButRec PROVE UNCHANGED <<live, told, emitted, wire, exch>>
  BY <1>1 DEF KeepAllButRec, handlerVars, strategyVars, exchangeVars, channelVars
<1>2. CASE QuerySpotPending \/ QuerySwapPending \/ QueryBalances \/ QuerySwapPositions
  <2>1. (Complete \/ Failed) /\ KeepAllButRec
    <3>1. QuerySpotPending => (Complete \/ Failed) /\ KeepAllButRec
      BY DEF QuerySpotPending
    <3>2. QuerySwapPending => (Complete \/ Failed) /\ KeepAllButRec
      BY DEF QuerySwapPending
    <3>3. QueryBalances => (Complete \/ Failed) /\ KeepAllButRec
      BY DEF QueryBalances
    <3>4. QuerySwapPositions => (Complete \/ Failed) /\ KeepAllButRec
      BY DEF QuerySwapPositions
    <3> QED BY <1>2, <3>1, <3>2, <3>3, <3>4
  <2> QED BY <1>1, <2>1 DEF Complete, Failed
<1>3. CASE FindOrphans \/ CopyCids \/ FinishRound
  BY <1>1, <1>3 DEF FindOrphans, CopyCids, FinishRound
<1>4. ASSUME NEW i \in rec.orphans, SkipOrphan(i) \/ ReplayEnd(i)
      PROVE  UNCHANGED <<live, told, emitted, wire, exch>> /\ (failures' = failures \/ failures' = failures + 1)
  BY <1>1, <1>4 DEF SkipOrphan, ReplayEnd, Failed, strategyVars, exchangeVars, channelVars
<1>5. ASSUME NEW o \in rec.cids, SkipCid(o) \/ ReplayNew(o)
      PROVE  UNCHANGED <<live, told, emitted, wire, exch>> /\ (failures' = failures \/ failures' = failures + 1)
  BY <1>1, <1>5 DEF SkipCid, ReplayNew, strategyVars, exchangeVars, channelVars
<1>6. ASSUME \/ \E b \in rec.balances : SyncBalance(b)
             \/ \E p \in rec.positions : SyncPosition(p)
      PROVE  UNCHANGED <<live, told, emitted, wire, exch, failures>>
  BY <1>6 DEF SyncBalance, SyncPosition, strategyVars, exchangeVars, channelVars
<1> QED BY <1>2, <1>3, <1>4, <1>5, <1>6 DEF RoundStep

(* Every step is one of the promise, or none. *)
LEMMA PromiseStep ==
  ASSUME TypeOK, TypeOK', Believes, [Next]_vars
  PROVE  [Promise!Next]_(Promise!vars)
<1>1. ASSUME NEW o \in Order, Emit(o) PROVE Promise!Next
  <2>1. Promise!Ask(o)
    BY <1>1 DEF Emit, Promise!Ask, exchangeVars
  <2> QED BY <2>1 DEF Promise!Next
<1>2. CASE Dispatch \/ Send \/ Drop \/ Reconnect \/ Receive \/ ApplyBalance
  BY <1>2, PromiseStutters DEF Dispatch, Send, Drop, Reconnect, Receive, ApplyBalance, handlerVars,
     strategyVars, exchangeVars
<1>3. ASSUME NEW c \in Currency, PushBalance(c) PROVE UNCHANGED Promise!vars
  BY <1>3, PromiseStutters DEF PushBalance, handlerVars, strategyVars, exchangeVars
<1>4. CASE RoundStep
  <2>1. UNCHANGED <<emitted, told, exch>>
    BY <1>4, RoundLeaves
  <2> QED BY <2>1, PromiseStutters
<1>5. CASE UNCHANGED vars
  BY <1>5, PromiseStutters DEF vars, handlerVars, strategyVars, exchangeVars
<1> QED BY <1>1, <1>2, <1>3, <1>4, <1>5, PromiseDecide, PromiseEnd, PromiseTell, ThreadsTyped
        DEF Next, ChannelNext, ExchangeStep, ListenerStep, ReconcilerStep

(* The engine keeps its promise to the strategy, with the listener and the    *)
(* reconciler in HandleOrderUpdate at once: an order goes to the exchange     *)
(* once at most, and only what it has become there is told of it.             *)
THEOREM EngineKeepsPromise == Spec => ImplementsPromise
<1>1. Init => Promise!Init
  BY DEF Init, Unsent, HandlerInit, Promise!Init, Id
<1>2. TypeOK /\ TypeOK' /\ EngineInv /\ [Next]_vars => [Promise!Next]_(Promise!vars)
  BY PromiseStep DEF EngineInv
<1> QED BY <1>1, <1>2, EngineTypeCorrect, EngineInvariant, PTL DEF Spec, ImplementsPromise, Promise!Spec
===============================================================================
