---------------------------- MODULE TradingEngine ----------------------------
(***************************************************************************)
(* The trading engine after Init: the strategy that emits orders, the      *)
(* dispatcher that sends them, the exchange, the private web socket, the   *)
(* listener that applies what the exchange reports and the reconciler that *)
(* every 30 s compares the engine's tables with what REST says.  The       *)
(* account is traded by this program alone and was idle when it started.   *)
(*                                                                         *)
(* The rings are taken as the queues RingShm shows them to be.  A cancel   *)
(* request only makes the exchange cancel, which it may do at any time.    *)
(* The account channel pushes balances when it likes, and nothing orders   *)
(* them with the reports of the order channel.                             *)
(***************************************************************************)
EXTENDS OrderHandler, Sequences, Functions, FiniteSetsExt

CONSTANTS Deposit,         \* Deposit[c]: the balance of c at the start
          Carried,         \* Carried[k]: the contracts of k held at the start
          Deals,           \* the prices the market offers, and the fees they are filled at
          SignalCapacity,  \* slots of the signal ring (1024)
          MaxDrops,        \* bound: how often the private web socket drops
          MaxFailures,     \* bound: how many REST calls fail
          MaxPushes,       \* bound: how many balances the account channel pushes
          Listener,        \* the thread of RunOrderListener
          Reconciler,      \* the thread of RunReconciler
          None             \* no order

Deal == [price : Nat, fee : Int]

ASSUME DepositAssumption == /\ Deposit \in [Currency -> Nat]
                            /\ Carried \in [Position -> Nat]
ASSUME DealsAssumption   == Deals \subseteq Deal
ASSUME BoundsAssumption  == /\ SignalCapacity \in Nat \ {0}
                            /\ MaxDrops \in Nat
                            /\ MaxFailures \in Nat
                            /\ MaxPushes \in Nat
ASSUME ThreadAssumption  == Thread = {Listener, Reconciler} /\ Listener # Reconciler
ASSUME NoneAssumption    == None \notin Order

VARIABLES emitted,   \* the orders the strategy has asked for
          signals,   \* the signal ring
          hand,      \* the order the dispatcher has popped and not sent yet
          wire,      \* requests on their way to the exchange
          exch,      \* exch[o]: what the exchange made of order o
          wallet,    \* the account's balances at the exchange
          holding,   \* the account's swap positions at the exchange
          conn,      \* what the private web socket carries; nothing if it is down
          inbox,     \* order reports on their way to the listener
          account,   \* balances pushed and on their way to the listener
          pushes,    \* history: balances pushed so far
          drops,     \* history: connections lost so far
          failures,  \* history: REST calls failed so far
          rec        \* the reconciler's local variables

strategyVars == <<emitted, signals>>
exchangeVars == <<exch, wallet, holding>>
accountVars  == <<account, pushes>>
channelVars  == <<conn, wire, inbox, drops, accountVars>>
recVars      == <<failures, rec>>
vars == <<handlerVars, strategyVars, hand, exchangeVars, channelVars, recVars>>

(* An open connection carries the answers to what is sent on it, and the      *)
(* channels it is subscribed to.                                             *)
Channel == {"login", "SPOT", "account", "SWAP"}
Up      == conn # {}

(* What the exchange made of an order: what was filled of it, what that was   *)
(* worth, the fees, and for history the deals it was filled by in this run.   *)
ExchState == {"unknown", "open", "filled", "cancelled", "refused"}
Unsent    == [st |-> "unknown", filled |-> 0, value |-> 0, fee |-> 0, deals |-> {}]

Open(o)   == exch[o].st = "open"
Closed(o) == exch[o].st \in {"filled", "cancelled", "refused"}

(* What EmitBuy and EmitSell reserve, RunOrderDispatcher remembers and the    *)
(* exchange freezes for an order; the dispatcher remembers no empty amount.   *)
Asked(o) == Amount(Terms[o], Terms[o].price, Terms[o].volume)
Holds(o) == Reserves(o) /\ Asked(o) > 0

ReportedStatus(o) ==
  CASE exch[o].st = "filled"    -> "FILLED"
    [] exch[o].st = "cancelled" -> "CANCELLED"
    [] exch[o].st = "refused"   -> "REJECTED"
    [] OTHER -> IF exch[o].filled = 0 THEN "NEW" ELSE "PARTIALLY_FILLED"

PendingOrder == [order : Order, filled : Nat]
Balance      == [currency : Currency, available : Int, frozen : Int]
Contracts    == [key : Position, contracts : Int]

RecPc == {"idle", "swaps", "orphans", "query", "replay",
          "sync", "syncswap"}

(* The reconciler's snapshots; a set shrinks as its loop goes through it. *)
RecIdle == [pc |-> "idle", pending |-> {}, orphans |-> {}, cids |-> {},
            balances |-> {}, positions |-> {}]

Init == /\ HandlerInit
        /\ book = [c \in Currency |-> [available |-> Deposit[c], frozen |-> 0, reserved |-> 0]]
        /\ emitted = {}
        /\ signals = <<>>
        /\ hand = None
        /\ wire = <<>>
        /\ exch = [o \in Order |-> Unsent]
        /\ wallet = [c \in Currency |-> [available |-> Deposit[c], frozen |-> 0]]
        /\ swap = Carried
        /\ holding = Carried
        /\ conn = Channel
        /\ inbox = <<>>
        /\ drops = 0
        /\ account = <<>>
        /\ pushes = 0
        /\ failures = 0
        /\ rec = RecIdle

-----------------------------------------------------------------------------
(* The strategy asks for an order it can pay for: EmitBuy, EmitSell.  The    *)
(* result of shm_push is not looked at.                                      *)
Affordable(o) ==
  Reserves(o) => Effective(book, LockedCurrency(Terms[o])) >= Asked(o)

Emit(o) ==
  /\ o \notin emitted
  /\ Affordable(o)
  /\ emitted' = emitted \cup {o}
  /\ book' = IF Reserves(o) THEN ReserveSpot(book, Terms[o]) ELSE book
  /\ signals' = IF Len(signals) < SignalCapacity THEN Append(signals, o) ELSE signals
  /\ UNCHANGED <<live, cids, swap, tracker, told, applied, h, hand, exchangeVars, channelVars, recVars>>

-----------------------------------------------------------------------------
(* RunOrderDispatcher: pop, remember the reservation, send.  What the socket *)
(* says about the send is not looked at.                                     *)
Dispatch ==
  /\ hand = None
  /\ signals # <<>>
  /\ LET o == Head(signals) IN
       /\ hand' = o
       /\ cids' = IF Holds(o) THEN cids \cup {o} ELSE cids
  /\ signals' = Tail(signals)
  /\ UNCHANGED <<live, book, swap, tracker, told, applied, h, emitted, exchangeVars, channelVars, recVars>>

(* Mutant: the order is still in hand after it is sent. *)
SendAgain ==
  /\ hand # None
  /\ wire' = IF Up THEN Append(wire, hand) ELSE wire
  /\ UNCHANGED <<handlerVars, strategyVars, hand, exchangeVars, conn, inbox, drops, accountVars, recVars>>

Send ==
  /\ hand # None
  /\ wire' = IF Up THEN Append(wire, hand) ELSE wire
  /\ hand' = None
  /\ UNCHANGED <<handlerVars, strategyVars, exchangeVars, conn, inbox, drops, accountVars, recVars>>

-----------------------------------------------------------------------------
(* The exchange and the private web socket, as the engine sees them. *)
Notify(channel, r) == inbox' = IF channel \in conn THEN Append(inbox, r) ELSE inbox

Freeze(c, amount) ==
  wallet' = [wallet EXCEPT ![c].available = @ - amount, ![c].frozen = @ + amount]

Covered(o) ==
  Reserves(o) => wallet[LockedCurrency(Terms[o])].available >= Asked(o)

Accept ==
  /\ wire # <<>>
  /\ LET o == Head(wire) IN
       /\ Covered(o)
       /\ exch' = [exch EXCEPT ![o].st = "open"]
       /\ IF Reserves(o)
          THEN Freeze(LockedCurrency(Terms[o]), Asked(o))
          ELSE UNCHANGED wallet
       /\ Notify(Terms[o].market, ChannelReport(o, "NEW", 0))
  /\ wire' = Tail(wire)
  /\ UNCHANGED <<handlerVars, strategyVars, hand, holding, conn, drops, accountVars, recVars>>

(* The answer to a refused request is turned into a report with no order id  *)
(* and a trade mode left at its default.                                     *)
Refuse ==
  /\ wire # <<>>
  /\ LET o == Head(wire) IN
       /\ exch' = [exch EXCEPT ![o].st = "refused"]
       /\ Notify("login", [ChannelReport(o, "REJECTED", 0) EXCEPT !.id = NoId, !.mode = "CASH"])
  /\ wire' = Tail(wire)
  /\ UNCHANGED <<handlerVars, strategyVars, hand, wallet, holding, conn, drops, accountVars, recVars>>

(* A limit order is filled at its price or at a better one.  The price of a   *)
(* swap moves nothing that is followed here.                                  *)
Offered(o) ==
  IF IsSpot(o)
  THEN {d \in Deals : Terms[o].type = "LIMIT" =>
          IF Terms[o].side = "BUY" THEN d.price <= Terms[o].price ELSE d.price >= Terms[o].price}
  ELSE {[price |-> Terms[o].price, fee |-> 0]}

Credit(balances, c, toAvailable, toFrozen) ==
  [balances EXCEPT ![c] = [available |-> @.available + toAvailable, frozen |-> @.frozen + toFrozen]]

(* Each fill is settled at its own price; a buy has frozen the price it asked *)
(* for and is given back the difference.                                      *)
Settle(o, n, d) ==
  LET ord  == Terms[o]
      free == IF Reserves(o) THEN Amount(ord, ord.price, n) ELSE 0
      cost == IF Reserves(o) THEN Amount(ord, d.price, n) ELSE 0
      paid == Credit(wallet, LockedCurrency(ord), free - cost, -free)
  IN  wallet' = Credit(paid, EarnedCurrency(ord), Earned(ord, d.price, n) + d.fee, 0)

(* A long or short position can only be closed as far as it goes. *)
Deliverable(o, n) ==
  ~IsSpot(o) /\ Terms[o].posSide # "NET" /\ ~IsOpening(Terms[o])
    => holding[PositionKey(Terms[o])] >= n

Trade(o, n, d) ==
  LET filled == exch[o].filled + n
      value  == exch[o].value + d.price * n
      done   == filled = Terms[o].volume
  IN  /\ Open(o)
      /\ filled <= Terms[o].volume
      /\ Deliverable(o, n)
      /\ exch' = [exch EXCEPT ![o] = [st |-> IF done THEN "filled" ELSE "open", filled |-> filled,
                                      value |-> value, fee |-> @.fee + d.fee, deals |-> @.deals \cup {d}]]
      /\ IF IsSpot(o)
         THEN Settle(o, n, d) /\ UNCHANGED holding
         ELSE /\ holding' = [holding EXCEPT ![PositionKey(Terms[o])] =
                                IF IsOpening(Terms[o]) THEN @ + n ELSE @ - n]
              /\ UNCHANGED wallet
      /\ Notify(Terms[o].market, FillReport(o, IF done THEN "FILLED" ELSE "PARTIALLY_FILLED",
                                            filled, value \div filled, d.fee))
      /\ UNCHANGED <<handlerVars, strategyVars, hand, conn, wire, drops, accountVars, recVars>>

Cancel(o) ==
  /\ Open(o)
  /\ exch' = [exch EXCEPT ![o].st = "cancelled"]
  /\ IF Reserves(o)
     THEN Freeze(LockedCurrency(Terms[o]),
                 - Amount(Terms[o], Terms[o].price, Terms[o].volume - exch[o].filled))
     ELSE UNCHANGED wallet
  /\ Notify(Terms[o].market, ChannelReport(o, "CANCELLED", exch[o].filled))
  /\ UNCHANGED <<handlerVars, strategyVars, hand, holding, conn, wire, drops, accountVars, recVars>>

(* A drop loses the requests and the reports under way.  ReconnectPrivate    *)
(* subscribes again and replays nothing.                                     *)
Drop ==
  /\ Up
  /\ drops < MaxDrops
  /\ conn' = {}
  /\ wire' = <<>>
  /\ inbox' = <<>>
  /\ account' = <<>>
  /\ drops' = drops + 1
  /\ UNCHANGED <<handlerVars, strategyVars, hand, exchangeVars, pushes, recVars>>

Reconnect ==
  /\ ~Up
  /\ Idle(Listener)
  /\ conn' = Channel
  /\ UNCHANGED <<handlerVars, strategyVars, hand, exchangeVars, wire, inbox, drops, accountVars, recVars>>

BalanceOf(c) ==
  [currency |-> c, available |-> wallet[c].available, frozen |-> wallet[c].frozen]

PushBalance(c) ==
  /\ "account" \in conn
  /\ pushes < MaxPushes
  /\ account' = Append(account, BalanceOf(c))
  /\ pushes' = pushes + 1
  /\ UNCHANGED <<handlerVars, strategyVars, hand, exchangeVars, conn, wire, inbox, drops, recVars>>

-----------------------------------------------------------------------------
(* The listener takes the next report, or the next balance. *)
Receive ==
  /\ inbox # <<>>
  /\ Begin(Listener, Head(inbox))
  /\ inbox' = Tail(inbox)
  /\ UNCHANGED <<live, cids, book, swap, tracker, told, applied, strategyVars, hand, exchangeVars,
                 conn, wire, drops, accountVars, recVars>>

ApplyBalance ==
  /\ account # <<>>
  /\ Idle(Listener)
  /\ book' = SyncSpotFromExchange(book, Head(account).currency, Head(account))
  /\ account' = Tail(account)
  /\ UNCHANGED <<live, cids, swap, tracker, told, applied, h, strategyVars, hand, exchangeVars,
                 conn, wire, inbox, drops, pushes, recVars>>

Handle(t) == /\ HandlerStep(t)
             /\ UNCHANGED <<strategyVars, hand, exchangeVars, channelVars, recVars>>

-----------------------------------------------------------------------------
(* RunReconciler: ReconcileOrders, ReconcileBalances, ReconcileSwapPositions. *)
(* Every REST call reads the exchange at one point; the answer is used later. *)
RecAt(pc) == rec.pc = pc /\ Idle(Reconciler)

NowPending(market) ==
  {[order |-> o, filled |-> exch[o].filled] : o \in {x \in Order : Open(x) /\ Terms[x].market = market}}

(* A failed call returns what was read before the failure: whole pages, and   *)
(* the start of an answer whose end never came.                              *)
Complete      == UNCHANGED failures
Failed        == failures < MaxFailures /\ failures' = failures + 1
KeepAllButRec == UNCHANGED <<handlerVars, strategyVars, hand, exchangeVars, channelVars>>

QuerySpotPending ==
  /\ RecAt("idle")
  /\ \E page \in SUBSET NowPending("SPOT") :
       /\ (page = NowPending("SPOT") /\ Complete) \/ Failed
       /\ rec' = [rec EXCEPT !.pc = "swaps", !.pending = page]
  /\ KeepAllButRec

QuerySwapPending ==
  /\ RecAt("swaps")
  /\ \E page \in SUBSET NowPending("SWAP") :
       /\ (page = NowPending("SWAP") /\ Complete) \/ Failed
       /\ rec' = [rec EXCEPT !.pc = "orphans", !.pending = @ \cup page]
  /\ KeepAllButRec

(* Mutant: the difference of the two sets is the wrong one. *)
FindOrphansReversed ==
  /\ RecAt("orphans")
  /\ rec' = [rec EXCEPT !.pc = "query", !.orphans = {m.order : m \in rec.pending} \ live]
  /\ UNCHANGED failures
  /\ KeepAllButRec

FindOrphans ==
  /\ RecAt("orphans")
  /\ rec' = [rec EXCEPT !.pc = "query", !.orphans = live \ {m.order : m \in rec.pending}]
  /\ UNCHANGED failures
  /\ KeepAllButRec

(* What QueryOrderById says of an order, with the fees of the whole of it. *)
Average(o) == IF exch[o].filled = 0 THEN 0 ELSE exch[o].value \div exch[o].filled

EndReport(o) ==
  FillReport(o, ReportedStatus(o), exch[o].filled, Average(o), exch[o].fee)

(* QueryOrderById: a failure or an order still open skips the orphan, else    *)
(* its end is replayed.                                                      *)
SkipOrphan(i) ==
  /\ RecAt("query")
  /\ i \in rec.orphans
  /\ \/ i = NoId /\ UNCHANGED failures
     \/ i # NoId /\ ~Closed(i) /\ UNCHANGED failures
     \/ i # NoId /\ Failed
  /\ rec' = [rec EXCEPT !.orphans = @ \ {i}]
  /\ KeepAllButRec

(* Mutant: an order that is not pending is taken for cancelled, unasked. *)
ReplayEndUnasked(o) ==
  /\ RecAt("query")
  /\ o \in rec.orphans \ {NoId}
  /\ Begin(Reconciler, ChannelReport(o, "CANCELLED", exch[o].filled))
  /\ rec' = [rec EXCEPT !.orphans = @ \ {o}]
  /\ UNCHANGED <<live, cids, book, swap, tracker, told, applied, strategyVars, hand, exchangeVars,
                 channelVars, failures>>

ReplayEnd(o) ==
  /\ RecAt("query")
  /\ o \in rec.orphans \ {NoId}
  /\ Closed(o)
  /\ Begin(Reconciler, EndReport(o))
  /\ rec' = [rec EXCEPT !.orphans = @ \ {o}]
  /\ UNCHANGED <<live, cids, book, swap, tracker, told, applied, strategyVars, hand, exchangeVars,
                 channelVars, failures>>

(* Mutant: the table is moved out instead of copied. *)
MoveCids ==
  /\ RecAt("query")
  /\ rec.orphans = {}
  /\ rec' = [rec EXCEPT !.pc = "replay", !.cids = cids]
  /\ cids' = {}
  /\ UNCHANGED <<live, book, swap, tracker, told, applied, h, strategyVars, hand, exchangeVars,
                 channelVars, failures>>

CopyCids ==
  /\ RecAt("query")
  /\ rec.orphans = {}
  /\ rec' = [rec EXCEPT !.pc = "replay", !.cids = cids]
  /\ UNCHANGED failures
  /\ KeepAllButRec

(* Mutant: only orders already live are replayed. *)
ReplayableIfLive(o) == o \in {m.order : m \in rec.pending} /\ o \in live
Replayable(o) == o \in {m.order : m \in rec.pending} /\ o \notin live

SkipCid(o) ==
  /\ RecAt("replay")
  /\ o \in rec.cids
  /\ ~Replayable(o)
  /\ rec' = [rec EXCEPT !.cids = @ \ {o}]
  /\ UNCHANGED failures
  /\ KeepAllButRec

ReplayNew(o) ==
  /\ RecAt("replay")
  /\ o \in rec.cids
  /\ Replayable(o)
  /\ \E m \in rec.pending : /\ m.order = o
                            /\ Begin(Reconciler, ChannelReport(o, "NEW", m.filled))
  /\ rec' = [rec EXCEPT !.cids = @ \ {o}]
  /\ UNCHANGED <<live, cids, book, swap, tracker, told, applied, strategyVars, hand, exchangeVars,
                 channelVars, failures>>

(* QueryBalances keeps a currency only if something of it is positive. *)
Shown(c) == wallet[c].available > 0 \/ wallet[c].frozen > 0

NowBalances == {BalanceOf(c) : c \in {x \in Currency : Shown(x)}}

QueryBalances ==
  /\ RecAt("replay")
  /\ rec.cids = {}
  /\ \E answer \in SUBSET NowBalances :
       /\ (answer = NowBalances /\ Complete) \/ Failed
       /\ rec' = [rec EXCEPT !.pc = "sync", !.pending = {}, !.balances = answer]
  /\ KeepAllButRec

SyncBalance(b) ==
  /\ RecAt("sync")
  /\ b \in rec.balances
  /\ book' = SyncSpotFromExchange(book, b.currency, b)
  /\ rec' = [rec EXCEPT !.balances = @ \ {b}]
  /\ UNCHANGED <<live, cids, swap, tracker, told, applied, h, strategyVars, hand, exchangeVars,
                 channelVars, failures>>

(* QuerySwapPositions keeps a position only if it is positive. *)
NowPositions ==
  {[key |-> k, contracts |-> holding[k]] : k \in {x \in Position : holding[x] > 0}}

QuerySwapPositions ==
  /\ RecAt("sync")
  /\ rec.balances = {}
  /\ \E answer \in SUBSET NowPositions :
       /\ (answer = NowPositions /\ Complete) \/ Failed
       /\ rec' = [rec EXCEPT !.pc = "syncswap", !.positions = answer]
  /\ KeepAllButRec

SyncPosition(p) ==
  /\ RecAt("syncswap")
  /\ p \in rec.positions
  /\ swap' = SyncSwapFromExchange(swap, p.key, p.contracts)
  /\ rec' = [rec EXCEPT !.positions = @ \ {p}]
  /\ UNCHANGED <<live, cids, book, tracker, told, applied, h, strategyVars, hand, exchangeVars,
                 channelVars, failures>>

FinishRound ==
  /\ RecAt("syncswap")
  /\ rec.positions = {}
  /\ rec' = RecIdle
  /\ UNCHANGED failures
  /\ KeepAllButRec

-----------------------------------------------------------------------------
ExchangeStep == \/ Accept \/ Refuse
                \/ \E c \in Currency : PushBalance(c)
                \/ \E o \in Order :
                     \/ \E n \in 1 .. Terms[o].volume, d \in Offered(o) : Trade(o, n, d)
                     \/ Cancel(o)

ListenerStep == Receive \/ ApplyBalance \/ Handle(Listener)

(* Between two rounds of the reconciler. *)
ChannelNext == \/ \E o \in Order : Emit(o)
               \/ Dispatch \/ Send
               \/ ExchangeStep
               \/ Drop \/ Reconnect
               \/ ListenerStep

RoundStep == \/ QuerySpotPending \/ QuerySwapPending \/ FindOrphans
             \/ \E i \in rec.orphans : SkipOrphan(i) \/ ReplayEnd(i)
             \/ CopyCids
             \/ \E o \in rec.cids : SkipCid(o) \/ ReplayNew(o)
             \/ QueryBalances
             \/ \E b \in rec.balances : SyncBalance(b)
             \/ QuerySwapPositions
             \/ \E p \in rec.positions : SyncPosition(p)
             \/ FinishRound

ReconcilerStep == RoundStep \/ Handle(Reconciler)

Next == ChannelNext \/ ReconcilerStep

ChannelSpec == Init /\ [][ChannelNext]_vars
Spec        == Init /\ [][Next]_vars

(* The listener and the reconciler loop for as long as the process runs, and  *)
(* the exchange answers a request it has received.  It need not trade.  A     *)
(* reconnect may never come back (PrivateChannel), nor the dispatcher that    *)
(* waits for it: what recovers does so without them.                          *)
Fairness == /\ WF_vars(Accept \/ Refuse)
            /\ WF_vars(ListenerStep)
            /\ WF_vars(ReconcilerStep)

FairSpec == Spec /\ Fairness

(* The same, and nothing that the engine or the exchange has begun is left.   *)
EagerSpec == FairSpec /\ WF_vars(Dispatch \/ Send) /\ WF_vars(Reconnect)

-----------------------------------------------------------------------------
(* Properties *)

RecTypeOK ==
  rec \in [pc : RecPc, pending : SUBSET PendingOrder, orphans : SUBSET Id, cids : SUBSET Order,
           balances : SUBSET Balance, positions : SUBSET Contracts]

TypeOK == /\ HandlerTypeOK
          /\ emitted \subseteq Order
          /\ signals \in Seq(Order)
          /\ hand \in Order \cup {None}
          /\ wire \in Seq(Order)
          /\ exch \in [Order -> [st : ExchState, filled : Nat, value : Nat, fee : Int,
                                deals : SUBSET Deal]]
          /\ wallet \in [Currency -> [available : Int, frozen : Int]]
          /\ holding \in [Position -> Int]
          /\ conn \subseteq Channel
          /\ inbox \in Seq(Report)
          /\ account \in Seq(Balance)
          /\ pushes \in 0 .. MaxPushes
          /\ drops \in 0 .. MaxDrops
          /\ failures \in 0 .. MaxFailures
          /\ RecTypeOK

InFlight(o)    == o \in Range(signals) \/ hand = o \/ o \in Range(wire)
LockedIn(c, S) ==
  LET Locking == {o \in S : Reserves(o) /\ LockedCurrency(Terms[o]) = c}
  IN  SumFunctionOnSet([o \in Locking |-> Asked(o)], Locking)

(* What the books can follow.  The engine books a fill at the average price   *)
(* of the whole order, so that of a second price it books a part at the       *)
(* wrong one; a report of a fill carries one fee, that of the last fill, so   *)
(* that the fee of a lost report is lost.                                     *)
FeeFree(o)  == \A d \in exch[o].deals : d.fee = 0
OnePrice(o) == \A d, e \in exch[o].deals : d.price = e.price

Covering(o) == \A d \in exch[o].deals : d.price <= Terms[o].price
AsAsked(o)  == \A d \in exch[o].deals : d.price = Terms[o].price

(* No balance was pushed and no margin sell refused: the rejection of one     *)
(* gives back what another order has locked.                                  *)
Undisturbed ==
  pushes = 0 /\ \A o \in Order : IsSpot(o) /\ ~Reserves(o) => exch[o].st # "refused"

(* Fills that cost no more, and bring no less, than the engine books.         *)
Even(o) == IsSpot(o) => /\ FeeFree(o)
                        /\ IF Terms[o].side = "BUY" THEN Covering(o) ELSE OnePrice(o)

(* The orders whose reports the engine's arithmetic follows exactly: a buy    *)
(* whose report carries its price and that is filled at it, a sell filled at  *)
(* one price, and a position that cannot go short under a key that is never   *)
(* short.                                                                     *)
Exact(o) == IF IsSpot(o)
            THEN IF Terms[o].side = "BUY" THEN Terms[o].type = "LIMIT" /\ AsAsked(o)
                 ELSE OnePrice(o)
            ELSE Terms[o].posSide = "NET" => IsOpening(Terms[o])

AsBooked == drops = 0 /\ Undisturbed /\ \A o \in emitted : Exact(o)

(* What the strategy is told it may spend is never more than the exchange     *)
(* would still let it spend once every request under way is taken: reports    *)
(* may be late or lost, but the reservation of EmitBuy/EmitSell is given up   *)
(* in the same critical section that takes the amount from available          *)
(* (position_manager.cpp 66-112).  So it is while only reports move the book  *)
(* (a balance read before an event and written after its report undoes it),   *)
(* no fee is charged, no buy costs more than it asked for, and every sell is  *)
(* filled at one price, be it better than the order's: filled at 10 and then  *)
(* at 8 it would be credited 10 and 9 (position_manager.cpp 142, 153).        *)
SafeToSpend ==
  Undisturbed /\ (\A o \in Order : Even(o)) =>
    \A c \in Currency :
      Effective(book, c) + LockedIn(c, {o \in Order : InFlight(o)}) <= wallet[c].available

(* Once every report sent has been applied and none was lost, the tables of   *)
(* the engine are the exchange's: live orders, sent-but-unconfirmed orders    *)
(* and fill trackers.  So are the balances, the frozen amounts and the        *)
(* positions, and what is reserved is exactly what the undecided orders ask   *)
(* for, as long as every buy is a limit order filled at its own price, every  *)
(* sell is filled at one price, no balance was pushed, no margin sell refused *)
(* and no NET position reduced (HandleOrderUpdate as a whole, while no REST   *)
(* answer is written over it).  A buy filled under its price leaves the       *)
(* difference in frozen (position_manager.cpp 142).                           *)
Undecided(o) == o \in emitted /\ exch[o].st = "unknown"

BooksQuiet ==
  /\ \A c \in Currency :
       /\ book[c].available = wallet[c].available
       /\ book[c].frozen = wallet[c].frozen
       /\ book[c].reserved = LockedIn(c, {o \in Order : Undecided(o)})
  /\ swap = holding

QuietIsExact ==
  drops = 0 /\ inbox = <<>> /\ Idle(Listener) =>
    /\ live = {o \in Order : Open(o)}
    /\ cids = {o \in Order : Holds(o) /\ (hand = o \/ o \in Range(wire))}
    /\ tracker = [o \in Order |-> IF Open(o) THEN exch[o].filled ELSE 0]
    /\ applied = [o \in Order |-> exch[o].filled]
    /\ AsBooked => BooksQuiet

(* An order with a reservation that rests at the exchange is in the table of  *)
(* live orders or in that of unconfirmed ones, whatever was lost: the one is  *)
(* written before the other is cleared, so the reconciler always has a thread *)
(* to pull (trading_engine.cpp 276-317).                                      *)
NeverLost == \A o \in Order : Open(o) /\ Holds(o) => o \in live \cup cids

(* The strategy hears of an order's end only when the exchange has ended it,  *)
(* and the engine takes for live only what the exchange took: lost messages   *)
(* and stale snapshots delay the truth but do not invent it.                  *)
ToldTruth ==
  /\ \A o \in Order : told[o] \in Terminal => Closed(o)
  /\ \A o \in live \cap Order : exch[o].st \notin {"unknown", "refused"}

(* The fill tracker never runs ahead of the exchange: a late or replayed      *)
(* report can apply a fill again but can never hide a new one.                *)
TrackerBehind == \A o \in Order : tracker[o] <= exch[o].filled

(* No part of an order's filled volume is added to the positions twice.       *)
AppliedOnce == \A o \in Order : applied[o] <= exch[o].filled

(* Why: an order is in one place on its way to the exchange and goes there    *)
(* once; every report still to be applied is one the exchange's present state *)
(* confirms; and an order whose acceptance is being applied is already live.  *)
Accepted(o) == exch[o].st \in {"open", "filled", "cancelled"}

SentOnce ==
  /\ \A o \in Order : InFlight(o) => o \in emitted /\ exch[o].st = "unknown"
  /\ \A o \in Order : exch[o].st # "unknown" => o \in emitted
  /\ IsInjective(signals) /\ IsInjective(wire)
  /\ \A o \in Range(signals) : hand # o /\ o \notin Range(wire)
  /\ hand \notin Range(wire)

TrueReport(r) ==
  /\ r.status \in {"NEW", "PARTIALLY_FILLED"} => Accepted(r.order)
  /\ r.status = "FILLED" => exch[r.order].st = "filled"
  /\ r.status = "CANCELLED" => exch[r.order].st = "cancelled"
  /\ r.status = "REJECTED" => exch[r.order].st = "refused"
  /\ r.id = IF r.status = "REJECTED" THEN NoId ELSE r.order
  /\ r.filled <= exch[r.order].filled

Truthful ==
  /\ \A r \in Range(inbox) : TrueReport(r)
  /\ \A t \in Thread : ~Idle(t) => TrueReport(h[t].report)
  /\ \A m \in rec.pending : Accepted(m.order) /\ m.filled <= exch[m.order].filled
  /\ \A o \in rec.orphans \cap Order : Accepted(o)

Confirming ==
  /\ \A o \in Order : (hand = o \/ o \in Range(wire)) /\ Holds(o) => o \in cids
  /\ \A t \in Thread : At(t, "release") =>
       h[t].report.order \in live \/ Closed(h[t].report.order)

Believes == /\ SentOnce /\ Truthful /\ Confirming
            /\ ToldTruth /\ TrackerBehind

EngineInv == Believes /\ NeverLost

(* Whatever is lost, replayed or read too late, the dispatcher sends an order *)
(* to the exchange once at most, and HandleOrderUpdate tells the strategy     *)
(* under an order's id only what the exchange has made of that order          *)
(* (trading_engine.cpp 106-155, 268-370).                                     *)
Promise == INSTANCE OrderPromise WITH asked <- emitted,
                                      fate  <- [o \in Order |-> exch[o].st],
                                      known <- [o \in Order |-> told[o]]
ImplementsPromise == Promise!Spec

(* A live order the exchange has ended leaves the live table, if need be by   *)
(* the reconciler's replay, and the strategy hears of the end.                *)
EndForgotten == \A o \in Order : o \in live /\ Closed(o) ~> o \notin live
EndTold      == \A o \in Order : o \in live /\ Closed(o) ~> told[o] \in Terminal

(* An unconfirmed order that rests at the exchange is found by the reconciler *)
(* even if the report of its acceptance was lost.                             *)
RestingTracked ==
  \A o \in Order : o \in cids /\ Open(o) ~> o \in live \/ ~Open(o)

(* When trading pauses the balances of every currency the exchange shows come *)
(* to agree with the exchange and stay so, whatever was lost or doubled.      *)
Agrees(c) == /\ book[c].available = wallet[c].available
             /\ book[c].frozen = wallet[c].frozen
BooksConverge == <>[](\A c \in Currency : Shown(c) => Agrees(c))

(* The swap positions that are held come to agree with the exchange's and     *)
(* stay so, whatever a report and a table read before it did to each other;   *)
(* and those no longer held come to be shown as none.                         *)
HeldConverge      == <>[](\A k \in Position : holding[k] > 0 => swap[k] = holding[k])
PositionsConverge == <>[](\A k \in Position : holding[k] = 0 => swap[k] = 0)

(* Every reservation is settled or given back in the end.                     *)
ReservationsReleased == <>[](\A c \in Currency : book[c].reserved = 0)
=============================================================================
