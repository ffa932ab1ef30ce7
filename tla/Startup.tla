------------------------------- MODULE Startup -------------------------------
(***************************************************************************)
(* TradingEngine::Init (trading_engine/trading_engine.cpp) run on an       *)
(* account whose orders a run before this one left behind: the listener    *)
(* and the reconciler are started in the middle of it and work on tables   *)
(* that are not filled yet, and the exchange goes on trading all along.    *)
(* The strategy and the dispatcher start when it has returned (main.cpp):  *)
(* what they do then is TradingEngine's, and nothing is emitted here.      *)
(*                                                                         *)
(* A subscription is one step here; PrivateChannel takes it apart.         *)
(***************************************************************************)
EXTENDS TradingEngine

CONSTANT Inherited   \* the orders an earlier run left at the exchange

ASSUME InheritedAssumption == Inherited \subseteq Order /\ IsFiniteSet(Inherited)

VARIABLES stage,   \* how far Init has come
          asked,   \* private_subscriptions_, and the login
          read,    \* the swap positions it has read
          found    \* spot_pending and swap_pending

startVars == <<stage, asked, read, found>>

Stage == {"balances", "spot", "account", "spotPending", "swap",
          "positions", "initSwap", "swapPending", "live", "done"}

StartDone == stage = "done"
Running   == stage # "balances"   \* the listener and the reconciler

(* What the orders left behind have been filled of, and what they keep frozen. *)
Parts == {f \in [Inherited -> UNION {0 .. Terms[o].volume : o \in Inherited}] :
            \A o \in Inherited : f[o] < Terms[o].volume}

Locked(f, c) ==
  LET Locking == {o \in Inherited : Reserves(o) /\ LockedCurrency(Terms[o]) = c}
  IN  SumFunctionOnSet([o \in Locking |-> Amount(Terms[o], Terms[o].price, Terms[o].volume - f[o])],
                       Locking)

StartInit ==
  /\ HandlerInit
  /\ book = [c \in Currency |-> [available |-> 0, frozen |-> 0, reserved |-> 0]]
  /\ swap = [k \in Position |-> 0]
  /\ emitted = Inherited /\ signals = <<>> /\ hand = None /\ wire = <<>>
  /\ \E f \in Parts :
       /\ exch = [o \in Order |-> IF o \in Inherited
                                  THEN [Unsent EXCEPT !.st = "open", !.filled = f[o],
                                                      !.value = Terms[o].price * f[o]]
                                  ELSE Unsent]
       /\ wallet = [c \in Currency |-> [available |-> Deposit[c], frozen |-> Locked(f, c)]]
  /\ holding = Carried
  /\ conn = {"login"} /\ inbox = <<>> /\ drops = 0
  /\ account = <<>> /\ pushes = 0
  /\ failures = 0 /\ rec = RecIdle
  /\ stage = "balances" /\ asked = {"login"} /\ read = {} /\ found = {}

-----------------------------------------------------------------------------
From(here, there) == stage = here /\ stage' = there

(* QueryBalances and InitSpotFromExchange; no other thread of the engine runs *)
(* yet.  A currency the answer leaves out is not in the table at all.         *)
InitSpot ==
  /\ From("balances", "spot")
  /\ \E shown \in SUBSET {c \in Currency : Shown(c)} :
       /\ (shown = {c \in Currency : Shown(c)} /\ Complete) \/ Failed
       /\ book' = [c \in Currency |->
                     IF c \in shown
                     THEN [available |-> wallet[c].available, frozen |-> wallet[c].frozen, reserved |-> 0]
                     ELSE [available |-> 0, frozen |-> 0, reserved |-> 0]]
  /\ UNCHANGED <<live, cids, swap, tracker, told, applied, h, strategyVars, hand, exchangeVars,
                 channelVars, rec, asked, read, found>>

(* SubscribePrivateChannel: remembered for the reconnects, and sent. *)
Subscribe(here, channel, there) ==
  /\ From(here, there)
  /\ asked' = asked \cup {channel}
  /\ conn' = IF Up THEN conn \cup {channel} ELSE conn
  /\ UNCHANGED <<handlerVars, strategyVars, hand, exchangeVars, wire, inbox, drops, accountVars,
                 recVars, read, found>>

(* Mutant: the reports found are kept where their orders are meant. *)
FindPendingReports(here, market, there) ==
  /\ From(here, there)
  /\ \E page \in SUBSET NowPending(market) :
       /\ (page = NowPending(market) /\ Complete) \/ Failed
       /\ found' = found \cup page
  /\ UNCHANGED <<handlerVars, strategyVars, hand, exchangeVars, channelVars, rec, asked, read>>

(* QuerySpotPendingOrders, QuerySwapPendingOrders. *)
FindPending(here, market, there) ==
  /\ From(here, there)
  /\ \E page \in SUBSET NowPending(market) :
       /\ (page = NowPending(market) /\ Complete) \/ Failed
       /\ found' = found \cup {m.order : m \in page}
  /\ UNCHANGED <<handlerVars, strategyVars, hand, exchangeVars, channelVars, rec, asked, read>>

(* QuerySwapPositions; the table is written in the next step. *)
ReadPositions ==
  /\ From("positions", "initSwap")
  /\ \E answer \in SUBSET NowPositions :
       /\ (answer = NowPositions /\ Complete) \/ Failed
       /\ read' = answer
  /\ UNCHANGED <<handlerVars, strategyVars, hand, exchangeVars, channelVars, rec, asked, found>>

(* InitSwapFromExchange clears the table first. *)
InitSwap ==
  /\ From("initSwap", "swapPending")
  /\ swap' = [k \in Position |-> IF \E p \in read : p.key = k
                                 THEN (CHOOSE p \in read : p.key = k).contracts ELSE 0]
  /\ UNCHANGED <<live, cids, book, tracker, told, applied, h, strategyVars, hand, exchangeVars,
                 channelVars, recVars, asked, read, found>>

(* The two lists together fill the live table, and go to the strategy. *)
(* Mutant: only what is pending on spot becomes live. *)
FillLiveSpot ==
  /\ From("live", "done")
  /\ live' = live \cup {o \in found : IsSpot(o)}
  /\ UNCHANGED <<cids, book, swap, tracker, told, applied, h, strategyVars, hand, exchangeVars,
                 channelVars, recVars, asked, read, found>>

FillLive ==
  /\ From("live", "done")
  /\ live' = live \cup found
  /\ UNCHANGED <<cids, book, swap, tracker, told, applied, h, strategyVars, hand, exchangeVars,
                 channelVars, recVars, asked, read, found>>

InitStep == \/ InitSpot
            \/ Subscribe("spot", "SPOT", "account")
            \/ Subscribe("account", "account", "spotPending")
            \/ FindPending("spotPending", "SPOT", "swap")
            \/ Subscribe("swap", "SWAP", "positions")
            \/ ReadPositions \/ InitSwap
            \/ FindPending("swapPending", "SWAP", "live")
            \/ FillLive

(* ReconnectPrivate asks again for what was asked for so far. *)
StartReconnect ==
  /\ Running
  /\ ~Up
  /\ Idle(Listener)
  /\ conn' = asked
  /\ UNCHANGED <<handlerVars, strategyVars, hand, exchangeVars, wire, inbox, drops, accountVars,
                 recVars, startVars>>

(* The strategy emits nothing yet. *)
StartNext ==
  \/ InitStep
  \/ StartReconnect
  \/ /\ UNCHANGED startVars
     /\ ExchangeStep \/ Drop \/ (Running /\ (ListenerStep \/ ReconcilerStep))

startingVars == <<vars, startVars>>

(* A reconnect may never come back (PrivateChannel), and SubscribePrivateChannel *)
(* waits for it.                                                             *)
Subscribing == stage \in {"spot", "account", "swap"}

StartSpec == /\ StartInit /\ [][StartNext]_startingVars
             /\ WF_startingVars((Subscribing => Up) /\ InitStep)
             /\ WF_startingVars(Running /\ ListenerStep /\ UNCHANGED startVars)
             /\ WF_startingVars(Running /\ ReconcilerStep /\ UNCHANGED startVars)

-----------------------------------------------------------------------------
(* Properties *)

StartTypeOK == /\ TypeOK
               /\ stage \in Stage
               /\ asked \subseteq Channel
               /\ read \subseteq Contracts
               /\ found \subseteq Order

(* When Init has returned, an order left at the exchange that is still open   *)
(* is in the live table, unless REST failed to show it: what the two threads  *)
(* started early make of its reports does not take it out.                    *)
InheritedLive ==
  StartDone /\ failures = 0 => \A o \in Inherited : Open(o) => o \in live

(* Why: what is found was accepted, and the list of its market has shown every *)
(* order that is still open, unless REST failed.                              *)
Listed(o) == IF IsSpot(o)
             THEN stage \in {"swap", "positions", "initSwap", "swapPending", "live", "done"}
             ELSE stage \in {"live", "done"}

InheritedFound ==
  failures = 0 => \A o \in Inherited : Open(o) /\ Listed(o) => o \in found

StartInv == /\ StartTypeOK /\ Believes
            /\ wire = <<>>
            /\ \A o \in found : Accepted(o)
            /\ InheritedFound /\ InheritedLive

(* A pending order that was found and has ended is one whose end the strategy *)
(* is told, be it reported before the order was in the live table, where a    *)
(* cancellation is dropped, after, or while the connection was down.  Only an *)
(* Init that waits for ever for sub_mutex_ tells nobody (exchange_client.cpp  *)
(* 63, 212).                                                                  *)
HandedTold ==
  \A o \in Order :
    <>(o \in found /\ Closed(o)) => <>(told[o] \in Terminal) \/ <>[](Subscribing /\ ~Up)
=============================================================================
