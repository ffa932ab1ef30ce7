# Verification of crypto-trading-system

TLA+ models of the trading system in `src/`, checked with TLC and, for their
type invariants and every safety invariant and refinement the passing runs
check, proved with TLAPS. Paths below are
relative to the repository; `trading_engine.cpp` means
`src/trading_engine/trading_engine.cpp`, and so on.

## 1. The system

One process, six threads, six single-producer rings in shared memory.

    exchange --public ws--> QuotationEngine --4 rings--> StrategyEngine (+ plugin)
                                                           |  EmitBuy/EmitSell: reserve, push
                                                           v
    exchange <--private ws-- dispatcher <--signal ring-----+
       |                                                   ^
       +--private ws--> listener --HandleOrderUpdate--> report ring
       +--REST--------> reconciler --HandleOrderUpdate--> report ring

| Component | State | Operations | Who else touches it |
|---|---|---|---|
| Rings (`ring_shm.hpp`) | head, tail, entries | `shm_push`, `shm_pop` | one producer and one consumer each, except the report ring, which the listener and the reconciler both push to |
| SDK emission (`sdk/src/strategy.cpp`) | none of its own | `EmitBuy`, `EmitSell`, `EmitCancel` | position manager, signal ring |
| Position manager, spot (`position_manager.cpp`) | available, frozen, borrowed, reserved per currency; fill tracker per order | Reserve, UpdateSpotOn{New,Fill,Cancel,Rejected}, Init/Sync from exchange | strategy, listener and reconciler, each method under `mutex_` |
| Position manager, swap | contracts per instrument and side; fill tracker | UpdateSwapOn{Fill,Cancel}, Init/Sync | listener, reconciler |
| Order handler (`HandleOrderUpdate`) | live orders, unconfirmed orders | one call per report, three mutexes taken in turn | listener and reconciler at once |
| Dispatcher (`RunOrderDispatcher`) | the signal in hand | pop, remember, send | signal ring, unconfirmed orders, private socket |
| Reconciler (`RunReconciler`) | snapshots in local variables | every 30 s: pending orders, balances, positions | REST, order handler, position manager |
| Private channel (`exchange_client.cpp`, `okx.cpp`, `websocket.hpp`) | socket, `private_subscriptions_`, `pending_ws_ops_` | login, subscribe, send, listen, ping, reconnect | Init's thread, dispatcher and listener; `sub_mutex_` around some of it |
| Start (`TradingEngine::Init`) | lists read and not yet written | read, subscribe, fill the tables | the listener and the reconciler, started in the middle of it |
| REST queries (`okx.cpp`) | the cursor and the list of one call | one page per HTTPS request | Init, reconciler |
| Public channel | socket, subscriptions | Start, Stop | quotation thread, signal handler |
| Engines and `main.cpp` | `running_` flags, `client_`, the mappings | Init, Run, Stop, join, destroy | signal handler |
| Registries, plugin loader, configuration, log, HTTPS, WebSocket framing | — | used at start, or pure I/O | — |

What is hard about it:

- the listener and the reconciler run `HandleOrderUpdate` at once, for the same
  order, with no lock around the whole;
- the reconciler acts on REST answers that the listener may have overtaken;
- the private socket drops, and a reconnect replays nothing;
- a frame is two writes, the mutex around them is not held by everybody who
  writes, and a read may wait for ever;
- `Init` fills the tables while the listener and the reconciler already use them,
  and after a restart the exchange holds orders the process has never seen;
- pending orders are read page by page while orders come and go;
- a queue that refuses an entry and a socket that refuses a frame are not
  noticed by the callers;
- the ring has no protection but the order of its loads and stores;
- a signal may arrive at any point of the process's life, and two threads are
  detached.

What makes each part correct:

- *Rings*: a bounded queue; no torn, lost, doubled or reordered entry.
- *Spot book*: the strategy is never offered what the exchange has frozen or is
  about to freeze; when nothing is under way the book is the exchange's.
- *Order handler and reconciler*: an order at rest at the exchange is always in
  one of the two tables; the strategy is told no end that did not happen, and in
  the end every one that did; a fill is counted once; lost messages are made
  good.
- *Swap book*: contracts equal the exchange's when nothing is under way, and
  come to equal them again when something went wrong.
- *Private channel*: a connection in use carries every channel asked for; a
  frame begun under the mutex arrives whole; a refusal is reported once.
- *Start*: an order found pending is live until it has ended, and its end is told.
- *Queries*: an order that stays pending is listed, and once.
- *Lifecycle*: no thread uses a ring that is gone; a signal ends the process.

The hazards of this code, each at its line and with the properties that cover
it or the reason why none does, are listed in `PROJECT.json`.

## 2. Modules

| Module | Models | State ↔ code |
|---|---|---|
| `BoundedFifo` | what a ring promises (abstract) | accepted items, handed-out items, last answer |
| `RingShm` | `shm_push`, `shm_pop`, one atomic access or half of a struct copy per step | `head`, `tail`, `entries`; `push[p]`, `pop` are the callers' local variables; `sent`, `received` are histories |
| `RingShm_proof` | — | theorems about `RingShm` |
| `SpotBook` | the bodies of the spot methods of `PositionManager`, as operators on a book | `spot_positions_` and `spot_reserved_` |
| `SwapBook` | the swap methods | `swap_positions_` |
| `OrderHandler` | `HandleOrderUpdate`, one step per critical section, for a set of threads | `live` = `live_order_instruments_`, `cids` = `client_order_id_to_reservation_`, `book`, `swap`, `tracker` = both fill trackers, `told` = what was pushed to the strategy, `h[t]` = where thread t is |
| `TradingEngine` | strategy, dispatcher, exchange, private channel, listener, reconciler around the handler | `signals`, `hand`, `wire`, `inbox`, `account`, `conn`; `exch`, `wallet`, `holding` are the exchange's truth; `rec` = the reconciler's local variables |
| `OrderPromise` | what the engine promises the strategy about its orders (abstract) | what was asked for, what the exchange made of it, what was said of it |
| `Ledger` | no part of the program: the predicates that say what the engine's books owe to the reports under way | over the state of `TradingEngine` |
| `Quiet` | likewise: what every table holds of each order at every point of `HandleOrderUpdate` | over the state of `TradingEngine` |
| `MCTradingEngine` | — | instances for TLC |
| `TradingEngine_proof` | — | what the spot operators preserve; theorems about the engine |
| `Ledger_proof`, `Quiet_proof` | — | theorems about the engine between two rounds of the reconciler |
| `Session` | what the private channel promises (abstract) | the channels asked for, whether there is a connection, what it carries |
| `PrivateChannel` | `SubscribePrivateChannel`, `SendPlaceOrder`, `StartPrivateListener`, `ReconnectPrivate`, `OnPrivateMessage` on answers, `Send`/`Read`/`ReadWithTimeout` of the socket, thread by thread | `mutex` = `sub_mutex_`, `wanted` = `private_subscriptions_`, `ops` = `pending_ws_ops_`, `pinged` = `ping_pending`, `link` = the socket, `pc[t]` and `frame[t]` = where thread t is and what it sends; `wire`, `inbox`, `loggedIn`, `subs`, `verdict` are the exchange's side |
| `Startup` | `TradingEngine::Init` on top of `TradingEngine` | `stage` = the line Init has come to, `asked` = `private_subscriptions_`, `read` = `swap_positions`, `found` = `spot_pending` and `swap_pending` |
| `OrderPages` | `QueryPendingOrdersByType`, one page per step | `cursor` = `after_cursor`, `result` = how often each order is in `result`; `pending` is the exchange's |
| `MCPrivateChannel`, `MCStartup`, `MCOrderPages` | — | instances for TLC |
| `OrderPages_proof`, `PrivateChannel_proof` | — | theorems about the queries and the private channel |
| `Lifecycle` | `main`, `OnSignal`, the start, loop and end of every thread | `running` = the `running_` flags, `client` = `QuotationEngine::client_`, `mapped` = the rings still mapped |
| `Lifecycle_proof` | — | theorems about the lifecycle |
| `Startup_proof` | — | theorems about Init |

`Startup` extends `TradingEngine` with the steps of Init: its threads are the
engine's own listener and reconciler, and its connection carries only the
channels subscribed so far (`conn`). `PrivateChannel` takes apart what
`TradingEngine` has as `Drop`, `Reconnect`, `Send`, `Notify` and `Startup` as
`Subscribe`, and implements `Session`, which is how they use it: a connection is
lost whole, and the next one carries everything asked for. `OrderPages` takes
apart what they have as one query; there a complete answer is one reading of the
exchange, which a query of a single page is, and a failed one any subset.

`OrderHandler` extends `SpotBook` and `SwapBook`; `TradingEngine` extends
`OrderHandler`, composes it with the rest and implements `OrderPromise`. `RingShm` implements
`BoundedFifo`; `TradingEngine` uses the queues that `BoundedFifo` promises, so
that what is shown of the ring need not be shown again inside the engine. The
report ring is the exception: it has two producers, which `ring_two_producers`
treats; in `TradingEngine` a push to it is one step that always succeeds.

How grains of atomicity were chosen: in `RingShm` every atomic load and store is
a step and a struct copy is two; in `OrderHandler` a step is one critical
section (one mutex held) or the final push; a REST call of the reconciler is one
step that reads the exchange at one point, and each use of its answer is a
later step; in `PrivateChannel` each write of a piece of a frame, each read of a
message, each use of `pending_ws_ops_` and each taking of the mutex is a step,
and an insertion or erasure in the unlocked map is an interval that others may
overlap.

## 3. Runs

| Run | Module, bounds | States | What it shows |
|---|---|---|---|
| `ring_spsc` | `RingShm`; 1 producer, 2 entries, capacity 2, counters of 8 values, 5 pushes | 6,302 | refinement of `BoundedFifo`, no data race, the inductive invariant, every accepted entry delivered |
| `engine_ws` | `ChannelSpec`, 2 spot orders (a buy of 1 at 4, a sell of 2 at 2), fills at 2, at 4 and at 4 with a fee, 1 drop, 1 pushed balance | 1,312,707 | between rounds of the reconciler: spendable amounts are safe, books and tables follow the reports at every point, the quiet engine equals the exchange, nothing is applied twice, each under the premises its property names |
| `engine_recovers` | `FairSpec`, one spot buy of 1 filled under its price, 1 drop, 1 failed call, 1 pushed balance | 379,476 | both threads in the handler at once keep the inductive invariant and implement `OrderPromise`, and what is lost is made good: ends are told, resting orders found, balances converge |
| `startup` | `StartSpec`, the opening of a long of 2 left behind with 0 or 1 filled, 1 drop, 1 failed call | 223,038 | an order found pending is live until it ends and its end is told, whatever the early threads do, unless Init waits for ever for a reconnect; the position held comes to agree |
| `channel` | `FairSpec`, 3 channels, 2 orders, 2 troubles | 628,977 | refinement of `Session`; frames whole but for the listener's; refusals reported once; the channel serves in the end or the listener is stuck in a message, a login or a handshake |
| `pages` | `FairSpec`, 6 ids, one of them not registered, pages of 2 | 44,945 | no order missed or listed twice while orders come and go; the loop ends |
| `lifecycle` | `FairSpec`, 2 signals | 20,457 | joined threads use no destroyed ring; a signal ends the process unless one of two waits without a time limit keeps it |
| `ring_two_producers` | 2 producers, 2 pushes | – | *violation* |
| `fill_applied_twice` | `Spec`, one order | – | *violation* |
| `reservation_leak` | `EagerSpec`, one order, at most one drop | – | *violation* |
| `phantom_position` | `EagerSpec`, one closing order, nothing lost | – | *violation* |
| `lifecycle_detached` | 1 signal | – | *violation* |

Why the bounds are enough for the cases of interest. *Ring*: capacity 2 makes
full, empty and half full, and 5 pushes go round the slots more than twice.
*Orders*: a volume of 2
has a partial fill before and after a loss; two orders meet in the tables and
in the wallet; the sell and the buy use the same two currencies, so a
proceeds-before-spending order of events exists. *Prices*: the buy may be filled
at its price or under it; the sell at its price, over it, and in two parts at
two prices; either with a fee. So there are states on both sides of every premise
about fees, and of those about prices that a limit order can break. Swap orders are left to `startup` and `phantom_position`
and, in the engine between two rounds, to the proofs. *Pushed balances*: one, at
any point, disturbs the books for good between two rounds. *Drops and failures*: one of
each, at every point; the second would find the same tables as the first.
*Start*: only swap orders meet a race there, since the spot book is filled
before the threads are started; a volume of 2 gives an order that an earlier run
left filled in part. *Channel*: two troubles make a second loss during the
reconnect after the first; two orders make one under way while another is
entered. `MaxTroubles` counts connections that die, go mute, are refused or whose
login is refused, the exchange's protocol pings, and answers that outlast the
5 s. *Pages*: six ids are three full pages, with room for an order placed and one
ended between any two. The proofs do not depend on these bounds: they are for
every set of orders, every terms, every page size, every number of drops,
failures and pushes.

Deadlock is not checked in `engine_ws` (when all orders are over and no round
is run, nothing is left to do), in `lifecycle` (the process exits), in `pages`
(the call returns) and in `channel` (a listener stuck in a read or a handshake
stops there). The other engine runs and `startup` check
it: the reconciler always has a step.

Every property of a passing run has, in `PROJECT.json`, a mutant of the model
that breaks it: the mutants are the definitions marked `Mutant` in the modules.

### Fairness

The strategy and the market are under no obligation: no fairness on `Emit`,
`Trade`, `Cancel`, `Drop` or `PushBalance`. Weak fairness stands for these facts
of the code: the listener and the reconciler loop as long as the process runs
(`while (running_)`); a push or pop, once begun, runs to its end; the exchange
answers a request it has received, REST requests included (`https.hpp` has no
time limit). `FairSpec` of `TradingEngine` asks no more, and nothing of
`Reconnect` or the dispatcher: what `engine_recovers` shows to be mended is
mended by REST, even if the private channel never comes back. `EagerSpec`, which
the two violations of it use, adds that the dispatcher goes on and a reconnect
succeeds, so that what they show is not owed to an engine that stopped.

The code waits in two ways. A read from a ring does not wait; the wait for the
first byte of a message (`ReadWithTimeout`, 5 s), the sleeps and the TCP connect
have a time limit. The proxy's answer, the TLS and the web socket handshake
(`websocket.hpp` 101, 121, 202), the login's answer (`exchange_client.cpp` 219)
and the rest of a message whose first byte has come (`websocket.hpp` 347-389)
have none, nor has the wait for `sub_mutex_`, which `ReconnectPrivate` holds
across the first four. Fairness never reaches past such a wait:

- In `PrivateChannel` each thread that has begun goes on while it can. A step of
  the listener is possible only where its read, `select` or handshake would
  return: on a connection that has gone mute, open or not yet open, it waits
  until the connection dies, which nothing obliges it to do. Nothing makes an
  order be sent, a connection break or a login be refused.
- In `Lifecycle` there is no fairness on the listener, which need not come back
  from a reconnect, nor on a quotation client in a handshake or in the middle of
  a message, unless its socket has been shut (`shut`): then the read returns. The
  dispatcher waits for the mutex while the listener is in a reconnect; it gets it
  if the listener is out of it again and again (strong fairness), because
  between two reconnects the listener waits for seconds. A handler once entered
  runs to its end; no fairness makes a signal arrive.

In `Startup` Init's own thread is fair too, but for the subscriptions: they wait
for `sub_mutex_`, which a reconnect may never give back, and then Init does not
return and hands nothing to the strategy (`HandedTold` says so). In `OrderPages`
the loop goes on, and no call need fail.

### What the violations show

1. *Two producers on the report ring* (`AcceptedIsDelivered`): `shm_push` is
   written for one producer. When listener and reconciler push at once, an
   accepted report can disappear.
2. *A fill counted twice* (`AppliedOnce`): only CANCELLED is tested for
   duplicates. FILLED replayed by the reconciler beside the same FILLED from the
   listener is added twice, the first having erased the tracker.
3. *A phantom position* (`PositionsConverge`): the reconciler reads the swap
   positions, the listener applies the fill that closes one, and the reconciler
   writes the old contracts back. A position of zero is not listed
   (`okx.cpp:705`), so no later round corrects it. `Init` has the same window
   (`trading_engine.cpp` 64-65).
4. *A leaked reservation* (`ReservationsReleased`): a request lost with the
   ring's or the socket's refusal leaves its reservation for ever.
5. *Detached threads* (`DetachedUseMapped`): nobody stops or waits for the
   listener and the reconciler before the report ring is unmapped.

The second is repaired by the following round of the reconciler: `BooksConverge`
holds in spite of it for every currency the exchange shows, and `HeldConverge`
for every position the exchange holds.

The books between two rounds are right only for some prices, and the properties
say for which. `UpdateSpotOnFill` books each increment at the average price of
the whole order (`position_manager.cpp` 142, 153), and a report carries one fee:

- a sell filled at 10 and then at 8 is credited 10 and 9, one more than the
  account gets;
- a buy filled under its price leaves the difference in frozen, where the
  exchange gives it back;
- the fee of a fill whose report is lost is lost with it: the next report brings
  the whole volume and its own fee only.

`SafeToSpend` is therefore stated for orders free of fees, buys at no more than
their price and sells each at one price, which may be better than the order's
(`Even`); `QuietIsExact` for limit buys at their own price and sells at one price
(`Exact`); `BooksAgree` for those free of fees (`Plain`). The balances the
reconciler reads next put such a book right: in `engine_recovers` every fill is
under the price asked, and `BooksConverge` holds.

Two more facts of the same kind, with no run of their own: once the reconciler
writes balances too (`Spec`), `SafeToSpend` fails, because a balance read before
a report and written after it gives the strategy an amount the exchange has
frozen; and a NEW made from a stale snapshot may be told after the order's end
(`trading_engine.cpp` 243-246). The first is why `SafeToSpend` is checked under
`ChannelSpec`, and a pushed balance does the same, which is why it is stated for
behaviours in which none was pushed yet.

`PrivateChannel` shows where the private channel is weak, and its properties say
so: only the listener's own ping and pong may be torn by another thread's frame,
or tear it (they are sent without `sub_mutex_`); a refusal may go unreported only
if an insertion into `pending_ws_ops_` overlapped the listener's use of it; and
the channel fails to come back only if the listener waits for ever on a connection
that has gone mute: in the middle of a message, or, with the mutex held, in the
login or in a handshake of the connection it is opening.

`OrderPages` has `cut`: a full page that holds an order for an unregistered
instrument counts as less than full (`okx.cpp` 304-307, 324), and the orders
beyond it are not asked for. `NoneMissed` is stated for queries that did not meet
one. `Startup` shows that the first report of an order found pending counts its
whole volume, the part an earlier run was told of included, until the positions
are next read; `HeldConverge` says they are put right.

`Lifecycle` has the same waits from the side of the process. `StopsOrSticks` says
that a signal ends it, with two exceptions: the dispatcher waits for `sub_mutex_`
in `SendToPrivate` while the listener is in a `ReconnectPrivate` whose socket
nobody shuts (`TradingEngine::Stop` sets a flag only, `trading_engine.cpp` 104),
so that main's join does not return; or the quotation client is in a handshake
on a socket it made after `Stop` had shut the one before. It also shows, without
a run of its own, that a signal before `ExchangeClient::Start` has set `running_`
is lost for that engine and that a `client_` that is never initialised, or that
outlives the client, is called through; the property is therefore stated for a
signal that finds the client running.
`README.md:123` says the system cancels pending orders when it
stops; no code does so.

## 4. Theorems

For every value of the constants that satisfies the named assumptions:

- **Ring** (`RingShm_proof`). `TypeCorrect` needs no more than the constants'
  types. With `SingleProducer`: `RingInvariant`, and from it `InOrder`,
  `RaceFree` and `Refinement` (`Spec => Fifo!Spec`). `DeliveredInOrder` alone is
  not inductive: `RingInv` adds that the window from `head` to `tail` holds the
  accepted entries not yet handed out, that a counter a thread has loaded from
  its own end is current, and what a producer or consumer past its check may
  rely on. The counters never wrap in the life of a process (2^64 entries), which
  `SendsAssumption` states as MaxSends < IndexSpace; the subtraction in
  `shm_push` is still the unsigned one, which matters when a second producer
  sets `tail` back behind `head`.
- **Spot book** (`TradingEngine_proof`). `OnlyFillsChangeTotals` and
  `ConfirmationKeepsEffective`: acceptance, rejection and cancellation move
  amounts between the columns; what the strategy may spend does not change when
  an order with a reservation is confirmed.
- **Engine, reconciler included** (`TradingEngine_proof`, of `Spec`).
  `EngineTypeCorrect`, then `EngineInvariant`, and from it `NothingLost`,
  `TruthTold` and `TrackersBehind`. `NeverLost` is not inductive: it needs that
  an order in flight has its reservation remembered and that a thread about to
  clear that memory has made the order live (`Confirming`), that an order goes
  to the exchange once (`SentOnce`), and that every report or snapshot still to
  be used says what the exchange's present state confirms (`Truthful`). These,
  with `ToldTruth` and `TrackerBehind`, are `Believes`, which is inductive
  without `NeverLost`; `Startup` uses it so. The proof has one lemma per action.
  `EngineKeepsPromise` (`Spec => Promise!Spec`) maps `exch` to the fate of an
  order and `told` to what is known of it: a request taken off the wire decides
  an order that was not decided before (`SentOnce`), and what the last step of
  `HandleOrderUpdate` tells is true of the exchange at that moment (`Truthful`).
  It promises no order among what is told: a NEW may follow the end (§3).
- **Engine between two rounds of the reconciler** (`Ledger_proof`, of
  `ChannelSpec`). `ReportsInOrder`: the reports about an order come in the order
  of what they report and end with its end; what was applied of an order is what
  its tracker holds until its end is applied (`Orderly`). From it
  `AppliedAtMostOnce`. `BooksBacked`: `SafeToSpend` alone is not inductive,
  because a report still to come moves the book and not the account. Its
  strengthening gives every order what it may still bring (`Due`: the amount
  asked for while it is on its way or its rejection is to be applied, the rest
  while its cancellation is, what it earned and the engine has not taken yet) and
  says that what the strategy is offered
  and all that is due are covered by the account (`Backed`). A step changes what
  is due from one order only, so the sums need a few lemmas: one term changes,
  one is added, every term is at most another's. They rest on `SumTerm`: a sum
  over a finite set is one of its terms and the sum of the rest, proved from the
  definition of the fold with a smallest counterexample in place of an induction.
  What a sell still brings is reckoned at the one price it is filled at. That
  price is not known before the first fill, so `Backed` is stated for every
  function from orders to prices, and holds under each that the fills so far
  agree with; a first fill at another price leaves nothing to show for this one.
  `ReportsExact` adds that the average in a report of an order filled at one price
  is that price. From it `SpendingSafe`, whose premises (`Undisturbed`, `Even`:
  no balance pushed, no margin sell refused, no fee, no buy above its price, no
  sell at two prices) are part of `SafeToSpend`. All five are real: without
  any one of them the formula is false of the code. The
  rejection of a margin sell comes as one of a cash order and gives back what
  another order has locked (`okx.cpp` 800), which TLC finds on a cash sell beside
  a margin sell.
- **The engine's books** (`Quiet_proof`, of `ChannelSpec`). `TablesFollow`: while
  no report is lost, an order is live, unconfirmed or tracked at every point of
  the function exactly as the reports applied and those to come say
  (`TablesAgree`). `BooksFollow`: the account is what the orders made of the
  deposits, and the engine's balances, reservations and positions what they made
  as far as their reports were applied (`BooksAgree`). `QuietExact`: so, when
  every report has been applied, `QuietIsExact`. The invariant `QuietInv` is
  `LedgerInv` with both and, for the swap book, which is clamped at zero, the
  course each position will take through the reports to come
  (`PositionsCovered`): no report takes more contracts than there are, because
  the exchange never delivered more than it had. As in `Ledger` the sums are
  stated for every function from orders to prices that the sells so far agree
  with (`BooksAgreeAt`). The last two theorems are for orders whose arithmetic
  the engine follows exactly (`Exact`), without fees, which the sums do not
  follow (`engine_ws` checks `QuietIsExact` with them). What `Exact` leaves out is
  left out because the code is not exact there: a buy filled under its price or a
  sell filled at two (§3), a market buy, whose rejection carries no price
  (`okx.cpp` 805; TLC finds `QuietIsExact` violated on a single one), a NET order that is not opening, which the engine keeps from
  going short (`position_manager.cpp` 334), a refused margin sell, and pushed
  balances.
- **Start** (`Startup_proof`, of `StartSpec`). `StartTypeCorrect`;
  `NoOrderForgotten` (`InheritedLive`) and `StartTruthTold` (`ToldTruth`), for
  any orders left behind and however they were filled. `InheritedLive` speaks of
  the end of Init; `StartInv` adds that an order still open was found by the
  query of its market unless REST failed (`InheritedFound`), that what was found
  was accepted, so that making a list live which may be old invents nothing,
  that nothing is on its way to the exchange, so that no order opens in the
  meantime, and `Believes`, because of which a thread started early takes out of
  the live table only what has ended.
- **Lifecycle** (`Lifecycle_proof`). `LifecycleInvariant`,
  `LifecycleTypeCorrect` and `JoinedSafe`.
- **Queries** (`OrderPages_proof`). `PagesInvariant`, and from it `TypeCorrect`,
  `NoOrderMissed` and `NoOrderTwice`. `NoneMissed` speaks of the end of the loop
  only; `PagesInv` adds what makes it true there: an order that stays is listed
  or below the cursor, and nothing below the cursor is listed. That a full page
  has a last order is `LeastExists`, which gets the least element of a finite
  set from the well-foundedness of its subsets, and that a full page of kept
  orders is the whole page is a fact about cardinalities.
- **Private channel** (`PrivateChannel_proof`). `ChannelTypeCorrect`,
  `FramesAreWhole`, `NoneForgotten`, `ChannelImplementsSession` (`Spec =>
  Session`) and `RefusalsAreReported`, for any orders, channels, plan of
  subscriptions and number of troubles, so for wires and inboxes of any length.
  They rest on four invariants. `Local` says where each thread may be and that
  `sub_mutex_` is held between a header and its payload and all through a
  reconnect. `WireInv` adds what `WholeButForListener` needs to be inductive:
  a header without its payload belongs to a thread that is still to write it, so
  no payload ever follows another frame's header. `Connection` says what a
  reconnect leaves behind: no subscription before the login came back, the login
  first on its connection, no welcome older than it; without it `SubscribedOrAsked`
  fails when a late welcome ends a login. `OrdersInv` follows one order from the
  dispatcher to the end of its answer: sent once, answered once, and in
  `pending_ws_ops_` until the answer is handled, unless two threads were in the
  table at once. The proof shows of each action which order it is about and that
  it leaves the way of every other alone.

Only model-checked: the liveness properties, for which fairness and ENABLED are
beyond the prover: `AcceptedIsDelivered`, `EndForgotten`, `EndTold`,
`RestingTracked`, `BooksConverge`, `HandedTold`, `HeldConverge`,
`ServesOrSticks`, `Ends` and `StopsOrSticks`; and `QuietIsExact` where fees are
charged.

## 5. Assumptions of the models

- The account is traded by this program alone; `position_manager.cpp:31` calls
  anything else non-compliant. Every order therefore has a client order id.
- Every instrument is configured and registered, but for `OrderPages`. In
  `TradingEngine`, `Init` has finished and the account had no pending order;
  `Startup` is about an account that had.
- The strategy and the dispatcher start when `Init` has returned (`main.cpp`).
- Amounts are integers, not doubles; the average price in a report is the
  integer part. A limit order is filled at its price or a better one. A fee is in
  the currency received. Borrowed amounts are left out, so a currency of which
  nothing but a debt is left is not shown (`okx.cpp:633`).
- The strategy asks only for what `GetEffectiveAvailableSpot` covers
  (`Affordable`); the code leaves this to the plugin.
- The exchange may cancel an open order at any time, which covers
  `EmitCancel` and its loss.
- A failed query of pending orders returns any subset of them (the pages read
  before the failure); a failed query of an order skips it; a failed query of
  balances or positions returns any subset (an answer cut off is used as far as
  it goes).
- A drop loses everything under way in both directions.
- A balance pushed on the account channel has no order with the reports.
  `SafeToSpend` and the books of `QuietIsExact` are stated for behaviours in
  which none has been pushed yet.
- On the private web socket: the exchange refuses no subscription (its refusal
  would be an event message, which `OnPrivateMessage` drops), answers what it has
  read, and closes a connection on which two frames are mixed. A piece of a frame
  is written as a whole. Two uses of `pending_ws_ops_` that overlap may lose
  either; that they may corrupt the table and end the process is not modelled.
- The exchange numbers orders upwards, and lists the newest first below a cursor.
- Contracts of swap orders are kept apart from the spot wallet (no margin).
- In `Lifecycle` one signal is handled at a time and none after `main` begins to
  return; a call through a wild or dangling `client_` lets the process go on or
  ends it.

## 6. Not modelled

TCP, proxy and TLS set-up and the bytes of web socket frames, HTTPS, JSON,
formatting, signing; configuration, logging, CPU pinning, plugin loading,
registries (written before the threads start); the strategies, which are
plugins; `QueryRecentFills`, which nobody calls. Borrowing in the position
manager. Market data on the public channel, which is
decoded and pushed with no state kept.

## 7. Plan

Done, in this order: `BoundedFifo`/`RingShm` (what every thread relies on),
`SpotBook`/`SwapBook`/`OrderHandler`/`TradingEngine` (the core), `Lifecycle`,
`Session`/`PrivateChannel`, `Startup`, `OrderPages`, and their proofs, with
`Ledger` and `Quiet` for those about the engine's books. Next, most
important first:

1. Theorems: an action invariant of the reconciler's round, that a fill applied
   twice is repaired by the next balances it reads; what of `LedgerInv` remains
   true beside the reconciler.
2. Instances of `TradingEngine` with a margin sell beside a cash sell, a
   rejected market order, and swap orders whose NEW is lost: the theorems name
   the first two as exceptions, the third is open.
3. Borrowed amounts and fees in a third currency in `SpotBook`; NET positions in
   `SwapBook`.
4. The composition of `Lifecycle` and `TradingEngine`: orders left at the
   exchange when the process stops.
