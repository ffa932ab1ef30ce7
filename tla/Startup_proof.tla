---------------------------- MODULE Startup_proof ----------------------------
(***************************************************************************)
(* Proofs about TradingEngine::Init for whatever orders an earlier run left *)
(* behind and however they were filled: type correctness, that what the    *)
(* threads started in the middle of it believe and tell is true, and that  *)
(* no order still open is missing when it has returned.                    *)
(***************************************************************************)
EXTENDS Startup, Ledger_proof

(* The steps of the engine and of the exchange while Init runs. *)
Meanwhile == ExchangeStep \/ Drop \/ ListenerStep \/ ReconcilerStep

(* They are steps of Spec. *)
LEMMA MeanwhileNext == Meanwhile => [Next]_vars
BY DEF Meanwhile, Next, ChannelNext

-----------------------------------------------------------------------------
(* Types. *)

(* What the orders left behind keep frozen is an amount. *)
LEMMA LockedTyped ==
  ASSUME NEW f \in Parts, NEW c \in Currency
  PROVE  Locked(f, c) \in Int
<1> DEFINE L == {o \in Inherited : Reserves(o) /\ LockedCurrency(Terms[o]) = c}
           g == [o \in L |-> Amount(Terms[o], Terms[o].price, Terms[o].volume - f[o])]
<1>1. IsFiniteSet(L)
  BY InheritedAssumption, FS_Subset
<1>2. \A y \in L : g[y] \in Int
  <2> SUFFICES ASSUME NEW y \in L
               PROVE  Amount(Terms[y], Terms[y].price, Terms[y].volume - f[y]) \in Int
    OBVIOUS
  <2>1. y \in Inherited /\ y \in Order /\ Terms[y] \in SpotTerms(Currency)
    BY InheritedAssumption, AskedTyped
  <2>2. f[y] \in Int
    <3>1. f[y] \in UNION {0 .. Terms[o].volume : o \in Inherited}
      BY <2>1 DEF Parts
    <3> QED BY <3>1
  <2>3. Terms[y].volume \in Nat /\ Terms[y].price \in Nat
    BY <2>1, TermsTypes
  <2>4. Terms[y].volume - f[y] \in Int
    BY <2>2, <2>3
  <2> QED BY <2>1, <2>3, <2>4, AmountInt
<1>3. Locked(f, c) = SumFunctionOnSet(g, L)
  BY DEF Locked
<1> HIDE DEF L, g
<1> QED BY <1>1, <1>2, <1>3, SumTerm

(* Types hold at the start. *)
LEMMA StartInitTyped == StartInit => StartTypeOK
<1> SUFFICES ASSUME StartInit PROVE StartTypeOK
  OBVIOUS
<1>1. PICK f \in Parts :
        /\ exch = [o \in Order |-> IF o \in Inherited
                                   THEN [Unsent EXCEPT !.st = "open", !.filled = f[o],
                                                       !.value = Terms[o].price * f[o]]
                                   ELSE Unsent]
        /\ wallet = [c \in Currency |-> [available |-> Deposit[c], frozen |-> Locked(f, c)]]
  BY DEF StartInit
<1>2. wallet \in [Currency -> [available : Int, frozen : Int]]
  <2>1. wallet = [c \in Currency |-> [available |-> Deposit[c], frozen |-> Locked(f, c)]]
    BY <1>1
  <2> QED BY <2>1, LockedTyped, DepositAssumption
<1>3. exch \in [Order -> [st : ExchState, filled : Nat, value : Nat, fee : Int, deals : SUBSET Deal]]
  <2>1. \A o \in Inherited : f[o] \in Nat
    <3> SUFFICES ASSUME NEW o \in Inherited PROVE f[o] \in Nat
      OBVIOUS
    <3>1. f[o] \in UNION {0 .. Terms[x].volume : x \in Inherited}
      BY DEF Parts
    <3> QED BY <3>1
  <2>2. \A o \in Inherited : Terms[o].price * f[o] \in Nat
    <3> SUFFICES ASSUME NEW o \in Inherited PROVE Terms[o].price * f[o] \in Nat
      OBVIOUS
    <3>1. o \in Order /\ Terms[o].price \in Nat
      BY InheritedAssumption, TermsSplit DEF SpotTerms, SwapTerms
    <3> QED BY <2>1, <3>1, ProductNat
  <2> SUFFICES ASSUME NEW o \in Order
               PROVE  exch[o] \in [st : ExchState, filled : Nat, value : Nat, fee : Int, deals : SUBSET Deal]
    BY <1>1
  <2>3. CASE o \in Inherited
    <3>1. exch[o] = [st |-> "open", filled |-> f[o], value |-> Terms[o].price * f[o], fee |-> 0, deals |-> {}]
      BY <1>1, <2>3 DEF Unsent
    <3> QED BY <2>1, <2>2, <2>3, <3>1 DEF ExchState
  <2>4. CASE o \notin Inherited
    <3>1. exch[o] = [st |-> "unknown", filled |-> 0, value |-> 0, fee |-> 0, deals |-> {}]
      BY <1>1, <2>4 DEF Unsent
    <3> QED BY <3>1 DEF ExchState
  <2> QED BY <2>3, <2>4
<1>7. /\ HandlerInit /\ holding = Carried /\ failures = 0 /\ rec = RecIdle
      /\ book = [c \in Currency |-> [available |-> 0, frozen |-> 0, reserved |-> 0]]
      /\ swap = [k \in Position |-> 0]
  BY DEF StartInit
<1>4. HandlerTypeOK
  BY <1>7 DEF HandlerInit, HandlerTypeOK, HandlerState, Book, Id
<1>5. holding \in [Position -> Int]
  BY <1>7, DepositAssumption
<1>6. RecTypeOK
  BY <1>7 DEF RecTypeOK, RecIdle, RecPc
<1>8. /\ emitted = Inherited /\ signals = <<>> /\ hand = None /\ wire = <<>>
      /\ conn = {"login"} /\ inbox = <<>> /\ drops = 0 /\ account = <<>> /\ pushes = 0
      /\ stage = "balances" /\ asked = {"login"} /\ read = {} /\ found = {}
  BY DEF StartInit
<1> QED BY <1>2, <1>3, <1>4, <1>5, <1>6, <1>7, <1>8, InheritedAssumption, BoundsAssumption
        DEF StartTypeOK, TypeOK, Channel, Stage

(* Each step of Init keeps the types. *)
LEMMA InitStepTyped ==
  ASSUME StartTypeOK, InitStep
  PROVE  StartTypeOK'
<1>1. TypeOK /\ stage \in Stage /\ asked \subseteq Channel /\ read \subseteq Contracts /\ found \subseteq Order
  BY DEF StartTypeOK
<1>2. CASE InitSpot
  <2>1. PICK shown \in SUBSET {c \in Currency : Shown(c)} :
          /\ Complete \/ Failed
          /\ book' = [c \in Currency |->
                        IF c \in shown
                        THEN [available |-> wallet[c].available, frozen |-> wallet[c].frozen, reserved |-> 0]
                        ELSE [available |-> 0, frozen |-> 0, reserved |-> 0]]
    BY <1>2 DEF InitSpot
  <2>2. book' \in Book(Currency)
    BY <1>1, <2>1 DEF TypeOK, Book
  <2>3. failures' \in 0 .. MaxFailures
    BY <1>1, <2>1, FailuresTyped
  <2> QED BY <1>1, <1>2, <2>2, <2>3 DEF InitSpot, From, StartTypeOK, TypeOK, HandlerTypeOK, RecTypeOK,
             strategyVars, exchangeVars, channelVars, accountVars, Stage
<1>3. ASSUME NEW here, NEW channel \in Channel, NEW there \in Stage, Subscribe(here, channel, there)
      PROVE  StartTypeOK'
  BY <1>1, <1>3 DEF Subscribe, From, StartTypeOK, TypeOK, HandlerTypeOK, RecTypeOK, handlerVars,
             strategyVars, exchangeVars, accountVars, recVars
<1>4. ASSUME NEW here, NEW market, NEW there \in Stage, FindPending(here, market, there)
      PROVE  StartTypeOK'
  <2>1. PICK page \in SUBSET NowPending(market) :
          (Complete \/ Failed) /\ found' = found \cup {m.order : m \in page}
    BY <1>4 DEF FindPending
  <2>2. \A m \in page : m.order \in Order
    BY <1>1, <2>1, AnswersTyped DEF PendingOrder
  <2>3. failures' \in 0 .. MaxFailures /\ found' \subseteq Order
    BY <1>1, <2>1, <2>2, FailuresTyped
  <2> QED BY <1>1, <1>4, <2>3 DEF FindPending, From, StartTypeOK, TypeOK, HandlerTypeOK, RecTypeOK,
             handlerVars, strategyVars, exchangeVars, channelVars, accountVars
<1>5. CASE ReadPositions
  <2>1. PICK answer \in SUBSET NowPositions : (Complete \/ Failed) /\ read' = answer
    BY <1>5 DEF ReadPositions
  <2>2. failures' \in 0 .. MaxFailures /\ read' \subseteq Contracts
    BY <1>1, <2>1, AnswersTyped, FailuresTyped
  <2> QED BY <1>1, <1>5, <2>2 DEF ReadPositions, From, StartTypeOK, TypeOK, HandlerTypeOK, RecTypeOK,
             handlerVars, strategyVars, exchangeVars, channelVars, accountVars, Stage
<1>6. CASE InitSwap
  <2>1. ASSUME NEW k \in Position, \E p \in read : p.key = k
        PROVE  (CHOOSE p \in read : p.key = k).contracts \in Int
    <3>1. PICK q \in read : q = CHOOSE p \in read : p.key = k
      BY <2>1
    <3> QED BY <1>1, <3>1 DEF Contracts
  <2>2. swap' \in [Position -> Int]
    <3> HIDE DEF Position
    <3> QED BY <1>6, <2>1 DEF InitSwap
  <2> QED BY <1>1, <1>6, <2>2 DEF InitSwap, From, StartTypeOK, TypeOK, HandlerTypeOK, RecTypeOK,
             strategyVars, exchangeVars, channelVars, accountVars, recVars, Stage
<1>7. CASE FillLive
  BY <1>1, <1>7 DEF FillLive, From, StartTypeOK, TypeOK, HandlerTypeOK, RecTypeOK,
             strategyVars, exchangeVars, channelVars, accountVars, recVars, Stage, Id
<1> QED BY <1>2, <1>3, <1>4, <1>5, <1>6, <1>7 DEF InitStep, Channel, Stage

(* A step that leaves Init's own variables alone keeps them typed. *)
LEMMA StartStepTyped ==
  ASSUME StartTypeOK, [StartNext]_startingVars
  PROVE  StartTypeOK'
<1>1. ASSUME Meanwhile \/ UNCHANGED vars, UNCHANGED startVars PROVE StartTypeOK'
  <2>1. TypeOK'
    BY <1>1, MeanwhileNext, StepTyped DEF StartTypeOK
  <2> QED BY <1>1, <2>1 DEF StartTypeOK, startVars
<1>2. ASSUME StartReconnect PROVE StartTypeOK'
  BY <1>2 DEF StartReconnect, StartTypeOK, TypeOK, HandlerTypeOK, RecTypeOK, handlerVars, strategyVars,
              exchangeVars, accountVars, recVars, startVars
<1> QED BY <1>1, <1>2, InitStepTyped DEF StartNext, Meanwhile, startingVars

(* Every amount, table and report keeps its type while Init runs, whatever    *)
(* the listener, the reconciler and the exchange do in the middle of it.      *)
THEOREM StartTypeCorrect == StartSpec => []StartTypeOK
BY StartInitTyped, StartStepTyped, PTL DEF StartSpec

-----------------------------------------------------------------------------
(* What is believed, and no order forgotten (StartInv). *)

(* At the start nothing is believed yet and nothing found. *)
LEMMA StartInitFound == StartInit => StartInv
<1> SUFFICES ASSUME StartInit PROVE StartInv
  OBVIOUS
<1>1. StartTypeOK
  BY StartInitTyped
<1>2. \A o \in Order : /\ exch[o].st # "unknown" => o \in emitted
                       /\ tracker[o] = 0 /\ exch[o].filled \in Nat
  <2>1. HandlerInit /\ emitted = Inherited
    BY DEF StartInit
  <2>2. \A o \in Order : exch[o].st # "unknown" => o \in Inherited
    <3>1. PICK f \in Parts :
            exch = [o \in Order |-> IF o \in Inherited
                                   THEN [Unsent EXCEPT !.st = "open", !.filled = f[o],
                                                       !.value = Terms[o].price * f[o]]
                                   ELSE Unsent]
      BY DEF StartInit
    <3>2. \A o \in Order : o \notin Inherited => exch[o] = Unsent
      BY <3>1
    <3> QED BY <3>2 DEF Unsent
  <2>3. \A o \in Order : exch[o].filled \in Nat
    BY <1>1 DEF StartTypeOK, TypeOK
  <2> QED BY <2>1, <2>2, <2>3 DEF HandlerInit
<1>3. SentOnce
  BY <1>2, RangeEmpty, NoneAssumption DEF StartInit, SentOnce, InFlight
<1>4. Truthful
  BY RangeEmpty DEF StartInit, HandlerInit, Truthful, Idle, RecIdle
<1>5. Confirming
  BY RangeEmpty, NoneAssumption DEF StartInit, HandlerInit, Confirming, At
<1>6. ToldTruth /\ TrackerBehind
  <2>1. HandlerInit
    BY DEF StartInit
  <2> QED BY <1>2, <2>1 DEF HandlerInit, ToldTruth, Id, Terminal, TrackerBehind
<1>7. InheritedFound /\ InheritedLive
  BY DEF StartInit, InheritedFound, InheritedLive, Listed, StartDone
<1> QED BY <1>1, <1>3, <1>4, <1>5, <1>6, <1>7 DEF StartInv, Believes, StartInit

(* Nothing is sent while Init runs, so no order is opened: one that is open   *)
(* was open before, and what was accepted stays so.                           *)
LEMMA OnlyCloses ==
  ASSUME TypeOK, wire = <<>>, Meanwhile
  PROVE  /\ wire' = <<>>
         /\ \A o \in Order : (Accepted(o) => Accepted(o)') /\ (Open(o)' => Open(o))
         /\ failures' = 0 => failures = 0
<1>1. ASSUME NEW o \in Order, Open(o), exch'[o].st \in {"open", "filled", "cancelled"},
             \A x \in Order : x # o => exch'[x] = exch[x]
      PROVE  \A x \in Order : (Accepted(x) => Accepted(x)') /\ (Open(x)' => Open(x))
  BY <1>1 DEF Accepted, Open
<1>2. ASSUME exch' = exch
      PROVE  \A x \in Order : (Accepted(x) => Accepted(x)') /\ (Open(x)' => Open(x))
  BY <1>2 DEF Accepted, Open
<1>3. ~Accept /\ ~Refuse
  BY DEF Accept, Refuse
<1>4. failures \in Nat
  BY BoundsAssumption DEF TypeOK
<1>5. ASSUME NEW o \in Order, NEW n \in 1 .. Terms[o].volume, NEW d \in Offered(o), Trade(o, n, d)
      PROVE  /\ wire' = wire /\ failures' = failures
             /\ \A x \in Order : (Accepted(x) => Accepted(x)') /\ (Open(x)' => Open(x))
  <2>1. /\ Open(o) /\ exch'[o].st \in {"open", "filled", "cancelled"}
        /\ \A x \in Order : x # o => exch'[x] = exch[x]
    BY <1>5, TradeIs
  <2>2. wire' = wire /\ failures' = failures
    BY <1>5 DEF Trade, recVars
  <2> QED BY <1>1, <2>1, <2>2
<1>6. ASSUME NEW o \in Order, Cancel(o)
      PROVE  /\ wire' = wire /\ failures' = failures
             /\ \A x \in Order : (Accepted(x) => Accepted(x)') /\ (Open(x)' => Open(x))
  <2>1. Open(o) /\ exch' = [exch EXCEPT ![o].st = "cancelled"] /\ wire' = wire /\ failures' = failures
    BY <1>6 DEF Cancel, recVars
  <2>2. exch \in [Order -> [st : ExchState, filled : Nat, value : Nat, fee : Int, deals : SUBSET Deal]]
    BY DEF TypeOK
  <2>3. exch'[o].st = "cancelled" /\ \A x \in Order : x # o => exch'[x] = exch[x]
    BY <2>1, <2>2
  <2> QED BY <1>1, <2>1, <2>3
<1>7. ASSUME \/ \E c \in Currency : PushBalance(c)
             \/ Drop \/ ListenerStep \/ Handle(Reconciler)
      PROVE  /\ wire' \in {wire, <<>>} /\ failures' = failures
             /\ exch' = exch
  BY <1>7 DEF PushBalance, Drop, ListenerStep, Receive, ApplyBalance, Handle, exchangeVars, channelVars, recVars
<1>8. ASSUME RoundStep
      PROVE  /\ wire' = wire /\ exch' = exch
             /\ failures' = failures \/ failures' = failures + 1
  BY <1>8, RoundLeaves
<1>9. CASE RoundStep
  BY <1>2, <1>4, <1>8, <1>9
<1>10. CASE \/ \E c \in Currency : PushBalance(c)
            \/ Drop \/ ListenerStep \/ Handle(Reconciler)
  BY <1>2, <1>7, <1>10
<1> QED BY <1>3, <1>5, <1>6, <1>9, <1>10 DEF Meanwhile, ExchangeStep, ReconcilerStep

(* A thread takes out of the live table only what has ended. *)
LEMMA OnlyEndedLeave ==
  ASSUME TypeOK, TypeOK', Believes, Meanwhile, NEW o \in Order, o \in live, o \notin live'
  PROVE  Closed(o) /\ exch' = exch
<1>1. ASSUME NEW t \in Thread, Handle(t) PROVE Closed(o) /\ exch' = exch
  <2>1. PICK r \in Report : Working(t, r)
    BY <1>1, InsideKeeps
  <2>2. Track(t)
    BY <1>1 DEF Handle, HandlerStep, CheckLive, CheckCid, RecoverBook, RecoverLive, SkipDuplicate,
                Release, Apply, Tell
  <2>3. live' = TrackLive(live, r)
    BY <2>1, <2>2 DEF Track, Working
  <2>4. Closed(o)
    BY <2>1, <2>3, ReportSays DEF TrackLive
  <2> QED BY <1>1, <2>4 DEF Handle, exchangeVars
<1>2. ASSUME RoundStep PROVE live' = live
  BY <1>2, RoundLeaves
<1>3. ASSUME ExchangeStep \/ Drop \/ Receive \/ ApplyBalance PROVE live' = live
  BY <1>3 DEF ExchangeStep, Accept, Refuse, PushBalance, Trade, Cancel, Drop, Receive, ApplyBalance, handlerVars
<1> QED BY <1>1, <1>2, <1>3, ThreadsTyped DEF Meanwhile, ListenerStep, ReconcilerStep

(* The steps of Init that only read, and the reconnect, leave what is         *)
(* believed alone.                                                            *)
LEMMA InitKeepsBelieves ==
  ASSUME StartInv, StartTypeOK', InitStep \/ StartReconnect, live' = live
  PROVE  Believes' /\ wire' = wire /\ exch' = exch
<1>1. UNCHANGED <<live, cids, tracker, told, h, hand, emitted, signals, wire, exch, inbox, rec>>
  <2>1. CASE InitSpot \/ ReadPositions \/ InitSwap
    BY <2>1 DEF InitSpot, ReadPositions, InitSwap, handlerVars, strategyVars, exchangeVars, channelVars, recVars
  <2>2. ASSUME NEW here, NEW channel, NEW there, Subscribe(here, channel, there)
        PROVE  UNCHANGED <<live, cids, tracker, told, h, hand, emitted, signals, wire, exch, inbox, rec>>
    BY <2>2 DEF Subscribe, handlerVars, strategyVars, exchangeVars, recVars
  <2>3. ASSUME NEW here, NEW market, NEW there, FindPending(here, market, there)
        PROVE  UNCHANGED <<live, cids, tracker, told, h, hand, emitted, signals, wire, exch, inbox, rec>>
    BY <2>3 DEF FindPending, handlerVars, strategyVars, exchangeVars, channelVars
  <2>4. CASE FillLive \/ StartReconnect
    BY <2>4 DEF FillLive, StartReconnect, handlerVars, strategyVars, exchangeVars, channelVars, recVars
  <2> QED BY <2>1, <2>2, <2>3, <2>4 DEF InitStep
<1>2. TypeOK /\ TypeOK' /\ Believes
  BY DEF StartInv, StartTypeOK
<1>3. \A m \in rec'.pending : m \in rec.pending
  BY <1>1
<1>4. \A o \in rec'.orphans \cap Order : o \in rec.orphans
  BY <1>1
<1>5. StillBelieves
  BY <1>1, <1>2, <1>3, <1>4, LoopKeeps
<1> QED BY <1>1, <1>5 DEF StillBelieves

(* What is found is pending, hence accepted: it may become live.              *)
LEMMA FillLiveKeeps ==
  ASSUME StartInv, StartTypeOK', FillLive
  PROVE  Believes' /\ wire' = wire /\ exch' = exch
<1>1. /\ UNCHANGED <<cids, tracker, told, h, hand, emitted, signals, wire, exch, inbox, rec>>
      /\ live' = live \cup found
  BY DEF FillLive, strategyVars, exchangeVars, channelVars, recVars
<1>2. Believes /\ \A o \in found : Accepted(o)
  BY DEF StartInv
<1>3. SentOnce' /\ Truthful' /\ TrackerBehind'
  BY <1>1, <1>2 DEF Believes, SentOnce, InFlight, Truthful, TrueReport, TrackerBehind, Idle, Accepted
<1>4. Confirming'
  BY <1>1, <1>2 DEF Believes, Confirming, At, Closed
<1>5. ToldTruth'
  BY <1>1, <1>2 DEF Believes, ToldTruth, Closed, Accepted
<1> QED BY <1>1, <1>3, <1>4, <1>5 DEF Believes

(* A list of pending orders that REST has shown to its end holds every order  *)
(* of its market that is open.                                                *)
LEMMA FindPendingFinds ==
  ASSUME StartTypeOK, NEW here, NEW market, NEW there, FindPending(here, market, there)
  PROVE  /\ found \subseteq found'
         /\ \A o \in found' : o \in found \/ Open(o)
         /\ failures' = 0 => /\ failures = 0
                             /\ \A o \in Order : Open(o) /\ Terms[o].market = market => o \in found'
<1>1. PICK page \in SUBSET NowPending(market) :
        /\ (page = NowPending(market) /\ Complete) \/ Failed
        /\ found' = found \cup {m.order : m \in page}
  BY DEF FindPending
<1>2. \A m \in page : m.order \in Order /\ Open(m.order)
  BY <1>1 DEF NowPending
<1>3. ASSUME failures' = 0 PROVE page = NowPending(market) /\ failures = 0
  BY <1>1, <1>3, BoundsAssumption DEF Complete, Failed, StartTypeOK, TypeOK
<1>4. ASSUME NEW o \in Order, Open(o), Terms[o].market = market
      PROVE  [order |-> o, filled |-> exch[o].filled] \in NowPending(market)
  BY <1>4 DEF NowPending
<1>5. ASSUME NEW o \in Order, Open(o), Terms[o].market = market, failures' = 0
      PROVE  o \in found'
  <2> DEFINE m == [order |-> o, filled |-> exch[o].filled]
  <2>1. m \in page
    BY <1>3, <1>4, <1>5
  <2>2. m.order = o
    OBVIOUS
  <2> QED BY <1>1, <2>1, <2>2
<1> QED BY <1>1, <1>2, <1>3, <1>5

(* A step of Init forgets no order that is open: a list that was to show it   *)
(* shows it, and the last step makes what was found live.                     *)
LEMMA InitStepFinds ==
  ASSUME StartInv, InitStep, exch' = exch
  PROVE  /\ \A o \in found' : Accepted(o)'
         /\ InheritedFound' /\ InheritedLive'
<1>1. /\ StartTypeOK /\ InheritedFound /\ \A o \in found : Accepted(o)
      /\ Inherited \subseteq Order
  BY InheritedAssumption DEF StartInv
<1>2. \A o \in Order : Open(o)' = Open(o) /\ Accepted(o)' = Accepted(o)
  BY DEF Open, Accepted
<1>3. failures \in Nat /\ found \subseteq Order
  BY <1>1, BoundsAssumption DEF StartTypeOK, TypeOK
<1>4. \A o \in Order : Terms[o].market = IF IsSpot(o) THEN "SPOT" ELSE "SWAP"
  BY TermsSplit DEF IsSpot, SpotTerms, SwapTerms
<1>5. CASE FindPending("spotPending", "SPOT", "swap")
  <2>1. stage' = "swap" /\ stage = "spotPending"
    BY <1>5 DEF FindPending, From
  <2>2. /\ \A o \in found' : o \in found \/ Open(o)
        /\ failures' = 0 => \A o \in Order : Open(o) /\ Terms[o].market = "SPOT" => o \in found'
    BY <1>1, <1>5, FindPendingFinds
  <2> QED BY <1>1, <1>2, <1>4, <2>1, <2>2
          DEF InheritedFound, InheritedLive, Listed, StartDone, Accepted, Open
<1>6. CASE FindPending("swapPending", "SWAP", "live")
  <2>1. stage' = "live" /\ stage = "swapPending"
    BY <1>6 DEF FindPending, From
  <2>2. /\ found \subseteq found' /\ \A o \in found' : o \in found \/ Open(o)
        /\ failures' = 0 => /\ failures = 0
                            /\ \A o \in Order : Open(o) /\ Terms[o].market = "SWAP" => o \in found'
    BY <1>1, <1>6, FindPendingFinds
  <2> QED BY <1>1, <1>2, <1>4, <2>1, <2>2
          DEF InheritedFound, InheritedLive, Listed, StartDone, Accepted, Open
<1>7. CASE FillLive
  <2>1. /\ stage = "live" /\ stage' = "done" /\ UNCHANGED <<found, failures>> /\ live' = live \cup found
    BY <1>7 DEF FillLive, From, recVars
  <2>2. \A o \in Inherited : Listed(o) /\ Listed(o)'
    BY <2>1 DEF Listed
  <2>3. InheritedFound' /\ \A o \in found' : Accepted(o)'
    <3>1. failures' = failures /\ found' = found
      BY <2>1
    <3>2. failures' = 0 => \A o \in Inherited : Open(o)' => o \in found'
      BY <1>1, <1>2, <2>2, <3>1 DEF InheritedFound
    <3>3. \A o \in found' : Accepted(o)'
      BY <1>1, <1>2, <1>3, <3>1
    <3> QED BY <3>2, <3>3 DEF InheritedFound
  <2>4. InheritedLive'
    BY <1>1, <1>2, <2>1, <2>2 DEF InheritedFound, InheritedLive
  <2> QED BY <2>3, <2>4
<1>8. ASSUME found' = found, failures' = 0 => failures = 0,
             \A o \in Inherited : Listed(o)' => Listed(o), stage' # "done"
      PROVE  (\A o \in found' : Accepted(o)') /\ InheritedFound' /\ InheritedLive'
  BY <1>1, <1>2, <1>3, <1>8 DEF InheritedFound, InheritedLive, StartDone
<1>9. CASE InitSpot \/ ReadPositions \/ InitSwap
  BY <1>3, <1>8, <1>9 DEF InitSpot, ReadPositions, InitSwap, From, Complete, Failed, recVars, Listed
<1>10. CASE \/ Subscribe("spot", "SPOT", "account") \/ Subscribe("account", "account", "spotPending")
            \/ Subscribe("swap", "SWAP", "positions")
  BY <1>8, <1>10 DEF Subscribe, From, recVars, Listed
<1> QED BY <1>5, <1>6, <1>7, <1>9, <1>10 DEF InitStep

(* What the other threads and the exchange do in the meantime opens nothing,  *)
(* and takes out of the live table only what has ended.                       *)
LEMMA MeanwhileFinds ==
  ASSUME StartInv, TypeOK', Meanwhile, UNCHANGED startVars
  PROVE  /\ wire' = <<>>
         /\ \A o \in found' : Accepted(o)'
         /\ InheritedFound' /\ InheritedLive'
<1>1. /\ TypeOK /\ Believes /\ wire = <<>> /\ (\A o \in found : Accepted(o)) /\ found \subseteq Order
      /\ InheritedFound /\ InheritedLive /\ Inherited \subseteq Order
  BY InheritedAssumption DEF StartInv, StartTypeOK
<1>2. /\ wire' = <<>>
      /\ \A o \in Order : (Accepted(o) => Accepted(o)') /\ (Open(o)' => Open(o))
      /\ failures' = 0 => failures = 0
  BY <1>1, OnlyCloses
<1>3. stage' = stage /\ found' = found
  BY DEF startVars
<1>4. \A o \in found' : Accepted(o)'
  BY <1>1, <1>2, <1>3
<1>5. InheritedFound'
  BY <1>1, <1>2, <1>3 DEF InheritedFound, Listed
<1>6. ASSUME NEW o \in Order, o \in live, Open(o)' PROVE o \in live'
  <2> SUFFICES ASSUME o \notin live' PROVE FALSE
    OBVIOUS
  <2>1. Closed(o) /\ exch' = exch
    BY <1>1, <1>6, OnlyEndedLeave
  <2> QED BY <1>6, <2>1 DEF Closed, Open
<1>7. InheritedLive'
  BY <1>1, <1>2, <1>3, <1>6 DEF InheritedLive, StartDone
<1> QED BY <1>2, <1>4, <1>5, <1>7

(* Every step, of Init or meanwhile, keeps the invariant. *)
LEMMA StartStepFinds ==
  ASSUME StartInv, [StartNext]_startingVars
  PROVE  StartInv'
<1>1. StartTypeOK'
  BY StartStepTyped DEF StartInv
<1>2. TypeOK /\ TypeOK' /\ Believes
  BY <1>1 DEF StartInv, StartTypeOK
<1>3. CASE InitStep
  <2>1. Believes' /\ wire' = wire /\ exch' = exch
    <3>1. CASE FillLive
      BY <1>1, <3>1, FillLiveKeeps
    <3>2. CASE ~FillLive
      <4>1. live' = live
        BY <1>3, <3>2 DEF InitStep, InitSpot, Subscribe, FindPending, ReadPositions, InitSwap, handlerVars
      <4> QED BY <1>1, <1>3, <4>1, InitKeepsBelieves
    <3> QED BY <3>1, <3>2
  <2> QED BY <1>1, <1>3, <2>1, InitStepFinds DEF StartInv
<1>4. CASE StartReconnect
  <2>1. live' = live /\ failures' = failures /\ UNCHANGED <<stage, found>>
    BY <1>4 DEF StartReconnect, handlerVars, recVars, startVars
  <2>2. Believes' /\ wire' = wire /\ exch' = exch
    BY <1>1, <1>4, <2>1, InitKeepsBelieves
  <2> QED BY <1>1, <2>1, <2>2 DEF StartInv, InheritedFound, InheritedLive, Listed, StartDone, Open, Accepted
<1>5. ASSUME Meanwhile, UNCHANGED startVars PROVE StartInv'
  <2>1. Believes'
    BY <1>2, <1>5, MeanwhileNext, StepBelieves DEF StillBelieves
  <2> QED BY <1>1, <1>2, <1>5, <2>1, MeanwhileFinds DEF StartInv
<1>6. CASE UNCHANGED startingVars
  <2>1. StillBelieves
    BY <1>2, <1>6, StepBelieves DEF startingVars
  <2>2. UNCHANGED <<live, wire, exch, failures, stage, found>>
    BY <1>6 DEF startingVars, vars, handlerVars, exchangeVars, channelVars, recVars, startVars
  <2> QED BY <1>1, <2>1, <2>2 DEF StillBelieves, StartInv, InheritedFound, InheritedLive, Listed,
             StartDone, Open, Accepted
<1> QED BY <1>3, <1>4, <1>5, <1>6 DEF StartNext, Meanwhile

(* No order left at the exchange that is still open is missing from the live  *)
(* table when Init has returned, unless REST failed to show it, however the   *)
(* exchange traded and whatever was dropped in the meantime.                  *)
THEOREM NoOrderForgotten == StartSpec => []InheritedLive
<1>1. StartInv => InheritedLive
  BY DEF StartInv
<1> QED BY <1>1, StartInitFound, StartStepFinds, PTL DEF StartSpec

(* Init's threads and its last step, which makes live a list that may be old, *)
(* invent nothing: the strategy is told of no end the exchange has not made,  *)
(* and what is live was accepted (trading_engine.cpp 30-75).                  *)
THEOREM StartTruthTold == StartSpec => []ToldTruth
<1>1. StartInv => ToldTruth
  BY DEF StartInv, Believes
<1> QED BY <1>1, StartInitFound, StartStepFinds, PTL DEF StartSpec
===============================================================================
