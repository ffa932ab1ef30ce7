------------------------------ MODULE Lifecycle ------------------------------
(***************************************************************************)
(* From the installation of the signal handler to the end of the process:  *)
(* main (main.cpp), the three threads it joins, the two threads that       *)
(* TradingEngine::Init detaches, and OnSignal, which may run at any time.  *)
(*                                                                         *)
(* A loop is its test of running_ and one turn, in which the thread uses   *)
(* the rings.  Reading from a ring and waiting for the first byte of a     *)
(* message or for a TCP connection have a time limit; what follows them,   *)
(* the handshakes of a connection and the rest of a message, has none.     *)
(* One signal is handled at a time, and none after main begins to return.  *)
(***************************************************************************)
EXTENDS Naturals, Sequences, Functions

CONSTANT MaxSignals   \* bound: how many signals arrive

ASSUME MaxSignalsAssumption == MaxSignals \in Nat

VARIABLES main,         \* where main is
          quotation,    \* where QuotationEngine::Run is
          strategy,     \* where StrategyEngine::Run is
          dispatcher,   \* where RunOrderDispatcher is
          listener,     \* where StartPrivateListener is, detached
          reconciler,   \* where RunReconciler is, detached
          handler,      \* the engine OnSignal stops next, or "off"
          signals,      \* history: signals so far
          client,       \* what QuotationEngine::client_ points to
          shut,         \* Stop has shut the socket the quotation client has now
          running,      \* running[e]: the running_ of the engine, or of its client
          mapped        \* the rings main has not destroyed yet, in its order

detached == <<listener, reconciler>>
joined   == <<quotation, strategy, dispatcher>>
stopping == <<handler, signals>>
public == <<client, shut>>
vars == <<main, joined, detached, stopping, public, running, mapped>>

Market == {"ticker", "bbo", "depth", "trade"}
Rings  == <<"ticker", "bbo", "depth", "trade", "signal", "report">>
Engine == {"quotation", "strategy", "trading"}

Exited == main = "exited"

(* client_ is never initialised; the engines are on main's stack. *)
Init == /\ main = "login"
        /\ quotation = "none" /\ strategy = "none" /\ dispatcher = "none"
        /\ listener = "none" /\ reconciler = "none"
        /\ handler = "off"
        /\ signals = 0
        /\ client \in {"null", "wild"}
        /\ shut = FALSE
        /\ running = [e \in Engine |-> e # "quotation"]
        /\ mapped = Rings

-----------------------------------------------------------------------------
(* main *)

LoginFails == /\ main = "login"
              /\ main' = "exited"
              /\ UNCHANGED <<joined, detached, stopping, public, running, mapped>>

StartDetached == /\ main = "login"
                 /\ main' = "spawn"
                 /\ listener' = "read"
                 /\ reconciler' = "sleep"
                 /\ UNCHANGED <<joined, stopping, public, running, mapped>>

Spawn == /\ main = "spawn"
         /\ main' = "joinQuotation"
         /\ quotation' = "begin"
         /\ strategy' = "begin"
         /\ dispatcher' = "loop"
         /\ UNCHANGED <<detached, stopping, public, running, mapped>>

JoinQuotation == /\ main = "joinQuotation"
                 /\ quotation = "done"
                 /\ main' = "joinStrategy"
                 /\ UNCHANGED <<joined, detached, stopping, public, running, mapped>>

(* Mutant: the strategy thread is not waited for. *)
SkipStrategy == /\ main = "joinStrategy"
                /\ main' = "joinTrading"
                /\ UNCHANGED <<joined, detached, stopping, public, running, mapped>>

JoinStrategy == /\ main = "joinStrategy"
                /\ strategy = "done"
                /\ main' = "joinTrading"
                /\ UNCHANGED <<joined, detached, stopping, public, running, mapped>>

JoinTrading == /\ main = "joinTrading"
               /\ dispatcher = "done"
               /\ main' = "unmap"
               /\ UNCHANGED <<joined, detached, stopping, public, running, mapped>>

Unmap == /\ main = "unmap"
         /\ mapped # <<>>
         /\ mapped' = Tail(mapped)
         /\ UNCHANGED <<main, joined, detached, stopping, public, running>>

(* The engines go with main's frame, then the process with all its threads. *)
Return == /\ main = "unmap"
          /\ mapped = <<>>
          /\ main' = "return"
          /\ UNCHANGED <<joined, detached, stopping, public, running, mapped>>

Exit == /\ main = "return"
        /\ main' = "exited"
        /\ UNCHANGED <<joined, detached, stopping, public, running, mapped>>

MainStep == \/ LoginFails \/ StartDetached \/ Spawn
            \/ JoinQuotation \/ JoinStrategy \/ JoinTrading
            \/ Unmap \/ Return \/ Exit

-----------------------------------------------------------------------------
(* QuotationEngine::Run and ExchangeClient::Start.  The client is a local.   *)
(* Its socket is there from "connect" to the end of the inner loop.          *)

(* Mutant: client_ is not set. *)
Unpublished == /\ quotation = "begin"
               /\ quotation' = "start"
               /\ UNCHANGED <<public, running>>

Publish == /\ quotation = "begin"
           /\ client' = "set"
           /\ quotation' = "start"
           /\ UNCHANGED <<shut, running>>

Start == /\ quotation = "start"
         /\ running' = [running EXCEPT !["quotation"] = TRUE]
         /\ quotation' = "loop"
         /\ UNCHANGED public

Quote == /\ \/ quotation = "loop" /\ quotation' = "dial"
            \/ quotation = "read" /\ quotation' = "turn"
         /\ running["quotation"]
         /\ UNCHANGED <<public, running>>

Dial == /\ quotation = "dial"
        /\ quotation' \in {"connect", "loop"}
        /\ shut' = FALSE
        /\ UNCHANGED <<client, running>>

(* The handshakes of proxy, TLS and web socket. *)
Connect == /\ quotation = "connect"
           /\ quotation' \in {"read", "loop"}
           /\ UNCHANGED <<public, running>>

QuoteTurn == /\ quotation = "turn"
             /\ quotation' \in {"read", "loop"}
             /\ UNCHANGED <<public, running>>

StopReading == /\ quotation = "read"
               /\ ~running["quotation"]
               /\ quotation' = "loop"
               /\ UNCHANGED <<public, running>>

StopQuoting == /\ quotation = "loop"
               /\ ~running["quotation"]
               /\ quotation' = "done"
               /\ client' = "dangling"
               /\ UNCHANGED <<shut, running>>

OnQuotation == ~Exited /\ UNCHANGED <<main, strategy, dispatcher, detached, stopping, mapped>>

QuotationRuns == (Publish \/ Start \/ Quote \/ Dial \/ StopReading \/ StopQuoting) /\ OnQuotation

(* These two wait for the exchange, until the socket is shut. *)
QuotationWaits == (Connect \/ QuoteTurn) /\ OnQuotation

QuotationStep == QuotationRuns \/ QuotationWaits

(* StrategyEngine::Run; an unknown strategy ends it, and so may the strategy. *)
StrategyStep ==
  /\ ~Exited
  /\ \/ strategy = "begin" /\ strategy' \in {"loop", "done"}
     \/ strategy = "loop" /\ running["strategy"] /\ strategy' \in {"turn", "done"}
     \/ strategy = "loop" /\ ~running["strategy"] /\ strategy' = "done"
     \/ strategy = "turn" /\ strategy' = "loop"
  /\ UNCHANGED <<main, quotation, dispatcher, detached, stopping, public, running, mapped>>

(* TradingEngine::Run.  A signal taken from the ring is a request, and        *)
(* SendToPrivate waits for sub_mutex_, which ReconnectPrivate holds to its    *)
(* end.                                                                       *)
DispatcherStep ==
  /\ ~Exited
  /\ \/ dispatcher = "loop" /\ dispatcher' = IF running["trading"] THEN "turn" ELSE "done"
     \/ dispatcher = "turn" /\ dispatcher' \in {"loop", "send"}
     \/ dispatcher = "send" /\ listener # "reconnect" /\ dispatcher' = "loop"
  /\ UNCHANGED <<main, quotation, strategy, detached, stopping, public, running, mapped>>

-----------------------------------------------------------------------------
(* The detached threads.  Nobody stops the client the listener runs on, nor   *)
(* shuts its socket.                                                          *)
ListenerStep ==
  /\ ~Exited
  /\ \/ listener = "read" /\ listener' \in {"handle", "reconnect"}
     \/ listener \in {"handle", "reconnect"} /\ listener' = "read"
  /\ UNCHANGED <<main, joined, reconciler, stopping, public, running, mapped>>

ReconcilerStep ==
  /\ ~Exited
  /\ \/ reconciler = "sleep" /\ reconciler' = IF running["trading"] THEN "round" ELSE "done"
     \/ reconciler = "round" /\ reconciler' = "sleep"
  /\ UNCHANGED <<main, joined, listener, stopping, public, running, mapped>>

-----------------------------------------------------------------------------
(* OnSignal *)

Signal == /\ handler = "off"
          /\ signals < MaxSignals
          /\ main \notin {"return", "exited"}
          /\ handler' = "quotation"
          /\ signals' = signals + 1
          /\ UNCHANGED <<main, joined, detached, public, running, mapped>>

(* Mutant: the running client's socket is not shut. *)
StopQuotationOnly ==
  /\ handler = "quotation"
  /\ ~Exited
  /\ handler' = "strategy"
  /\ running' = IF client = "set" THEN [running EXCEPT !["quotation"] = FALSE] ELSE running
  /\ main' \in IF client \in {"wild", "dangling"} THEN {main, "exited"} ELSE {main}
  /\ UNCHANGED <<joined, detached, signals, public, mapped>>

(* A client with no socket yet, or between two, has nothing to shut.  Through *)
(* a pointer to no client the process goes on, or dies.                       *)
StopQuotation ==
  /\ handler = "quotation"
  /\ ~Exited
  /\ handler' = "strategy"
  /\ running' = IF client = "set" THEN [running EXCEPT !["quotation"] = FALSE] ELSE running
  /\ shut' = (shut \/ quotation \in {"connect", "read", "turn"})
  /\ main' \in IF client \in {"wild", "dangling"} THEN {main, "exited"} ELSE {main}
  /\ UNCHANGED <<joined, detached, signals, client, mapped>>

StopStrategy ==
  /\ handler = "strategy"
  /\ ~Exited
  /\ handler' = "trading"
  /\ running' = [running EXCEPT !["strategy"] = FALSE]
  /\ UNCHANGED <<main, joined, detached, signals, public, mapped>>

StopTrading ==
  /\ handler = "trading"
  /\ ~Exited
  /\ handler' = "off"
  /\ running' = [running EXCEPT !["trading"] = FALSE]
  /\ UNCHANGED <<main, joined, detached, signals, public, mapped>>

HandlerStep == StopQuotation \/ StopStrategy \/ StopTrading

-----------------------------------------------------------------------------
ThreadStep == \/ QuotationStep \/ StrategyStep \/ DispatcherStep
              \/ ListenerStep \/ ReconcilerStep

Next == MainStep \/ ThreadStep \/ Signal \/ HandlerStep

Spec == Init /\ [][Next]_vars

(* Every thread is scheduled and a handler once entered runs to its end.      *)
(* Nothing obliges a signal to arrive, the listener to come back from a       *)
(* reconnect, or a quotation client to get past a handshake or a message of   *)
(* which the exchange sends only a part, unless its socket is shut.  Between  *)
(* two reconnects the listener leaves the mutex free for seconds, in which    *)
(* the dispatcher gets it.                                                    *)
Fairness == /\ WF_vars(MainStep)
            /\ WF_vars(QuotationRuns) /\ WF_vars(shut /\ QuotationWaits)
            /\ WF_vars(StrategyStep) /\ SF_vars(DispatcherStep)
            /\ WF_vars(HandlerStep)

FairSpec == Spec /\ Fairness

-----------------------------------------------------------------------------
(* Properties *)

(* The variables have their types, and client_ points to a client as long as  *)
(* there is one (quotation_engine.cpp 31-33).                                 *)
TypeOK ==
  /\ main \in {"login", "spawn", "joinQuotation", "joinStrategy", "joinTrading",
               "unmap", "return", "exited"}
  /\ quotation \in {"none", "begin", "start", "loop", "dial", "connect", "read", "turn", "done"}
  /\ strategy \in {"none", "begin", "loop", "turn", "done"}
  /\ dispatcher \in {"none", "loop", "turn", "send", "done"}
  /\ listener \in {"none", "read", "handle", "reconnect"}
  /\ reconciler \in {"none", "sleep", "round", "done"}
  /\ handler \in Engine \cup {"off"}
  /\ signals \in 0 .. MaxSignals
  /\ client \in {"null", "wild", "set", "dangling"}
  /\ client = "set" <=> quotation \in {"start", "loop", "dial", "connect", "read", "turn"}
  /\ shut \in BOOLEAN
  /\ running \in [Engine -> BOOLEAN]
  /\ mapped \in Seq(Range(Rings))

(* The rings a thread reads or writes in its turn. *)
InUse == UNION {IF quotation = "turn" THEN Market ELSE {},
                IF strategy \in {"begin", "turn"} THEN Range(Rings) ELSE {},
                IF dispatcher = "turn" THEN {"signal"} ELSE {}}
InUseDetached == IF listener = "handle" \/ reconciler = "round" THEN {"report"} ELSE {}

(* The three joined threads use no ring that main has destroyed, nor an       *)
(* engine that is gone with main's frame: the joins come first, whichever     *)
(* thread ends first and whoever ends it (main.cpp 117-128).                  *)
JoinedUseMapped == ~Exited => InUse \subseteq Range(mapped)

(* The detached threads neither.                                              *)
DetachedUseMapped == ~Exited => InUseDetached \subseteq Range(mapped)

(* A signal that arrives when the quotation client runs ends the process: the *)
(* flags are set by nobody again and every join returns (main.cpp 18-28,      *)
(* 117-119).  Two waits may keep it: that of the dispatcher for sub_mutex_,   *)
(* held by a ReconnectPrivate whose socket nobody shuts (exchange_client.cpp  *)
(* 58, 208-219; trading_engine.cpp 104), and that of a quotation client in a  *)
(* handshake on a socket it did not have yet when Stop shut it                *)
(* (exchange_client.cpp 88, 135; websocket.hpp 101, 121, 202, 236-240).       *)
Serving == quotation \in {"loop", "dial", "connect", "read", "turn"}

StopsOrSticks ==
  handler = "quotation" /\ client = "set" /\ Serving
    ~> \/ Exited
       \/ [](dispatcher = "send" /\ listener = "reconnect")
       \/ [](quotation = "connect" /\ ~shut)
=============================================================================
