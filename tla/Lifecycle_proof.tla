--------------------------- MODULE Lifecycle_proof ---------------------------
(***************************************************************************)
(* What Lifecycle claims of its joined threads, for any number of signals. *)
(* A ring is in use only between the start of a thread and its end, and    *)
(* main is past the joins when it destroys the first.                      *)
(***************************************************************************)
EXTENDS Lifecycle, TLAPS

(* Each thread main has joined has ended, none has begun before Spawn, and the *)
(* rings are whole until main unmaps them (main.cpp 111-123).                  *)
InTurn ==
  /\ main \in {"login", "spawn"} =>
       quotation = "none" /\ strategy = "none" /\ dispatcher = "none"
  /\ main \in {"joinStrategy", "joinTrading", "unmap", "return"} => quotation = "done"
  /\ main \in {"joinTrading", "unmap", "return"} => strategy = "done"
  /\ main \in {"unmap", "return"} => dispatcher = "done"
  /\ main \notin {"unmap", "return", "exited"} => mapped = Rings

Inv == TypeOK /\ InTurn

(* The rings in main's order are a sequence of their names.                    *)
LEMMA RingsTyped == Rings \in Seq(Range(Rings)) /\ Market \subseteq Range(Rings)
<1>1. Rings \in Seq({"ticker", "bbo", "depth", "trade", "signal", "report"})  BY DEF Rings
<1>2. Range(Rings) = {"ticker", "bbo", "depth", "trade", "signal", "report"}
  <2>1. DOMAIN Rings = 1 .. 6  BY DEF Rings
  <2>2. /\ Rings[1] = "ticker" /\ Rings[2] = "bbo" /\ Rings[3] = "depth"
        /\ Rings[4] = "trade" /\ Rings[5] = "signal" /\ Rings[6] = "report"
    BY DEF Rings
  <2>3. \A i : i \in 1 .. 6 <=> i \in {1, 2, 3, 4, 5, 6}  OBVIOUS
  <2> QED  BY <2>1, <2>2, <2>3 DEF Range
<1> QED  BY <1>1, <1>2 DEF Market

(* The process starts in Inv.                                                  *)
LEMMA Initially == Init => Inv
<1>1. SUFFICES ASSUME Init PROVE Inv  OBVIOUS
<1>2. TypeOK
  <2>1. running \in [Engine -> BOOLEAN] /\ signals \in 0 .. MaxSignals /\ mapped \in Seq(Range(Rings))
    BY <1>1, RingsTyped, MaxSignalsAssumption DEF Init
  <2>2. client \in {"null", "wild"} /\ shut = FALSE  BY <1>1 DEF Init
  <2> QED  BY <1>1, <2>1, <2>2 DEF Init, TypeOK
<1>3. InTurn  BY <1>1 DEF Init, InTurn
<1> QED  BY <1>2, <1>3 DEF Inv

(* A step of main keeps Inv: it goes on past a join only when the thread ended. *)
LEMMA MainKeeps == Inv /\ MainStep => Inv'
<1> SUFFICES ASSUME Inv, MainStep PROVE Inv'  OBVIOUS
<1> USE DEF Inv, joined, detached, stopping, public
<1>1. CASE LoginFails
  <2>1. TypeOK'  BY <1>1 DEF LoginFails, TypeOK
  <2>2. InTurn'  BY <1>1 DEF LoginFails, InTurn
  <2> QED  BY <2>1, <2>2
<1>2. CASE StartDetached
  <2>1. TypeOK'  BY <1>2 DEF StartDetached, TypeOK
  <2>2. InTurn'  BY <1>2 DEF StartDetached, InTurn
  <2> QED  BY <2>1, <2>2
<1>3. CASE Spawn
  <2>1. TypeOK'  BY <1>3 DEF Spawn, TypeOK, InTurn
  <2>2. InTurn'  BY <1>3 DEF Spawn, InTurn
  <2> QED  BY <2>1, <2>2
<1>4. CASE JoinQuotation
  <2>1. TypeOK'  BY <1>4 DEF JoinQuotation, TypeOK
  <2>2. InTurn'  BY <1>4 DEF JoinQuotation, InTurn
  <2> QED  BY <2>1, <2>2
<1>5. CASE JoinStrategy
  <2>1. TypeOK'  BY <1>5 DEF JoinStrategy, TypeOK
  <2>2. InTurn'  BY <1>5 DEF JoinStrategy, InTurn
  <2> QED  BY <2>1, <2>2
<1>6. CASE JoinTrading
  <2>1. TypeOK'  BY <1>6 DEF JoinTrading, TypeOK
  <2>2. InTurn'  BY <1>6 DEF JoinTrading, InTurn
  <2> QED  BY <2>1, <2>2
<1>7. CASE Unmap
  <2>1. Tail(mapped) \in Seq(Range(Rings))  BY <1>7 DEF Unmap, TypeOK
  <2>2. TypeOK'  BY <1>7, <2>1 DEF Unmap, TypeOK
  <2>3. InTurn'  BY <1>7 DEF Unmap, InTurn
  <2> QED  BY <2>2, <2>3
<1>8. CASE Return
  <2>1. TypeOK'  BY <1>8 DEF Return, TypeOK
  <2>2. InTurn'  BY <1>8 DEF Return, InTurn
  <2> QED  BY <2>1, <2>2
<1>9. CASE Exit
  <2>1. TypeOK'  BY <1>9 DEF Exit, TypeOK
  <2>2. InTurn'  BY <1>9 DEF Exit, InTurn
  <2> QED  BY <2>1, <2>2
<1> QED  BY <1>1, <1>2, <1>3, <1>4, <1>5, <1>6, <1>7, <1>8, <1>9 DEF MainStep

(* A step of a thread keeps Inv: a thread that ended begins no turn again.      *)
LEMMA ThreadKeeps == Inv /\ ThreadStep => Inv'
<1> SUFFICES ASSUME Inv, ThreadStep PROVE Inv'  OBVIOUS
<1> USE DEF Inv, joined, detached, stopping, public, Exited
<1>1. CASE QuotationStep
  <2> OnQuotation  BY <1>1 DEF QuotationStep, QuotationRuns, QuotationWaits
  <2> USE DEF OnQuotation
  <2>1. CASE Publish
    <3>1. TypeOK'  BY <2>1 DEF Publish, TypeOK
    <3>2. InTurn'  BY <2>1 DEF Publish, InTurn
    <3> QED  BY <3>1, <3>2
  <2>2. CASE Start
    <3>1. client = "set" /\ client' = "set"  BY <2>2 DEF Start, TypeOK
    <3>2. quotation' \in {"loop", "connect"}  BY <2>2 DEF Start
    <3>3. running' \in [Engine -> BOOLEAN] /\ shut' \in BOOLEAN  BY <2>2 DEF Start, TypeOK
    <3>4. TypeOK'  BY <3>1, <3>2, <3>3 DEF TypeOK
    <3>5. InTurn'  BY <2>2 DEF Start, InTurn
    <3> QED  BY <3>4, <3>5
  <2>3. CASE Quote
    <3>1. TypeOK'  BY <2>3 DEF Quote, TypeOK
    <3>2. InTurn'  BY <2>3 DEF Quote, InTurn
    <3> QED  BY <3>1, <3>2
  <2>4. CASE Dial
    <3>1. client = "set" /\ client' = "set"  BY <2>4 DEF Dial, TypeOK
    <3>2. quotation' \in {"loop", "connect"}  BY <2>4 DEF Dial
    <3>3. running' \in [Engine -> BOOLEAN] /\ shut' \in BOOLEAN  BY <2>4 DEF Dial, TypeOK
    <3>4. TypeOK'  BY <3>1, <3>2, <3>3 DEF TypeOK
    <3>5. InTurn'  BY <2>4 DEF Dial, InTurn
    <3> QED  BY <3>4, <3>5
  <2>5. CASE Connect
    <3>1. TypeOK'  BY <2>5 DEF Connect, TypeOK
    <3>2. InTurn'  BY <2>5 DEF Connect, InTurn
    <3> QED  BY <3>1, <3>2
  <2>6. CASE QuoteTurn
    <3>1. TypeOK'  BY <2>6 DEF QuoteTurn, TypeOK
    <3>2. InTurn'  BY <2>6 DEF QuoteTurn, InTurn
    <3> QED  BY <3>1, <3>2
  <2>7. CASE StopReading
    <3>1. TypeOK'  BY <2>7 DEF StopReading, TypeOK
    <3>2. InTurn'  BY <2>7 DEF StopReading, InTurn
    <3> QED  BY <3>1, <3>2
  <2>8. CASE StopQuoting
    <3>1. TypeOK'  BY <2>8 DEF StopQuoting, TypeOK
    <3>2. InTurn'  BY <2>8 DEF StopQuoting, InTurn
    <3> QED  BY <3>1, <3>2
  <2> QED  BY <1>1, <2>1, <2>2, <2>3, <2>4, <2>5, <2>6, <2>7, <2>8
           DEF QuotationStep, QuotationRuns, QuotationWaits
<1>2. CASE StrategyStep
  <2>1. TypeOK'  BY <1>2 DEF StrategyStep, TypeOK
  <2>2. InTurn'  BY <1>2 DEF StrategyStep, InTurn
  <2> QED  BY <2>1, <2>2
<1>3. CASE DispatcherStep
  <2>1. TypeOK'  BY <1>3 DEF DispatcherStep, TypeOK
  <2>2. InTurn'  BY <1>3 DEF DispatcherStep, InTurn
  <2> QED  BY <2>1, <2>2
<1>4. CASE ListenerStep
  <2>1. TypeOK'  BY <1>4 DEF ListenerStep, TypeOK
  <2>2. InTurn'  BY <1>4 DEF ListenerStep, InTurn
  <2> QED  BY <2>1, <2>2
<1>5. CASE ReconcilerStep
  <2>1. TypeOK'  BY <1>5 DEF ReconcilerStep, TypeOK
  <2>2. InTurn'  BY <1>5 DEF ReconcilerStep, InTurn
  <2> QED  BY <2>1, <2>2
<1> QED  BY <1>1, <1>2, <1>3, <1>4, <1>5 DEF ThreadStep

(* A signal and its handler keep Inv: they clear flags, or end the process.     *)
LEMMA HandlerKeeps == Inv /\ (Signal \/ HandlerStep) => Inv'
<1> SUFFICES ASSUME Inv, Signal \/ HandlerStep PROVE Inv'  OBVIOUS
<1> USE MaxSignalsAssumption DEF Inv, joined, detached, public, Exited
<1>1. CASE Signal
  <2>1. TypeOK'  BY <1>1 DEF Signal, TypeOK, Engine
  <2>2. InTurn'  BY <1>1 DEF Signal, InTurn
  <2> QED  BY <2>1, <2>2
<1>2. CASE StopQuotation
  <2>1. main' = main \/ main' = "exited"  BY <1>2 DEF StopQuotation
  <2>2. running' \in [Engine -> BOOLEAN]  BY <1>2 DEF StopQuotation, TypeOK
  <2>3. TypeOK'  BY <1>2, <2>1, <2>2 DEF StopQuotation, TypeOK, Engine
  <2>4. InTurn'  BY <1>2, <2>1 DEF StopQuotation, InTurn
  <2> QED  BY <2>3, <2>4
<1>3. CASE StopStrategy
  <2>1. TypeOK'  BY <1>3 DEF StopStrategy, TypeOK, Engine
  <2>2. InTurn'  BY <1>3 DEF StopStrategy, InTurn
  <2> QED  BY <2>1, <2>2
<1>4. CASE StopTrading
  <2>1. TypeOK'  BY <1>4 DEF StopTrading, TypeOK, Engine
  <2>2. InTurn'  BY <1>4 DEF StopTrading, InTurn
  <2> QED  BY <2>1, <2>2
<1> QED  BY <1>1, <1>2, <1>3, <1>4 DEF HandlerStep

(* The inductive invariant of the life of the process: main passes a join only  *)
(* when the thread has ended, whatever the signals stop and in whatever order.  *)
THEOREM LifecycleInvariant == Spec => []Inv
<1>1. Inv /\ UNCHANGED vars => Inv'
  <2> SUFFICES ASSUME Inv, UNCHANGED vars PROVE Inv'  OBVIOUS
  <2>1. TypeOK'  BY DEF Inv, TypeOK, vars, joined, detached, stopping, public
  <2>2. InTurn'  BY DEF Inv, InTurn, vars, joined, detached, stopping
  <2> QED  BY <2>1, <2>2 DEF Inv
<1>2. Inv /\ [Next]_vars => Inv'  BY <1>1, MainKeeps, ThreadKeeps, HandlerKeeps DEF Next
<1> QED  BY <1>2, Initially, PTL DEF Spec

(* The flags, locals and places of main and of every thread are what they are   *)
(* declared to be, whatever a call through a wild client_ did.                 *)
THEOREM LifecycleTypeCorrect == Spec => []TypeOK
<1>1. Inv => TypeOK  BY DEF Inv
<1> QED  BY <1>1, LifecycleInvariant, PTL

(* No joined thread touches a ring main has destroyed (main.cpp 117-128), for   *)
(* any number of signals.                                                      *)
THEOREM JoinedSafe == Spec => []JoinedUseMapped
<1>1. Inv => JoinedUseMapped
  <2> SUFFICES ASSUME Inv, ~Exited PROVE InUse \subseteq Range(mapped)
    BY DEF JoinedUseMapped
  <2>1. CASE main \in {"unmap", "return"}
    BY <2>1 DEF Inv, InTurn, InUse
  <2>2. CASE main \notin {"unmap", "return"}
    <3>1. mapped = Rings  BY <2>2 DEF Inv, InTurn, Exited
    <3>2. "signal" \in Range(Rings)
      <4>1. 5 \in DOMAIN Rings /\ Rings[5] = "signal"  BY DEF Rings
      <4> QED  BY <4>1 DEF Range
    <3> QED  BY <3>1, <3>2, RingsTyped DEF InUse
  <2> QED  BY <2>1, <2>2
<1> QED  BY <1>1, LifecycleInvariant, PTL
=============================================================================
