----------------------------- MODULE Quiet_proof -----------------------------
(***************************************************************************)
(* Proofs that the tables of TradingEngine are the exchange's when nothing *)
(* is under way, for every set of orders, terms and deposits.              *)
(***************************************************************************)
EXTENDS Quiet, Ledger_proof

-----------------------------------------------------------------------------
(* The tables of live, unconfirmed and partly filled orders.                  *)

(* Where a report still to be applied is.                                     *)
LEMMA Places ==
  ASSUME Orderly
  PROVE  /\ Range(inbox) \subseteq ToTrack /\ ToTrack \subseteq ToRelease /\ ToRelease \subseteq ToApply
         /\ \A s \in ToApply : s \in Range(inbox) \/ (InHand /\ s = h[Listener].report)
         /\ InHand => h[Listener].report \in ToApply
BY DEF ToTrack, ToRelease, ToApply, UpTo, InHand

(* What is known of a report still to be applied.                             *)
LEMMA ReportKnown ==
  ASSUME Orderly, NEW s \in ToApply
  PROVE  /\ s \in Report /\ s.order \in Order /\ s.status \in Status /\ s.filled \in Nat
         /\ TrueReport(s) /\ ExactReport(s) /\ exch[s.order].st # "unknown"
<1>1. s \in Report /\ TrueReport(s) /\ exch[s.order].st # "unknown"
  BY ToApplyTrue DEF Orderly
<1> QED BY <1>1 DEF Report, Orderly, ReportsExact

(* The report in hand, and those that come after it.                          *)
LEMMA HandKnown ==
  ASSUME Orderly, NewFirst, EndComes, InHand, NEW r, r = h[Listener].report
  PROVE  /\ r \in ToApply
         /\ ~NewIn(Range(inbox), r.order)
         /\ r.status \in Terminal => ~EndIn(Range(inbox), r.order)
         /\ Closed(r.order) /\ r.status \notin Terminal => EndIn(Range(inbox), r.order)
         /\ r.status # "REJECTED" => Accepted(r.order) /\ r.id = r.order
         /\ r.status = "REJECTED" => exch[r.order].st = "refused" /\ r.id = NoId
<1>1. r \in ToApply
  BY Places
<1>2. r.status \in Terminal => ~EndIn(Range(inbox), r.order)
  BY DEF Orderly, AppliedInv, InOrder, Before, EndIn
<1>3. ~NewIn(Range(inbox), r.order)
  BY DEF NewFirst, NewIn
<1>4. TrueReport(r) /\ r.status \in Status
  BY <1>1, ReportKnown
<1> QED BY <1>1, <1>2, <1>3, <1>4 DEF EndComes, TrueReport, Accepted, Status, Terminal

(* A report that is sent comes last in the inbox.                             *)
LEMMA Appended ==
  ASSUME Orderly, Orderly', conn = Channel, NEW channel \in Channel, NEW r \in Report,
         Notify(channel, r), h' = h
  PROVE  /\ Range(inbox') = Range(inbox) \cup {r}
         /\ ToTrack' = ToTrack \cup {r} /\ ToRelease' = ToRelease \cup {r}
         /\ ToApply' = ToApply \cup {r}
         /\ Len(inbox) \in Nat /\ Len(inbox') = Len(inbox) + 1 /\ inbox'[Len(inbox) + 1] = r
         /\ \A i \in 1 .. Len(inbox) : inbox'[i] = inbox[i]
         /\ DOMAIN inbox = 1 .. Len(inbox) /\ DOMAIN inbox' = 1 .. Len(inbox')
         /\ (InHand <=> InHand')
<1>1. inbox' = Append(inbox, r) /\ inbox \in Seq(Report) /\ inbox' \in Seq(Report)
  BY DEF Notify, Orderly, TypeOK
<1>2. Range(inbox') = Range(inbox) \cup {r}
  BY <1>1, RangeAppend
<1>3. /\ Len(inbox) \in Nat /\ Len(inbox') = Len(inbox) + 1 /\ inbox'[Len(inbox) + 1] = r
      /\ \A i \in 1 .. Len(inbox) : inbox'[i] = inbox[i]
      /\ DOMAIN inbox = 1 .. Len(inbox) /\ DOMAIN inbox' = 1 .. Len(inbox')
  BY <1>1, AppendProperties, LenProperties
<1>4. InHand <=> InHand'
  BY DEF InHand
<1> QED BY <1>2, <1>3, <1>4 DEF ToTrack, ToRelease, ToApply, UpTo

(* The exchange decides on an order, fills it or cancels it, and says so.     *)
Decided(r, o) ==
  /\ wire # <<>> /\ Head(wire) = o /\ wire' = Tail(wire)
  /\ exch'[o].filled = exch[o].filled
  /\ \/ exch'[o].st = "open" /\ r.status = "NEW"
     \/ exch'[o].st = "refused" /\ r.status = "REJECTED" /\ r.mode = "CASH"
  /\ r.filled = 0

Changed(r, o) ==
  /\ Open(o) /\ wire' = wire
  /\ r.filled = exch'[o].filled /\ exch'[o].filled >= exch[o].filled
  /\ \/ exch'[o].st = "open" /\ r.status = "PARTIALLY_FILLED"
     \/ /\ exch'[o].st = "filled" /\ r.status = "FILLED"
        /\ exch'[o].filled = Terms[o].volume
     \/ /\ exch'[o].st = "cancelled" /\ r.status = "CANCELLED"
        /\ exch'[o].filled = exch[o].filled

Said(channel, r, o) ==
  /\ conn' = conn /\ Notify(channel, r) /\ r.order = o
  /\ UNCHANGED <<live, cids, tracker, applied, h, hand, book, swap, emitted, drops, pushes>>
  /\ \A x \in Order : x # o => exch'[x] = exch[x]
  /\ Decided(r, o) \/ Changed(r, o)

(* Accept and Refuse report one order's decision. *)
LEMMA DecisionsSaid ==
  ASSUME Orderly, Accept \/ Refuse
  PROVE  \E channel \in Channel, r \in Report, o \in Order : Said(channel, r, o)
<1>1. PICK o \in Order : wire # <<>> /\ Head(wire) = o
  BY QueueTyped DEF Accept, Refuse, Orderly, TypeOK
<1>2. /\ wire' = Tail(wire) /\ conn' = conn
      /\ UNCHANGED <<live, cids, tracker, applied, h, hand, book, swap, emitted, drops, pushes>>
  BY DEF Accept, Refuse, handlerVars, strategyVars, accountVars
<1>3. exch \in [Order -> [st : ExchState, filled : Nat, value : Nat, fee : Int, deals : SUBSET Deal]] /\ Terms[o].market \in Channel
  BY TermsAssumption DEF Orderly, TypeOK, SpotTerms, SwapTerms, Channel
<1>4. CASE Accept
  <2>1. PICK r \in Report : r = ChannelReport(o, "NEW", 0)
    BY ChannelReportTyped DEF Status
  <2>2. Notify(Terms[o].market, r) /\ exch' = [exch EXCEPT ![o].st = "open"]
    BY <1>1, <1>4, <2>1 DEF Accept
  <2>3. /\ exch'[o].st = "open" /\ exch'[o].filled = exch[o].filled
        /\ \A x \in Order : x # o => exch'[x] = exch[x]
    BY <1>3, <2>2
  <2>4. r.order = o /\ r.status = "NEW" /\ r.filled = 0
    BY <2>1 DEF ChannelReport, FillReport
  <2>5. Said(Terms[o].market, r, o)
    BY <1>1, <1>2, <2>2, <2>3, <2>4 DEF Said, Decided
  <2> QED BY <1>3, <2>5
<1>5. CASE Refuse
  <2>1. PICK r : r = [ChannelReport(o, "REJECTED", 0) EXCEPT !.id = NoId, !.mode = "CASH"]
    OBVIOUS
  <2>2. Notify("login", r) /\ exch' = [exch EXCEPT ![o].st = "refused"] /\ "login" \in Channel
    BY <1>1, <1>5, <2>1 DEF Refuse, Channel
  <2>3. /\ exch'[o].st = "refused" /\ exch'[o].filled = exch[o].filled
        /\ \A x \in Order : x # o => exch'[x] = exch[x]
    BY <1>3, <2>2
  <2>4. r \in Report /\ r.order = o /\ r.status = "REJECTED" /\ r.mode = "CASH" /\ r.filled = 0
    BY <2>1, RefusalTyped
  <2>5. Said("login", r, o)
    BY <1>1, <1>2, <2>2, <2>3, <2>4 DEF Said, Decided
  <2> QED BY <2>2, <2>4, <2>5
<1> QED BY <1>4, <1>5

(* A fill is reported with the volume it has come to. *)
LEMMA FillsSaid ==
  ASSUME Orderly, NEW o \in Order, NEW n \in 1 .. Terms[o].volume, NEW d \in Offered(o), Trade(o, n, d)
  PROVE  \E channel \in Channel, r \in Report : Said(channel, r, o) /\ Changed(r, o)
<1>1. Terms[o].market \in Channel
  BY TermsAssumption DEF SpotTerms, SwapTerms, Channel
<1>2. /\ wire' = wire /\ conn' = conn
      /\ UNCHANGED <<live, cids, tracker, applied, h, hand, book, swap, emitted, drops, pushes>>
  BY DEF Trade, handlerVars, strategyVars, accountVars
<1>3. PICK status, average :
        LET r == FillReport(o, status, exch'[o].filled, average, d.fee)
        IN  /\ r \in Report /\ Notify(Terms[o].market, r)
            /\ status = IF exch'[o].st = "filled" THEN "FILLED" ELSE "PARTIALLY_FILLED"
  BY TradeIs DEF Orderly
<1>4. /\ Open(o) /\ exch[o].filled <= exch'[o].filled
      /\ exch'[o].st = IF exch'[o].filled = Terms[o].volume THEN "filled" ELSE "open"
      /\ \A x \in Order : x # o => exch'[x] = exch[x]
  BY TradeIs DEF Orderly
<1>5. PICK r \in Report : r = FillReport(o, status, exch'[o].filled, average, d.fee)
  BY <1>3
<1>6. r.order = o /\ r.filled = exch'[o].filled /\ r.status = status /\ Notify(Terms[o].market, r)
  BY <1>3, <1>5 DEF FillReport
<1>7. Changed(r, o)
  BY <1>2, <1>3, <1>4, <1>6 DEF Changed
<1> QED BY <1>1, <1>2, <1>4, <1>6, <1>7 DEF Said

(* A cancellation is reported with the volume that was filled. *)
LEMMA CancelSaid ==
  ASSUME Orderly, NEW o \in Order, Cancel(o)
  PROVE  \E channel \in Channel, r \in Report : Said(channel, r, o) /\ Changed(r, o)
<1>1. /\ exch \in [Order -> [st : ExchState, filled : Nat, value : Nat, fee : Int, deals : SUBSET Deal]] /\ exch[o].filled \in Nat
      /\ Terms[o].market \in Channel
  BY TermsAssumption DEF Orderly, TypeOK, SpotTerms, SwapTerms, Channel
<1>2. /\ Open(o) /\ wire' = wire /\ conn' = conn
      /\ UNCHANGED <<live, cids, tracker, applied, h, hand, book, swap, emitted, drops, pushes>>
      /\ exch' = [exch EXCEPT ![o].st = "cancelled"]
      /\ Notify(Terms[o].market, ChannelReport(o, "CANCELLED", exch[o].filled))
  BY DEF Cancel, handlerVars, strategyVars, accountVars
<1>3. /\ exch'[o].filled = exch[o].filled /\ exch'[o].st = "cancelled"
      /\ exch'[o].filled >= exch[o].filled
      /\ \A x \in Order : x # o => exch'[x] = exch[x]
  BY <1>1, <1>2
<1>4. PICK r \in Report : r = ChannelReport(o, "CANCELLED", exch[o].filled)
  BY <1>1, ChannelReportTyped DEF Status, Terminal
<1>5. r.order = o /\ r.filled = exch'[o].filled /\ r.status = "CANCELLED"
  BY <1>3, <1>4 DEF ChannelReport, FillReport
<1>6. Changed(r, o)
  BY <1>2, <1>3, <1>5 DEF Changed
<1> QED BY <1>1, <1>2, <1>3, <1>4, <1>5, <1>6 DEF Said

(* Whatever the exchange does, it reports. *)
LEMMA ExchangeSays ==
  ASSUME Orderly,
         \/ Accept \/ Refuse
         \/ \E o \in Order : (\E n \in 1 .. Terms[o].volume, d \in Offered(o) : Trade(o, n, d)) \/ Cancel(o)
  PROVE  \E channel \in Channel, r \in Report, o \in Order : Said(channel, r, o)
BY DecisionsSaid, FillsSaid, CancelSaid

(* A report more to come keeps the tables exact. *)
LEMMA TablesReported ==
  ASSUME Orderly, Orderly', TablesExact,
         NEW channel \in Channel, NEW r \in Report, NEW o \in Order, Said(channel, r, o)
  PROVE  TablesExact'
<1> SUFFICES ASSUME conn' = conn, Notify(channel, r), r.order = o,
                    UNCHANGED <<live, cids, tracker, applied, h, hand>>,
                    \A x \in Order : x # o => exch'[x] = exch[x],
                    \/ /\ wire # <<>> /\ Head(wire) = o /\ wire' = Tail(wire)
                       /\ exch'[o].filled = exch[o].filled
                       /\ \/ exch'[o].st = "open" /\ r.status = "NEW"
                          \/ exch'[o].st = "refused" /\ r.status = "REJECTED" /\ r.mode = "CASH"
                       /\ r.filled = 0
                    \/ /\ Open(o) /\ wire' = wire
                       /\ r.filled = exch'[o].filled
                       /\ \/ exch'[o].st = "open" /\ r.status = "PARTIALLY_FILLED"
                          \/ /\ exch'[o].st = "filled" /\ r.status = "FILLED"
                             /\ exch'[o].filled = Terms[o].volume
                          \/ /\ exch'[o].st = "cancelled" /\ r.status = "CANCELLED"
                             /\ exch'[o].filled = exch[o].filled
             PROVE  TablesExact'
  BY DEF Said, Decided, Changed
<1> DEFINE decided == wire # <<>> /\ Head(wire) = o /\ wire' = Tail(wire)
<1>1. /\ Range(inbox') = Range(inbox) \cup {r}
      /\ ToTrack' = ToTrack \cup {r} /\ ToRelease' = ToRelease \cup {r}
      /\ ToApply' = ToApply \cup {r}
      /\ Len(inbox) \in Nat /\ Len(inbox') = Len(inbox) + 1 /\ inbox'[Len(inbox) + 1] = r
      /\ \A i \in 1 .. Len(inbox) : inbox'[i] = inbox[i]
      /\ DOMAIN inbox = 1 .. Len(inbox) /\ DOMAIN inbox' = 1 .. Len(inbox')
      /\ (InHand <=> InHand')
  BY Appended DEF TablesExact
<1>2. decided => /\ o \in Range(wire) /\ exch[o].st = "unknown"
                 /\ Range(wire) = {o} \cup Range(wire') /\ o \notin Range(wire')
                 /\ \A s \in ToApply : s.order # o
                 /\ exch[o].filled = 0
  <2> SUFFICES ASSUME decided
               PROVE  /\ o \in Range(wire) /\ exch[o].st = "unknown"
                      /\ Range(wire) = {o} \cup Range(wire') /\ o \notin Range(wire')
                      /\ \A s \in ToApply : s.order # o
                      /\ exch[o].filled = 0
    OBVIOUS
  <2>1. /\ Range(wire) = {o} \cup Range(wire')
        /\ o \notin Range(wire')
    <3>1. wire \in Seq(Order) /\ wire # <<>> /\ IsInjective(wire)
      BY DEF Orderly, TypeOK, EngineInv, Believes, SentOnce
    <3>2. /\ Range(wire) = {Head(wire)} \cup Range(Tail(wire))
          /\ Head(wire) \notin Range(Tail(wire))
      BY <3>1, RangeTail
    <3> QED BY <3>2
  <2>2. exch[o].st = "unknown"
    BY <2>1 DEF Orderly, EngineInv, Believes, SentOnce, InFlight
  <2>3. \A s \in ToApply : s.order # o
    BY <2>2, ReportKnown
  <2>4. exch[o].filled = 0
    BY <2>2 DEF Orderly, Volumes
  <2> QED BY <2>1, <2>2, <2>3, <2>4
<1>3. ~decided => Open(o) /\ wire' = wire
  OBVIOUS
<1>4. /\ r.status \in Status
      /\ Closed(o)' <=> r.status \in Terminal
      /\ decided <=> r.status \in {"NEW", "REJECTED"}
  <2>1. Closed(o)' <=> r.status \in Terminal
    BY DEF Closed, Terminal
  <2> QED BY <1>2, <2>1 DEF Open, Report
<1> HIDE DEF decided
<1>5. NewFirst'
  <2>1. r.status = "NEW" => \A s \in Range(inbox) : s.order # o
    BY <1>2, <1>4, Places
  <2>2. ASSUME NEW i \in DOMAIN inbox', NEW j \in DOMAIN inbox', i < j, inbox'[j].status = "NEW"
        PROVE  inbox'[i].order # inbox'[j].order
    <3>1. i \in DOMAIN inbox /\ inbox'[i] = inbox[i] /\ inbox[i] \in Range(inbox)
      BY <1>1, <2>2 DEF Range
    <3>2. CASE j \in DOMAIN inbox
      <4>1. inbox'[j] = inbox[j]
        BY <1>1, <3>2
      <4> QED BY <2>2, <3>1, <3>2, <4>1 DEF TablesExact, NewFirst
    <3>3. CASE j \notin DOMAIN inbox
      <4>1. inbox'[j] = r
        BY <1>1, <3>3
      <4> QED BY <2>1, <2>2, <3>1, <4>1
    <3> QED BY <3>2, <3>3
  <2>3. InHand' => \A s \in Range(inbox') : s.status = "NEW" => h'[Listener].report.order # s.order
    <3>1. InHand /\ r.status = "NEW" => h[Listener].report.order # o
      BY <1>2, <1>4, Places
    <3> QED BY <1>1, <3>1 DEF TablesExact, NewFirst
  <2> QED BY <2>2, <2>3 DEF NewFirst
<1>6. EndComes'
  <2> SUFFICES ASSUME NEW s \in ToApply', Closed(s.order)', s.status \notin Terminal
               PROVE  EndIn(Range(inbox), s.order)'
    BY DEF EndComes
  <2>1. CASE s.order = o
    BY <1>1, <1>4, <2>1 DEF EndIn
  <2>2. CASE s.order # o
    <3>1. s \in ToApply /\ s.order \in Order
      BY <1>1, <2>2, ReportKnown
    <3>2. Closed(s.order)
      BY <2>2, <3>1 DEF Closed
    <3> QED BY <1>1, <3>1, <3>2 DEF TablesExact, EndComes, EndIn
  <2> QED BY <2>1, <2>2
<1>7. Whole'
  <2>1. \A x \in Order : exch'[x].st = "filled" => exch'[x].filled = Terms[x].volume
    BY DEF TablesExact, Whole, Open
  <2>2. ASSUME NEW s \in ToApply'
        PROVE  /\ s.status = "FILLED" => s.filled = exch'[s.order].filled
               /\ s.status \in {"NEW", "REJECTED"} => s.filled = 0
               /\ s.status = "REJECTED" => s.mode = "CASH"
    <3>1. CASE s \in ToApply /\ s.order # o
      <4>1. s.order \in Order
        BY <3>1, ReportKnown
      <4> QED BY <3>1, <4>1 DEF TablesExact, Whole
    <3>2. CASE s \in ToApply /\ s.order = o
      <4>1. Open(o) /\ TrueReport(s)
        BY <1>2, <1>3, <3>2, ReportKnown
      <4>2. s.status # "FILLED"
        BY <3>2, <4>1 DEF TrueReport, Open
      <4> QED BY <3>2, <4>2 DEF TablesExact, Whole
    <3>3. CASE s = r
      BY <1>2, <1>4, <3>3
    <3> QED BY <1>1, <3>1, <3>2, <3>3
  <2> QED BY <2>1, <2>2 DEF Whole
<1>8. RecoversRefusals'
  BY DEF TablesExact, RecoversRefusals
<1>9. ASSUME NEW y \in Order, y # o
      PROVE  (CaughtUp(y) /\ LiveExact(y) /\ CidExact(y) /\ TrackerExact(y))'
  <2>1. CaughtUp(y) /\ LiveExact(y) /\ CidExact(y) /\ TrackerExact(y)
    BY DEF TablesExact
  <2>2. y \in Range(wire') <=> y \in Range(wire)
    BY <1>2, <1>3, <1>9
  <2>3. CaughtUp(y)'
    BY <1>1, <1>9, <2>1 DEF CaughtUp
  <2>4. LiveExact(y)'
    BY <1>1, <1>9, <2>1 DEF LiveExact, Accepted, Closed, NewIn, EndIn
  <2>5. CidExact(y)'
    BY <1>1, <1>9, <2>1, <2>2 DEF CidExact
  <2>6. TrackerExact(y)'
    BY <1>1, <1>9, <2>1 DEF TrackerExact, Closed, EndIn
  <2> QED BY <2>3, <2>4, <2>5, <2>6
<1>10. CaughtUp(o)'
  <2>1. CASE decided
    <3>1. applied[o] = 0
      <4>1. applied[o] \in Nat
        BY DEF Orderly, TypeOK, HandlerTypeOK
      <4>2. applied[o] <= exch[o].filled
        BY AppliedIsDone DEF Orderly, AppliedOnce
      <4> QED BY <1>2, <2>1, <4>1, <4>2
    <3> QED BY <1>2, <1>4, <2>1, <3>1 DEF CaughtUp
  <2>2. CASE ~decided /\ r.status # "CANCELLED"
    BY <1>1, <1>3, <1>4, <2>2 DEF CaughtUp, Filling, Open
  <2>3. CASE r.status = "CANCELLED"
    BY <1>1, <1>4, <2>3 DEF CaughtUp, TablesExact
  <2> QED BY <2>1, <2>2, <2>3
<1>11. LiveExact(o)'
  <2>1. LiveExact(o)
    BY DEF TablesExact
  <2>2. CASE decided
    BY <1>1, <1>2, <1>4, <2>1, <2>2 DEF LiveExact, Accepted, NewIn
  <2>3. CASE ~decided
    <3>1. Accepted(o) /\ Accepted(o)' /\ ~Closed(o)
      BY <1>3, <1>4, <2>3 DEF Open, Accepted, Closed
    <3>2. NewIn(ToTrack, o)' <=> NewIn(ToTrack, o)
      BY <1>1, <1>4, <2>3 DEF NewIn
    <3>3. Closed(o)' => EndIn(ToTrack, o)'
      BY <1>1, <1>4 DEF EndIn
    <3> QED BY <2>1, <3>1, <3>2, <3>3 DEF LiveExact
  <2> QED BY <2>2, <2>3
<1>12. CidExact(o)'
  <2>1. CidExact(o)
    BY DEF TablesExact
  <2>2. CASE decided
    BY <1>1, <1>2, <1>4, <2>1, <2>2 DEF CidExact
  <2>3. CASE ~decided
    BY <1>1, <1>3, <1>4, <2>1, <2>3 DEF CidExact
  <2> QED BY <2>2, <2>3
<1>13. TrackerExact(o)'
  BY <1>1, <1>4 DEF TrackerExact, EndIn
<1> QED BY <1>5, <1>6, <1>7, <1>8, <1>9, <1>10, <1>11, <1>12, <1>13 DEF TablesExact

(* The strategy and the dispatcher, the account channel and the connection.   *)
LEMMA TablesOutside ==
  ASSUME Orderly, Orderly', TablesExact,
         \/ \E o \in Order : Emit(o)
         \/ Dispatch \/ Send \/ Reconnect \/ ApplyBalance \/ UNCHANGED vars
         \/ \E c \in Currency : PushBalance(c)
  PROVE  TablesExact'
<1>1. UNCHANGED <<live, tracker, applied, h, inbox, exch>>
  BY DEF Emit, Dispatch, Send, Reconnect, ApplyBalance, PushBalance, vars, handlerVars, exchangeVars,
         channelVars
<1>2. conn' = conn
  BY DEF Emit, Dispatch, Send, Reconnect, ApplyBalance, PushBalance, vars, channelVars, TablesExact
<1>3. ToTrack' = ToTrack /\ ToRelease' = ToRelease /\ ToApply' = ToApply /\ (InHand' <=> InHand)
  BY <1>1 DEF ToTrack, ToRelease, ToApply, UpTo, InHand
<1>4. ASSUME NEW y \in Order PROVE CidExact(y)'
  <2>1. CidExact(y)
    BY DEF TablesExact
  <2>2. CASE Dispatch
    <3>1. /\ hand = None /\ hand' = Head(signals) /\ wire' = wire
          /\ cids' = IF Holds(hand') THEN cids \cup {hand'} ELSE cids
      BY <2>2 DEF Dispatch, channelVars
    <3>2. y # None
      BY NoneAssumption
    <3> QED BY <1>3, <2>1, <3>1, <3>2 DEF CidExact
  <2>3. CASE Send
    <3>1. /\ hand \in Order /\ wire' = Append(wire, hand) /\ hand' = None /\ cids' = cids
      BY <2>3 DEF Send, handlerVars, TablesExact, Channel, Up, Orderly, TypeOK
    <3>2. Range(wire') = Range(wire) \cup {hand}
      BY <3>1, RangeAppend DEF Orderly, TypeOK
    <3> QED BY <1>3, <2>1, <3>1, <3>2, NoneAssumption DEF CidExact
  <2>4. CASE UNCHANGED <<hand, wire, cids>>
    BY <1>3, <2>1, <2>4 DEF CidExact
  <2> QED BY <2>2, <2>3, <2>4 DEF Emit, Reconnect, ApplyBalance, PushBalance, vars, handlerVars,
                                  channelVars
<1>5. ASSUME NEW y \in Order PROVE (CaughtUp(y) /\ LiveExact(y) /\ TrackerExact(y))'
  BY <1>1, <1>3 DEF TablesExact, CaughtUp, LiveExact, TrackerExact, Accepted, Closed, NewIn, EndIn
<1>6. (NewFirst /\ EndComes /\ Whole /\ RecoversRefusals)'
  BY <1>1, <1>3 DEF TablesExact, NewFirst, EndComes, Whole, RecoversRefusals, Closed, EndIn
<1> QED BY <1>2, <1>4, <1>5, <1>6 DEF TablesExact

(* The listener takes the next report.                                        *)
LEMMA Received ==
  ASSUME Orderly, Orderly', Receive
  PROVE  /\ ToTrack' = ToTrack /\ ToRelease' = ToRelease /\ ToApply' = ToApply
         /\ ~InHand /\ InHand' /\ Idle(Listener)
         /\ inbox # <<>> /\ h'[Listener].report = Head(inbox)
         /\ h'[Listener].pc = IF Head(inbox).status = "NEW" THEN "track" ELSE "live?"
         /\ Range(inbox) = {Head(inbox)} \cup Range(inbox')
         /\ Len(inbox) \in Nat /\ Len(inbox') = Len(inbox) - 1
         /\ DOMAIN inbox = 1 .. Len(inbox) /\ DOMAIN inbox' = 1 .. Len(inbox')
         /\ Head(inbox) = inbox[1]
         /\ \A i \in 1 .. Len(inbox') : inbox'[i] = inbox[i + 1]
<1>1. /\ inbox \in Seq(Report) /\ inbox # <<>> /\ inbox' = Tail(inbox) /\ Idle(Listener)
      /\ h' = [h EXCEPT ![Listener] = [pc |-> IF Head(inbox).status = "NEW" THEN "track" ELSE "live?",
                                       report |-> Head(inbox)]]
  BY DEF Receive, Begin, Orderly, TypeOK
<1>2. /\ h'[Listener].report = Head(inbox)
      /\ h'[Listener].pc = IF Head(inbox).status = "NEW" THEN "track" ELSE "live?"
  BY <1>1, ThreadsTyped DEF Orderly, TypeOK, HandlerTypeOK
<1>3. Range(inbox) = {Head(inbox)} \cup Range(inbox')
  BY <1>1, RangeTail
<1>4. /\ Len(inbox) \in Nat /\ Len(inbox') = Len(inbox) - 1 /\ Head(inbox) = inbox[1]
      /\ \A i \in 1 .. Len(inbox') : inbox'[i] = inbox[i + 1]
      /\ DOMAIN inbox = 1 .. Len(inbox) /\ DOMAIN inbox' = 1 .. Len(inbox')
  <2>1. inbox' \in Seq(Report)
    BY DEF Orderly, TypeOK
  <2> QED BY <1>1, <2>1, HeadTailProperties, LenProperties
<1>5. h[Listener].pc = "idle"
  BY <1>1 DEF Idle
<1>6. ~InHand /\ InHand'
  BY <1>2, <1>5 DEF InHand
<1>7. ToTrack' = ToTrack /\ ToRelease' = ToRelease /\ ToApply' = ToApply
  BY <1>2, <1>3, <1>5, <1>6 DEF ToTrack, ToRelease, ToApply, UpTo
<1> QED BY <1>1, <1>2, <1>3, <1>4, <1>6, <1>7

(* So does the listener, taking the next report in its hand. *)
LEMMA TablesReceive ==
  ASSUME Orderly, Orderly', TablesExact, Receive
  PROVE  TablesExact'
<1> DEFINE r == Head(inbox)
<1>1. UNCHANGED <<live, cids, tracker, applied, exch, hand, wire, conn>>
  BY DEF Receive, exchangeVars
<1>2. /\ ToTrack' = ToTrack /\ ToRelease' = ToRelease /\ ToApply' = ToApply
      /\ ~InHand /\ InHand' /\ Idle(Listener)
      /\ inbox # <<>> /\ h'[Listener].report = Head(inbox)
      /\ h'[Listener].pc = IF Head(inbox).status = "NEW" THEN "track" ELSE "live?"
      /\ Range(inbox) = {Head(inbox)} \cup Range(inbox')
      /\ Len(inbox) \in Nat /\ Len(inbox') = Len(inbox) - 1
      /\ DOMAIN inbox = 1 .. Len(inbox) /\ DOMAIN inbox' = 1 .. Len(inbox')
      /\ Head(inbox) = inbox[1]
      /\ \A i \in 1 .. Len(inbox') : inbox'[i] = inbox[i + 1]
  BY Received
<1>3. \A i \in DOMAIN inbox' : i + 1 \in DOMAIN inbox /\ 1 < i + 1 /\ inbox'[i] = inbox[i + 1]
  BY <1>2
<1>4. 1 \in DOMAIN inbox
  BY <1>2, EmptySeq DEF Orderly, TypeOK
<1>5. NewFirst'
  <2>1. \A i, j \in DOMAIN inbox' :
          i < j /\ inbox'[j].status = "NEW" => inbox'[i].order # inbox'[j].order
    <3>1. ASSUME NEW i \in DOMAIN inbox', NEW j \in DOMAIN inbox', i < j PROVE i + 1 < j + 1
      BY <1>2, <3>1
    <3> QED BY <1>3, <3>1 DEF TablesExact, NewFirst
  <2>2. ASSUME NEW s \in Range(inbox'), s.status = "NEW"
        PROVE  h'[Listener].report.order # s.order
    <3>1. PICK i \in DOMAIN inbox' : s = inbox'[i]
      BY DEF Range
    <3> QED BY <1>2, <1>3, <1>4, <2>2, <3>1 DEF TablesExact, NewFirst
  <2> QED BY <2>1, <2>2 DEF NewFirst
<1>6. EndComes'
  <2> SUFFICES ASSUME NEW s \in ToApply, Closed(s.order), s.status \notin Terminal
               PROVE  EndIn(Range(inbox'), s.order)
    BY <1>1, <1>2 DEF EndComes, Closed, EndIn
  <2>1. PICK e \in Range(inbox) : e.order = s.order /\ e.status \in Terminal
    BY DEF TablesExact, EndComes, EndIn
  <2>2. CASE e \in Range(inbox')
    BY <2>1, <2>2 DEF EndIn
  <2>3. CASE e = Head(inbox)
    <3>1. s \in Range(inbox) /\ s # e
      BY <1>2, <2>1 DEF ToApply
    <3>2. s \in Range(inbox')
      BY <1>2, <2>3, <3>1
    <3>3. PICK i \in DOMAIN inbox' : s = inbox'[i]
      BY <3>2 DEF Range
    <3>4. Before(inbox[1], s)
      BY <1>3, <1>4, <3>3 DEF Orderly, AppliedInv, InOrder
    <3> QED BY <1>2, <2>1, <2>3, <3>4 DEF Before
  <2> QED BY <1>2, <2>2, <2>3
<1>7. Whole'
  BY <1>1, <1>2 DEF TablesExact, Whole
<1>8. RecoversRefusals'
  BY <1>1, <1>2 DEF TablesExact, RecoversRefusals, Idle
<1>9. ASSUME NEW y \in Order PROVE (CaughtUp(y) /\ LiveExact(y) /\ CidExact(y) /\ TrackerExact(y))'
  <2>1. CaughtUp(y) /\ LiveExact(y) /\ CidExact(y) /\ TrackerExact(y)
    BY DEF TablesExact
  <2> QED BY <1>1, <1>2, <2>1 DEF CaughtUp, LiveExact, CidExact, TrackerExact, Accepted, Closed,
                                  NewIn, EndIn
<1> QED BY <1>1, <1>5, <1>6, <1>7, <1>8, <1>9 DEF TablesExact

(* A step of HandleOrderUpdate moves nothing outside of it.                   *)
LEMMA InsideFrame ==
  ASSUME Orderly, Handle(Listener)
  PROVE  /\ UNCHANGED <<inbox, exch, hand, wire, conn, emitted, wallet, holding, drops, pushes>>
         /\ ~Idle(Listener)
         /\ \E r \in Report : r = h[Listener].report
<1>1. UNCHANGED <<inbox, exch, hand, wire, conn, emitted, wallet, holding, drops, pushes>>
  BY DEF Handle, exchangeVars, channelVars, accountVars, strategyVars
<1>2. ~Idle(Listener)
  BY DEF Handle, HandlerStep, CheckLive, CheckCid, RecoverBook, RecoverLive, SkipDuplicate, Track,
         Release, Apply, Tell, At, Idle
<1>3. h[Listener].report \in Report
  BY <1>2, ThreadsTyped, ReportOf DEF Orderly, TypeOK
<1> QED BY <1>1, <1>2, <1>3

(* Where a step of it goes. *)
LEMMA Gone ==
  ASSUME Orderly, ~Idle(Listener), NEW pc, GoTo(Listener, pc)
  PROVE  h'[Listener].pc = pc /\ h'[Listener].report = h[Listener].report
<1>1. /\ h[Listener] \in [pc : HandlerPc \ {"idle"}, report : Report]
      /\ h \in [Thread -> HandlerState] /\ Listener \in Thread
  BY ThreadsTyped, ReportOf DEF Orderly, TypeOK, HandlerTypeOK
<1> QED BY <1>1 DEF GoTo

(* The reports to come are as they were, but for the one in hand.             *)
LEMMA SameReports ==
  ASSUME Orderly, TablesExact, UNCHANGED <<inbox, exch>>,
         InHand' => InHand /\ h'[Listener].report = h[Listener].report
  PROVE  NewFirst' /\ EndComes' /\ Whole' /\ ToApply' \subseteq ToApply
<1>1. ToApply' \subseteq ToApply
  BY DEF ToApply
<1>2. NewFirst'
  BY DEF TablesExact, NewFirst
<1>3. EndComes'
  BY <1>1 DEF TablesExact, EndComes, Closed, EndIn
<1>4. Whole'
  BY <1>1 DEF TablesExact, Whole
<1> QED BY <1>1, <1>2, <1>3, <1>4

(* An accepted order whose report is in hand is taken for live.               *)
LEMMA HandIsLive ==
  ASSUME Orderly, TablesExact, InHand, NEW r, r = h[Listener].report,
         r.status \notin {"NEW", "REJECTED"}, r \in ToTrack
  PROVE  r.id \in live
<1>1. /\ ~NewIn(Range(inbox), r.order)
      /\ Closed(r.order) /\ r.status \notin Terminal => EndIn(Range(inbox), r.order)
      /\ Accepted(r.order) /\ r.id = r.order /\ r.order \in Order
  BY HandKnown, ReportKnown DEF TablesExact
<1>2. \A s \in ToTrack : s \in Range(inbox) \/ s = r
  BY Places
<1>3. ~NewIn(ToTrack, r.order)
  BY <1>1, <1>2 DEF NewIn
<1>4. Closed(r.order) => EndIn(ToTrack, r.order)
  BY <1>1, Places DEF EndIn
<1> QED BY <1>1, <1>3, <1>4 DEF TablesExact, LiveExact

(* The steps before the live table is written, and the last.                  *)
LEMMA TablesMove ==
  ASSUME Orderly, Orderly', TablesExact, Handle(Listener),
         \/ CheckLive(Listener) \/ CheckCid(Listener) \/ RecoverBook(Listener)
         \/ RecoverLive(Listener) \/ Tell(Listener)
  PROVE  TablesExact'
<1>1. /\ UNCHANGED <<inbox, exch, hand, wire, conn>>
      /\ ~Idle(Listener)
  BY InsideFrame
<1>2. PICK r \in Report : r = h[Listener].report
  BY InsideFrame
<1>3. UNCHANGED <<cids, tracker, applied>>
  BY DEF CheckLive, CheckCid, RecoverBook, RecoverLive, Tell
<1>4. CASE Tell(Listener)
  <2>1. h[Listener].pc = "tell" /\ h'[Listener].pc = "idle" /\ live' = live
    BY <1>4, ThreadsTyped DEF Tell, At, Return, Orderly, TypeOK, HandlerTypeOK
  <2>2. ToTrack' = ToTrack /\ ToRelease' = ToRelease /\ ToApply' = ToApply /\ ~InHand'
    BY <1>1, <2>1 DEF ToTrack, ToRelease, ToApply, UpTo, InHand
  <2>3. NewFirst' /\ EndComes' /\ Whole'
    BY <1>1, <2>2, SameReports
  <2>4. RecoversRefusals'
    BY <2>1 DEF TablesExact, RecoversRefusals
  <2>5. ASSUME NEW y \in Order PROVE (CaughtUp(y) /\ LiveExact(y) /\ CidExact(y) /\ TrackerExact(y))'
    BY <1>1, <1>3, <2>1, <2>2 DEF TablesExact, CaughtUp, LiveExact, CidExact, TrackerExact,
                                  Accepted, Closed, NewIn, EndIn
  <2> QED BY <1>1, <2>3, <2>4, <2>5 DEF TablesExact
<1>5. CASE ~Tell(Listener)
  <2>1. /\ h[Listener].pc \in {"live?", "cid?", "recover", "relive"}
        /\ h'[Listener].pc \in {"cid?", "recover", "relive", "track"}
        /\ h'[Listener].report = r
    BY <1>1, <1>2, <1>5, Gone DEF CheckLive, CheckCid, RecoverBook, RecoverLive, At
  <2>2. /\ ToTrack' = ToTrack /\ ToRelease' = ToRelease /\ ToApply' = ToApply
        /\ InHand /\ InHand' /\ r \in ToTrack
    BY <1>1, <1>2, <2>1 DEF ToTrack, ToRelease, ToApply, UpTo, InHand
  <2>3. NewFirst' /\ EndComes' /\ Whole'
    BY <1>1, <1>2, <2>1, <2>2, SameReports
  <2>4. RecoversRefusals' /\ live' \subseteq live \cup {NoId} /\ live \subseteq live'
    <3>1. NoId \notin live
      BY <2>1 DEF TablesExact, RecoversRefusals
    <3>2. CASE CheckLive(Listener)
      <4>1. h'[Listener].pc = "cid?" => r.status = "REJECTED"
        <5>1. h'[Listener].pc = IF r.id \in live THEN "track" ELSE "cid?"
          BY <1>1, <1>2, <3>2, Gone DEF CheckLive
        <5>2. r.status # "NEW"
          BY <1>2, <3>2 DEF TablesExact, RecoversRefusals, CheckLive, At
        <5> QED BY <1>2, <2>2, <5>1, <5>2, HandIsLive
      <4>2. live' = live /\ h'[Listener].pc \in {"track", "cid?"}
        BY <1>1, <3>2, Gone DEF CheckLive
      <4> QED BY <2>1, <3>1, <4>1, <4>2 DEF RecoversRefusals
    <3>3. CASE CheckCid(Listener)
      <4>1. h'[Listener].pc = IF r.order \in cids THEN "recover" ELSE "track"
        BY <1>1, <1>2, <3>3, Gone DEF CheckCid
      <4>2. r.status = "REJECTED" /\ (r.order \in cids => Holds(r.order))
        BY <1>2, <3>3 DEF TablesExact, RecoversRefusals, CheckCid, At, CidExact, Report
      <4>3. live' = live
        BY <3>3 DEF CheckCid
      <4> QED BY <2>1, <3>1, <4>1, <4>2, <4>3 DEF RecoversRefusals, Holds, Reserves, IsSpot, Asked
    <3>4. CASE RecoverBook(Listener)
      <4>1. h'[Listener].pc = "relive" /\ live' = live
        BY <1>1, <3>4, Gone DEF RecoverBook
      <4>2. r.status = "REJECTED" /\ Holds(r.order)
        BY <1>2, <3>4 DEF TablesExact, RecoversRefusals, RecoverBook, At
      <4> QED BY <2>1, <3>1, <4>1, <4>2 DEF RecoversRefusals, Holds, Reserves, IsSpot, Asked
    <3>5. CASE RecoverLive(Listener)
      <4>1. h'[Listener].pc = "track" /\ live' = live \cup {r.id}
        BY <1>1, <1>2, <3>5, Gone DEF RecoverLive
      <4>2. r.status = "REJECTED"
        BY <1>2, <3>5 DEF TablesExact, RecoversRefusals, RecoverLive, At
      <4>3. r.id = NoId
        BY <1>2, <2>2, <4>2, HandKnown DEF TablesExact
      <4> QED BY <2>1, <4>1, <4>2, <4>3 DEF RecoversRefusals
    <3> QED BY <1>5, <3>2, <3>3, <3>4, <3>5
  <2>5. ASSUME NEW y \in Order PROVE (CaughtUp(y) /\ LiveExact(y) /\ CidExact(y) /\ TrackerExact(y))'
    <3>1. y \in live' <=> y \in live
      BY <2>4, NoIdAssumption
    <3> QED BY <1>1, <1>3, <2>2, <3>1 DEF TablesExact, CaughtUp, LiveExact, CidExact, TrackerExact,
                                  Accepted, Closed, NewIn, EndIn
  <2> QED BY <1>1, <2>3, <2>4, <2>5 DEF TablesExact
<1> QED BY <1>4, <1>5

(* The table of live orders is written.                                       *)
LEMMA TablesTrack ==
  ASSUME Orderly, Orderly', TablesExact, Handle(Listener), Track(Listener)
  PROVE  TablesExact'
<1>1. /\ UNCHANGED <<inbox, exch, hand, wire, conn>>
      /\ ~Idle(Listener)
  BY InsideFrame
<1>2. PICK r \in Report : r = h[Listener].report
  BY InsideFrame
<1>3. /\ UNCHANGED <<cids, tracker, applied>>
      /\ live' = TrackLive(live, r)
      /\ h[Listener].pc = "track"
      /\ h'[Listener].pc = IF r.status = "PARTIALLY_FILLED" THEN "apply" ELSE "release"
      /\ h'[Listener].report = r
  BY <1>1, <1>2, Gone DEF Track, At
<1>4. InHand /\ InHand'
  BY <1>3 DEF InHand
<1>5. NewFirst' /\ EndComes' /\ Whole'
  BY <1>1, <1>2, <1>3, <1>4, SameReports
<1>6. /\ ToTrack = Range(inbox) \cup {r} /\ ToTrack' = Range(inbox)
      /\ ToRelease = Range(inbox) \cup {r}
      /\ ToRelease' = IF r.status = "PARTIALLY_FILLED" THEN Range(inbox) ELSE ToRelease
      /\ ToApply' = ToApply
  BY <1>1, <1>2, <1>3, <1>4 DEF ToTrack, ToRelease, ToApply, UpTo
<1>7. /\ ~NewIn(Range(inbox), r.order)
      /\ r.status \in Terminal => ~EndIn(Range(inbox), r.order)
      /\ Closed(r.order) /\ r.status \notin Terminal => EndIn(Range(inbox), r.order)
      /\ r.status # "REJECTED" => Accepted(r.order) /\ r.id = r.order
      /\ r.status = "REJECTED" => exch[r.order].st = "refused" /\ r.id = NoId
  BY <1>2, <1>4, HandKnown DEF TablesExact
<1>8. r.order \in Order /\ r.order # NoId /\ r.status \in Status
  BY NoIdAssumption DEF Report
<1>9. r.status \in Terminal => Closed(r.order)
  <2>1. TrueReport(r)
    BY <1>2, <1>4, Places, ReportKnown
  <2> QED BY <2>1 DEF TrueReport, Closed, Terminal
<1>10. NoId \notin live'
  <2>1. NoId \in live => r.status = "REJECTED"
    BY <1>2 DEF TablesExact, RecoversRefusals
  <2> QED BY <1>3, <1>7, <1>8, <2>1 DEF TrackLive, Terminal
<1>11. RecoversRefusals'
  BY <1>3, <1>10 DEF RecoversRefusals
<1>12. ASSUME NEW y \in Order PROVE LiveExact(y)'
  <2>1. LiveExact(y)
    BY DEF TablesExact
  <2>2. CASE y # r.order
    <3>1. y \in live' <=> y \in live
      BY <1>3, <1>7, <2>2, NoIdAssumption DEF TrackLive
    <3> QED BY <1>1, <1>6, <2>1, <2>2, <3>1 DEF LiveExact, Accepted, Closed, NewIn, EndIn
  <2>3. CASE y = r.order /\ r.status = "NEW"
    <3>1. y \in live' /\ Accepted(y) /\ r.status \notin Terminal
      BY <1>3, <1>7, <2>3 DEF TrackLive, Terminal
    <3> QED BY <1>1, <1>6, <1>7, <2>3, <3>1 DEF LiveExact, Accepted, Closed, NewIn, EndIn
  <2>4. CASE y = r.order /\ r.status = "PARTIALLY_FILLED"
    <3>1. live' = live
      BY <1>3, <2>4 DEF TrackLive, Terminal
    <3>2. (NewIn(ToTrack, y) <=> NewIn(Range(inbox), y)) /\ (EndIn(ToTrack, y) <=> EndIn(Range(inbox), y))
      BY <1>6, <2>4 DEF NewIn, EndIn, Terminal
    <3> QED BY <1>1, <1>6, <2>1, <3>1, <3>2 DEF LiveExact, Accepted, Closed, NewIn, EndIn
  <2>5. CASE y = r.order /\ r.status \in Terminal
    <3>1. y \notin live'
      <4>1. CASE r.status = "REJECTED"
        BY <1>3, <1>7, <2>1, <2>5, <4>1 DEF TrackLive, Terminal, LiveExact, Accepted
      <4>2. CASE r.status # "REJECTED"
        BY <1>3, <1>7, <2>5, <4>2 DEF TrackLive, Terminal
      <4> QED BY <4>1, <4>2
    <3>2. Closed(y) /\ ~EndIn(Range(inbox), y)
      BY <1>7, <1>9, <2>5
    <3> QED BY <1>1, <1>6, <3>1, <3>2 DEF LiveExact, Closed, EndIn
  <2> QED BY <1>8, <2>2, <2>3, <2>4, <2>5 DEF Status
<1>13. ASSUME NEW y \in Order PROVE (CaughtUp(y) /\ CidExact(y) /\ TrackerExact(y))'
  <2>1. CidExact(y) /\ CaughtUp(y) /\ TrackerExact(y)
    BY DEF TablesExact
  <2> QED BY <1>1, <1>3, <1>6, <2>1 DEF CaughtUp, CidExact, TrackerExact, Closed, EndIn
<1> QED BY <1>1, <1>5, <1>11, <1>12, <1>13 DEF TablesExact

(* The reservation is forgotten.                                              *)
LEMMA TablesRelease ==
  ASSUME Orderly, Orderly', TablesExact, Handle(Listener), Release(Listener)
  PROVE  TablesExact'
<1>1. /\ UNCHANGED <<inbox, exch, hand, wire, conn>>
      /\ ~Idle(Listener)
  BY InsideFrame
<1>2. PICK r \in Report : r = h[Listener].report
  BY InsideFrame
<1>3. /\ UNCHANGED <<live, tracker, applied>>
      /\ cids' = cids \ {r.order}
      /\ h[Listener].pc = "release" /\ h'[Listener].pc = "apply" /\ h'[Listener].report = r
  BY <1>1, <1>2, Gone DEF Release, At
<1>4. InHand /\ InHand'
  BY <1>3 DEF InHand
<1>5. NewFirst' /\ EndComes' /\ Whole'
  BY <1>1, <1>2, <1>3, <1>4, SameReports
<1>6. /\ ToTrack' = ToTrack /\ ToApply' = ToApply
      /\ ToRelease = Range(inbox) \cup {r} /\ ToRelease' = Range(inbox)
  BY <1>1, <1>2, <1>3, <1>4 DEF ToTrack, ToRelease, ToApply, UpTo
<1>7. r \in ToApply /\ r.order \in Order /\ exch[r.order].st # "unknown" /\ r.status \in Status
  BY <1>2, <1>4, Places, ReportKnown
<1>8. hand # r.order /\ r.order \notin Range(wire)
  BY <1>7 DEF Orderly, EngineInv, Believes, SentOnce, InFlight
<1>9. ~ \E s \in Range(inbox) : s.order = r.order /\ s.status \in {"NEW", "REJECTED"}
  <2>1. SUFFICES ASSUME NEW s \in Range(inbox), s.order = r.order, s.status \in {"NEW", "REJECTED"}
                 PROVE  FALSE
    OBVIOUS
  <2>2. s.status = "REJECTED" /\ r.status \notin Terminal
    BY <1>2, <1>4, <2>1, HandKnown DEF TablesExact, NewIn, EndIn, Terminal
  <2>3. exch[r.order].st = "refused"
    <3>1. TrueReport(s)
      BY Places, ReportKnown
    <3> QED BY <2>1, <2>2, <3>1 DEF TrueReport
  <2>4. Accepted(r.order)
    BY <1>2, <1>4, <2>2, HandKnown DEF TablesExact, Terminal
  <2> QED BY <2>3, <2>4 DEF Accepted
<1>10. RecoversRefusals'
  BY <1>3 DEF TablesExact, RecoversRefusals
<1>11. ASSUME NEW y \in Order PROVE (CaughtUp(y) /\ LiveExact(y) /\ CidExact(y) /\ TrackerExact(y))'
  <2>1. CaughtUp(y) /\ LiveExact(y) /\ CidExact(y) /\ TrackerExact(y)
    BY DEF TablesExact
  <2>2. CidExact(y)'
    <3>1. CASE y = r.order
      BY <1>1, <1>3, <1>6, <1>8, <1>9, <3>1 DEF CidExact
    <3>2. CASE y # r.order
      BY <1>1, <1>3, <1>6, <2>1, <3>2 DEF CidExact
    <3> QED BY <3>1, <3>2
  <2> QED BY <1>1, <1>3, <1>6, <2>1, <2>2 DEF CaughtUp, LiveExact, TrackerExact, Accepted, Closed,
                                              NewIn, EndIn
<1> QED BY <1>1, <1>5, <1>10, <1>11 DEF TablesExact

(* The report is applied to the books and the tracker.                        *)
LEMMA TablesApply ==
  ASSUME Orderly, Orderly', TablesExact, Handle(Listener), Apply(Listener)
  PROVE  TablesExact'
<1>1. /\ UNCHANGED <<inbox, exch, hand, wire, conn>>
      /\ ~Idle(Listener)
  BY InsideFrame
<1>2. PICK r \in Report : r = h[Listener].report
  BY InsideFrame
<1>3. PICK o \in Order : o = r.order
  BY DEF Report
<1>4. /\ UNCHANGED <<live, cids>>
      /\ tracker' = TrackFill(r)
      /\ applied' = [applied EXCEPT ![o] =
                       IF r.status \in Filling THEN @ + AtLeast0(Increment(r)) ELSE @]
      /\ h[Listener].pc = "apply" /\ h'[Listener].pc = "tell"
  BY <1>1, <1>2, <1>3, Gone DEF Apply, At
<1>5. InHand /\ ~InHand'
  BY <1>4 DEF InHand
<1>6. NewFirst' /\ EndComes' /\ Whole'
  BY <1>1, <1>5, SameReports
<1>7. /\ ToTrack' = ToTrack /\ ToRelease' = ToRelease
      /\ ToApply = Range(inbox) \cup {r} /\ ToApply' = Range(inbox)
  BY <1>1, <1>2, <1>4, <1>5 DEF ToTrack, ToRelease, ToApply, UpTo
<1>8. /\ r \in ToApply /\ TrueReport(r) /\ r.status \in Status
      /\ r.filled \in Nat /\ applied[o] \in Nat /\ tracker[o] \in Nat /\ exch[o].filled \in Nat
      /\ applied \in [Order -> Nat] /\ tracker \in [Order -> Nat]
  <2>1. r \in ToApply
    BY <1>7
  <2>2. TrueReport(r) /\ r.status \in Status /\ r.filled \in Nat
    BY <2>1, ReportKnown
  <2> QED BY <2>1, <2>2 DEF Orderly, TypeOK, HandlerTypeOK
<1>9. applied[o] = tracker[o] /\ applied[o] <= r.filled /\ r.filled <= exch[o].filled
  <2>1. Following(o)
    BY <1>3, <1>8 DEF Orderly, AppliedInv, Ended
  <2> QED BY <1>3, <1>8, <2>1 DEF Following, TrueReport
<1>10. /\ r.status \in Filling => applied'[o] = r.filled
       /\ r.status \notin Filling => applied'[o] = applied[o]
  BY <1>3, <1>4, <1>8, <1>9 DEF Increment, AtLeast0
<1>11. \A y \in Order : y # o => applied'[y] = applied[y] /\ tracker'[y] = tracker[y]
  BY <1>3, <1>4, <1>8 DEF TrackFill
<1>12. RecoversRefusals'
  BY <1>4 DEF TablesExact, RecoversRefusals
<1>13. ASSUME NEW y \in Order, y # o PROVE (CaughtUp(y) /\ TrackerExact(y))'
  <2>1. CaughtUp(y) /\ TrackerExact(y)
    BY DEF TablesExact
  <2> QED BY <1>1, <1>3, <1>7, <1>11, <1>13, <2>1 DEF CaughtUp, TrackerExact, Closed, EndIn
<1>14. CaughtUp(o)'
  <2>1. CaughtUp(o)
    BY DEF TablesExact
  <2>2. CASE applied[o] = exch[o].filled
    <3>1. applied'[o] = exch[o].filled
      BY <1>8, <1>9, <1>10, <2>2
    <3> QED BY <1>1, <3>1 DEF CaughtUp
  <2>3. ASSUME NEW s \in ToApply, s.order = o, s.status \in Filling, s.filled = exch[o].filled
        PROVE  CaughtUp(o)'
    <3>1. CASE s = r
      BY <1>1, <1>10, <2>3, <3>1 DEF CaughtUp
    <3>2. CASE s \in Range(inbox)
      BY <1>1, <1>7, <2>3, <3>2 DEF CaughtUp
    <3> QED BY <1>7, <3>1, <3>2
  <2> QED BY <2>1, <2>2, <2>3 DEF CaughtUp
<1>15. TrackerExact(o)'
  <2> SUFFICES ASSUME Closed(o), ~EndIn(Range(inbox), o) PROVE tracker'[o] = 0
    BY <1>1, <1>7 DEF TrackerExact, Closed, EndIn
  <2>1. r.status \in Terminal
    BY <1>3, <1>8 DEF TablesExact, EndComes
  <2>2. CASE r.status \in {"FILLED", "CANCELLED"}
    BY <1>3, <1>4, <1>8, <2>2 DEF TrackFill
  <2>3. CASE r.status = "REJECTED"
    <3>1. tracker'[o] = tracker[o]
      BY <1>4, <2>3 DEF TrackFill
    <3>2. exch[o].filled = 0
      BY <1>3, <1>8, <2>3 DEF TrueReport, Orderly, Volumes
    <3> QED BY <1>8, <1>9, <3>1, <3>2
  <2> QED BY <2>1, <2>2, <2>3 DEF Terminal
<1>16. ASSUME NEW y \in Order PROVE (LiveExact(y) /\ CidExact(y))'
  BY <1>1, <1>4, <1>7 DEF TablesExact, LiveExact, CidExact, Accepted, Closed, NewIn, EndIn
<1> QED BY <1>1, <1>6, <1>12, <1>13, <1>14, <1>15, <1>16 DEF TablesExact

(* No cancellation is taken for one already applied. *)
LEMMA NeverSkipped ==
  ASSUME Orderly, TablesExact, Handle(Listener)
  PROVE  ~SkipDuplicate(Listener)
<1> SUFFICES ASSUME SkipDuplicate(Listener) PROVE FALSE
  OBVIOUS
<1>1. PICK r \in Report : r = h[Listener].report
  BY InsideFrame
<1>2. r.status = "CANCELLED" /\ r.id \notin live /\ h[Listener].pc = "track"
  BY <1>1 DEF SkipDuplicate, Duplicate, At
<1>3. InHand /\ r \in ToTrack
  BY <1>1, <1>2 DEF InHand, ToTrack, UpTo
<1> QED BY <1>1, <1>2, <1>3, HandIsLive

(* And every step of HandleOrderUpdate. *)
LEMMA TablesHandle ==
  ASSUME Orderly, Orderly', TablesExact, Handle(Listener)
  PROVE  TablesExact'
<1>1. ~SkipDuplicate(Listener)
  BY NeverSkipped
<1>2. \/ \/ CheckLive(Listener) \/ CheckCid(Listener) \/ RecoverBook(Listener)
         \/ RecoverLive(Listener) \/ Tell(Listener)
      \/ Track(Listener) \/ Release(Listener) \/ Apply(Listener)
  BY <1>1 DEF Handle, HandlerStep
<1> QED BY <1>2, TablesMove, TablesTrack, TablesRelease, TablesApply

(* While nothing is lost every step keeps the tables.                         *)
LEMMA TablesStep ==
  ASSUME Orderly, Orderly', TablesExact, drops' = 0, [ChannelNext]_vars
  PROVE  TablesExact' /\ drops = 0
<1>1. ~Drop
  BY DEF Drop, Orderly, TypeOK
<1>2. drops = 0
  BY <1>1 DEF ChannelNext, ExchangeStep, ListenerStep, Emit, Dispatch, Send, Accept, Refuse, PushBalance,
              Trade, Cancel, Reconnect, Receive, ApplyBalance, Handle, vars, channelVars
<1>3. ASSUME Handle(Listener) PROVE TablesExact'
  BY <1>3, TablesHandle
<1>4. ASSUME Receive PROVE TablesExact'
  BY <1>4, TablesReceive
<1>5. ASSUME \/ Accept \/ Refuse
             \/ \E o \in Order : (\E n \in 1 .. Terms[o].volume, d \in Offered(o) : Trade(o, n, d)) \/ Cancel(o)
      PROVE  TablesExact'
  BY <1>5, ExchangeSays, TablesReported
<1>8. ASSUME \/ \E o \in Order : Emit(o)
             \/ Dispatch \/ Send \/ Reconnect \/ ApplyBalance \/ UNCHANGED vars
             \/ \E c \in Currency : PushBalance(c)
      PROVE  TablesExact'
  BY <1>8, TablesOutside
<1>9. TablesExact'
  BY <1>1, <1>3, <1>4, <1>5, <1>8 DEF ChannelNext, ExchangeStep, ListenerStep
<1> QED BY <1>2, <1>9

-----------------------------------------------------------------------------
(* What an order keeps frozen of a currency and what it has made of it.       *)

(* The amounts are natural numbers and add up. *)
LEMMA KeptTyped ==
  ASSUME NEW o \in Order, NEW c
  PROVE  /\ \A n \in Nat : Kept(o, c, n) \in Nat
         /\ \A m, n \in Nat : Kept(o, c, m + n) = Kept(o, c, m) + Kept(o, c, n)
         /\ Kept(o, c, 0) = 0
         /\ Locking(o, c) => Kept(o, c, Terms[o].volume) = Asked(o) /\ c \in Currency
<1>1. CASE ~Locking(o, c)
  BY <1>1 DEF Kept
<1>2. CASE Locking(o, c)
  <2>1. Terms[o] \in SpotTerms(Currency) /\ c \in Currency
    BY <1>2, AskedTyped DEF Locking
  <2>2. Terms[o].price \in Nat
    BY <2>1, TermsTypes
  <2> DEFINE p == Terms[o].price
  <2>3. /\ \A n \in Nat : p * n \in Nat
        /\ \A m, n \in Nat : p * (m + n) = p * m + p * n
        /\ p * 0 = 0
    <3>1. p \in Nat
      BY <2>2
    <3> HIDE DEF p
    <3>2. \A n \in Nat : p * n \in Nat
      BY <3>1, ProductNat
    <3> QED BY <3>1, <3>2
  <2> QED BY <1>2, <2>1, <2>3 DEF Kept, Worth, Asked, Amount
<1> QED BY <1>1, <1>2

(* What an order has gained is an amount. *)
LEMMA GainTyped ==
  ASSUME NEW p \in Prices, NEW o \in Order, NEW c
  PROVE  /\ \A n \in Nat : Gain(p, o, c, n) \in Nat
         /\ Gain(p, o, c, 0) = 0
<1>1. CASE ~(IsSpot(o) /\ EarnedCurrency(Terms[o]) = c)
  BY <1>1 DEF Gain
<1>2. CASE IsSpot(o) /\ EarnedCurrency(Terms[o]) = c
  <2>1. p[o] \in Nat
    BY DEF Prices
  <2>2. /\ \A n \in Nat : Earned(Terms[o], p[o], n) \in Nat
        /\ Earned(Terms[o], p[o], 0) = 0
    BY <1>2, <2>1, EarnedTyped
  <2> QED BY <1>2, <2>2 DEF Gain
<1> QED BY <1>1, <1>2

(* It is gained part by part. *)
LEMMA GainAdds ==
  ASSUME NEW p \in Prices, NEW o \in Order, NEW c, NEW m \in Nat, NEW n \in Nat
  PROVE  Gain(p, o, c, m + n) = Gain(p, o, c, m) + Gain(p, o, c, n)
<1>1. CASE ~(IsSpot(o) /\ EarnedCurrency(Terms[o]) = c)
  BY <1>1 DEF Gain
<1>2. CASE IsSpot(o) /\ EarnedCurrency(Terms[o]) = c
  <2>1. p[o] \in Nat
    BY DEF Prices
  <2>2. \A i, j \in Int : Earned(Terms[o], p[o], i + j) = Earned(Terms[o], p[o], i) + Earned(Terms[o], p[o], j)
    BY <1>2, <2>1, EarnedTyped
  <2>3. Earned(Terms[o], p[o], m + n) = Earned(Terms[o], p[o], m) + Earned(Terms[o], p[o], n)
    BY <2>2
  <2> QED BY <1>2, <2>3 DEF Gain
<1> QED BY <1>1, <1>2

(* What an order has made, and what it keeps frozen, are amounts. *)
LEMMA MadeTyped ==
  ASSUME NEW p \in Prices, NEW o \in Order, NEW c, NEW n \in Nat, NEW left \in Nat
  PROVE  /\ Made(p, o, c, n, left) \in Int /\ Kept(o, c, left) \in Nat
         /\ Made(p, o, c, 0, 0) = 0 /\ Kept(o, c, 0) = 0
<1>1. /\ Gain(p, o, c, n) \in Nat /\ Kept(o, c, n) \in Nat /\ Kept(o, c, left) \in Nat
      /\ Kept(o, c, 0) = 0 /\ Gain(p, o, c, 0) = 0
  BY KeptTyped, GainTyped
<1> QED BY <1>1 DEF Made

(* When what is left of an order is frozen, or is given back. *)
LEMMA MadeByFreezing ==
  ASSUME NEW p \in Prices, NEW o \in Order, NEW c, NEW n \in Nat, NEW left \in Nat
  PROVE  /\ Made(p, o, c, n, left) = Made(p, o, c, n, 0) + -Kept(o, c, left)
         /\ Made(p, o, c, n, 0) = Made(p, o, c, n, left) + Kept(o, c, left)
         /\ Kept(o, c, left) = Kept(o, c, 0) + Kept(o, c, left)
         /\ Kept(o, c, 0) = Kept(o, c, left) + -Kept(o, c, left)
         /\ Kept(o, c, left) \in Int /\ -Kept(o, c, left) \in Int
<1>1. /\ Gain(p, o, c, n) \in Nat /\ Kept(o, c, n) \in Nat /\ Kept(o, c, left) \in Nat
      /\ Kept(o, c, 0) = 0
  BY KeptTyped, GainTyped
<1> QED BY <1>1 DEF Made

(* When n more of what is left of it is filled. *)
LEMMA MadeByFill ==
  ASSUME NEW p \in Prices, NEW o \in Order, NEW c, NEW m \in Nat, NEW n \in Nat, NEW left \in Nat
  PROVE  /\ Made(p, o, c, m + n, left) = Made(p, o, c, m, left + n) + Gain(p, o, c, n)
         /\ Kept(o, c, left) = Kept(o, c, left + n) + -Kept(o, c, n)
<1> PICK sum, rest : sum = m + n /\ rest = left + n
  OBVIOUS
<1> SUFFICES /\ Made(p, o, c, sum, left) = Made(p, o, c, m, rest) + Gain(p, o, c, n)
             /\ Kept(o, c, left) = Kept(o, c, rest) + -Kept(o, c, n)
  OBVIOUS
<1>1. /\ Kept(o, c, sum) = Kept(o, c, m) + Kept(o, c, n)
      /\ Kept(o, c, rest) = Kept(o, c, left) + Kept(o, c, n)
      /\ Gain(p, o, c, sum) = Gain(p, o, c, m) + Gain(p, o, c, n)
  <2>1. /\ Kept(o, c, m + n) = Kept(o, c, m) + Kept(o, c, n)
        /\ Kept(o, c, left + n) = Kept(o, c, left) + Kept(o, c, n)
    <3>1. \A i, j \in Nat : Kept(o, c, i + j) = Kept(o, c, i) + Kept(o, c, j)
      BY KeptTyped
    <3> QED BY <3>1
  <2>2. Gain(p, o, c, m + n) = Gain(p, o, c, m) + Gain(p, o, c, n)
    BY GainAdds
  <2> QED BY <2>1, <2>2
<1>2. /\ Kept(o, c, m) \in Nat /\ Kept(o, c, n) \in Nat /\ Kept(o, c, left) \in Nat
      /\ Gain(p, o, c, m) \in Nat /\ Gain(p, o, c, n) \in Nat
  BY KeptTyped, GainTyped
<1> QED BY <1>1, <1>2 DEF Made

(* A sum in which one term moves. *)
LEMMA SumMoves ==
  ASSUME NEW S, IsFiniteSet(S), NEW f, NEW g, NEW x \in S, NEW d \in Int,
         \A y \in S : f[y] \in Int,
         \A y \in S : y # x => g[y] = f[y],
         g[x] = f[x] + d
  PROVE  /\ SumFunctionOnSet(g, S) = SumFunctionOnSet(f, S) + d
         /\ SumFunctionOnSet(f, S) \in Int
<1>1. \A y \in S : f[y] \in Int /\ g[y] \in Int
  <2>1. f[x] \in Int /\ g[x] \in Int
    OBVIOUS
  <2> QED BY <2>1
<1>2. \A y \in S : y # x => f[y] = g[y]
  OBVIOUS
<1>3. SumFunctionOnSet(g, S) = SumFunctionOnSet(f, S) + (g[x] - f[x])
  BY <1>1, <1>2, SumChange
<1>4. g[x] - f[x] = d
  BY <1>1
<1> QED BY <1>3, <1>4, SumTerm

(* A sum to which a term is added. *)
LEMMA SumGrows ==
  ASSUME NEW S, IsFiniteSet(S), NEW x, x \notin S, NEW T, T = S \cup {x}, NEW f, NEW g,
         \A y \in T : g[y] \in Int,
         \A y \in S : f[y] = g[y]
  PROVE  SumFunctionOnSet(g, T) = SumFunctionOnSet(f, S) + g[x]
<1>1. \A y \in S \cup {x} : g[y] \in Int
  OBVIOUS
<1> QED BY <1>1, SumMore

-----------------------------------------------------------------------------
(* The account at the exchange is what the orders made it (WalletExact).      *)

RestingTyped == \A o \in Order : exch[o].filled \in Nat /\ Resting(o) \in Nat

(* No more than the volume is filled, so what rests is a number. *)
LEMMA RestingNatural == Orderly => RestingTyped
<1> SUFFICES ASSUME Orderly, NEW o \in Order PROVE exch[o].filled \in Nat /\ Resting(o) \in Nat
  BY DEF RestingTyped
<1>1. exch[o].filled \in Nat /\ exch[o].filled <= Terms[o].volume /\ Terms[o].volume \in Nat
  BY TermsSplit DEF Orderly, TypeOK, Volumes
<1> QED BY <1>1 DEF Resting

(* The same of the state a step leads to. *)
LEMMA RestingNaturalNext == Orderly' => RestingTyped'
BY RestingNatural, PTL

(* One order makes what the account gains, or none does.                      *)
LEMMA WalletMoves ==
  ASSUME NEW p \in Prices, Orderly, Orderly',
         IsFiniteSet(emitted), emitted' = emitted, NEW x \in emitted,
         \A y \in Order : y # x => exch'[y] = exch[y],
         NEW c \in Currency, WalletExact(p, c), NEW a \in Int, NEW b \in Int,
         Made(p, x, c, exch'[x].filled, Resting(x)') = Made(p, x, c, exch[x].filled, Resting(x)) + a,
         Kept(x, c, Resting(x)') = Kept(x, c, Resting(x)) + b,
         wallet'[c].available = wallet[c].available + a,
         wallet'[c].frozen = wallet[c].frozen + b
  PROVE  WalletExact(p, c)'
<1>0. emitted \subseteq Order /\ Deposit[c] \in Int
  BY DepositAssumption DEF Orderly, TypeOK
<1>1. PICK f : f = [o \in emitted |-> Made(p, o, c, exch[o].filled, Resting(o))]
  OBVIOUS
<1>2. PICK g : g = [o \in emitted |-> Made(p, o, c, exch'[o].filled, Resting(o)')]
  OBVIOUS
<1>3. PICK k : k = [o \in emitted |-> Kept(o, c, Resting(o))]
  OBVIOUS
<1>4. PICK l : l = [o \in emitted |-> Kept(o, c, Resting(o)')]
  OBVIOUS
<1>5. RestingTyped /\ RestingTyped'
  BY RestingNatural, RestingNaturalNext
<1>6. /\ \A y \in emitted : f[y] \in Int
      /\ \A y \in emitted : k[y] \in Int
  <2> SUFFICES ASSUME NEW y \in emitted PROVE f[y] \in Int /\ k[y] \in Int
    OBVIOUS
  <2>1. y \in Order /\ exch[y].filled \in Nat /\ Resting(y) \in Nat
    BY <1>0, <1>5 DEF RestingTyped
  <2>2. Made(p, y, c, exch[y].filled, Resting(y)) \in Int /\ Kept(y, c, Resting(y)) \in Nat
    BY <2>1, MadeTyped
  <2> QED BY <1>1, <1>3, <2>2
<1>7. \A y \in emitted : y # x => g[y] = f[y]
  BY <1>0, <1>1, <1>2 DEF Resting, Open
<1>7a. \A y \in emitted : y # x => l[y] = k[y]
  BY <1>0, <1>3, <1>4 DEF Resting, Open
<1>8. g[x] = f[x] + a
  BY <1>1, <1>2
<1>8a. l[x] = k[x] + b
  BY <1>3, <1>4
<1>9. /\ SumFunctionOnSet(g, emitted) = SumFunctionOnSet(f, emitted) + a
      /\ SumFunctionOnSet(f, emitted) \in Int
  <2>1. \A y \in emitted : f[y] \in Int
    BY <1>6
  <2> QED BY <1>7, <1>8, <2>1, SumMoves, Zenon
<1>10. /\ SumFunctionOnSet(l, emitted) = SumFunctionOnSet(k, emitted) + b
       /\ SumFunctionOnSet(k, emitted) \in Int
  <2>1. \A y \in emitted : k[y] \in Int
    BY <1>6
  <2> QED BY <1>7a, <1>8a, <2>1, SumMoves, Zenon
<1>11. /\ wallet[c].available = Deposit[c] + SumFunctionOnSet(f, emitted)
       /\ wallet[c].frozen = SumFunctionOnSet(k, emitted)
  BY <1>1, <1>3 DEF WalletExact, InAll
<1>14. /\ wallet'[c].available = Deposit[c] + SumFunctionOnSet(g, emitted)
       /\ wallet'[c].frozen = SumFunctionOnSet(l, emitted)
  BY <1>0, <1>9, <1>10, <1>11
<1> QED BY <1>2, <1>4, <1>14 DEF WalletExact, InAll

(* A new order has made nothing yet. *)
LEMMA WalletEmit ==
  ASSUME NEW p \in Prices, Orderly, Orderly',
         IsFiniteSet(emitted), NEW x \in Order, Emit(x), NEW c \in Currency,
         WalletExact(p, c)
  PROVE  WalletExact(p, c)'
<1>0. emitted \subseteq Order /\ Deposit[c] \in Int
  BY DepositAssumption DEF Orderly, TypeOK
<1>1. x \notin emitted /\ emitted' = emitted \cup {x} /\ wallet' = wallet /\ exch' = exch
  BY DEF Emit, exchangeVars
<1>1a. PICK T : T = emitted \cup {x}
  OBVIOUS
<1>2. Resting(x) = 0 /\ exch[x].filled = 0
  BY <1>1 DEF Resting, Open, Orderly, EngineInv, Believes, SentOnce, Volumes
<1>3. PICK f : f = [o \in emitted |-> Made(p, o, c, exch[o].filled, Resting(o))]
  OBVIOUS
<1>4. PICK g : g = [o \in T |-> Made(p, o, c, exch[o].filled, Resting(o))]
  OBVIOUS
<1>5. PICK k : k = [o \in emitted |-> Kept(o, c, Resting(o))]
  OBVIOUS
<1>6. PICK l : l = [o \in T |-> Kept(o, c, Resting(o))]
  OBVIOUS
<1>7. /\ \A y \in emitted : f[y] \in Int
      /\ \A y \in emitted : k[y] \in Int
  <2> SUFFICES ASSUME NEW y \in emitted PROVE f[y] \in Int /\ k[y] \in Int
    OBVIOUS
  <2>1. y \in Order /\ exch[y].filled \in Nat /\ Resting(y) \in Nat
    BY <1>0, RestingNatural DEF RestingTyped
  <2>2. Made(p, y, c, exch[y].filled, Resting(y)) \in Int /\ Kept(y, c, Resting(y)) \in Nat
    BY <2>1, MadeTyped
  <2> QED BY <1>3, <1>5, <2>2
<1>8. \A y \in emitted : g[y] = f[y]
  BY <1>1a, <1>3, <1>4
<1>8a. \A y \in emitted : l[y] = k[y]
  BY <1>1a, <1>5, <1>6
<1>9. g[x] = 0 /\ l[x] = 0
  <2>1. Made(p, x, c, 0, 0) = 0 /\ Kept(x, c, 0) = 0
    BY MadeTyped
  <2> QED BY <1>1a, <1>2, <1>4, <1>6, <2>1
<1>10. SumFunctionOnSet(g, T) = SumFunctionOnSet(f, emitted) + g[x]
  <2>1. \A y \in T : g[y] \in Int
    BY <1>1a, <1>7, <1>8, <1>9
  <2>2. \A y \in emitted : f[y] = g[y]
    BY <1>8
  <2>3. x \notin emitted
    BY <1>1
  <2> QED BY <1>1a, <2>1, <2>2, <2>3, SumGrows
<1>11. SumFunctionOnSet(l, T) = SumFunctionOnSet(k, emitted) + l[x]
  <2>1. \A y \in T : l[y] \in Int
    BY <1>1a, <1>7, <1>8a, <1>9
  <2>2. \A y \in emitted : k[y] = l[y]
    BY <1>8a
  <2>3. x \notin emitted
    BY <1>1
  <2> QED BY <1>1a, <2>1, <2>2, <2>3, SumGrows
<1>12. SumFunctionOnSet(f, emitted) \in Int /\ SumFunctionOnSet(k, emitted) \in Int
  BY <1>7, SumTerm
<1>13. /\ wallet[c].available = Deposit[c] + SumFunctionOnSet(f, emitted)
       /\ wallet[c].frozen = SumFunctionOnSet(k, emitted)
  BY <1>3, <1>5 DEF WalletExact, InAll
<1>14. /\ wallet'[c].available = Deposit[c] + SumFunctionOnSet(g, T)
       /\ wallet'[c].frozen = SumFunctionOnSet(l, T)
  BY <1>0, <1>1, <1>9, <1>10, <1>11, <1>12, <1>13
<1> QED BY <1>1, <1>1a, <1>4, <1>6, <1>14 DEF WalletExact, InAll, Resting, Open

(* Freezing or giving back an amount for an order. *)
LEMMA FreezeMoves ==
  ASSUME Orderly, NEW o \in Order, NEW amount, Reserves(o) => amount \in Int,
         IF Reserves(o) THEN Freeze(LockedCurrency(Terms[o]), amount) ELSE UNCHANGED wallet,
         NEW c \in Currency
  PROVE  /\ wallet'[c].available = wallet[c].available + (IF Locking(o, c) THEN -amount ELSE 0)
         /\ wallet'[c].frozen = wallet[c].frozen + (IF Locking(o, c) THEN amount ELSE 0)
<1>1. wallet \in [Currency -> [available : Int, frozen : Int]]
  BY DEF Orderly, TypeOK
<1>2. CASE Reserves(o)
  BY <1>1, <1>2, AskedTyped DEF Freeze, Locking
<1>3. CASE ~Reserves(o)
  BY <1>1, <1>3 DEF Locking
<1> QED BY <1>2, <1>3

(* Accept freezes what the order keeps, Refuse nothing. *)
LEMMA WalletDecide ==
  ASSUME NEW p \in Prices, Orderly, Orderly',
         IsFiniteSet(emitted), Accept \/ Refuse, NEW c \in Currency,
         WalletExact(p, c)
  PROVE  WalletExact(p, c)'
<1>1. PICK x \in Order : wire # <<>> /\ Head(wire) = x
  BY QueueTyped DEF Accept, Refuse, Orderly, TypeOK
<1>2. exch \in [Order -> [st : ExchState, filled : Nat, value : Nat, fee : Int, deals : SUBSET Deal]] /\ emitted' = emitted
  BY DEF Accept, Refuse, strategyVars, Orderly, TypeOK
<1>3. exch[x].st = "unknown" /\ exch[x].filled = 0 /\ x \in emitted
  <2>1. Range(wire) = {Head(wire)} \cup Range(Tail(wire))
    BY <1>1, RangeTail DEF Orderly, TypeOK
  <2> QED BY <1>1, <2>1 DEF Orderly, EngineInv, Believes, SentOnce, InFlight, Volumes
<1>4. Resting(x) = 0
  BY <1>3 DEF Resting, Open
<1>5. CASE Refuse
  <2>1. wallet' = wallet /\ exch' = [exch EXCEPT ![x].st = "refused"]
    BY <1>1, <1>5 DEF Refuse
  <2>2. exch'[x].st = "refused" /\ exch'[x].filled = 0 /\ \A y \in Order : y # x => exch'[y] = exch[y]
    BY <1>2, <1>3, <2>1
  <2>3. Resting(x)' = 0
    BY <2>2 DEF Resting, Open
  <2>4. wallet[c].available \in Int /\ wallet[c].frozen \in Int
    BY DEF Orderly, TypeOK
  <2>5. /\ wallet'[c].available = wallet[c].available + 0 /\ wallet'[c].frozen = wallet[c].frozen + 0
        /\ 0 \in Int /\ 0 \in Nat
    BY <2>1, <2>4
  <2>6. /\ Made(p, x, c, exch'[x].filled, Resting(x)') = Made(p, x, c, exch[x].filled, Resting(x)) + 0
        /\ Kept(x, c, Resting(x)') = Kept(x, c, Resting(x)) + 0
    <3>1. Made(p, x, c, 0, 0) = 0 /\ Kept(x, c, 0) = 0
      BY MadeTyped
    <3> QED BY <1>3, <1>4, <2>2, <2>3, <3>1
  <2> QED BY <1>2, <1>3, <2>2, <2>5, <2>6, WalletMoves
<1>6. CASE Accept
  <2>1. /\ exch' = [exch EXCEPT ![x].st = "open"]
        /\ IF Reserves(x) THEN Freeze(LockedCurrency(Terms[x]), Asked(x)) ELSE UNCHANGED wallet
    BY <1>1, <1>6 DEF Accept
  <2>2. exch'[x].st = "open" /\ exch'[x].filled = 0 /\ \A y \in Order : y # x => exch'[y] = exch[y]
    BY <1>2, <1>3, <2>1
  <2>3. PICK all \in Nat : all = Terms[x].volume
    BY TermsSplit
  <2>4. Resting(x)' = all
    BY <2>2, <2>3 DEF Resting, Open
  <2>5. PICK rest \in Nat : rest = Kept(x, c, all)
    BY KeptTyped
  <2>6. /\ Made(p, x, c, exch'[x].filled, Resting(x)') = Made(p, x, c, exch[x].filled, Resting(x)) + -rest
        /\ Kept(x, c, Resting(x)') = Kept(x, c, Resting(x)) + rest
        /\ rest \in Int /\ -rest \in Int
    <3>1. /\ Made(p, x, c, 0, all) = Made(p, x, c, 0, 0) + -Kept(x, c, all)
          /\ Kept(x, c, all) = Kept(x, c, 0) + Kept(x, c, all)
      <4>1. \A n \in Nat : Made(p, x, c, n, all) = Made(p, x, c, n, 0) + -Kept(x, c, all)
        BY MadeByFreezing
      <4>2. Kept(x, c, all) = Kept(x, c, 0) + Kept(x, c, all)
        BY MadeByFreezing
      <4> QED BY <4>1, <4>2
    <3> QED BY <1>3, <1>4, <2>2, <2>4, <2>5, <3>1
  <2>7. wallet'[c].available = wallet[c].available + -rest /\ wallet'[c].frozen = wallet[c].frozen + rest
    <3>1. Reserves(x) => Asked(x) \in Int
      BY AskedTyped
    <3>2. /\ wallet'[c].available = wallet[c].available + (IF Locking(x, c) THEN -Asked(x) ELSE 0)
          /\ wallet'[c].frozen = wallet[c].frozen + (IF Locking(x, c) THEN Asked(x) ELSE 0)
      BY <2>1, <3>1, FreezeMoves
    <3>3. CASE Locking(x, c)
      <4>1. rest = Asked(x)
        BY <2>3, <2>5, <3>3, KeptTyped
      <4> QED BY <3>2, <3>3, <4>1
    <3>4a. wallet[c].available \in Int /\ wallet[c].frozen \in Int
      BY DEF Orderly, TypeOK
    <3>4. CASE ~Locking(x, c)
      <4>1. Kept(x, c, all) = 0
        BY <3>4 DEF Kept
      <4>2. rest = 0
        BY <2>5, <4>1, Zenon
      <4> QED BY <3>2, <3>4, <3>4a, <4>2
    <3> QED BY <3>3, <3>4
  <2> QED BY <1>2, <1>3, <2>2, <2>6, <2>7, WalletMoves
<1> QED BY <1>5, <1>6

(* A fill takes from what is frozen what it is worth, and brings its gain.    *)
LEMMA SettleExact ==
  ASSUME NEW p \in Prices, Orderly, NEW o \in Order, IsSpot(o), NEW n \in Nat, NEW d \in Deal,
         Settle(o, n, d), d.fee = 0,
         Terms[o].side = "BUY" => d.price = Terms[o].price,
         Terms[o].side = "SELL" => d.price = p[o],
         NEW c \in Currency
  PROVE  /\ wallet'[c].available = wallet[c].available + Gain(p, o, c, n)
         /\ wallet'[c].frozen = wallet[c].frozen + -Kept(o, c, n)
<1>1. PICK free, cost, got :
        /\ free = IF Reserves(o) THEN Amount(Terms[o], Terms[o].price, n) ELSE 0
        /\ cost = IF Reserves(o) THEN Amount(Terms[o], d.price, n) ELSE 0
        /\ got  = Earned(Terms[o], d.price, n) + d.fee
  OBVIOUS
<1>2. /\ free \in Nat /\ cost \in Nat /\ got \in Int
      /\ wallet'[c].available =
           wallet[c].available + (IF c = LockedCurrency(Terms[o]) THEN free - cost ELSE 0)
                               + (IF c = EarnedCurrency(Terms[o]) THEN got ELSE 0)
      /\ wallet'[c].frozen =
           wallet[c].frozen + (IF c = LockedCurrency(Terms[o]) THEN -free ELSE 0)
  BY <1>1, SettleIs
<1>3. Terms[o].side \in {"BUY", "SELL"} /\ d.price \in Nat /\ p[o] \in Nat
  BY TermsSplit DEF SpotTerms, Deal, Prices
<1>4. free = cost
  BY <1>1, <1>3 DEF Amount
<1>5. got = Earned(Terms[o], p[o], n)
  <2>1. Earned(Terms[o], d.price, n) = Earned(Terms[o], p[o], n)
    BY <1>3 DEF Earned
  <2>2. Earned(Terms[o], p[o], n) \in Nat
    BY <1>3, EarnedTyped
  <2> QED BY <1>1, <2>1, <2>2
<1>6. Gain(p, o, c, n) = IF c = EarnedCurrency(Terms[o]) THEN got ELSE 0
  BY <1>5 DEF Gain
<1>7. Kept(o, c, n) = IF c = LockedCurrency(Terms[o]) THEN free ELSE 0
  BY <1>1 DEF Kept, Locking, Worth
<1>8. wallet[c].available \in Int /\ wallet[c].frozen \in Int
  BY DEF Orderly, TypeOK
<1> QED BY <1>2, <1>4, <1>6, <1>7, <1>8

(* A fill pays from the frozen amount and brings what was bought. *)
LEMMA WalletTrade ==
  ASSUME NEW p \in Prices, Orderly, Orderly', IsFiniteSet(emitted), Plain', SoldAt(p)',
         NEW x \in Order, NEW n \in 1 .. Terms[x].volume, NEW d \in Offered(x), Trade(x, n, d),
         NEW c \in Currency, WalletExact(p, c)
  PROVE  WalletExact(p, c)'
<1>1. n \in Nat /\ Terms[x].volume \in Nat /\ d \in Deal
  BY TermsSplit, TradeIs DEF Orderly
<1>2. emitted' = emitted /\ exch[x].filled \in Nat /\ exch'[x].filled <= Terms[x].volume
  BY TradeIs DEF Orderly, TypeOK, Trade, strategyVars
<1>3. /\ Open(x) /\ exch'[x].deals = exch[x].deals \cup {d}
      /\ IF IsSpot(x) THEN Settle(x, n, d) ELSE wallet' = wallet
  BY TradeIs DEF Trade, Orderly
<1>4. PICK m \in Nat : m = exch[x].filled
  BY <1>2
<1>5. /\ exch'[x].filled = m + n
      /\ exch'[x].st = IF m + n = Terms[x].volume THEN "filled" ELSE "open"
      /\ \A y \in Order : y # x => exch'[y] = exch[y]
  BY <1>4, TradeIs DEF Orderly
<1>6. PICK left \in Nat : left = Terms[x].volume - (m + n)
  BY <1>1, <1>2, <1>4, <1>5
<1>7. x \in emitted /\ Resting(x) = left + n /\ Resting(x)' = left
  <2>1. x \in emitted
    BY <1>3 DEF Open, Orderly, EngineInv, Believes, SentOnce
  <2> QED BY <1>1, <1>3, <1>4, <1>5, <1>6, <2>1 DEF Resting, Open
<1>8. PICK e \in Nat : e = Gain(p, x, c, n)
  BY <1>1, GainTyped
<1>9. PICK paid \in Nat : paid = Kept(x, c, n)
  BY <1>1, KeptTyped
<1>10. /\ Made(p, x, c, exch'[x].filled, Resting(x)') = Made(p, x, c, exch[x].filled, Resting(x)) + e
       /\ Kept(x, c, Resting(x)') = Kept(x, c, Resting(x)) + -paid
       /\ e \in Int /\ -paid \in Int
  <2>1. PICK sum, rest : sum = m + n /\ rest = left + n
    OBVIOUS
  <2>2. /\ Made(p, x, c, m + n, left) = Made(p, x, c, m, left + n) + Gain(p, x, c, n)
        /\ Kept(x, c, left) = Kept(x, c, left + n) + -Kept(x, c, n)
    BY <1>1, MadeByFill
  <2> QED BY <1>4, <1>5, <1>7, <1>8, <1>9, <2>1, <2>2
<1>11. wallet'[c].available = wallet[c].available + e /\ wallet'[c].frozen = wallet[c].frozen + -paid
  <2>1. CASE IsSpot(x)
    <3>1. d \in exch'[x].deals /\ Exact(x)' /\ FeeFree(x)'
      BY <1>2, <1>3, <1>7 DEF Plain, AsBooked
    <3>2. /\ d.fee = 0
          /\ Terms[x].side = "BUY" => d.price = Terms[x].price
          /\ Terms[x].side = "SELL" => d.price = p[x]
      BY <2>1, <3>1 DEF FeeFree, Exact, AsAsked, SoldAt, IsSpot
    <3>3. /\ wallet'[c].available = wallet[c].available + Gain(p, x, c, n)
          /\ wallet'[c].frozen = wallet[c].frozen + -Kept(x, c, n)
      BY <1>1, <1>3, <2>1, <3>2, SettleExact
    <3> QED BY <1>8, <1>9, <3>3
  <2>2. CASE ~IsSpot(x)
    <3>0. Gain(p, x, c, n) = 0 /\ Kept(x, c, n) = 0
      BY <2>2 DEF Gain, Kept, Locking, Reserves
    <3>1. e = 0 /\ paid = 0
      BY <1>8, <1>9, <3>0, Zenon
    <3>2. wallet[c].available \in Int /\ wallet[c].frozen \in Int
      BY DEF Orderly, TypeOK
    <3> QED BY <1>3, <2>2, <3>1, <3>2
  <2> QED BY <2>1, <2>2
<1> QED BY <1>2, <1>5, <1>7, <1>10, <1>11, WalletMoves

(* A cancellation gives back what rests. *)
LEMMA WalletCancel ==
  ASSUME NEW p \in Prices, Orderly, Orderly',
         IsFiniteSet(emitted), NEW x \in Order, Cancel(x),
         NEW c \in Currency, WalletExact(p, c)
  PROVE  WalletExact(p, c)'
<1>1. exch \in [Order -> [st : ExchState, filled : Nat, value : Nat, fee : Int, deals : SUBSET Deal]] /\ emitted' = emitted
  BY DEF Orderly, TypeOK, Cancel, strategyVars
<1>2. PICK m \in Nat : m = exch[x].filled
  BY <1>1
<1>3. PICK left \in Nat : left = Terms[x].volume - m
  BY <1>2, TermsSplit DEF Orderly, Volumes
<1>4. /\ Open(x)
      /\ exch' = [exch EXCEPT ![x].st = "cancelled"]
      /\ IF Reserves(x) THEN Freeze(LockedCurrency(Terms[x]), - Worth(x, left)) ELSE UNCHANGED wallet
  BY <1>2, <1>3 DEF Cancel, Worth
<1>5. /\ exch'[x].filled = m /\ exch'[x].st = "cancelled"
      /\ \A y \in Order : y # x => exch'[y] = exch[y]
  BY <1>1, <1>2, <1>4
<1>6. x \in emitted /\ Resting(x) = left /\ Resting(x)' = 0
  <2>1. x \in emitted
    BY <1>4 DEF Open, Orderly, EngineInv, Believes, SentOnce
  <2> QED BY <1>2, <1>3, <1>4, <1>5, <2>1 DEF Resting, Open
<1>7. PICK rest \in Nat : rest = Kept(x, c, left)
  BY KeptTyped
<1>8. /\ Made(p, x, c, exch'[x].filled, Resting(x)') = Made(p, x, c, exch[x].filled, Resting(x)) + rest
      /\ Kept(x, c, Resting(x)') = Kept(x, c, Resting(x)) + -rest
      /\ rest \in Int /\ -rest \in Int
  <2>1. /\ Made(p, x, c, m, 0) = Made(p, x, c, m, left) + Kept(x, c, left)
        /\ Kept(x, c, 0) = Kept(x, c, left) + -Kept(x, c, left)
    <3>1. \A n \in Nat : Made(p, x, c, n, 0) = Made(p, x, c, n, left) + Kept(x, c, left)
      BY MadeByFreezing
    <3>2. Kept(x, c, 0) = Kept(x, c, left) + -Kept(x, c, left)
      BY MadeByFreezing
    <3> QED BY <3>1, <3>2
  <2> QED BY <1>2, <1>5, <1>6, <1>7, <2>1
<1>9. wallet'[c].available = wallet[c].available + rest /\ wallet'[c].frozen = wallet[c].frozen + -rest
  <2>1. Reserves(x) => Worth(x, left) \in Nat
    <3>1. Reserves(x) => Kept(x, LockedCurrency(Terms[x]), left) = Worth(x, left)
      BY DEF Kept, Locking
    <3>2. Kept(x, LockedCurrency(Terms[x]), left) \in Nat
      BY KeptTyped
    <3> QED BY <3>1, <3>2
  <2>2. PICK a : a = - Worth(x, left)
    OBVIOUS
  <2>3. Reserves(x) => a \in Int /\ -a = Worth(x, left)
    BY <2>1, <2>2
  <2>4. /\ wallet'[c].available = wallet[c].available + (IF Locking(x, c) THEN -a ELSE 0)
        /\ wallet'[c].frozen = wallet[c].frozen + (IF Locking(x, c) THEN a ELSE 0)
    BY <1>4, <2>2, <2>3, FreezeMoves
  <2>5. CASE Locking(x, c)
    <3>1. rest = -a /\ -rest = a
      BY <1>7, <2>2, <2>3, <2>5 DEF Kept, Locking
    <3> QED BY <2>4, <2>5, <3>1
  <2>6. CASE ~Locking(x, c)
    <3>1. Kept(x, c, left) = 0
      BY <2>6 DEF Kept
    <3>2. rest = 0
      BY <1>7, <3>1, Zenon
    <3>3. wallet[c].available \in Int /\ wallet[c].frozen \in Int
      BY DEF Orderly, TypeOK
    <3> QED BY <2>4, <2>6, <3>2, <3>3
  <2> QED BY <2>5, <2>6
<1> QED BY <1>1, <1>5, <1>6, <1>8, <1>9, WalletMoves

(* Nothing else touches the account at the exchange.                          *)
LEMMA WalletStep ==
  ASSUME NEW p \in Prices, Orderly, Orderly',
         IsFiniteSet(emitted), [ChannelNext]_vars, Plain', SoldAt(p)', NEW c \in Currency,
         WalletExact(p, c)
  PROVE  WalletExact(p, c)'
<1>1. ASSUME \/ Dispatch \/ Send \/ Drop \/ Reconnect \/ Receive \/ ApplyBalance \/ Handle(Listener)
             \/ \E d \in Currency : PushBalance(d)
             \/ UNCHANGED vars
      PROVE  WalletExact(p, c)'
  <2>1. UNCHANGED <<exch, wallet, emitted>>
    BY <1>1 DEF Dispatch, Send, Drop, Reconnect, Receive, ApplyBalance, Handle, PushBalance, vars,
                exchangeVars, strategyVars
  <2> QED BY <2>1 DEF WalletExact, InAll, Resting, Open
<1>2. ASSUME NEW o \in Order, Emit(o) PROVE WalletExact(p, c)'
  BY <1>2, WalletEmit
<1>3. ASSUME Accept \/ Refuse PROVE WalletExact(p, c)'
  BY <1>3, WalletDecide
<1>4. ASSUME NEW o \in Order, NEW n \in 1 .. Terms[o].volume, NEW d \in Offered(o), Trade(o, n, d)
      PROVE  WalletExact(p, c)'
  BY <1>4, WalletTrade
<1>5. ASSUME NEW o \in Order, Cancel(o) PROVE WalletExact(p, c)'
  BY <1>5, WalletCancel
<1> QED BY <1>1, <1>2, <1>3, <1>4, <1>5 DEF ChannelNext, ExchangeStep, ListenerStep

-----------------------------------------------------------------------------
(* The book is what the orders made of it, as far as their reports have been  *)
(* applied (BookExact).                                                       *)

KeepingTyped ==
  \A o \in Order : applied[o] \in Nat /\ Keeping(o) \in Nat /\ Terms[o].volume \in Nat

(* What the engine keeps frozen for an order is a number. *)
LEMMA KeepingNatural == Orderly => KeepingTyped
<1> SUFFICES ASSUME Orderly, NEW o \in Order
             PROVE  applied[o] \in Nat /\ Keeping(o) \in Nat /\ Terms[o].volume \in Nat
  BY DEF KeepingTyped
<1>1. exch[o].filled \in Nat /\ exch[o].filled <= Terms[o].volume /\ Terms[o].volume \in Nat
  BY TermsSplit DEF Orderly, TypeOK, Volumes
<1>2. applied[o] \in Nat /\ applied[o] <= exch[o].filled
  BY AppliedIsDone DEF Orderly, AppliedOnce, TypeOK, HandlerTypeOK
<1> QED BY <1>1, <1>2 DEF Keeping

(* The same of the state a step leads to. *)
LEMMA KeepingNaturalNext == Orderly' => KeepingTyped'
BY KeepingNatural, PTL

(* What is counted for an order is typed. *)
LEMMA CountedTyped ==
  ASSUME NEW p \in Prices, Orderly, NEW o \in Order, NEW c
  PROVE  /\ Made(p, o, c, applied[o], Keeping(o)) \in Int
         /\ Kept(o, c, Keeping(o)) \in Nat
         /\ Awaited(o, c) \in Nat
<1>1. applied[o] \in Nat /\ Keeping(o) \in Nat /\ Terms[o].volume \in Nat
  BY KeepingNatural DEF KeepingTyped
<1>2. /\ Made(p, o, c, applied[o], Keeping(o)) \in Int
      /\ Kept(o, c, Keeping(o)) \in Nat
  BY <1>1, MadeTyped
<1>3. Kept(o, c, Terms[o].volume) \in Nat
  BY <1>1, KeptTyped
<1> QED BY <1>2, <1>3 DEF Awaited

(* One order moves the book, or none does.                                    *)
LEMMA BookMoves ==
  ASSUME NEW p \in Prices, Orderly,
         IsFiniteSet(emitted), emitted' = emitted, NEW x \in emitted,
         \A y \in Order : y # x => /\ applied'[y] = applied[y]
                                   /\ (Held(y)' <=> Held(y))
                                   /\ (Reserved(y)' <=> Reserved(y)),
         NEW c \in Currency, BookExact(p, c), NEW a \in Int, NEW b \in Int, NEW d \in Int,
         Made(p, x, c, applied'[x], Keeping(x)') = Made(p, x, c, applied[x], Keeping(x)) + a,
         Kept(x, c, Keeping(x)') = Kept(x, c, Keeping(x)) + b,
         Awaited(x, c)' = Awaited(x, c) + d,
         book'[c].available = book[c].available + a,
         book'[c].frozen = book[c].frozen + b,
         book'[c].reserved = book[c].reserved + d
  PROVE  BookExact(p, c)'
<1>1. emitted \subseteq Order /\ Deposit[c] \in Int
  BY DepositAssumption DEF Orderly, TypeOK
<1>2. PICK f, f2 : /\ f = [o \in emitted |-> Made(p, o, c, applied[o], Keeping(o))]
                   /\ f2 = [o \in emitted |-> Made(p, o, c, applied'[o], Keeping(o)')]
  OBVIOUS
<1>3. PICK k, k2 : /\ k = [o \in emitted |-> Kept(o, c, Keeping(o))]
                   /\ k2 = [o \in emitted |-> Kept(o, c, Keeping(o)')]
  OBVIOUS
<1>4. PICK w, w2 : /\ w = [o \in emitted |-> Awaited(o, c)]
                   /\ w2 = [o \in emitted |-> Awaited(o, c)']
  OBVIOUS
<1>5. \A y \in emitted : y # x => /\ Keeping(y)' = Keeping(y) /\ applied'[y] = applied[y]
                                  /\ Awaited(y, c)' = Awaited(y, c)
  BY <1>1 DEF Keeping, Awaited
<1>6. \A y \in emitted : /\ Made(p, y, c, applied[y], Keeping(y)) \in Int
                         /\ Kept(y, c, Keeping(y)) \in Int /\ Awaited(y, c) \in Int
  BY <1>1, CountedTyped
<1>7. /\ SumFunctionOnSet(f2, emitted) = SumFunctionOnSet(f, emitted) + a
      /\ SumFunctionOnSet(f, emitted) \in Int
  <2>1. \A y \in emitted : f[y] \in Int
    BY <1>2, <1>6
  <2>2. \A y \in emitted : y # x => f2[y] = f[y]
    BY <1>2, <1>5
  <2>3. f2[x] = f[x] + a
    BY <1>2
  <2> QED BY <2>1, <2>2, <2>3, SumMoves, Zenon
<1>8. /\ SumFunctionOnSet(k2, emitted) = SumFunctionOnSet(k, emitted) + b
      /\ SumFunctionOnSet(k, emitted) \in Int
  <2>1. \A y \in emitted : k[y] \in Int
    BY <1>3, <1>6
  <2>2. \A y \in emitted : y # x => k2[y] = k[y]
    BY <1>3, <1>5
  <2>3. k2[x] = k[x] + b
    BY <1>3
  <2> QED BY <2>1, <2>2, <2>3, SumMoves, Zenon
<1>9. /\ SumFunctionOnSet(w2, emitted) = SumFunctionOnSet(w, emitted) + d
      /\ SumFunctionOnSet(w, emitted) \in Int
  <2>1. \A y \in emitted : w[y] \in Int
    BY <1>4, <1>6
  <2>2. \A y \in emitted : y # x => w2[y] = w[y]
    BY <1>4, <1>5
  <2>3. w2[x] = w[x] + d
    BY <1>4
  <2> QED BY <2>1, <2>2, <2>3, SumMoves, Zenon
<1>10. /\ book[c].available = Deposit[c] + SumFunctionOnSet(f, emitted)
       /\ book[c].frozen = SumFunctionOnSet(k, emitted)
       /\ book[c].reserved = SumFunctionOnSet(w, emitted)
  BY <1>2, <1>3, <1>4 DEF BookExact, InAll
<1>11. /\ book'[c].available = Deposit[c] + SumFunctionOnSet(f2, emitted)
       /\ book'[c].frozen = SumFunctionOnSet(k2, emitted)
       /\ book'[c].reserved = SumFunctionOnSet(w2, emitted)
  BY <1>1, <1>7, <1>8, <1>9, <1>10
<1> QED BY <1>2, <1>3, <1>4, <1>11 DEF BookExact, InAll

(* A step that neither moves the book nor changes where an order's amount is. *)
LEMMA BookStays ==
  ASSUME NEW p \in Prices, emitted \subseteq Order, UNCHANGED <<book, applied, emitted>>,
         \A y \in Order : (Held(y)' <=> Held(y)) /\ (Reserved(y)' <=> Reserved(y)),
         NEW c \in Currency, BookExact(p, c)
  PROVE  BookExact(p, c)'
<1>1. \A y \in emitted : Keeping(y)' = Keeping(y) /\ Awaited(y, c)' = Awaited(y, c)
  BY DEF Keeping, Awaited
<1>2. /\ [o \in emitted |-> Made(p, o, c, applied[o], Keeping(o))]
           = [o \in emitted |-> Made(p, o, c, applied[o], Keeping(o)')]
      /\ [o \in emitted |-> Kept(o, c, Keeping(o))] = [o \in emitted |-> Kept(o, c, Keeping(o)')]
      /\ [o \in emitted |-> Awaited(o, c)] = [o \in emitted |-> Awaited(o, c)']
  BY <1>1
<1> QED BY <1>2 DEF BookExact, InAll

(* No clamp of the book takes effect: what is kept for an order is there.     *)
LEMMA Covers ==
  ASSUME NEW p \in Prices, Orderly,
         IsFiniteSet(emitted), NEW x \in emitted, NEW c \in Currency, BookExact(p, c)
  PROVE  Kept(x, c, Keeping(x)) <= book[c].frozen /\ Awaited(x, c) <= book[c].reserved
<1>1. emitted \subseteq Order
  BY DEF Orderly, TypeOK
<1>2. ASSUME NEW f, \A y \in emitted : f[y] \in Nat
      PROVE  f[x] <= SumFunctionOnSet(f, emitted)
  <2>1. \A y \in emitted : f[y] \in Int
    BY <1>2
  <2>2. SumFunctionOnSet(f, emitted) = f[x] + SumFunctionOnSet(f, emitted \ {x})
    BY <2>1, SumTerm
  <2>3. PICK U : U = emitted \ {x}
    OBVIOUS
  <2>4. IsFiniteSet(U) /\ \A y \in U : f[y] \in Nat
    BY <1>2, <2>3, FS_Subset
  <2>5. {} \in SUBSET U /\ IsFiniteSet({}) /\ \A y \in {} : f[y] \in Int
    BY FS_EmptySet
  <2>6. SumFunctionOnSet(f, {}) <= SumFunctionOnSet(f, U)
    BY <2>4, <2>5, SumPart
  <2>7. SumFunctionOnSet(f, {}) = 0
    BY <2>5, SumTerm
  <2>8. SumFunctionOnSet(f, U) \in Int
    BY <2>4, SumTerm
  <2> QED BY <1>2, <2>2, <2>3, <2>6, <2>7, <2>8
<1>3. PICK k : k = [o \in emitted |-> Kept(o, c, Keeping(o))]
  OBVIOUS
<1>4. PICK w : w = [o \in emitted |-> Awaited(o, c)]
  OBVIOUS
<1>5. (\A y \in emitted : k[y] \in Nat) /\ (\A y \in emitted : w[y] \in Nat)
  BY <1>1, <1>3, <1>4, CountedTyped
<1>6. k[x] <= SumFunctionOnSet(k, emitted) /\ w[x] <= SumFunctionOnSet(w, emitted)
  BY <1>2, <1>5
<1> QED BY <1>3, <1>4, <1>6 DEF BookExact, InAll

-----------------------------------------------------------------------------
(* Most steps leave every order's amount where it is.                         *)

(* A rejection in hand is the exchange's.                                     *)
LEMMA RecoveredRefused ==
  ASSUME Orderly, NEW o \in Order, Recovered(o)
  PROVE  exch[o].st = "refused" /\ EndIn(ToApply, o)
<1>1. InHand /\ h[Listener].report.order = o /\ h[Listener].report.status = "REJECTED"
  BY DEF Recovered, InHand
<1>2. h[Listener].report \in ToApply
  BY <1>1, Places
<1>3. TrueReport(h[Listener].report)
  BY <1>2, ReportKnown
<1> QED BY <1>1, <1>2, <1>3 DEF TrueReport, EndIn, Terminal

(* What the exchange does changes nothing of where the engine has an amount:  *)
(* the report of it is still to be applied.                                   *)
LEMMA HeldReported ==
  ASSUME Orderly, Orderly', TablesExact,
         NEW channel \in Channel, NEW r \in Report, NEW o \in Order, Said(channel, r, o),
         NEW y \in Order
  PROVE  (Held(y)' <=> Held(y)) /\ (Reserved(y)' <=> Reserved(y))
<1>1. h' = h /\ r.order = o /\ (\A x \in Order : x # o => exch'[x] = exch[x])
      /\ (Decided(r, o) \/ Changed(r, o))
  BY DEF Said
<1>2. ToApply' = ToApply \cup {r}
  BY <1>1, Appended DEF TablesExact, Said
<1>3. Recovered(y)' <=> Recovered(y)
  BY <1>1 DEF Recovered
<1>4. CASE y # o
  <2>1. (NewIn(ToApply, y)' <=> NewIn(ToApply, y)) /\ (EndIn(ToApply, y)' <=> EndIn(ToApply, y))
    BY <1>1, <1>2, <1>4 DEF NewIn, EndIn
  <2>2. exch'[y] = exch[y]
    BY <1>1, <1>4
  <2> QED BY <1>3, <2>1, <2>2 DEF Held, Reserved, Accepted, Closed
<1>5. CASE y = o /\ Decided(r, o)
  <2>1. exch[o].st = "unknown"
    <3>1. wire \in Seq(Order) /\ wire # <<>> /\ Head(wire) = o
      BY <1>5 DEF Decided, Orderly, TypeOK
    <3>2. o \in Range(wire)
      BY <3>1, RangeTail
    <3> QED BY <3>2 DEF Orderly, EngineInv, Believes, SentOnce, InFlight
  <2>2. ~Recovered(o)
    BY <2>1, RecoveredRefused
  <2>3. ~Held(o) /\ Reserved(o)
    BY <2>1, <2>2 DEF Held, Reserved, Accepted
  <2>4. \/ exch'[o].st = "open" /\ NewIn(ToApply, o)'
        \/ exch'[o].st = "refused" /\ EndIn(ToApply, o)'
    BY <1>1, <1>2, <1>5 DEF Decided, NewIn, EndIn, Terminal
  <2> QED BY <1>3, <1>5, <2>2, <2>3, <2>4 DEF Held, Reserved, Accepted
<1>6. CASE y = o /\ Changed(r, o)
  <2>1. /\ exch[o].st = "open" /\ exch'[o].st \in {"open", "filled", "cancelled"}
        /\ r.status # "NEW"
        /\ exch'[o].st # "open" => r.status \in Terminal
    BY <1>6 DEF Changed, Open, Terminal
  <2>2. ~Recovered(o)
    BY <2>1, RecoveredRefused
  <2>3. NewIn(ToApply, o)' <=> NewIn(ToApply, o)
    BY <1>2, <2>1 DEF NewIn
  <2>4. exch'[o].st # "open" => EndIn(ToApply, o)'
    BY <1>1, <1>2, <2>1 DEF EndIn
  <2> QED BY <1>3, <1>6, <2>1, <2>2, <2>3, <2>4 DEF Held, Reserved, Accepted, Closed
<1> QED BY <1>1, <1>4, <1>5, <1>6

(* The same reports to apply, about the same orders. *)
LEMMA HeldSame ==
  ASSUME ToApply' = ToApply, exch' = exch, NEW y \in Order, Recovered(y)' <=> Recovered(y)
  PROVE  (Held(y)' <=> Held(y)) /\ (Reserved(y)' <=> Reserved(y))
<1>1. (NewIn(ToApply, y)' <=> NewIn(ToApply, y)) /\ (EndIn(ToApply, y)' <=> EndIn(ToApply, y))
  BY DEF NewIn, EndIn
<1> QED BY <1>1 DEF Held, Reserved, Accepted, Closed

(* The listener's steps that do not touch the book. *)
LEMMA HeldMove ==
  ASSUME Orderly, Orderly', TablesExact, NEW y \in Order,
         \/ Receive
         \/ Handle(Listener) /\ ~RecoverBook(Listener) /\ ~Apply(Listener)
  PROVE  /\ (Held(y)' <=> Held(y)) /\ (Reserved(y)' <=> Reserved(y))
         /\ UNCHANGED <<book, applied, emitted>>
<1>1. ASSUME Receive
      PROVE  /\ UNCHANGED <<book, applied, emitted, exch>> /\ ToApply' = ToApply
             /\ Recovered(y)' <=> Recovered(y)
  <2>1. UNCHANGED <<book, applied, emitted, exch>>
    BY <1>1 DEF Receive, exchangeVars, strategyVars
  <2>2. /\ ToApply' = ToApply /\ Idle(Listener) /\ h'[Listener].report = Head(inbox)
        /\ h'[Listener].pc = IF Head(inbox).status = "NEW" THEN "track" ELSE "live?"
    BY <1>1, Received
  <2> QED BY <2>1, <2>2 DEF Recovered, Idle
<1>2. ASSUME Handle(Listener), ~RecoverBook(Listener), ~Apply(Listener)
      PROVE  /\ UNCHANGED <<book, applied, emitted, exch>> /\ ToApply' = ToApply
             /\ Recovered(y)' <=> Recovered(y)
  <2>1. /\ UNCHANGED <<inbox, exch, emitted>> /\ ~Idle(Listener)
        /\ ~SkipDuplicate(Listener)
    BY <1>2, InsideFrame, NeverSkipped
  <2>2. \/ CheckLive(Listener) \/ CheckCid(Listener) \/ RecoverLive(Listener)
        \/ Track(Listener) \/ Release(Listener) \/ Tell(Listener)
    BY <1>2, <2>1 DEF Handle, HandlerStep
  <2>3. UNCHANGED <<book, applied>>
    BY <2>2 DEF CheckLive, CheckCid, RecoverLive, Track, Release, Tell
  <2>4. PICK r \in Report : r = h[Listener].report
    BY <1>2, InsideFrame
  <2>5. CASE Tell(Listener)
    <3>1. h[Listener].pc = "tell" /\ h'[Listener].pc = "idle"
      BY <2>5, ThreadsTyped DEF Tell, At, Return, Orderly, TypeOK, HandlerTypeOK
    <3>2. ToApply' = ToApply
      BY <2>1, <3>1 DEF ToApply, InHand
    <3> QED BY <2>1, <2>3, <3>1, <3>2 DEF Recovered
  <2>6. CASE ~Tell(Listener)
    <3>1. /\ h[Listener].pc \in {"live?", "cid?", "relive", "track", "release"}
          /\ h'[Listener].pc \in {"cid?", "recover", "track", "release", "apply"}
          /\ h'[Listener].report = r
      BY <2>1, <2>2, <2>4, <2>6, Gone DEF CheckLive, CheckCid, RecoverLive, Track, Release, At
    <3>2. ToApply' = ToApply /\ InHand
      BY <2>1, <2>4, <3>1 DEF ToApply, InHand
    <3>3. CASE CheckLive(Listener)
      <4>1. /\ h[Listener].pc = "live?"
            /\ h'[Listener].pc = IF r.id \in live THEN "track" ELSE "cid?"
        BY <2>1, <2>4, <3>3, Gone DEF CheckLive, At
      <4>2. NoId \notin live
        BY <4>1 DEF TablesExact, RecoversRefusals
      <4>3. r.status = "REJECTED" => r.id = NoId
        BY <2>4, <3>2, HandKnown DEF TablesExact
      <4>4. h'[Listener].pc = "track" => r.status # "REJECTED"
        BY <4>1, <4>2, <4>3
      <4> QED BY <2>1, <2>3, <2>4, <3>1, <3>2, <4>1, <4>4 DEF Recovered
    <3>4. CASE CheckCid(Listener)
      <4>1. /\ h[Listener].pc = "cid?"
            /\ h'[Listener].pc = IF r.order \in cids THEN "recover" ELSE "track"
        BY <2>1, <2>4, <3>4, Gone DEF CheckCid, At
      <4>2. r \in ToRelease /\ r.order \in Order
        BY <2>4, <4>1 DEF ToRelease, UpTo, Report
      <4>3. r.status = "REJECTED" /\ Holds(r.order) => r.order \in cids
        BY <4>2 DEF TablesExact, CidExact
      <4> QED BY <2>1, <2>3, <2>4, <3>1, <3>2, <4>1, <4>3 DEF Recovered, Holds, Reserves, IsSpot, Asked
    <3>5. CASE RecoverLive(Listener) \/ Track(Listener) \/ Release(Listener)
      <4>1. /\ h[Listener].pc \in {"relive", "track", "release"}
            /\ h'[Listener].pc \in {"track", "release", "apply"}
        BY <2>1, <3>5, Gone DEF RecoverLive, Track, Release, At
      <4> QED BY <2>1, <2>3, <2>4, <3>1, <3>2, <4>1 DEF Recovered, Holds, Reserves, IsSpot, Asked
    <3> QED BY <2>2, <2>6, <3>3, <3>4, <3>5
  <2> QED BY <2>5, <2>6
<1> QED BY <1>1, <1>2, HeldSame

-----------------------------------------------------------------------------
(* What the methods of the position manager add, column by column.            *)

(* Move adds to two columns of one currency. *)
LEMMA MoveColumns ==
  ASSUME NEW b \in Book(Currency), NEW d \in Currency, NEW c \in Currency,
         NEW a \in Int, NEW f \in Int
  PROVE  /\ Move(b, d, a, f) \in Book(Currency)
         /\ Move(b, d, a, f)[c].available = b[c].available + (IF c = d THEN a ELSE 0)
         /\ Move(b, d, a, f)[c].frozen = b[c].frozen + (IF c = d THEN f ELSE 0)
         /\ Move(b, d, a, f)[c].reserved = b[c].reserved
BY DEF Move, Book

(* Unreserve takes from the reservation, which it must not exceed to be       *)
(* exact.                                                                     *)
LEMMA UnreserveColumns ==
  ASSUME NEW b \in Book(Currency), NEW d \in Currency, NEW c \in Currency, NEW amount \in Nat
  PROVE  /\ Unreserve(b, d, amount) \in Book(Currency)
         /\ Unreserve(b, d, amount)[c].available = b[c].available
         /\ Unreserve(b, d, amount)[c].frozen = b[c].frozen
         /\ (c = d => amount <= b[c].reserved)
              => Unreserve(b, d, amount)[c].reserved = b[c].reserved + (IF c = d THEN -amount ELSE 0)
BY DEF Unreserve, Book, AtLeast0

(* A report about an order that is followed exactly carries its price. *)
LEMMA ExactAmount ==
  ASSUME NEW o \in Order, IsSpot(o), Exact(o), NEW n \in Nat
  PROVE  /\ Amount(Terms[o], ReportPrice(Terms[o]), n) = Worth(o, n)
         /\ Worth(o, n) \in Nat
         /\ LockedCurrency(Terms[o]) \in Currency
<1>1. Terms[o] \in SpotTerms(Currency)
  BY TermsSplit
<1>2. /\ Amount(Terms[o], ReportPrice(Terms[o]), n) \in Nat
      /\ Terms[o].type = "LIMIT"
           => Amount(Terms[o], ReportPrice(Terms[o]), n) = Amount(Terms[o], Terms[o].price, n)
      /\ Amount(Terms[o], Terms[o].price, n) \in Nat
      /\ LockedCurrency(Terms[o]) \in Currency
  BY <1>1, ReportAmount, TermsTypes
<1>3. Terms[o].side # "BUY" => Amount(Terms[o], ReportPrice(Terms[o]), n) = Amount(Terms[o], Terms[o].price, n)
  BY DEF Amount
<1> QED BY <1>2, <1>3 DEF Exact, Worth

(* The amount of an order that locks none of c, or all of it. *)
LEMMA KeptIs ==
  ASSUME NEW o \in Order, NEW c, NEW n \in Nat
  PROVE  /\ Reserves(o) => Kept(o, c, n) = IF c = LockedCurrency(Terms[o]) THEN Worth(o, n) ELSE 0
         /\ ~Reserves(o) => Kept(o, c, n) = 0
BY DEF Kept, Locking

(* The acceptance freezes what is reserved. *)
LEMMA NewColumns ==
  ASSUME Orderly, NEW x \in Order, Exact(x), NEW mode,
         IsSpot(x) => (Locks(Terms[x], mode) <=> Reserves(x)),
         book' = IF IsSpot(x) THEN UpdateSpotOnNew(book, Terms[x], mode) ELSE book,
         NEW c \in Currency, NEW k \in Nat, k = Kept(x, c, Terms[x].volume), k <= book[c].reserved
  PROVE  /\ book'[c].available = book[c].available + -k
         /\ book'[c].frozen = book[c].frozen + k
         /\ book'[c].reserved = book[c].reserved + -k
<1>1. book \in Book(Currency) /\ Terms[x].volume \in Nat
  BY TermsSplit DEF Orderly, TypeOK, HandlerTypeOK
<1>2. CASE Reserves(x)
  <2>1. PICK amount \in Nat : amount = Worth(x, Terms[x].volume)
    BY <1>1, <1>2, ExactAmount DEF Reserves
  <2>2. PICK d \in Currency : d = LockedCurrency(Terms[x])
    BY <1>1, <1>2, ExactAmount DEF Reserves
  <2>3. Amount(Terms[x], ReportPrice(Terms[x]), Terms[x].volume) = amount
    BY <1>1, <1>2, <2>1, ExactAmount DEF Reserves
  <2>4. book' = Move(Unreserve(book, d, amount), d, -amount, amount)
    BY <1>2, <2>2, <2>3 DEF UpdateSpotOnNew, Reserves
  <2>5. k = IF c = d THEN amount ELSE 0
    BY <1>1, <1>2, <2>1, <2>2, KeptIs
  <2>6. PICK u \in Book(Currency) :
          /\ u = Unreserve(book, d, amount)
          /\ u[c].available = book[c].available /\ u[c].frozen = book[c].frozen
          /\ u[c].reserved = book[c].reserved + (IF c = d THEN -amount ELSE 0)
    <3>1. c = d => amount <= book[c].reserved
      BY <2>5
    <3> QED BY <1>1, <3>1, UnreserveColumns
  <2>7. /\ book'[c].available = u[c].available + (IF c = d THEN -amount ELSE 0)
        /\ book'[c].frozen = u[c].frozen + (IF c = d THEN amount ELSE 0)
        /\ book'[c].reserved = u[c].reserved
    <3>1. -amount \in Int /\ amount \in Int
      OBVIOUS
    <3> QED BY <2>4, <2>6, <3>1, MoveColumns
  <2> QED BY <1>1, <2>5, <2>6, <2>7 DEF Book
<1>3. CASE ~Reserves(x)
  <2>1. book' = book
    BY <1>3 DEF UpdateSpotOnNew
  <2>2. k = 0
    <3>1. Kept(x, c, Terms[x].volume) = 0
      BY <1>1, <1>3, KeptIs
    <3> QED BY <3>1, Zenon
  <2> QED BY <1>1, <2>1, <2>2 DEF Book
<1> QED BY <1>2, <1>3

(* A fill takes what it is worth from what is frozen and brings its gain. *)
LEMMA FillColumns ==
  ASSUME NEW p \in Prices, Orderly, NEW x \in Order, NEW mode, NEW n \in Nat,
         NEW avg \in Nat, NEW fee,
         IsSpot(x) => fee = 0,
         IsSpot(x) /\ Terms[x].side = "BUY" => avg = Terms[x].price,
         IsSpot(x) /\ Terms[x].side = "SELL" => avg = p[x],
         IsSpot(x) => (Locks(Terms[x], mode) <=> Reserves(x)),
         book' = IF IsSpot(x) THEN UpdateSpotOnFill(book, Terms[x], mode, n, avg, fee) ELSE book,
         NEW c \in Currency
  PROVE  /\ book'[c].available = book[c].available + Gain(p, x, c, n)
         /\ book'[c].frozen = book[c].frozen + -Kept(x, c, n)
         /\ book'[c].reserved = book[c].reserved
<1> PICK k \in Nat, e \in Nat : k = Kept(x, c, n) /\ e = Gain(p, x, c, n)
  BY KeptTyped, GainTyped
<1> SUFFICES /\ book'[c].available = book[c].available + e
             /\ book'[c].frozen = book[c].frozen + -k
             /\ book'[c].reserved = book[c].reserved
  OBVIOUS
<1>1. book \in Book(Currency) /\ book[c] \in [available : Int, frozen : Int, reserved : Nat]
  BY DEF Orderly, TypeOK, HandlerTypeOK, Book
<1>2. CASE ~IsSpot(x)
  <2>1. k = 0 /\ e = 0
    BY <1>2, KeptIs DEF Gain, Reserves
  <2> QED BY <1>1, <1>2, <2>1
<1>3. CASE IsSpot(x) /\ n = 0
  <2>1. k = 0 /\ e = 0
    BY <1>3, KeptTyped, GainTyped
  <2>2. book' = book
    BY <1>3 DEF UpdateSpotOnFill
  <2> QED BY <1>1, <2>1, <2>2
<1>4. CASE IsSpot(x) /\ n # 0
  <2>1. /\ Terms[x] \in SpotTerms(Currency) /\ LockedCurrency(Terms[x]) \in Currency
        /\ EarnedCurrency(Terms[x]) \in Currency /\ Terms[x].price \in Nat /\ p[x] \in Nat
        /\ Terms[x].side \in {"BUY", "SELL"}
    BY <1>4, TermsSplit, TermsTypes DEF SpotTerms, Prices
  <2>2. PICK d \in Currency : d = LockedCurrency(Terms[x])
    BY <2>1
  <2>3. PICK paid \in Nat : paid = IF Locks(Terms[x], mode) THEN Worth(x, n) ELSE 0
    <3>1. Worth(x, n) \in Nat
      BY <2>1, AmountNat DEF Worth
    <3> QED BY <3>1
  <2>4. PICK got \in Nat : got = Earned(Terms[x], p[x], n)
    BY <1>4, <2>1, EarnedTyped
  <2>5. PICK g \in Currency : g = EarnedCurrency(Terms[x])
    BY <2>1
  <2>6. book' = Move(Move(book, d, 0, -paid), g, got, 0)
    <3>1. Amount(Terms[x], avg, n) = Worth(x, n)
      BY <1>4, <2>1 DEF Amount, Worth
    <3>2. Earned(Terms[x], avg, n) + fee = got
      BY <1>4, <2>1, <2>4 DEF Earned
    <3>3. ~(n <= 0)
      BY <1>4
    <3> QED BY <1>4, <2>2, <2>3, <2>5, <3>1, <3>2, <3>3 DEF UpdateSpotOnFill
  <2>7. k = IF c = d THEN paid ELSE 0
    BY <1>4, <2>2, <2>3, KeptIs
  <2>8. e = IF c = g THEN got ELSE 0
    BY <1>4, <2>4, <2>5 DEF Gain
  <2>9. PICK m \in Book(Currency) :
          /\ m = Move(book, d, 0, -paid)
          /\ m[c].available = book[c].available + (IF c = d THEN 0 ELSE 0)
          /\ m[c].frozen = book[c].frozen + (IF c = d THEN -paid ELSE 0)
          /\ m[c].reserved = book[c].reserved
    <3>1. 0 \in Int /\ -paid \in Int
      OBVIOUS
    <3> QED BY <1>1, <3>1, MoveColumns
  <2>10. /\ book'[c].available = m[c].available + (IF c = g THEN got ELSE 0)
         /\ book'[c].frozen = m[c].frozen + (IF c = g THEN 0 ELSE 0)
         /\ book'[c].reserved = m[c].reserved
    <3>1. 0 \in Int /\ got \in Int
      OBVIOUS
    <3> QED BY <2>6, <2>9, <3>1, MoveColumns
  <2> QED BY <1>1, <2>7, <2>8, <2>9, <2>10
<1> QED BY <1>2, <1>3, <1>4

(* A cancellation gives back what is left. *)
Unfilled(o, n) == Terms[o].volume - n

(* UpdateSpotOnCancel gives back what was not filled. *)
LEMMA CancelColumns ==
  ASSUME Orderly, NEW x \in Order, Exact(x), NEW mode, NEW filled \in Nat, filled <= Terms[x].volume,
         IsSpot(x) => (Locks(Terms[x], mode) <=> Reserves(x)),
         book' = IF IsSpot(x) THEN UpdateSpotOnCancel(book, Terms[x], mode, filled) ELSE book,
         NEW c \in Currency, NEW k \in Nat, k = Kept(x, c, Unfilled(x, filled))
  PROVE  /\ book'[c].available = book[c].available + k
         /\ book'[c].frozen = book[c].frozen + -k
         /\ book'[c].reserved = book[c].reserved
<1>1. PICK left \in Nat : left = Terms[x].volume - filled /\ k = Kept(x, c, left)
  BY TermsSplit DEF Unfilled
<1>2. book \in Book(Currency) /\ book[c] \in [available : Int, frozen : Int, reserved : Nat]
  BY DEF Orderly, TypeOK, HandlerTypeOK, Book
<1>3. CASE ~Reserves(x) \/ left = 0
  <2>1. k = 0
    <3>1. Kept(x, c, left) = 0
      <4>1. CASE ~Reserves(x)
        BY <4>1, KeptIs
      <4>2. CASE left = 0
        BY <4>2, KeptTyped
      <4> QED BY <1>3, <4>1, <4>2
    <3> QED BY <1>1, <3>1, Zenon
  <2>2. book' = book
    BY <1>1, <1>3 DEF UpdateSpotOnCancel, Reserves
  <2> QED BY <1>2, <2>1, <2>2
<1>4. CASE Reserves(x) /\ left > 0
  <2>1. PICK amount \in Nat : amount = Worth(x, left)
    BY <1>4, ExactAmount DEF Reserves
  <2>2. PICK d \in Currency : d = LockedCurrency(Terms[x])
    BY <1>4, ExactAmount DEF Reserves
  <2>3. Amount(Terms[x], ReportPrice(Terms[x]), left) = amount
    BY <1>4, <2>1, ExactAmount DEF Reserves
  <2>4. book' = Move(book, d, amount, -amount)
    BY <1>1, <1>4, <2>2, <2>3 DEF UpdateSpotOnCancel, Reserves
  <2>5. k = IF c = d THEN amount ELSE 0
    BY <1>1, <1>4, <2>1, <2>2, KeptIs
  <2>6. /\ book'[c].available = book[c].available + (IF c = d THEN amount ELSE 0)
        /\ book'[c].frozen = book[c].frozen + (IF c = d THEN -amount ELSE 0)
        /\ book'[c].reserved = book[c].reserved
    <3>1. -amount \in Int /\ amount \in Int
      OBVIOUS
    <3> QED BY <1>2, <2>4, <3>1, MoveColumns
  <2> QED BY <1>2, <2>5, <2>6
<1> QED BY <1>3, <1>4

(* A rejection gives back what the recovered acceptance froze. *)
LEMMA RejectColumns ==
  ASSUME Orderly, NEW x \in Order, Exact(x), IsSpot(x) => Reserves(x),
         book' = IF IsSpot(x) THEN UpdateSpotOnRejected(book, Terms[x], "CASH") ELSE book,
         NEW c \in Currency, NEW k \in Nat, k = Kept(x, c, Terms[x].volume),
         \/ \A d \in Currency : Kept(x, d, Terms[x].volume) <= book[d].frozen
         \/ \A d \in Currency : Kept(x, d, Terms[x].volume) = 0
  PROVE  /\ book'[c].available = book[c].available + k
         /\ book'[c].frozen = book[c].frozen + -k
         /\ book'[c].reserved = book[c].reserved
<1>1. book \in Book(Currency) /\ book[c] \in [available : Int, frozen : Int, reserved : Nat]
      /\ Terms[x].volume \in Nat
  BY TermsSplit DEF Orderly, TypeOK, HandlerTypeOK, Book
<1>2. CASE ~IsSpot(x)
  <2>1. k = 0
    <3>1. Kept(x, c, Terms[x].volume) = 0
      BY <1>1, <1>2, KeptIs DEF Reserves
    <3> QED BY <3>1, Zenon
  <2> QED BY <1>1, <1>2, <2>1
<1>3. CASE IsSpot(x)
  <2>1. PICK amount \in Nat : amount = Worth(x, Terms[x].volume)
    BY <1>1, <1>3, ExactAmount
  <2>2. PICK d \in Currency : d = LockedCurrency(Terms[x])
    BY <1>1, <1>3, ExactAmount
  <2>3. Amount(Terms[x], ReportPrice(Terms[x]), Terms[x].volume) = amount
    BY <1>1, <1>3, <2>1, ExactAmount
  <2>4. Locks(Terms[x], "CASH")
    BY DEF Locks
  <2>5. book' = IF book[d].frozen >= amount THEN Move(book, d, amount, -amount)
                ELSE Unreserve(book, d, amount)
    BY <1>3, <2>2, <2>3, <2>4 DEF UpdateSpotOnRejected
  <2>6. k = (IF c = d THEN amount ELSE 0) /\ Kept(x, d, Terms[x].volume) = amount
    BY <1>1, <1>3, <2>1, <2>2, KeptIs
  <2>7. /\ Move(book, d, amount, -amount)[c].available = book[c].available + (IF c = d THEN amount ELSE 0)
        /\ Move(book, d, amount, -amount)[c].frozen = book[c].frozen + (IF c = d THEN -amount ELSE 0)
        /\ Move(book, d, amount, -amount)[c].reserved = book[c].reserved
    <3>1. -amount \in Int /\ amount \in Int
      OBVIOUS
    <3> QED BY <1>1, <3>1, MoveColumns
  <2>8. CASE book[d].frozen >= amount
    BY <1>1, <2>5, <2>6, <2>7, <2>8
  <2>9. CASE ~(book[d].frozen >= amount)
    <3>1. amount = 0
      BY <1>1, <2>6, <2>9 DEF Book
    <3>2. /\ Unreserve(book, d, amount)[c].available = book[c].available
          /\ Unreserve(book, d, amount)[c].frozen = book[c].frozen
          /\ Unreserve(book, d, amount)[c].reserved = book[c].reserved + (IF c = d THEN -amount ELSE 0)
      <4>1. amount <= book[c].reserved
        BY <1>1, <3>1
      <4> QED BY <1>1, <4>1, UnreserveColumns
    <3> QED BY <1>1, <2>5, <2>6, <2>9, <3>1, <3>2
  <2> QED BY <2>8, <2>9
<1> QED BY <1>2, <1>3

-----------------------------------------------------------------------------
(* What an order asked for is reserved first, frozen when its acceptance or   *)
(* its recovered rejection is applied, and then spent or given back.          *)

(* Every order but x is kept as it was. *)
OthersKept(x) ==
  \A y \in Order : y # x => /\ applied'[y] = applied[y]
                            /\ (Held(y)' <=> Held(y))
                            /\ (Reserved(y)' <=> Reserved(y))

(* EmitBuy and EmitSell reserve what is asked for. *)
LEMMA BookEmit ==
  ASSUME NEW p \in Prices, Orderly,
         IsFiniteSet(emitted), NEW x \in Order, Emit(x), NEW c \in Currency, BookExact(p, c)
  PROVE  BookExact(p, c)'
<1>0. emitted \subseteq Order /\ Deposit[c] \in Int
  BY DepositAssumption DEF Orderly, TypeOK
<1>1. /\ x \notin emitted /\ emitted' = emitted \cup {x}
      /\ UNCHANGED <<exch, applied, inbox, h>>
      /\ book' = IF Reserves(x) THEN ReserveSpot(book, Terms[x]) ELSE book
  BY DEF Emit, exchangeVars, channelVars
<1>2. PICK T : T = emitted \cup {x}
  OBVIOUS
<1>3. exch[x].st = "unknown" /\ applied[x] = 0
  <2>1. exch[x].st = "unknown"
    BY <1>1 DEF Orderly, EngineInv, Believes, SentOnce
  <2>2. applied[x] <= exch[x].filled /\ applied[x] \in Nat
    BY AppliedIsDone DEF Orderly, AppliedOnce, TypeOK, HandlerTypeOK
  <2>3. exch[x].filled = 0
    BY <2>1 DEF Orderly, Volumes
  <2> QED BY <2>1, <2>2, <2>3
<1>4. \A y \in Order : /\ (Held(y)' <=> Held(y)) /\ (Reserved(y)' <=> Reserved(y))
                       /\ Keeping(y)' = Keeping(y) /\ Awaited(y, c)' = Awaited(y, c)
  <2>1. ToApply' = ToApply
    BY <1>1 DEF ToApply, InHand
  <2>2. \A y \in Order : Recovered(y)' <=> Recovered(y)
    BY <1>1 DEF Recovered
  <2>3. \A y \in Order : (Held(y)' <=> Held(y)) /\ (Reserved(y)' <=> Reserved(y))
    BY <1>1, <2>1, <2>2, HeldSame
  <2> QED BY <1>1, <2>3 DEF Keeping, Awaited
<1>5. PICK all \in Nat : all = Kept(x, c, Terms[x].volume)
  BY TermsSplit, KeptTyped
<1>6. /\ Made(p, x, c, applied[x], Keeping(x)) = 0 /\ Kept(x, c, Keeping(x)) = 0
      /\ Awaited(x, c) = all
  <2>1. ~Held(x) /\ Reserved(x)
    BY <1>3, RecoveredRefused DEF Held, Reserved, Accepted
  <2>2. Keeping(x) = 0
    BY <2>1 DEF Keeping
  <2>3. Made(p, x, c, 0, 0) = 0 /\ Kept(x, c, 0) = 0
    BY MadeTyped
  <2> QED BY <1>3, <1>5, <2>1, <2>2, <2>3 DEF Awaited
<1>7. PICK f, f2 : /\ f = [o \in emitted |-> Made(p, o, c, applied[o], Keeping(o))]
                   /\ f2 = [o \in T |-> Made(p, o, c, applied[o], Keeping(o))]
  OBVIOUS
<1>8. PICK k, k2 : /\ k = [o \in emitted |-> Kept(o, c, Keeping(o))]
                   /\ k2 = [o \in T |-> Kept(o, c, Keeping(o))]
  OBVIOUS
<1>9. PICK w, w2 : /\ w = [o \in emitted |-> Awaited(o, c)]
                   /\ w2 = [o \in T |-> Awaited(o, c)]
  OBVIOUS
<1>10. \A y \in T : /\ Made(p, y, c, applied[y], Keeping(y)) \in Int
                    /\ Kept(y, c, Keeping(y)) \in Int /\ Awaited(y, c) \in Int
  BY <1>0, <1>2, CountedTyped
<1>11. /\ SumFunctionOnSet(f2, T) = SumFunctionOnSet(f, emitted) + f2[x]
       /\ SumFunctionOnSet(f, emitted) \in Int /\ f2[x] = 0
  <2>1. \A y \in T : f2[y] \in Int
    BY <1>7, <1>10
  <2>2. \A y \in emitted : f[y] = f2[y]
    BY <1>2, <1>7
  <2>3. x \notin emitted
    BY <1>1
  <2>4. SumFunctionOnSet(f2, T) = SumFunctionOnSet(f, emitted) + f2[x]
    BY <1>2, <2>1, <2>2, <2>3, SumGrows
  <2>5. \A y \in emitted : f[y] \in Int
    BY <1>2, <2>1, <2>2
  <2>6. f2[x] = 0
    BY <1>2, <1>6, <1>7
  <2> QED BY <2>4, <2>5, <2>6, SumTerm
<1>12. /\ SumFunctionOnSet(k2, T) = SumFunctionOnSet(k, emitted) + k2[x]
       /\ SumFunctionOnSet(k, emitted) \in Int /\ k2[x] = 0
  <2>1. \A y \in T : k2[y] \in Int
    BY <1>8, <1>10
  <2>2. \A y \in emitted : k[y] = k2[y]
    BY <1>2, <1>8
  <2>3. x \notin emitted
    BY <1>1
  <2>4. SumFunctionOnSet(k2, T) = SumFunctionOnSet(k, emitted) + k2[x]
    BY <1>2, <2>1, <2>2, <2>3, SumGrows
  <2>5. \A y \in emitted : k[y] \in Int
    BY <1>2, <2>1, <2>2
  <2>6. k2[x] = 0
    BY <1>2, <1>6, <1>8
  <2> QED BY <2>4, <2>5, <2>6, SumTerm
<1>13. /\ SumFunctionOnSet(w2, T) = SumFunctionOnSet(w, emitted) + w2[x]
       /\ SumFunctionOnSet(w, emitted) \in Int /\ w2[x] = all
  <2>1. \A y \in T : w2[y] \in Int
    BY <1>9, <1>10
  <2>2. \A y \in emitted : w[y] = w2[y]
    BY <1>2, <1>9
  <2>3. x \notin emitted
    BY <1>1
  <2>4. SumFunctionOnSet(w2, T) = SumFunctionOnSet(w, emitted) + w2[x]
    BY <1>2, <2>1, <2>2, <2>3, SumGrows
  <2>5. \A y \in emitted : w[y] \in Int
    BY <1>2, <2>1, <2>2
  <2>6. w2[x] = all
    BY <1>2, <1>6, <1>9
  <2> QED BY <2>4, <2>5, <2>6, SumTerm
<1>14. /\ book'[c].available = book[c].available /\ book'[c].frozen = book[c].frozen
       /\ book'[c].reserved = book[c].reserved + all
  <2>1. book \in Book(Currency) /\ Terms[x].volume \in Nat
    BY TermsSplit DEF Orderly, TypeOK, HandlerTypeOK
  <2>2. CASE Reserves(x)
    <3>1. Asked(x) \in Nat /\ LockedCurrency(Terms[x]) \in Currency
      BY <2>2, AskedTyped
    <3>2. all = IF c = LockedCurrency(Terms[x]) THEN Asked(x) ELSE 0
      BY <1>5, <2>1, <2>2, KeptIs DEF Asked, Worth
    <3> QED BY <1>1, <2>1, <2>2, <3>1, <3>2 DEF ReserveSpot, Book, Asked
  <2>3. CASE ~Reserves(x)
    <3>1. Kept(x, c, Terms[x].volume) = 0
      BY <2>1, <2>3, KeptIs
    <3>2. all = 0
      BY <1>5, <3>1, Zenon
    <3> QED BY <1>1, <2>1, <2>3, <3>2 DEF Book
  <2> QED BY <2>2, <2>3
<1>15. /\ book[c].available = Deposit[c] + SumFunctionOnSet(f, emitted)
       /\ book[c].frozen = SumFunctionOnSet(k, emitted)
       /\ book[c].reserved = SumFunctionOnSet(w, emitted)
  BY <1>7, <1>8, <1>9 DEF BookExact, InAll
<1>16. /\ book'[c].available = Deposit[c] + SumFunctionOnSet(f2, T)
       /\ book'[c].frozen = SumFunctionOnSet(k2, T)
       /\ book'[c].reserved = SumFunctionOnSet(w2, T)
  BY <1>0, <1>11, <1>12, <1>13, <1>14, <1>15
<1>17. /\ f2 = [o \in T |-> Made(p, o, c, applied'[o], Keeping(o)')]
       /\ k2 = [o \in T |-> Kept(o, c, Keeping(o)')]
       /\ w2 = [o \in T |-> Awaited(o, c)']
  <2>1. T \subseteq Order
    BY <1>0, <1>2
  <2> QED BY <1>1, <1>4, <1>7, <1>8, <1>9, <2>1
<1> QED BY <1>1, <1>2, <1>16, <1>17 DEF BookExact, InAll

(* The acceptance of x is applied, or the one its rejection recovers. *)
LEMMA BookFreezes ==
  ASSUME NEW p \in Prices, Orderly,
         IsFiniteSet(emitted), emitted' = emitted, NEW x \in emitted, Exact(x),
         OthersKept(x), applied[x] = 0, applied'[x] = 0,
         ~Held(x), Held(x)', Reserved(x), ~Reserved(x)',
         NEW mode, IsSpot(x) => (Locks(Terms[x], mode) <=> Reserves(x)),
         book' = IF IsSpot(x) THEN UpdateSpotOnNew(book, Terms[x], mode) ELSE book,
         NEW c \in Currency, BookExact(p, c)
  PROVE  BookExact(p, c)'
<1>1. x \in Order
  BY DEF Orderly, TypeOK
<1>2. PICK all \in Nat : all = Terms[x].volume
  BY <1>1, TermsSplit
<1>3. PICK k \in Nat : k = Kept(x, c, all)
  BY <1>1, KeptTyped
<1>4. Keeping(x) = 0 /\ Keeping(x)' = all
  BY <1>2 DEF Keeping
<1>5. Awaited(x, c) = k /\ Awaited(x, c)' = 0
  BY <1>2, <1>3 DEF Awaited
<1>6. k <= book[c].reserved
  BY <1>5, Covers
<1>7. /\ book'[c].available = book[c].available + -k
      /\ book'[c].frozen = book[c].frozen + k
      /\ book'[c].reserved = book[c].reserved + -k
  BY <1>1, <1>2, <1>3, <1>6, NewColumns
<1>8. /\ Made(p, x, c, 0, all) = Made(p, x, c, 0, 0) + -k
      /\ Kept(x, c, all) = Kept(x, c, 0) + k
  <2>1. \A n \in Nat : Made(p, x, c, n, all) = Made(p, x, c, n, 0) + -Kept(x, c, all)
    BY <1>1, MadeByFreezing
  <2>2. Kept(x, c, all) = Kept(x, c, 0) + Kept(x, c, all)
    BY <1>1, MadeByFreezing
  <2> QED BY <1>3, <2>1, <2>2
<1>9. /\ Made(p, x, c, applied'[x], Keeping(x)') = Made(p, x, c, applied[x], Keeping(x)) + -k
      /\ Kept(x, c, Keeping(x)') = Kept(x, c, Keeping(x)) + k
      /\ Awaited(x, c)' = Awaited(x, c) + -k
  BY <1>4, <1>5, <1>8
<1>10. -k \in Int /\ k \in Int
  OBVIOUS
<1> QED BY <1>7, <1>9, <1>10, BookMoves DEF OthersKept

(* A fill of x is applied. *)
LEMMA BookFills ==
  ASSUME NEW p \in Prices, Orderly,
         IsFiniteSet(emitted), emitted' = emitted, NEW x \in emitted,
         OthersKept(x), NEW n \in Nat, applied'[x] = applied[x] + n,
         NEW left \in Nat, Keeping(x) = left + n, Keeping(x)' = left,
         ~Reserved(x), ~Reserved(x)',
         NEW avg \in Nat, NEW fee,
         IsSpot(x) => fee = 0,
         IsSpot(x) /\ Terms[x].side = "BUY" => avg = Terms[x].price,
         IsSpot(x) /\ Terms[x].side = "SELL" => avg = p[x],
         NEW mode, IsSpot(x) => (Locks(Terms[x], mode) <=> Reserves(x)),
         book' = IF IsSpot(x) THEN UpdateSpotOnFill(book, Terms[x], mode, n, avg, fee) ELSE book,
         NEW c \in Currency, BookExact(p, c)
  PROVE  BookExact(p, c)'
<1>1. x \in Order
  BY DEF Orderly, TypeOK
<1>2. PICK m \in Nat : m = applied[x]
  BY <1>1 DEF Orderly, TypeOK, HandlerTypeOK
<1>3. PICK k \in Nat : k = Kept(x, c, n)
  BY <1>1, KeptTyped
<1>4. PICK e \in Nat : e = Gain(p, x, c, n)
  BY <1>1, GainTyped
<1>5. /\ book'[c].available = book[c].available + e
      /\ book'[c].frozen = book[c].frozen + -k
      /\ book'[c].reserved = book[c].reserved
  <2>1. /\ book'[c].available = book[c].available + Gain(p, x, c, n)
        /\ book'[c].frozen = book[c].frozen + -Kept(x, c, n)
        /\ book'[c].reserved = book[c].reserved
    BY <1>1, FillColumns
  <2> QED BY <1>3, <1>4, <2>1
<1>6. PICK sum, rest : sum = m + n /\ rest = left + n
  OBVIOUS
<1>7. /\ Made(p, x, c, sum, left) = Made(p, x, c, m, rest) + Gain(p, x, c, n)
      /\ Kept(x, c, left) = Kept(x, c, rest) + -Kept(x, c, n)
  <2>1. /\ Kept(x, c, m + n) = Kept(x, c, m) + Kept(x, c, n)
        /\ Kept(x, c, left + n) = Kept(x, c, left) + Kept(x, c, n)
    <3>1. \A i, j \in Nat : Kept(x, c, i + j) = Kept(x, c, i) + Kept(x, c, j)
      BY <1>1, KeptTyped
    <3> QED BY <3>1
  <2>2. Gain(p, x, c, m + n) = Gain(p, x, c, m) + Gain(p, x, c, n)
    BY <1>1, GainAdds
  <2>3. /\ Kept(x, c, m) \in Nat /\ Kept(x, c, n) \in Nat /\ Kept(x, c, left) \in Nat
        /\ Gain(p, x, c, m) \in Nat /\ Gain(p, x, c, n) \in Nat
    BY <1>1, KeptTyped, GainTyped
  <2>4. /\ Kept(x, c, sum) = Kept(x, c, m) + Kept(x, c, n)
        /\ Kept(x, c, rest) = Kept(x, c, left) + Kept(x, c, n)
        /\ Gain(p, x, c, sum) = Gain(p, x, c, m) + Gain(p, x, c, n)
    BY <1>6, <2>1, <2>2
  <2> QED BY <2>3, <2>4 DEF Made
<1>8. /\ Made(p, x, c, applied'[x], Keeping(x)') = Made(p, x, c, applied[x], Keeping(x)) + e
      /\ Kept(x, c, Keeping(x)') = Kept(x, c, Keeping(x)) + -k
  BY <1>2, <1>3, <1>4, <1>6, <1>7
<1>9. Awaited(x, c)' = Awaited(x, c) + 0 /\ book'[c].reserved = book[c].reserved + 0
  <2>1. book[c].reserved \in Nat
    BY DEF Orderly, TypeOK, HandlerTypeOK, Book
  <2> QED BY <1>5, <2>1 DEF Awaited
<1>10. -k \in Int /\ e \in Int /\ 0 \in Int
  OBVIOUS
<1> QED BY <1>5, <1>8, <1>9, <1>10, BookMoves DEF OthersKept

(* What is left of x is given back. *)
LEMMA BookReturns ==
  ASSUME NEW p \in Prices, Orderly,
         IsFiniteSet(emitted), emitted' = emitted, NEW x \in emitted,
         OthersKept(x), applied'[x] = applied[x], NEW left \in Nat, Keeping(x) = left, Keeping(x)' = 0,
         ~Reserved(x), ~Reserved(x)',
         NEW c \in Currency, BookExact(p, c), NEW k \in Nat, k = Kept(x, c, left),
         book'[c].available = book[c].available + k,
         book'[c].frozen = book[c].frozen + -k,
         book'[c].reserved = book[c].reserved
  PROVE  BookExact(p, c)'
<1>1. x \in Order
  BY DEF Orderly, TypeOK
<1>2. PICK m \in Nat : m = applied[x]
  BY <1>1 DEF Orderly, TypeOK, HandlerTypeOK
<1>3. /\ Made(p, x, c, m, 0) = Made(p, x, c, m, left) + Kept(x, c, left)
      /\ Kept(x, c, 0) = Kept(x, c, left) + -Kept(x, c, left)
  <2>1. /\ Gain(p, x, c, m) \in Nat /\ Kept(x, c, m) \in Nat /\ Kept(x, c, left) \in Nat
        /\ Kept(x, c, 0) = 0
    BY <1>1, KeptTyped, GainTyped
  <2> QED BY <2>1 DEF Made
<1>4. /\ Made(p, x, c, applied'[x], Keeping(x)') = Made(p, x, c, applied[x], Keeping(x)) + k
      /\ Kept(x, c, Keeping(x)') = Kept(x, c, Keeping(x)) + -k
  BY <1>2, <1>3
<1>5. Awaited(x, c)' = Awaited(x, c) + 0 /\ book'[c].reserved = book[c].reserved + 0
  <2>1. book[c].reserved \in Nat
    BY DEF Orderly, TypeOK, HandlerTypeOK, Book
  <2> QED BY <2>1 DEF Awaited
<1>6. -k \in Int /\ k \in Int /\ 0 \in Int
  OBVIOUS
<1> QED BY <1>4, <1>5, <1>6, BookMoves DEF OthersKept

(* Nothing was asked for x and nothing is moved. *)
LEMMA BookNothing ==
  ASSUME NEW p \in Prices, Orderly,
         IsFiniteSet(emitted), emitted' = emitted, NEW x \in emitted,
         OthersKept(x), applied'[x] = applied[x], Keeping(x) = 0, Keeping(x)' = 0,
         ~Reserved(x)', NEW c \in Currency, BookExact(p, c), Kept(x, c, Terms[x].volume) = 0,
         book'[c].available = book[c].available,
         book'[c].frozen = book[c].frozen,
         book'[c].reserved = book[c].reserved
  PROVE  BookExact(p, c)'
<1>1. x \in Order /\ book[c].available \in Int /\ book[c].frozen \in Int /\ book[c].reserved \in Int
  BY DEF Orderly, TypeOK, HandlerTypeOK, Book
<1>2. /\ Made(p, x, c, applied[x], Keeping(x)) \in Int /\ Kept(x, c, Keeping(x)) \in Int
  BY <1>1, CountedTyped
<1>3. Awaited(x, c)' = Awaited(x, c) + 0
  BY DEF Awaited
<1>4. /\ Made(p, x, c, applied'[x], Keeping(x)') = Made(p, x, c, applied[x], Keeping(x)) + 0
      /\ Kept(x, c, Keeping(x)') = Kept(x, c, Keeping(x)) + 0
  BY <1>2
<1>5. /\ book'[c].available = book[c].available + 0 /\ book'[c].frozen = book[c].frozen + 0
      /\ book'[c].reserved = book[c].reserved + 0 /\ 0 \in Int
  BY <1>1
<1> QED BY <1>3, <1>4, <1>5, BookMoves DEF OthersKept

-----------------------------------------------------------------------------
(* HandleOrderUpdate applies the acceptance that never came.                  *)
LEMMA BookRecover ==
  ASSUME NEW p \in Prices, Orderly, Orderly',
         IsFiniteSet(emitted), TablesExact, \A o \in emitted : Exact(o),
         Handle(Listener), RecoverBook(Listener), NEW c \in Currency, BookExact(p, c)
  PROVE  BookExact(p, c)'
<1>1. UNCHANGED <<inbox, exch, emitted>> /\ ~Idle(Listener)
  BY InsideFrame
<1>2. PICK r \in Report : r = h[Listener].report
  BY InsideFrame
<1>3. PICK x \in Order : x = r.order
  BY DEF Report
<1>4. /\ applied' = applied
      /\ book' = IF IsSpot(x) THEN UpdateSpotOnNew(book, Terms[x], r.mode) ELSE book
      /\ h[Listener].pc = "recover" /\ h'[Listener].pc = "relive" /\ h'[Listener].report = r
  BY <1>1, <1>2, <1>3, Gone DEF RecoverBook, At
<1>5. r.status = "REJECTED" /\ Holds(x)
  BY <1>2, <1>3, <1>4 DEF TablesExact, RecoversRefusals
<1>6. InHand /\ ToApply' = ToApply
  BY <1>1, <1>2, <1>4 DEF ToApply, InHand
<1>7. r \in ToApply /\ exch[x].st = "refused"
  BY <1>2, <1>3, <1>5, <1>6, HandKnown DEF TablesExact
<1>8. r.mode = "CASH"
  BY <1>5, <1>7 DEF TablesExact, Whole
<1>9. applied[x] = 0
  <2>1. applied[x] \in Nat /\ applied[x] <= exch[x].filled
    BY AppliedIsDone DEF Orderly, AppliedOnce, TypeOK, HandlerTypeOK
  <2>2. exch[x].filled = 0
    BY <1>7 DEF Orderly, Volumes
  <2> QED BY <2>1, <2>2
<1>10. x \in emitted
  BY <1>7 DEF Orderly, EngineInv, Believes, SentOnce
<1>11. OthersKept(x)
  <2>1. \A y \in Order : y # x => (Recovered(y)' <=> Recovered(y))
    BY <1>2, <1>3, <1>4 DEF Recovered
  <2> QED BY <1>1, <1>4, <1>6, <2>1, HeldSame DEF OthersKept
<1>12. ~Recovered(x) /\ Recovered(x)'
  BY <1>3, <1>4, <1>5 DEF Recovered, Holds, Reserves, IsSpot, Asked
<1>13. ~NewIn(ToApply, x) /\ EndIn(ToApply, x)
  <2>1. \A s \in ToApply : TrueReport(s)
    BY ReportKnown
  <2> QED BY <1>3, <1>5, <1>7, <2>1 DEF NewIn, EndIn, TrueReport, Accepted, Terminal
<1>14. ~Held(x) /\ Held(x)' /\ Reserved(x) /\ ~Reserved(x)'
  <2>1. ~NewIn(ToApply, x)'
    BY <1>6, <1>13 DEF NewIn
  <2> QED BY <1>1, <1>7, <1>12, <1>13, <2>1 DEF Held, Reserved, Accepted
<1>15. IsSpot(x) => (Locks(Terms[x], r.mode) <=> Reserves(x))
  BY <1>5, <1>8 DEF Holds, Locks
<1> QED BY <1>1, <1>4, <1>9, <1>10, <1>11, <1>14, <1>15, BookFreezes

-----------------------------------------------------------------------------
(* The report r, about order x, is applied to the books: it is the first      *)
(* about x that was to be applied, and no other order is touched.             *)
Applying(r, x) ==
  /\ r = h[Listener].report /\ r.order = x /\ r.status \in Status /\ TrueReport(r) /\ ExactReport(r)
  /\ InHand /\ h[Listener].pc = "apply" /\ UNCHANGED <<inbox, exch, emitted>> /\ OthersKept(x)
  /\ book' = IF IsSpot(x) THEN ApplySpot(r) ELSE book
  /\ tracker[x] = applied[x] /\ applied[x] <= r.filled /\ r.filled <= exch[x].filled
  /\ applied'[x] = IF r.status \in Filling THEN r.filled ELSE applied[x]
  /\ r \in ToApply /\ ~NewIn(ToApply, x)' /\ (r.status # "NEW" => ~NewIn(ToApply, x))
  /\ Closed(x) => EndIn(ToApply, x)
  /\ Closed(x) => (EndIn(ToApply, x)' <=> r.status \notin Terminal)
  /\ ~Recovered(x)' /\ (Recovered(x) <=> r.status = "REJECTED" /\ Holds(x))
  /\ \A s \in ToApply : s # r => s \in Range(inbox)

(* The listener, at the point of applying a report, has an emitted order's in *)
(* hand.                                                                      *)
LEMMA ApplyIs ==
  ASSUME Orderly, Orderly', TablesExact, Handle(Listener), Apply(Listener)
  PROVE  \E r \in Report, x \in emitted : Applying(r, x)
<1>1. UNCHANGED <<inbox, exch, emitted>> /\ ~Idle(Listener)
  BY InsideFrame
<1>2. PICK r \in Report : r = h[Listener].report
  BY InsideFrame
<1>3. PICK x \in Order : x = r.order
  BY DEF Report
<1>4. /\ book' = IF IsSpot(x) THEN ApplySpot(r) ELSE book
      /\ applied' = [applied EXCEPT ![x] =
                       IF r.status \in Filling THEN @ + AtLeast0(Increment(r)) ELSE @]
      /\ h[Listener].pc = "apply" /\ h'[Listener].pc = "tell"
  BY <1>1, <1>2, <1>3, Gone DEF Apply, At
<1>5. InHand /\ ~InHand'
  BY <1>4 DEF InHand
<1>6. ToApply = Range(inbox) \cup {r} /\ ToApply' = Range(inbox)
  BY <1>1, <1>2, <1>5 DEF ToApply
<1>7. /\ r \in ToApply /\ TrueReport(r) /\ ExactReport(r) /\ r.status \in Status
      /\ exch[x].st # "unknown"
      /\ r.filled \in Nat /\ applied[x] \in Nat /\ tracker[x] \in Nat
      /\ applied \in [Order -> Nat]
  <2>1. r \in ToApply
    BY <1>6
  <2>2. TrueReport(r) /\ ExactReport(r) /\ r.status \in Status /\ r.filled \in Nat
        /\ exch[x].st # "unknown"
    BY <1>3, <2>1, ReportKnown
  <2> QED BY <2>1, <2>2 DEF Orderly, TypeOK, HandlerTypeOK
<1>8. tracker[x] = applied[x] /\ applied[x] <= r.filled /\ r.filled <= exch[x].filled
  <2>1. Following(x)
    BY <1>3, <1>7 DEF Orderly, AppliedInv, Ended
  <2> QED BY <1>3, <1>7, <2>1 DEF Following, TrueReport
<1>9. applied'[x] = IF r.status \in Filling THEN r.filled ELSE applied[x]
  BY <1>3, <1>4, <1>7, <1>8 DEF Increment, AtLeast0
<1>10. x \in emitted
  BY <1>7 DEF Orderly, EngineInv, Believes, SentOnce
<1>11. OthersKept(x)
  <2> SUFFICES ASSUME NEW y \in Order, y # x
               PROVE  /\ applied'[y] = applied[y]
                      /\ (Held(y)' <=> Held(y)) /\ (Reserved(y)' <=> Reserved(y))
    BY DEF OthersKept
  <2>1. applied'[y] = applied[y]
    BY <1>4, <1>7
  <2>2. ~Recovered(y) /\ ~Recovered(y)'
    BY <1>2, <1>3, <1>4 DEF Recovered
  <2>3. (NewIn(ToApply, y)' <=> NewIn(ToApply, y)) /\ (EndIn(ToApply, y)' <=> EndIn(ToApply, y))
    BY <1>3, <1>6 DEF NewIn, EndIn
  <2> QED BY <1>1, <2>1, <2>2, <2>3 DEF Held, Reserved, Accepted, Closed
<1>12. /\ ~NewIn(Range(inbox), x)
       /\ r.status \in Terminal => ~EndIn(Range(inbox), x)
       /\ Closed(x) /\ r.status \notin Terminal => EndIn(Range(inbox), x)
  BY <1>2, <1>3, <1>5, HandKnown DEF TablesExact
<1>13. ~NewIn(ToApply, x)' /\ (r.status # "NEW" => ~NewIn(ToApply, x))
  BY <1>1, <1>6, <1>12 DEF NewIn
<1>14. /\ Closed(x) => EndIn(ToApply, x)
       /\ Closed(x) => (EndIn(ToApply, x)' <=> r.status \notin Terminal)
  BY <1>1, <1>3, <1>6, <1>12 DEF EndIn
<1>15. ~Recovered(x)' /\ (Recovered(x) <=> r.status = "REJECTED" /\ Holds(x))
  BY <1>2, <1>3, <1>4 DEF Recovered
<1>16. Applying(r, x)
  BY <1>1, <1>2, <1>3, <1>4, <1>5, <1>6, <1>7, <1>8, <1>9, <1>11, <1>13, <1>14, <1>15 DEF Applying
<1> QED BY <1>10, <1>16

(* A NEW applied moves the reservation to the frozen amount. *)
LEMMA BookApplyNew ==
  ASSUME NEW p \in Prices, Orderly,
         IsFiniteSet(emitted), TablesExact, NEW x \in emitted, Exact(x),
         NEW r \in Report, Applying(r, x), r.status = "NEW", NEW c \in Currency, BookExact(p, c)
  PROVE  BookExact(p, c)'
<1>1. x \in Order /\ applied[x] \in Nat
  BY DEF Orderly, TypeOK, HandlerTypeOK
<1>2. applied[x] = 0 /\ applied'[x] = 0
  <2>1. r.filled = 0
    BY DEF Applying, TablesExact, Whole
  <2> QED BY <1>1, <2>1 DEF Applying, Filling
<1>3. Accepted(x) /\ NewIn(ToApply, x) /\ ~Recovered(x)
  BY DEF Applying, TrueReport, NewIn
<1>4. ~Held(x) /\ Held(x)' /\ Reserved(x) /\ ~Reserved(x)'
  BY <1>3 DEF Applying, Held, Reserved, Accepted, Closed, Terminal
<1>5. /\ IsSpot(x) => (Locks(Terms[x], r.mode) <=> Reserves(x))
      /\ book' = IF IsSpot(x) THEN UpdateSpotOnNew(book, Terms[x], r.mode) ELSE book
      /\ OthersKept(x) /\ emitted' = emitted
  BY DEF Applying, ExactReport, Reserves, ApplySpot
<1> QED BY <1>2, <1>4, <1>5, BookFreezes

(* A fill applied pays from the frozen amount the part not applied before. *)
LEMMA BookApplyFill ==
  ASSUME NEW p \in Prices, Orderly,
         IsFiniteSet(emitted), TablesExact, NEW x \in emitted, Exact(x), FeeFree(x), SoldAt(p),
         NEW r \in Report, Applying(r, x), r.status \in Filling, NEW c \in Currency, BookExact(p, c)
  PROVE  BookExact(p, c)'
<1>1. /\ x \in Order /\ applied[x] \in Nat /\ r.filled \in Nat /\ Terms[x].volume \in Nat
      /\ exch[x].filled \in Nat /\ exch[x].filled <= Terms[x].volume
  BY TermsSplit DEF Orderly, TypeOK, HandlerTypeOK, Report, Volumes
<1>2. PICK n \in Nat : n = Increment(r) /\ applied'[x] = applied[x] + n
  BY <1>1 DEF Applying, Increment
<1>3. PICK left \in Nat : left = Terms[x].volume - r.filled
  BY <1>1 DEF Applying
<1>4. Accepted(x)
  BY DEF Applying, TrueReport, Filling, Accepted
<1>5. Held(x) /\ ~Reserved(x) /\ ~Reserved(x)'
  BY <1>4 DEF Applying, Held, Reserved, Accepted, Filling
<1>6. Keeping(x) = left + n
  BY <1>1, <1>2, <1>3, <1>5 DEF Keeping, Applying, Increment
<1>7. Keeping(x)' = left
  <2>1. CASE r.status = "FILLED"
    <3>1. Closed(x)
      BY <2>1 DEF Applying, TrueReport, Closed
    <3>2. ~Held(x)'
      BY <2>1, <3>1 DEF Applying, Held, Closed, Terminal
    <3>3. r.filled = Terms[x].volume
      BY <1>1, <2>1 DEF Applying, TrueReport, TablesExact, Whole
    <3> QED BY <1>1, <1>3, <3>2, <3>3 DEF Keeping
  <2>2. CASE r.status = "PARTIALLY_FILLED"
    <3>1. Held(x)'
      BY <1>4, <2>2 DEF Applying, Held, Accepted, Closed, Terminal
    <3> QED BY <1>1, <1>3, <3>1 DEF Keeping, Applying
  <2> QED BY <2>1, <2>2 DEF Filling
<1>8. /\ IsSpot(x) => (Locks(Terms[x], r.mode) <=> Reserves(x))
      /\ book' = IF IsSpot(x) THEN UpdateSpotOnFill(book, Terms[x], r.mode, n, r.avg, r.fee) ELSE book
      /\ OthersKept(x) /\ emitted' = emitted
  BY <1>2 DEF Applying, ExactReport, Reserves, ApplySpot, Filling
<1>9. r.avg \in Nat /\ PricedReport(r) /\ r.order = x
  BY DEF Applying, ExactReport, Report
<1>10. IsSpot(x) => r.fee = 0
  BY <1>9 DEF PricedReport
<1>11. IsSpot(x) /\ Terms[x].side = "BUY" => r.avg = Terms[x].price
  <2>1. IsSpot(x) /\ Terms[x].side = "BUY" => FilledAt(x, Terms[x].price) /\ Terms[x].price \in Nat
    BY <1>1, TermsSplit DEF Exact, AsAsked, FilledAt, SpotTerms
  <2> QED BY <1>9, <2>1 DEF PricedReport
<1>12. IsSpot(x) /\ Terms[x].side = "SELL" => r.avg = p[x]
  <2>1. IsSpot(x) /\ Terms[x].side = "SELL" => FilledAt(x, p[x]) /\ p[x] \in Nat
    BY <1>1 DEF SoldAt, FilledAt, Prices
  <2> QED BY <1>9, <2>1 DEF PricedReport
<1>13. PICK avg, fee : avg = r.avg /\ fee = r.fee
  OBVIOUS
<1>14. /\ avg \in Nat
       /\ IsSpot(x) => fee = 0
       /\ IsSpot(x) /\ Terms[x].side = "BUY" => avg = Terms[x].price
       /\ IsSpot(x) /\ Terms[x].side = "SELL" => avg = p[x]
       /\ book' = IF IsSpot(x) THEN UpdateSpotOnFill(book, Terms[x], r.mode, n, avg, fee) ELSE book
  BY <1>8, <1>9, <1>10, <1>11, <1>12, <1>13
<1> QED BY <1>2, <1>5, <1>6, <1>7, <1>8, <1>14, BookFills

(* A cancellation applied gives back what is kept. *)
LEMMA BookApplyCancel ==
  ASSUME NEW p \in Prices, Orderly,
         IsFiniteSet(emitted), TablesExact, NEW x \in emitted, Exact(x),
         NEW r \in Report, Applying(r, x), r.status = "CANCELLED", NEW c \in Currency, BookExact(p, c)
  PROVE  BookExact(p, c)'
<1>1. /\ x \in Order /\ applied[x] \in Nat /\ r.filled \in Nat /\ Terms[x].volume \in Nat
      /\ exch[x].filled \in Nat /\ exch[x].filled <= Terms[x].volume
  BY TermsSplit DEF Orderly, TypeOK, HandlerTypeOK, Report, Volumes
<1>2. exch[x].st = "cancelled" /\ r.filled = exch[x].filled
  BY DEF Applying, TrueReport, ExactReport
<1>3. applied[x] = r.filled /\ applied'[x] = applied[x]
  <2>1. CaughtUp(x)
    BY <1>1 DEF TablesExact
  <2>2. ~ \E s \in ToApply : s.order = x /\ s.status \in Filling
    <3> SUFFICES ASSUME NEW s \in ToApply, s.order = x, s.status \in Filling PROVE FALSE
      OBVIOUS
    <3>1. s \in Range(inbox)
      BY DEF Applying, Filling
    <3>2. Before(r, s)
      BY <3>1 DEF Applying, Orderly, AppliedInv, InOrder
    <3> QED BY <3>2 DEF Before, Applying, Terminal
  <2> QED BY <1>2, <2>1, <2>2 DEF CaughtUp, Applying, Filling
<1>4. PICK left \in Nat : left = Terms[x].volume - r.filled
  BY <1>1, <1>2
<1>5. Held(x) /\ ~Held(x)' /\ ~Reserved(x) /\ ~Reserved(x)'
  BY <1>2 DEF Applying, Held, Reserved, Accepted, Closed, Terminal
<1>6. Keeping(x) = left /\ Keeping(x)' = 0
  BY <1>3, <1>4, <1>5 DEF Keeping
<1>7. /\ IsSpot(x) => (Locks(Terms[x], r.mode) <=> Reserves(x))
      /\ book' = IF IsSpot(x) THEN UpdateSpotOnCancel(book, Terms[x], r.mode, r.filled) ELSE book
      /\ OthersKept(x) /\ emitted' = emitted
  BY DEF Applying, ExactReport, Reserves, ApplySpot
<1>8. PICK k \in Nat : k = Kept(x, c, left)
  BY <1>1, KeptTyped
<1>9. /\ book'[c].available = book[c].available + k
      /\ book'[c].frozen = book[c].frozen + -k
      /\ book'[c].reserved = book[c].reserved
  <2>1. k = Kept(x, c, Unfilled(x, r.filled))
    BY <1>4, <1>8 DEF Unfilled
  <2>2. r.filled <= Terms[x].volume
    BY <1>1, <1>2
  <2> QED BY <1>1, <1>7, <2>1, <2>2, CancelColumns
<1> QED BY <1>3, <1>5, <1>6, <1>7, <1>8, <1>9, BookReturns

(* A rejection applied gives back the reservation, or what its recovery has   *)
(* frozen.                                                                    *)
LEMMA BookApplyReject ==
  ASSUME NEW p \in Prices, Orderly,
         IsFiniteSet(emitted), TablesExact, Undisturbed, NEW x \in emitted, Exact(x),
         NEW r \in Report, Applying(r, x), r.status = "REJECTED",
         \A d \in Currency : BookExact(p, d), NEW c \in Currency
  PROVE  BookExact(p, c)'
<1>1. x \in Order /\ applied[x] \in Nat /\ Terms[x].volume \in Nat
  BY TermsSplit DEF Orderly, TypeOK, HandlerTypeOK
<1>2. exch[x].st = "refused" /\ exch[x].filled = 0
  BY <1>1 DEF Applying, TrueReport, Orderly, Volumes
<1>3. applied[x] = 0 /\ applied'[x] = applied[x]
  <2>1. applied[x] <= exch[x].filled
    BY <1>1, AppliedIsDone DEF Orderly, AppliedOnce
  <2> QED BY <1>1, <1>2, <2>1 DEF Applying, Filling
<1>4. IsSpot(x) => Reserves(x)
  BY <1>1, <1>2 DEF Undisturbed
<1>5. Closed(x) /\ ~Accepted(x)
  BY <1>2 DEF Closed, Accepted
<1>6. /\ Held(x) <=> Holds(x)
      /\ ~Held(x)' /\ ~Reserved(x)' /\ (Holds(x) => ~Reserved(x))
  BY <1>2, <1>5 DEF Applying, Held, Reserved, Accepted, Terminal
<1>7. /\ book' = IF IsSpot(x) THEN UpdateSpotOnRejected(book, Terms[x], "CASH") ELSE book
      /\ OthersKept(x) /\ emitted' = emitted
  BY DEF Applying, ApplySpot, TablesExact, Whole
<1>8. PICK k \in Nat : k = Kept(x, c, Terms[x].volume)
  BY <1>1, KeptTyped
<1>9. Keeping(x)' = 0
  BY <1>6 DEF Keeping
<1>10. CASE Holds(x)
  <2>1. Keeping(x) = Terms[x].volume
    BY <1>1, <1>3, <1>6, <1>10 DEF Keeping
  <2>2. \A d \in Currency : Kept(x, d, Terms[x].volume) <= book[d].frozen
    BY <2>1, Covers
  <2>3. /\ book'[c].available = book[c].available + k
        /\ book'[c].frozen = book[c].frozen + -k
        /\ book'[c].reserved = book[c].reserved
    BY <1>1, <1>4, <1>7, <1>8, <2>2, RejectColumns
  <2> QED BY <1>1, <1>3, <1>6, <1>7, <1>8, <1>9, <1>10, <2>1, <2>3, BookReturns
<1>11. CASE ~Holds(x)
  <2>1. \A d \in Currency : Kept(x, d, Terms[x].volume) = 0
    <3> SUFFICES ASSUME NEW d \in Currency PROVE Kept(x, d, Terms[x].volume) = 0
      OBVIOUS
    <3>1. CASE Locking(x, d)
      <4>1. Kept(x, d, Terms[x].volume) = Asked(x) /\ Asked(x) \in Nat
        BY <1>1, <3>1, KeptTyped
      <4>2. ~(Asked(x) > 0)
        BY <1>11, <3>1 DEF Holds, Locking
      <4> QED BY <4>1, <4>2
    <3>2. CASE ~Locking(x, d)
      BY <3>2 DEF Kept
    <3> QED BY <3>1, <3>2
  <2>2. k = 0 /\ book[c] \in [available : Int, frozen : Int, reserved : Nat]
    BY <1>8, <2>1 DEF Orderly, TypeOK, HandlerTypeOK, Book
  <2>3. /\ book'[c].available = book[c].available + k
        /\ book'[c].frozen = book[c].frozen + -k
        /\ book'[c].reserved = book[c].reserved
    BY <1>1, <1>4, <1>7, <1>8, <2>1, RejectColumns
  <2>4. Keeping(x) = 0
    BY <1>6, <1>11 DEF Keeping
  <2> QED BY <1>3, <1>6, <1>7, <1>9, <2>1, <2>2, <2>3, <2>4, BookNothing
<1> QED BY <1>10, <1>11

(* The report in hand is applied to the book. *)
LEMMA BookApply ==
  ASSUME NEW p \in Prices, Orderly, Orderly',
         IsFiniteSet(emitted), TablesExact, Undisturbed,
         SoldAt(p),
         \A o \in emitted : Exact(o) /\ FeeFree(o), Handle(Listener), Apply(Listener),
         \A d \in Currency : BookExact(p, d), NEW c \in Currency
  PROVE  BookExact(p, c)'
<1>1. PICK r \in Report, x \in emitted : Applying(r, x)
  BY ApplyIs
<1>2. \/ r.status = "NEW" \/ r.status \in Filling
      \/ r.status = "CANCELLED" \/ r.status = "REJECTED"
  BY <1>1 DEF Applying, Status, Filling, Terminal
<1>3. Exact(x) /\ FeeFree(x) /\ BookExact(p, c)
  OBVIOUS
<1> QED BY <1>1, <1>2, <1>3, BookApplyNew, BookApplyFill, BookApplyCancel, BookApplyReject

-----------------------------------------------------------------------------
(* What was not lost, pushed, refused or emitted now was not before either.   *)
LEMMA PlainBefore ==
  ASSUME Orderly, [ChannelNext]_vars, Plain'
  PROVE  Plain
<1>1. drops = 0
  <2>1. drops' = drops \/ drops' = drops + 1
    BY DEF ChannelNext, ExchangeStep, ListenerStep, Emit, Dispatch, Send, Accept, Refuse, PushBalance,
           Trade, Cancel, Drop, Reconnect, Receive, ApplyBalance, Handle, vars, channelVars
  <2> QED BY <2>1 DEF Orderly, TypeOK, Plain, AsBooked
<1>2. /\ Grows /\ pushes <= pushes' /\ pushes \in Nat
      /\ \A o \in Order : exch[o].deals \subseteq exch'[o].deals
  BY OnlyGrows, BoundsAssumption DEF Orderly, EngineInv, Believes, TypeOK
<1>3. Undisturbed
  <2>1. pushes = 0
    BY <1>2 DEF Plain, AsBooked, Undisturbed
  <2> QED BY <1>2, <2>1 DEF Plain, AsBooked, Undisturbed, Grows, Reserves, IsSpot
<1>4. emitted \subseteq emitted' /\ emitted \subseteq Order
  BY DEF ChannelNext, ExchangeStep, ListenerStep, Emit, Dispatch, Send, Accept, Refuse, PushBalance,
         Trade, Cancel, Drop, Reconnect, Receive, ApplyBalance, Handle, vars, strategyVars, Orderly, TypeOK
<1>5. ASSUME NEW o \in emitted PROVE Exact(o) /\ FeeFree(o)
  <2>1. Exact(o)' /\ FeeFree(o)' /\ exch[o].deals \subseteq exch'[o].deals
    BY <1>2, <1>4 DEF Plain, AsBooked
  <2>2. (AsAsked(o)' => AsAsked(o)) /\ (OnePrice(o)' => OnePrice(o)) /\ FeeFree(o)
    BY <2>1 DEF AsAsked, OnePrice, FeeFree
  <2> QED BY <2>1, <2>2 DEF Exact, IsSpot
<1> QED BY <1>1, <1>3, <1>5 DEF Plain, AsBooked

(* A price all the deals were made at, those made before were made at.        *)
LEMMA SoldBefore ==
  ASSUME Orderly, [ChannelNext]_vars, NEW p \in Prices, SoldAt(p)'
  PROVE  SoldAt(p)
<1>1. \A o \in Order : exch[o].deals \subseteq exch'[o].deals
  BY OnlyGrows DEF Orderly, EngineInv, Believes
<1> QED BY <1>1 DEF SoldAt, IsSpot

(* There are prices the sells are filled at: those of their deals.            *)
LEMMA PricesFound ==
  ASSUME Orderly, Plain
  PROVE  \E p \in Prices : SoldAt(p) /\ p = [o \in Order |-> SalePrice(o)]
<1>1. PICK p : p = [o \in Order |-> SalePrice(o)]
  OBVIOUS
<1>2. ASSUME NEW o \in Order PROVE SalePrice(o) \in Nat
  <2>1. exch[o].deals \subseteq Deal
    BY DEF Orderly, TypeOK
  <2> QED BY <2>1 DEF SalePrice, Deal
<1>3. p \in Prices
  BY <1>1, <1>2 DEF Prices
<1>4. ASSUME NEW o \in Order, IsSpot(o), Terms[o].side = "SELL", NEW d \in exch[o].deals
      PROVE  d.price = p[o]
  <2>1. o \in emitted
    BY <1>4 DEF Orderly, EngineInv, Believes, SentOnce, Volumes
  <2>2. OnePrice(o)
    BY <1>4, <2>1 DEF Plain, AsBooked, Exact
  <2> QED BY <1>1, <1>4, <2>2 DEF OnePrice, SalePrice
<1> QED BY <1>1, <1>3, <1>4 DEF SoldAt

(* Nothing but a report moves the books after what is emitted reserves. *)
LEMMA OnlyReports ==
  ASSUME LedgerInv, [ChannelNext]_vars, Plain'
  PROVE  \/ \E o \in Order : Emit(o)
         \/ \E channel \in Channel, r \in Report, o \in Order : Said(channel, r, o)
         \/ Receive \/ Handle(Listener) \/ Dispatch \/ Send \/ Reconnect \/ UNCHANGED vars
<1>1. Orderly /\ Plain
  BY PlainBefore DEF LedgerInv
<1>2. ~Drop
  BY <1>1 DEF Drop, Orderly, TypeOK, Plain, AsBooked
<1>3. \A c \in Currency : ~PushBalance(c)
  BY <1>1 DEF PushBalance, Plain, AsBooked, Undisturbed
<1>4. ~ApplyBalance
  BY <1>1 DEF ApplyBalance, LedgerInv, Plain, AsBooked, Undisturbed
<1>5. ASSUME \/ Accept \/ Refuse
             \/ \E o \in Order : (\E n \in 1 .. Terms[o].volume, d \in Offered(o) : Trade(o, n, d)) \/ Cancel(o)
      PROVE  \E channel \in Channel, r \in Report, o \in Order : Said(channel, r, o)
  BY <1>1, <1>5, ExchangeSays
<1> QED BY <1>2, <1>3, <1>4, <1>5 DEF ChannelNext, ExchangeStep, ListenerStep

(* Every step keeps the balances exact. *)
LEMMA BookStep ==
  ASSUME NEW p \in Prices, LedgerInv, LedgerInv', TablesExact, [ChannelNext]_vars, Plain',
         SoldAt(p)', \A d \in Currency : BookExact(p, d), NEW c \in Currency
  PROVE  BookExact(p, c)'
<1>1. /\ Orderly /\ Orderly' /\ IsFiniteSet(emitted) /\ emitted \subseteq Order
      /\ Undisturbed /\ (\A o \in emitted : Exact(o) /\ FeeFree(o)) /\ SoldAt(p)
  BY PlainBefore, SoldBefore DEF LedgerInv, Orderly, TypeOK, Plain, AsBooked
<1>2. BookExact(p, c)
  OBVIOUS
<1>3. ASSUME NEW o \in Order, Emit(o) PROVE BookExact(p, c)'
  BY <1>1, <1>2, <1>3, BookEmit
<1>4. ASSUME NEW channel \in Channel, NEW r \in Report, NEW o \in Order, Said(channel, r, o)
      PROVE  BookExact(p, c)'
  <2>1. \A y \in Order : (Held(y)' <=> Held(y)) /\ (Reserved(y)' <=> Reserved(y))
    BY <1>1, <1>4, HeldReported
  <2>2. UNCHANGED <<book, applied, emitted>>
    BY <1>4 DEF Said
  <2> QED BY <1>1, <1>2, <2>1, <2>2, BookStays
<1>5. ASSUME \/ Receive
             \/ Handle(Listener) /\ ~RecoverBook(Listener) /\ ~Apply(Listener)
      PROVE  BookExact(p, c)'
  <2>1. \A y \in Order : /\ (Held(y)' <=> Held(y)) /\ (Reserved(y)' <=> Reserved(y))
                         /\ UNCHANGED <<book, applied, emitted>>
    BY <1>1, <1>5, HeldMove
  <2>2. UNCHANGED <<book, applied, emitted>>
    BY <1>5 DEF Receive, Handle, strategyVars, HandlerStep, CheckLive, CheckCid, RecoverLive,
                SkipDuplicate, Track, Release, Tell
  <2> QED BY <1>1, <1>2, <2>1, <2>2, BookStays
<1>6. ASSUME Handle(Listener), RecoverBook(Listener) PROVE BookExact(p, c)'
  BY <1>1, <1>2, <1>6, BookRecover
<1>7. ASSUME Handle(Listener), Apply(Listener) PROVE BookExact(p, c)'
  BY <1>1, <1>7, BookApply
<1>8. ASSUME Dispatch \/ Send \/ Reconnect \/ UNCHANGED vars PROVE BookExact(p, c)'
  <2>1. UNCHANGED <<book, applied, emitted, exch, inbox, h>>
    BY <1>8 DEF Dispatch, Send, Reconnect, vars, handlerVars, strategyVars, exchangeVars, channelVars
  <2>2. ToApply' = ToApply
    BY <2>1 DEF ToApply, InHand
  <2>3. \A y \in Order : Recovered(y)' <=> Recovered(y)
    BY <2>1 DEF Recovered
  <2>4. \A y \in Order : (Held(y)' <=> Held(y)) /\ (Reserved(y)' <=> Reserved(y))
    BY <2>1, <2>2, <2>3, HeldSame
  <2> QED BY <1>1, <1>2, <2>1, <2>4, BookStays
<1> QED BY <1>3, <1>4, <1>5, <1>6, <1>7, <1>8, OnlyReports

-----------------------------------------------------------------------------
(* The positions are what the orders made of them (PositionExact), and no     *)
(* report to come takes more than there is (PositionsCovered).                *)

(* What an order moves a position by is a number. *)
LEMMA ContractTyped ==
  ASSUME NEW o \in Order, NEW k, NEW n \in Nat
  PROVE  Contract(o, k, n) \in Int /\ Contract(o, k, 0) = 0
BY DEF Contract

(* One order has n contracts more. *)
LEMMA NetMoves ==
  ASSUME IsFiniteSet(emitted), emitted \subseteq Order, NEW k \in Position,
         NEW F \in [Order -> Nat], NEW G \in [Order -> Nat], NEW x \in emitted, NEW n \in Nat,
         \A y \in Order : y # x => G[y] = F[y],
         G[x] = F[x] + n
  PROVE  Net(k, G) = Net(k, F) + Contract(x, k, n) /\ Net(k, F) \in Int
<1>1. PICK f : f = [o \in emitted |-> Contract(o, k, F[o])]
  OBVIOUS
<1>2. PICK g : g = [o \in emitted |-> Contract(o, k, G[o])]
  OBVIOUS
<1>3. PICK d \in Int : d = Contract(x, k, n)
  BY ContractTyped
<1>4. \A y \in emitted : f[y] \in Int
  BY <1>1, ContractTyped
<1>5. \A y \in emitted : y # x => g[y] = f[y]
  BY <1>1, <1>2
<1>6. g[x] = f[x] + d
  <2>1. F[x] \in Nat /\ G[x] \in Nat
    OBVIOUS
  <2> QED BY <1>1, <1>2, <1>3, <2>1 DEF Contract
<1>7. /\ SumFunctionOnSet(g, emitted) = SumFunctionOnSet(f, emitted) + d
      /\ SumFunctionOnSet(f, emitted) \in Int
  BY <1>4, <1>5, <1>6, SumMoves, Zenon
<1>8. Carried[k] \in Nat
  BY DepositAssumption
<1> QED BY <1>1, <1>2, <1>3, <1>7, <1>8 DEF Net, InAll

(* An order that was not filled changes nothing by being emitted. *)
LEMMA NetEmits ==
  ASSUME IsFiniteSet(emitted), emitted \subseteq Order, NEW x \in Order, x \notin emitted,
         NEW T, T = emitted \cup {x}, emitted' = T,
         NEW k \in Position, NEW F \in [Order -> Nat], F[x] = 0
  PROVE  Net(k, F)' = Net(k, F)
<1>1. T \subseteq Order /\ x \in T /\ emitted \subseteq T
  OBVIOUS
<1>2. PICK f : f = [o \in emitted |-> Contract(o, k, F[o])]
  OBVIOUS
<1>3. PICK g : g = [o \in T |-> Contract(o, k, F[o])]
  OBVIOUS
<1>4. \A y \in T : g[y] \in Int
  BY <1>1, <1>3, ContractTyped
<1>5. \A y \in emitted : f[y] = g[y]
  BY <1>1, <1>2, <1>3
<1>6. SumFunctionOnSet(g, T) = SumFunctionOnSet(f, emitted) + g[x]
  BY <1>4, <1>5, SumGrows
<1>7. g[x] = 0 /\ SumFunctionOnSet(f, emitted) \in Int
  <2>1. g[x] = 0
    BY <1>1, <1>3, ContractTyped
  <2>2. \A y \in emitted : f[y] \in Int
    BY <1>1, <1>4, <1>5
  <2> QED BY <2>1, <2>2, SumTerm
<1>8. SumFunctionOnSet(g, T) = SumFunctionOnSet(f, emitted)
  BY <1>6, <1>7
<1> QED BY <1>1, <1>2, <1>3, <1>8 DEF Net, InAll

(* Unless something is emitted the same fills make the same positions.        *)
LEMMA NetStays ==
  ASSUME emitted' = emitted, NEW k, NEW F
  PROVE  Net(k, F)' = Net(k, F)
BY DEF Net, InAll

(* The volumes filled and applied are numbers. *)
LEMMA FilledTyped ==
  ASSUME Orderly
  PROVE  Filled \in [Order -> Nat] /\ applied \in [Order -> Nat]
BY DEF Filled, Orderly, TypeOK, HandlerTypeOK

(* The exchange's positions follow what it fills, and are never short.        *)
LEMMA HoldingTrade ==
  ASSUME Orderly, Orderly', IsFiniteSet(emitted), \A x \in emitted : Exact(x),
         NEW o \in Order, NEW n \in 1 .. Terms[o].volume, NEW d \in Offered(o), Trade(o, n, d),
         NEW k \in Position, holding[k] = Net(k, Filled), holding[k] >= 0
  PROVE  holding'[k] = Net(k, Filled)' /\ holding'[k] >= 0
<1>1. /\ emitted \subseteq Order /\ emitted' = emitted /\ holding \in [Position -> Int] /\ n \in Nat
      /\ \A y \in Order : exch'[y].filled \in Nat
      /\ Open(o) /\ exch'[o].filled = exch[o].filled + n
      /\ \A y \in Order : y # o => exch'[y] = exch[y]
  <2>1. emitted' = emitted
    BY DEF Trade, strategyVars
  <2>2. /\ n \in Nat /\ Open(o) /\ exch'[o].filled = exch[o].filled + n
        /\ \A y \in Order : y # o => exch'[y] = exch[y]
    BY TradeIs DEF Orderly
  <2> QED BY <2>1, <2>2 DEF Orderly, TypeOK
<1>2. o \in emitted
  BY <1>1 DEF Open, Orderly, EngineInv, Believes, SentOnce
<1>3. PICK F \in [Order -> Nat] : F = Filled
  BY FilledTyped
<1>4. PICK G \in [Order -> Nat] : G = Filled'
  <2>1. (Filled \in [Order -> Nat])'
    BY <1>1 DEF Filled
  <2> QED BY <2>1
<1>5. (\A y \in Order : y # o => G[y] = F[y]) /\ G[o] = F[o] + n
  BY <1>1, <1>3, <1>4 DEF Filled
<1>6. Net(k, G) = Net(k, F) + Contract(o, k, n)
  BY <1>1, <1>2, <1>5, NetMoves
<1>7. Net(k, Filled)' = Net(k, G)
  <2>1. Net(k, Filled)' = Net(k, G)'
    BY <1>4 DEF Net, InAll
  <2> QED BY <1>1, <2>1, NetStays
<1>8. holding'[k] = holding[k] + Contract(o, k, n)
  <2>1. CASE IsSpot(o)
    <3>1. holding' = holding
      BY <2>1 DEF Trade
    <3> QED BY <1>1, <2>1, <3>1 DEF Contract
  <2>2. CASE ~IsSpot(o)
    <3>1. holding' = [holding EXCEPT ![PositionKey(Terms[o])] =
                                IF IsOpening(Terms[o]) THEN @ + n ELSE @ - n]
      BY <2>2 DEF Trade
    <3> HIDE DEF Position
    <3> QED BY <1>1, <2>2, <3>1 DEF Contract
  <2> QED BY <2>1, <2>2
<1>9. holding'[k] >= 0
  <2>1. ~IsSpot(o) /\ ~IsOpening(Terms[o]) /\ PositionKey(Terms[o]) = k => holding[k] >= n
    BY <1>2 DEF Trade, Deliverable, Exact
  <2> QED BY <1>1, <1>8, <2>1 DEF Contract
<1> QED BY <1>3, <1>6, <1>7, <1>8, <1>9

(* Every step keeps the exchange's positions exact. *)
LEMMA HoldingStep ==
  ASSUME Orderly, Orderly', IsFiniteSet(emitted), \A x \in emitted : Exact(x), [ChannelNext]_vars,
         NEW k \in Position, holding[k] = Net(k, Filled), holding[k] >= 0
  PROVE  holding'[k] = Net(k, Filled)' /\ holding'[k] >= 0
<1>1. ASSUME NEW o \in Order, NEW n \in 1 .. Terms[o].volume, NEW d \in Offered(o), Trade(o, n, d)
      PROVE  holding'[k] = Net(k, Filled)' /\ holding'[k] >= 0
  BY <1>1, HoldingTrade
<1>2. ASSUME NEW o \in Order, Emit(o)
      PROVE  holding'[k] = Net(k, Filled)' /\ holding'[k] >= 0
  <2>1. o \notin emitted /\ emitted' = emitted \cup {o} /\ UNCHANGED <<exch, holding>>
    BY <1>2 DEF Emit, exchangeVars
  <2>2. PICK F \in [Order -> Nat] : F = Filled
    BY FilledTyped
  <2>3. F[o] = 0
    BY <2>1, <2>2 DEF Filled, Orderly, EngineInv, Believes, SentOnce, Volumes
  <2>4. Net(k, F)' = Net(k, F)
    BY <2>1, <2>3, NetEmits DEF Orderly, TypeOK
  <2>5. Net(k, Filled)' = Net(k, F)'
    BY <2>1, <2>2 DEF Net, InAll, Filled
  <2> QED BY <2>1, <2>2, <2>4, <2>5
<1>3. ASSUME \/ Dispatch \/ Send \/ Accept \/ Refuse \/ Drop \/ Reconnect \/ ListenerStep
             \/ \E d \in Currency : PushBalance(d)
             \/ \E o \in Order : Cancel(o)
             \/ UNCHANGED vars
      PROVE  holding'[k] = Net(k, Filled)' /\ holding'[k] >= 0
  <2>1. UNCHANGED <<emitted, holding>>
    BY <1>3 DEF Dispatch, Send, Accept, Refuse, Drop, Reconnect, ListenerStep, Receive, ApplyBalance,
                Handle, PushBalance, Cancel, vars, strategyVars, exchangeVars
  <2>2. \A y \in Order : exch'[y].filled = exch[y].filled
    <3>1. exch \in [Order -> [st : ExchState, filled : Nat, value : Nat, fee : Int, deals : SUBSET Deal]]
      BY DEF Orderly, TypeOK
    <3>2. ASSUME Accept \/ Refuse \/ \E o \in Order : Cancel(o)
          PROVE  \A y \in Order : exch'[y].filled = exch[y].filled
      <4>1. \E x, st : exch' = [exch EXCEPT ![x].st = st]
        BY <3>2 DEF Accept, Refuse, Cancel
      <4> QED BY <3>1, <4>1
    <3>3. ASSUME ~Accept, ~Refuse, ~\E o \in Order : Cancel(o)
          PROVE  exch' = exch
      BY <1>3, <3>3 DEF Dispatch, Send, Drop, Reconnect, ListenerStep, Receive,
                        ApplyBalance, Handle, PushBalance, vars, exchangeVars
    <3> QED BY <3>2, <3>3
  <2>3. Filled' = Filled
    BY <2>2 DEF Filled
  <2> QED BY <2>1, <2>3 DEF Net, InAll
<1> QED BY <1>1, <1>2, <1>3 DEF ChannelNext, ExchangeStep

-----------------------------------------------------------------------------
(* The course the positions will take.                                        *)

(* A report that is sent says what is filled.                                 *)
LEMMA FilledTaken ==
  ASSUME Orderly, Orderly', NEW channel \in Channel, NEW r \in Report, NEW o \in Order,
         Said(channel, r, o)
  PROVE  /\ Filled' = Taking(Filled, r) /\ Filled' \in [Order -> Nat]
         /\ \A y \in Order : exch[y].filled <= exch'[y].filled
<1>1. /\ exch \in [Order -> [st : ExchState, filled : Nat, value : Nat, fee : Int, deals : SUBSET Deal]]
      /\ exch' \in [Order -> [st : ExchState, filled : Nat, value : Nat, fee : Int, deals : SUBSET Deal]]
  BY DEF Orderly, TypeOK
<1>2. /\ r.order = o /\ \A y \in Order : y # o => exch'[y] = exch[y]
      /\ r.status \in Filling => exch'[o].filled = r.filled
      /\ r.status \notin Filling => exch'[o].filled = exch[o].filled
      /\ exch[o].filled <= exch'[o].filled
  BY <1>1 DEF Said, Decided, Changed, Filling
<1>3. Filled' = [y \in Order |-> exch'[y].filled] /\ Filled = [y \in Order |-> exch[y].filled]
  BY DEF Filled
<1>4. Filled' = Taking(Filled, r)
  BY <1>2, <1>3 DEF Taking
<1>5. Filled' \in [Order -> Nat]
  BY <1>1, <1>3
<1>6. \A y \in Order : exch[y].filled <= exch'[y].filled
  BY <1>1, <1>2
<1> QED BY <1>4, <1>5, <1>6

(* A report more to come is one more point on the course of a position. *)
LEMMA CourseReported ==
  ASSUME Orderly, Orderly', TablesExact,
         NEW channel \in Channel, NEW r \in Report, NEW o \in Order, Said(channel, r, o),
         PositionsCovered, \A k \in Position : Net(k, Filled)' >= 0
  PROVE  PositionsCovered'
<1>1. PICK F \in [0 .. Len(inbox) -> [Order -> Nat]] : Course(F)
  BY DEF PositionsCovered
<1>2. /\ Len(inbox) \in Nat /\ Len(inbox') = Len(inbox) + 1 /\ inbox'[Len(inbox) + 1] = r
      /\ \A i \in 1 .. Len(inbox) : inbox'[i] = inbox[i]
      /\ (InHand <=> InHand')
  BY Appended DEF TablesExact, Said
<1>3. UNCHANGED <<applied, h, emitted>>
  BY DEF Said
<1>4. /\ Filled' = Taking(Filled, r) /\ Filled' \in [Order -> Nat]
      /\ \A y \in Order : exch[y].filled <= exch'[y].filled
  BY FilledTaken
<1>5. PICK n \in Nat : n = Len(inbox)
  BY <1>2
<1>6. PICK last : last = Filled'
  OBVIOUS
<1> DEFINE G == [i \in 0 .. n + 1 |-> IF i = n + 1 THEN last ELSE F[i]]
<1>7. G \in [0 .. Len(inbox') -> [Order -> Nat]]
  BY <1>2, <1>4, <1>5, <1>6
<1>8. /\ G[n + 1] = last
      /\ \A i \in 0 .. n : G[i] = F[i] /\ i \in 0 .. n + 1
      /\ \A i \in 0 .. n + 1 : i = n + 1 \/ i \in 0 .. n
  BY <1>5
<1> HIDE DEF G
<1>9. G[0] = IF InHand' THEN Taking(applied, h[Listener].report) ELSE applied
  <2>1. G[0] = F[0]
    BY <1>8
  <2> QED BY <1>1, <1>2, <2>1 DEF Course
<1>10. ASSUME NEW i \in 1 .. Len(inbox') PROVE G[i] = Taking(G[i - 1], inbox'[i])
  <2>1. CASE i = n + 1
    <3>1. i - 1 = n /\ n \in 0 .. n
      BY <2>1
    <3>2. G[i - 1] = Filled
      BY <1>1, <1>5, <1>8, <3>1 DEF Course
    <3> QED BY <1>2, <1>4, <1>5, <1>6, <1>8, <2>1, <3>2
  <2>2. CASE i # n + 1
    <3>1. i \in 1 .. n /\ i \in 0 .. n /\ i - 1 \in 0 .. n
      BY <1>2, <1>5, <2>2
    <3>2. G[i] = F[i] /\ G[i - 1] = F[i - 1] /\ inbox'[i] = inbox[i]
      BY <1>2, <1>5, <1>8, <3>1
    <3> QED BY <1>1, <1>5, <3>1, <3>2 DEF Course
  <2> QED BY <2>1, <2>2
<1>11. ASSUME NEW i \in 0 .. Len(inbox') PROVE Possible(G[i])'
  <2>1. CASE i = n + 1
    <3>1. \A y \in Order : last[y] <= exch'[y].filled
      <4>1. \A y \in Order : last[y] = exch'[y].filled /\ exch'[y].filled \in Nat
        BY <1>6 DEF Filled, Orderly, TypeOK
      <4> QED BY <4>1
    <3>2. \A k \in Position : Net(k, last)' >= 0
      BY <1>6 DEF Net, InAll
    <3>3. Possible(last)'
      BY <3>1, <3>2 DEF Possible
    <3> QED BY <1>8, <2>1, <3>3
  <2>2. CASE i # n + 1
    <3>1. i \in 0 .. n
      BY <1>2, <1>5, <2>2
    <3>2. PICK f \in [Order -> Nat] : f = F[i]
      BY <1>5, <3>1
    <3>3. Possible(f)
      BY <1>1, <1>5, <3>1, <3>2 DEF Course
    <3>4. \A y \in Order : f[y] <= exch'[y].filled
      <4> SUFFICES ASSUME NEW y \in Order PROVE f[y] <= exch'[y].filled
        OBVIOUS
      <4>1. f[y] \in Nat /\ exch[y].filled \in Nat /\ exch'[y].filled \in Nat
        BY DEF Orderly, TypeOK
      <4>2. f[y] <= exch[y].filled /\ exch[y].filled <= exch'[y].filled
        BY <1>4, <3>3 DEF Possible
      <4> QED BY <4>1, <4>2
    <3>5. \A k \in Position : Net(k, f)' >= 0
      BY <1>3, <3>3, NetStays DEF Possible
    <3>6. Possible(f)'
      BY <3>4, <3>5 DEF Possible
    <3> QED BY <1>8, <3>1, <3>2, <3>6
  <2> QED BY <2>1, <2>2
<1>12. G[Len(inbox')] = Filled'
  BY <1>2, <1>5, <1>6, <1>8
<1>13. Course(G)'
  BY <1>3, <1>9, <1>10, <1>11, <1>12 DEF Course
<1> QED BY <1>7, <1>13 DEF PositionsCovered

(* Taking the next report goes one point on. *)
LEMMA CourseReceive ==
  ASSUME Orderly, Orderly', Receive, PositionsCovered
  PROVE  PositionsCovered'
<1>1. PICK F \in [0 .. Len(inbox) -> [Order -> Nat]] : Course(F)
  BY DEF PositionsCovered
<1>2. /\ ~InHand /\ InHand' /\ h'[Listener].report = Head(inbox)
      /\ Len(inbox) \in Nat /\ Len(inbox') = Len(inbox) - 1
      /\ Head(inbox) = inbox[1] /\ inbox # <<>>
      /\ \A i \in 1 .. Len(inbox') : inbox'[i] = inbox[i + 1]
  BY Received
<1>3. UNCHANGED <<applied, exch, emitted>>
  BY DEF Receive, exchangeVars, strategyVars
<1>4. Len(inbox) > 0
  BY <1>2, EmptySeq DEF Orderly, TypeOK
<1>5. PICK n \in Nat : n = Len(inbox')
  BY <1>2, <1>4
<1> DEFINE G == [i \in 0 .. n |-> F[i + 1]]
<1>6. /\ G \in [0 .. n -> [Order -> Nat]]
      /\ \A i \in 0 .. n : G[i] = F[i + 1] /\ i + 1 \in 0 .. Len(inbox) /\ i + 1 \in 1 .. Len(inbox)
  BY <1>2, <1>5
<1> HIDE DEF G
<1>7. G[0] = Taking(applied, h'[Listener].report)
  <2>1. G[0] = F[1] /\ 1 \in 1 .. Len(inbox)
    BY <1>4, <1>6
  <2>2. F[1] = Taking(F[0], inbox[1]) /\ F[0] = applied
    BY <1>1, <1>2, <2>1 DEF Course
  <2> QED BY <1>2, <2>1, <2>2
<1>8. ASSUME NEW i \in 1 .. Len(inbox') PROVE G[i] = Taking(G[i - 1], inbox'[i])
  <2>1. i \in 0 .. n /\ i - 1 \in 0 .. n /\ (i - 1) + 1 = i /\ i + 1 \in 1 .. Len(inbox)
    BY <1>5, <1>6
  <2>2. G[i] = F[i + 1] /\ G[i - 1] = F[i]
    BY <1>6, <2>1
  <2>3. F[i + 1] = Taking(F[i], inbox[i + 1])
    <3>1. (i + 1) - 1 = i
      OBVIOUS
    <3> QED BY <1>1, <2>1, <3>1 DEF Course
  <2> QED BY <1>2, <2>2, <2>3
<1>9. ASSUME NEW i \in 0 .. Len(inbox') PROVE Possible(G[i])'
  <2>1. PICK f : f = G[i] /\ Possible(f)
    BY <1>1, <1>5, <1>6 DEF Course
  <2>2. \A k \in Position : Net(k, f)' = Net(k, f)
    BY <1>3, NetStays
  <2>3. Possible(f)'
    BY <1>3, <2>1, <2>2 DEF Possible
  <2> QED BY <2>1, <2>3
<1>10. G[Len(inbox')] = Filled'
  <2>1. n \in 0 .. n /\ n + 1 = Len(inbox)
    BY <1>2, <1>5
  <2> QED BY <1>1, <1>3, <1>5, <1>6, <2>1 DEF Course, Filled
<1>11. Course(G)'
  BY <1>2, <1>3, <1>7, <1>8, <1>9, <1>10 DEF Course
<1> QED BY <1>5, <1>6, <1>11 DEF PositionsCovered

(* A step that leaves the reports to come as they are, but for one applied.   *)
LEMMA CourseStays ==
  ASSUME UNCHANGED <<inbox, exch, emitted>>, PositionsCovered,
         IF InHand' THEN InHand /\ h'[Listener].report = h[Listener].report /\ applied' = applied
         ELSE applied' = IF InHand THEN Taking(applied, h[Listener].report) ELSE applied
  PROVE  PositionsCovered'
<1>1. PICK F \in [0 .. Len(inbox) -> [Order -> Nat]] : Course(F)
  BY DEF PositionsCovered
<1>2. \A f : Possible(f)' <=> Possible(f)
  <2>1. ASSUME NEW f PROVE Possible(f)' <=> Possible(f)
    <3>1. \A k \in Position : Net(k, f)' = Net(k, f)
      BY NetStays
    <3> QED BY <3>1 DEF Possible
  <2> QED BY <2>1
<1>3. F[0] = IF InHand' THEN Taking(applied', h'[Listener].report) ELSE applied'
  BY <1>1 DEF Course
<1>4. Course(F)'
  BY <1>1, <1>2, <1>3 DEF Course, Filled
<1> QED BY <1>4 DEF PositionsCovered

(* A new order moves no position yet. *)
LEMMA CourseEmit ==
  ASSUME Orderly, IsFiniteSet(emitted), NEW x \in Order, Emit(x), PositionsCovered
  PROVE  PositionsCovered'
<1>1. PICK F \in [0 .. Len(inbox) -> [Order -> Nat]] : Course(F)
  BY DEF PositionsCovered
<1>2. /\ UNCHANGED <<applied, h, inbox, exch>> /\ x \notin emitted /\ emitted \subseteq Order
      /\ emitted' = emitted \cup {x}
  BY DEF Emit, exchangeVars, channelVars, Orderly, TypeOK
<1>3. exch[x].filled = 0
  BY <1>2 DEF Orderly, EngineInv, Believes, SentOnce, Volumes
<1>4. ASSUME NEW i \in 0 .. Len(inbox) PROVE Possible(F[i])'
  <2>1. PICK f \in [Order -> Nat] : f = F[i] /\ Possible(f)
    BY <1>1 DEF Course
  <2>2. f[x] = 0
    <3>1. f[x] \in Nat /\ f[x] <= 0
      BY <1>3, <2>1 DEF Possible
    <3> QED BY <3>1
  <2>3. \A k \in Position : Net(k, f)' = Net(k, f)
    BY <1>2, <2>2, NetEmits
  <2>4. Possible(f)'
    BY <1>2, <2>1, <2>3 DEF Possible
  <2> QED BY <2>1, <2>4
<1>5. F[0] = IF InHand' THEN Taking(applied', h'[Listener].report) ELSE applied'
  BY <1>1, <1>2 DEF Course, InHand
<1>6. Course(F)'
  BY <1>1, <1>2, <1>4, <1>5 DEF Course, Filled
<1> QED BY <1>2, <1>6 DEF PositionsCovered

(* The steps of HandleOrderUpdate that apply nothing. *)
LEMMA CourseHandle ==
  ASSUME Orderly, Orderly', TablesExact, Handle(Listener), ~(Handle(Listener) /\ Apply(Listener)),
         UNCHANGED <<swap, applied, emitted>>, PositionsCovered
  PROVE  PositionsCovered'
<1>1. UNCHANGED <<inbox, exch>> /\ ~Idle(Listener) /\ ~SkipDuplicate(Listener)
  BY InsideFrame, NeverSkipped
<1>2. CASE Tell(Listener)
  <2>1. h[Listener].pc = "tell" /\ h'[Listener].pc = "idle"
    BY <1>2, ThreadsTyped DEF Tell, At, Return, Orderly, TypeOK, HandlerTypeOK
  <2>2. ~InHand /\ ~InHand'
    BY <2>1 DEF InHand
  <2> QED BY <1>1, <2>2, CourseStays
<1>3. CASE ~Tell(Listener)
  <2>1. /\ h[Listener].pc \notin {"idle", "tell"} /\ h'[Listener].pc \notin {"idle", "tell"}
        /\ h'[Listener].report = h[Listener].report
    BY <1>1, <1>3, Gone DEF Handle, HandlerStep, CheckLive, CheckCid, RecoverBook, RecoverLive, Track,
                            Release, At
  <2>2. InHand /\ InHand'
    BY <2>1 DEF InHand
  <2> QED BY <1>1, <2>1, <2>2, CourseStays
<1> QED BY <1>2, <1>3

-----------------------------------------------------------------------------
(* The engine's positions follow the reports. *)

(* What the history and the positions become when the report in hand is       *)
(* applied.                                                                   *)
LEMMA SwapApplies ==
  ASSUME Orderly, Orderly', TablesExact, Handle(Listener), Apply(Listener),
         NEW r \in Report, NEW x \in emitted, Applying(r, x)
  PROVE  /\ applied' = Taking(applied, r) /\ InHand /\ ~InHand'
         /\ swap' = IF IsSpot(x) THEN swap ELSE ApplySwap(r)
<1>1. r = h[Listener].report /\ r.order = x /\ InHand /\ ~Idle(Listener) /\ x \in Order
  BY InsideFrame DEF Applying, Orderly, TypeOK
<1>2. /\ applied' = [applied EXCEPT ![x] =
                       IF r.status \in Filling THEN @ + AtLeast0(Increment(r)) ELSE @]
      /\ swap' = IF IsSpot(x) THEN swap ELSE ApplySwap(r)
      /\ h'[Listener].pc = "tell"
  BY <1>1, Gone DEF Apply
<1>3. ~InHand'
  BY <1>2 DEF InHand
<1>4. applied' = Taking(applied, r)
  <2>1. applied'[x] = IF r.status \in Filling THEN r.filled ELSE applied[x]
    BY DEF Applying
  <2>2. applied \in [Order -> Nat]
    BY DEF Orderly, TypeOK, HandlerTypeOK
  <2>3. CASE r.status \in Filling
    BY <1>1, <1>2, <2>1, <2>2, <2>3 DEF Taking
  <2>4. CASE r.status \notin Filling
    BY <1>1, <1>2, <2>2, <2>4 DEF Taking
  <2> QED BY <2>3, <2>4
<1> QED BY <1>1, <1>2, <1>3, <1>4

(* The swap book, clamped at zero, takes what the report says: it never has   *)
(* to be clamped.                                                             *)
LEMMA SwapApply ==
  ASSUME Orderly, Orderly', IsFiniteSet(emitted), TablesExact, PositionsCovered,
         Handle(Listener), Apply(Listener), NEW k \in Position, swap[k] = Net(k, applied)
  PROVE  swap'[k] = Net(k, applied)'
<1>1. PICK r \in Report, x \in emitted : Applying(r, x)
  BY ApplyIs
<1>2. /\ applied' = Taking(applied, r) /\ InHand
      /\ swap' = IF IsSpot(x) THEN swap ELSE ApplySwap(r)
  BY <1>1, SwapApplies
<1>3. /\ r = h[Listener].report /\ r.order = x /\ emitted' = emitted
      /\ tracker[x] = applied[x] /\ applied[x] <= r.filled
      /\ r.filled \in Nat /\ swap \in [Position -> Int] /\ emitted \subseteq Order
  BY <1>1 DEF Applying, Orderly, TypeOK, HandlerTypeOK, Report
<1>4. PICK F \in [Order -> Nat] : F = applied
  BY FilledTyped
<1>5. PICK G \in [Order -> Nat] : G = applied'
  BY DEF Orderly, TypeOK, HandlerTypeOK
<1>6. Net(k, applied)' = Net(k, G)
  <2>1. Net(k, applied)' = Net(k, G)'
    BY <1>5 DEF Net, InAll
  <2> QED BY <1>3, <2>1, NetStays
<1>7. Net(k, G) >= 0
  <2>1. PICK fills \in [0 .. Len(inbox) -> [Order -> Nat]] : Course(fills)
    BY DEF PositionsCovered
  <2>2. 0 \in 0 .. Len(inbox)
    <3>1. Len(inbox) \in Nat
      BY LenProperties DEF Orderly, TypeOK
    <3> QED BY <3>1
  <2>3. fills[0] = G /\ Possible(fills[0])
    BY <1>2, <1>3, <1>5, <2>1, <2>2 DEF Course
  <2> QED BY <2>3 DEF Possible
<1>8. CASE r.status \in Filling
  <2>1. PICK n \in Nat : n = r.filled - applied[x]
    BY <1>3, <1>4
  <2>2. (\A y \in Order : y # x => G[y] = F[y]) /\ G[x] = F[x] + n
    <3>1. G = [F EXCEPT ![x] = r.filled]
      BY <1>2, <1>3, <1>4, <1>5, <1>8 DEF Taking
    <3> QED BY <1>3, <1>4, <2>1, <3>1
  <2>3. Net(k, G) = Net(k, F) + Contract(x, k, n)
    BY <1>3, <2>2, NetMoves
  <2>4. swap[k] \in Int /\ swap[k] + Contract(x, k, n) >= 0
    BY <1>3, <1>4, <1>7, <2>3
  <2>5. swap'[k] = swap[k] + Contract(x, k, n)
    <3>1. CASE IsSpot(x)
      BY <1>2, <2>4, <3>1 DEF Contract
    <3>2. CASE ~IsSpot(x)
      <4>1. swap' = UpdateSwapOnFill(swap, Terms[x], n)
        BY <1>2, <1>3, <1>8, <2>1, <3>2 DEF ApplySwap, Increment
      <4>2. CASE PositionKey(Terms[x]) # k
        <5>1. swap'[k] = swap[k]
          BY <1>3, <4>1, <4>2 DEF UpdateSwapOnFill
        <5> QED BY <2>4, <4>2, <5>1 DEF Contract
      <4>3. CASE PositionKey(Terms[x]) = k
        <5> HIDE DEF Position
        <5> QED BY <1>3, <2>4, <3>2, <4>1, <4>3 DEF UpdateSwapOnFill, Contract
      <4> QED BY <4>2, <4>3
    <3> QED BY <3>1, <3>2
  <2> QED BY <1>4, <1>6, <2>3, <2>5
<1>9. CASE r.status \notin Filling
  <2>1. G = F /\ swap' = swap
    BY <1>2, <1>4, <1>5, <1>9 DEF Taking, ApplySwap
  <2> QED BY <1>4, <1>6, <2>1
<1> QED BY <1>8, <1>9

(* The positions on both sides, and the course they will take. *)
PositionsExact == PositionsCovered /\ \A k \in Position : PositionExact(k)

(* Every step keeps the positions exact. *)
LEMMA PositionStep ==
  ASSUME LedgerInv, LedgerInv', TablesExact, [ChannelNext]_vars, Plain', PositionsExact
  PROVE  PositionsExact'
<1>1. /\ Orderly /\ Orderly' /\ IsFiniteSet(emitted) /\ emitted \subseteq Order
      /\ \A o \in emitted : Exact(o)
  BY PlainBefore DEF LedgerInv, Orderly, TypeOK, Plain, AsBooked
<1>2. \A k \in Position : holding'[k] = Net(k, Filled)' /\ holding'[k] >= 0
  <2> SUFFICES ASSUME NEW k \in Position PROVE holding'[k] = Net(k, Filled)' /\ holding'[k] >= 0
    OBVIOUS
  <2>1. holding[k] = Net(k, Filled)
    BY DEF PositionsExact, PositionExact
  <2>2. Net(k, Filled) >= 0
    <3>1. PICK fills \in [0 .. Len(inbox) -> [Order -> Nat]] : Course(fills)
      BY DEF PositionsExact, PositionsCovered
    <3>2. Len(inbox) \in 0 .. Len(inbox)
      <4>1. Len(inbox) \in Nat
        BY <1>1, LenProperties DEF Orderly, TypeOK
      <4> QED BY <4>1
    <3>3. Possible(Filled)
      BY <3>1, <3>2 DEF Course
    <3> QED BY <3>3 DEF Possible
  <2> QED BY <1>1, <2>1, <2>2, HoldingStep
<1>3. PositionsCovered /\ \A k \in Position : swap[k] = Net(k, applied)
  BY DEF PositionsExact, PositionExact
<1>4. ASSUME NEW o \in Order, Emit(o)
      PROVE  PositionsCovered' /\ \A k \in Position : swap'[k] = Net(k, applied)'
  <2>1. PositionsCovered'
    BY <1>1, <1>3, <1>4, CourseEmit
  <2>2. o \notin emitted /\ emitted' = emitted \cup {o} /\ UNCHANGED <<swap, applied>>
    BY <1>4 DEF Emit
  <2>3. PICK F \in [Order -> Nat] : F = applied
    BY <1>1, FilledTyped
  <2>4. F[o] = 0
    <3>1. exch[o].filled = 0
      BY <1>1, <2>2 DEF Orderly, EngineInv, Believes, SentOnce, Volumes
    <3>2. F[o] <= exch[o].filled /\ F[o] \in Nat
      BY <1>1, <2>3, AppliedIsDone DEF Orderly, AppliedOnce
    <3> QED BY <3>1, <3>2
  <2>5. \A k \in Position : Net(k, F)' = Net(k, F)
    BY <1>1, <2>2, <2>4, NetEmits
  <2>6. \A k \in Position : Net(k, applied)' = Net(k, F)'
    BY <2>2, <2>3 DEF Net, InAll
  <2> QED BY <1>3, <2>1, <2>2, <2>3, <2>5, <2>6
<1>5. ASSUME Handle(Listener), Apply(Listener)
      PROVE  PositionsCovered' /\ \A k \in Position : swap'[k] = Net(k, applied)'
  <2>1. \A k \in Position : swap'[k] = Net(k, applied)'
    BY <1>1, <1>3, <1>5, SwapApply
  <2>2. PICK r \in Report, x \in emitted : Applying(r, x)
    BY <1>1, <1>5, ApplyIs
  <2>3. applied' = Taking(applied, r) /\ InHand /\ ~InHand'
    BY <1>1, <1>5, <2>2, SwapApplies
  <2>4. r = h[Listener].report /\ UNCHANGED <<inbox, exch, emitted>>
    BY <2>2 DEF Applying
  <2> QED BY <1>3, <2>1, <2>3, <2>4, CourseStays
<1>6. ASSUME ~ \E o \in Order : Emit(o), ~(Handle(Listener) /\ Apply(Listener))
      PROVE  PositionsCovered' /\ \A k \in Position : swap'[k] = Net(k, applied)'
  <2>1. UNCHANGED <<swap, applied, emitted>>
    <3>1. ASSUME NEW channel \in Channel, NEW r \in Report, NEW o \in Order, Said(channel, r, o)
          PROVE  UNCHANGED <<swap, applied, emitted>>
      BY <3>1 DEF Said
    <3>2. ASSUME Receive \/ Dispatch \/ Send \/ Reconnect \/ UNCHANGED vars
          PROVE  UNCHANGED <<swap, applied, emitted>>
      BY <3>2 DEF Receive, Dispatch, Send, Reconnect, vars, handlerVars, strategyVars
    <3>3. ASSUME Handle(Listener) PROVE UNCHANGED <<swap, applied, emitted>>
      BY <1>6, <3>3 DEF Handle, strategyVars, HandlerStep, CheckLive, CheckCid, RecoverBook,
                        RecoverLive, SkipDuplicate, Track, Release, Tell
    <3> QED BY <1>6, <3>1, <3>2, <3>3, OnlyReports
  <2>2. \A k \in Position : swap'[k] = Net(k, applied)'
    BY <1>3, <2>1 DEF Net, InAll
  <2>3. ASSUME NEW channel \in Channel, NEW r \in Report, NEW o \in Order, Said(channel, r, o)
        PROVE  PositionsCovered'
    <3>1. \A k \in Position : Net(k, Filled)' >= 0
      BY <1>2
    <3> QED BY <1>1, <1>3, <2>3, <3>1, CourseReported
  <2>4. ASSUME Receive PROVE PositionsCovered'
    BY <1>1, <1>3, <2>4, CourseReceive
  <2>5. ASSUME Dispatch \/ Send \/ Reconnect \/ UNCHANGED vars PROVE PositionsCovered'
    <3>1. UNCHANGED <<inbox, exch, h>>
      BY <2>5 DEF Dispatch, Send, Reconnect, vars, handlerVars, exchangeVars, channelVars
    <3>2. InHand' <=> InHand
      BY <3>1 DEF InHand
    <3> QED BY <1>3, <2>1, <2>5, <3>1, <3>2, CourseStays
  <2>6. ASSUME Handle(Listener) PROVE PositionsCovered'
    BY <1>1, <1>3, <1>6, <2>1, <2>6, CourseHandle
  <2> QED BY <1>6, <2>2, <2>3, <2>4, <2>5, <2>6, OnlyReports
<1>7. PositionsCovered' /\ \A k \in Position : swap'[k] = Net(k, applied)'
  BY <1>4, <1>5, <1>6
<1> QED BY <1>2, <1>7 DEF PositionsExact, PositionExact

-----------------------------------------------------------------------------
(* The tables, the balances and the positions together (QuietInv).            *)

(* Every step keeps all of it. *)
LEMMA QuietStep ==
  ASSUME QuietInv, [ChannelNext]_vars
  PROVE  QuietInv'
<1>1. LedgerInv /\ LedgerInv'
  BY LedgerStep DEF QuietInv
<1>2. Orderly /\ Orderly' /\ IsFiniteSet(emitted) /\ (drops = 0 => TablesExact)
  BY <1>1 DEF LedgerInv, QuietInv, TablesAgree
<1>3. drops' = 0 => TablesExact' /\ drops = 0
  <2>1. drops' = drops \/ drops' = drops + 1
    BY DEF ChannelNext, ExchangeStep, ListenerStep, Emit, Dispatch, Send, Accept, Refuse, PushBalance,
           Trade, Cancel, Drop, Reconnect, Receive, ApplyBalance, Handle, vars, channelVars
  <2>2. drops' = 0 => drops = 0
    BY <1>2, <2>1 DEF Orderly, TypeOK
  <2> QED BY <1>2, <2>2, TablesStep
<1>4. ASSUME Plain' PROVE Plain /\ TablesExact /\ PositionsExact /\ PositionsExact'
  <2>1. Plain
    BY <1>2, <1>4, PlainBefore
  <2>2. PICK p \in Prices : SoldAt(p)
    BY <1>2, <2>1, PricesFound
  <2>3. TablesExact /\ PositionsExact
    BY <1>2, <2>1, <2>2 DEF QuietInv, BooksAgreeAt, BooksExact, Plain, AsBooked, PositionsExact
  <2>4. PositionsExact'
    BY <1>1, <1>4, <2>3, PositionStep
  <2> QED BY <2>1, <2>3, <2>4
<1>5. ASSUME NEW p \in Prices, Plain', SoldAt(p)'
      PROVE  BooksExact(p)'
  <2>1. Plain /\ TablesExact /\ PositionsExact'
    BY <1>4, <1>5
  <2>2. SoldAt(p)
    BY <1>2, <1>5, SoldBefore
  <2>3. \A c \in Currency : WalletExact(p, c) /\ BookExact(p, c)
    BY <2>1, <2>2 DEF QuietInv, BooksAgreeAt, BooksExact
  <2>4. \A c \in Currency : WalletExact(p, c)'
    BY <1>2, <1>5, <2>3, WalletStep
  <2>5. \A c \in Currency : BookExact(p, c)'
    BY <1>1, <1>5, <2>1, <2>3, BookStep
  <2> QED BY <2>1, <2>4, <2>5 DEF BooksExact, PositionsExact
<1> QED BY <1>1, <1>3, <1>4, <1>5 DEF QuietInv, TablesAgree, BooksAgreeAt, PositionsExact

(* And it is so at the start. *)
LEMMA InitQuiet == Init => QuietInv
<1> SUFFICES ASSUME Init PROVE QuietInv
  OBVIOUS
<1>1. LedgerInv
  BY InitBacked
<1>2. emitted = {} /\ inbox = <<>> /\ Len(inbox) = 0 /\ h[Listener].pc = "idle"
  BY ThreadAssumption DEF Init, HandlerInit
<1>3. ToApply = {} /\ ToTrack = {} /\ ToRelease = {} /\ ~InHand /\ Range(inbox) = {}
  BY <1>2 DEF ToApply, ToTrack, ToRelease, UpTo, InHand, Range
<1>4. TablesExact
  <2>1. \A o \in Order : exch[o].st = "unknown" /\ exch[o].filled = 0 /\ applied[o] = 0
    BY DEF Init, HandlerInit, Unsent
  <2>2. conn = Channel /\ live = {} /\ cids = {} /\ hand = None /\ wire = <<>>
    BY DEF Init, HandlerInit
  <2>3. NewFirst /\ EndComes /\ RecoversRefusals /\ Whole
    BY <1>2, <1>3, <2>1, <2>2 DEF NewFirst, EndComes, RecoversRefusals, Whole
  <2>4. ASSUME NEW o \in Order
        PROVE  CaughtUp(o) /\ LiveExact(o) /\ CidExact(o) /\ TrackerExact(o)
    <3>1. o # None /\ Range(wire) = {}
      BY <2>2, NoneAssumption DEF Range
    <3>2. ~Accepted(o) /\ ~Closed(o)
      BY <2>1 DEF Accepted, Closed
    <3> QED BY <1>3, <2>1, <2>2, <3>1, <3>2 DEF CaughtUp, LiveExact, CidExact, TrackerExact
  <2> QED BY <2>2, <2>3, <2>4 DEF TablesExact
<1>5. \A f : SumFunctionOnSet(f, emitted) = 0
  BY <1>2, FS_EmptySet, SumTerm
<1>6. ASSUME NEW p, NEW c \in Currency PROVE WalletExact(p, c) /\ BookExact(p, c)
  <2>1. /\ Deposit[c] \in Nat
        /\ wallet[c].available = Deposit[c] /\ wallet[c].frozen = 0
        /\ book[c].available = Deposit[c] /\ book[c].frozen = 0 /\ book[c].reserved = 0
    BY DepositAssumption DEF Init
  <2>2. \A f : InAll(f) = 0
    BY <1>5 DEF InAll
  <2> QED BY <2>1, <2>2 DEF WalletExact, BookExact
<1>7. \A k \in Position : \A fills : Net(k, fills) = Carried[k] /\ Carried[k] \in Nat
  <2> SUFFICES ASSUME NEW k \in Position, NEW fills
               PROVE  Net(k, fills) = Carried[k] /\ Carried[k] \in Nat
    OBVIOUS
  <2>1. Carried[k] \in Nat
    BY DepositAssumption
  <2>2. \A f : InAll(f) = 0
    BY <1>5 DEF InAll
  <2> QED BY <2>1, <2>2 DEF Net
<1>8. \A k \in Position : PositionExact(k)
  BY <1>7 DEF PositionExact, Init
<1>9. PositionsCovered
  <2>1. Filled = [o \in Order |-> 0] /\ applied = [o \in Order |-> 0]
    BY DEF Filled, Init, HandlerInit, Unsent
  <2> DEFINE fills == [i \in 0 .. 0 |-> applied]
  <2>2. fills \in [0 .. Len(inbox) -> [Order -> Nat]]
    BY <1>2, <2>1
  <2>3. Possible(applied)
    <3>1. \A o \in Order : applied[o] <= exch[o].filled
      BY DEF Init, HandlerInit, Unsent
    <3>2. \A k \in Position : Net(k, applied) = Carried[k] /\ Carried[k] \in Nat
      BY <1>7
    <3> QED BY <3>1, <3>2 DEF Possible
  <2>4. Course(fills)
    BY <1>2, <1>3, <2>1, <2>3 DEF Course
  <2> QED BY <2>2, <2>4 DEF PositionsCovered
<1> QED BY <1>1, <1>4, <1>6, <1>8, <1>9 DEF QuietInv, TablesAgree, BooksAgreeAt, BooksExact

(* What is left of the invariant when every report sent has been applied.     *)
LEMMA NothingToCome ==
  ASSUME LedgerInv, TablesExact, inbox = <<>>, Idle(Listener), NEW o \in Order
  PROVE  /\ applied[o] = exch[o].filled
         /\ Keeping(o) = Resting(o)
         /\ Reserved(o) <=> exch[o].st = "unknown"
         /\ o \in live <=> Open(o)
         /\ o \in cids <=> Holds(o) /\ (hand = o \/ o \in Range(wire))
         /\ tracker[o] = IF Open(o) THEN exch[o].filled ELSE 0
<1>1. h[Listener].pc = "idle" /\ Range(inbox) = {}
  BY DEF Idle, Range
<1>2. ToApply = {} /\ ToTrack = {} /\ ToRelease = {} /\ ~Recovered(o)
  BY <1>1 DEF ToApply, ToTrack, ToRelease, UpTo, InHand, Recovered
<1>3. applied[o] = exch[o].filled
  BY <1>2 DEF TablesExact, CaughtUp
<1>4. exch[o].st \in ExchState /\ (exch[o].st = "unknown" => exch[o].filled = 0)
  BY DEF LedgerInv, Orderly, TypeOK, Volumes
<1>5. Open(o) <=> Accepted(o) /\ ~Closed(o)
  BY <1>4 DEF Open, Accepted, Closed, ExchState
<1>6. Held(o) <=> Open(o)
  BY <1>2, <1>5 DEF Held, NewIn, EndIn
<1>7. Reserved(o) <=> exch[o].st = "unknown"
  BY <1>2 DEF Reserved, NewIn, EndIn
<1>8. o \in live <=> Open(o)
  BY <1>2, <1>5 DEF TablesExact, LiveExact, NewIn, EndIn
<1>9. o \in cids <=> Holds(o) /\ (hand = o \/ o \in Range(wire))
  BY <1>2 DEF TablesExact, CidExact
<1>10. tracker[o] = IF Open(o) THEN exch[o].filled ELSE 0
  <2>1. CASE Closed(o)
    BY <1>2, <1>5, <2>1 DEF TablesExact, TrackerExact, EndIn
  <2>2. CASE ~Closed(o)
    <3>1. applied[o] = tracker[o]
      BY <2>2 DEF LedgerInv, Orderly, AppliedInv, Following, Ended
    <3> QED BY <1>3, <1>4, <2>2, <3>1 DEF Open, Closed, ExchState
  <2> QED BY <2>1, <2>2
<1> QED BY <1>3, <1>6, <1>7, <1>8, <1>9, <1>10 DEF Keeping, Resting

(* What is reserved then is what the undecided orders ask for.                *)
LEMMA ReservedIsLocked ==
  ASSUME NEW p \in Prices, LedgerInv, NEW c \in Currency, BookExact(p, c),
         \A o \in Order : Reserved(o) <=> exch[o].st = "unknown"
  PROVE  book[c].reserved = LockedIn(c, {o \in Order : Undecided(o)})
<1> DEFINE L == {o \in {x \in Order : Undecided(x)} : Reserves(o) /\ LockedCurrency(Terms[o]) = c}
           f == [o \in L |-> Asked(o)]
           g == [o \in emitted |-> Awaited(o, c)]
<1>1. Orderly /\ IsFiniteSet(emitted) /\ emitted \subseteq Order
  BY DEF LedgerInv, Orderly, TypeOK
<1>2. \A y \in emitted : g[y] \in Int
  BY <1>1, CountedTyped
<1>3. L \in SUBSET emitted
  BY DEF Undecided
<1>4. \A y \in L : f[y] = g[y]
  <2> SUFFICES ASSUME NEW y \in L PROVE f[y] = g[y]
    OBVIOUS
  <2>1. y \in Order /\ y \in emitted /\ exch[y].st = "unknown" /\ Locking(y, c)
    BY DEF Undecided, Locking
  <2>2. Awaited(y, c) = Asked(y)
    BY <2>1, KeptTyped DEF Awaited
  <2> QED BY <2>1, <2>2
<1>5. \A y \in emitted : y \notin L => g[y] = 0
  <2> SUFFICES ASSUME NEW y \in emitted, y \notin L PROVE Awaited(y, c) = 0
    OBVIOUS
  <2>1. ~Reserved(y) \/ ~Locking(y, c)
    BY <1>1 DEF Undecided, Locking
  <2> QED BY <2>1 DEF Awaited, Kept
<1>6. LockedIn(c, {o \in Order : Undecided(o)}) = SumFunctionOnSet(f, L)
  BY DEF LockedIn
<1>7. book[c].reserved = SumFunctionOnSet(g, emitted)
  BY DEF BookExact, InAll
<1> HIDE DEF L, f, g
<1> QED BY <1>1, <1>2, <1>3, <1>4, <1>5, <1>6, <1>7, SumOthersZero

(* The tables of live and unconfirmed orders and the fill tracker are what    *)
(* the reports applied and those to come make them, while none is lost.       *)
THEOREM TablesFollow == ChannelSpec => []TablesAgree
<1>1. QuietInv => TablesAgree
  BY DEF QuietInv
<1> QED BY <1>1, InitQuiet, QuietStep, PTL DEF ChannelSpec

(* The account is what the orders made of the deposits, and the engine's      *)
(* books what they made of them as far as their reports were applied, while   *)
(* nothing was lost or pushed, no margin sell refused and no fee charged, all *)
(* buys are limit orders filled at their own price and each sell is filled at *)
(* one price: position_manager.cpp 137-158 books an increment at the average  *)
(* of the whole order, which only then is the price it was filled at.         *)
THEOREM BooksFollow == ChannelSpec => []BooksAgree
<1>1. QuietInv => BooksAgree
  BY PricesFound DEF QuietInv, BooksAgreeAt, BooksAgree, LedgerInv
<1> QED BY <1>1, InitQuiet, QuietStep, PTL DEF ChannelSpec

(* Once every report sent has been applied and none was lost, the engine's    *)
(* tables are the exchange's; and as long as no fee is charged, all buys are  *)
(* limit orders filled at their own price, each sell is filled at one price,  *)
(* no balance was pushed, no margin sell refused and no NET position reduced, *)
(* so are its balances and positions, and what is reserved is what the        *)
(* undecided orders ask for.                                                  *)
THEOREM QuietExact == ChannelSpec => []((\A o \in Order : FeeFree(o)) => QuietIsExact)
<1>1. QuietInv => ((\A o \in Order : FeeFree(o)) => QuietIsExact)
  <2> SUFFICES ASSUME QuietInv, \A o \in Order : FeeFree(o), drops = 0, inbox = <<>>, Idle(Listener)
               PROVE  /\ live = {o \in Order : Open(o)}
                      /\ cids = {o \in Order : Holds(o) /\ (hand = o \/ o \in Range(wire))}
                      /\ tracker = [o \in Order |-> IF Open(o) THEN exch[o].filled ELSE 0]
                      /\ applied = [o \in Order |-> exch[o].filled]
                      /\ AsBooked => BooksQuiet
    BY DEF QuietIsExact
  <2>1. LedgerInv /\ TablesExact /\ emitted \subseteq Order
    BY DEF QuietInv, TablesAgree, LedgerInv, Orderly, TypeOK
  <2>2. \A o \in Order : /\ applied[o] = exch[o].filled
                         /\ Keeping(o) = Resting(o)
                         /\ Reserved(o) <=> exch[o].st = "unknown"
                         /\ o \in live <=> Open(o)
                         /\ o \in cids <=> Holds(o) /\ (hand = o \/ o \in Range(wire))
                         /\ tracker[o] = IF Open(o) THEN exch[o].filled ELSE 0
    BY <2>1, NothingToCome
  <2>3. ASSUME AsBooked PROVE BooksQuiet
    <3>1. Plain
      BY <2>1, <2>3 DEF Plain
    <3>2. PICK p \in Prices : SoldAt(p)
      BY <2>1, <3>1, PricesFound DEF LedgerInv
    <3>3. /\ \A c \in Currency : WalletExact(p, c) /\ BookExact(p, c)
          /\ \A k \in Position : PositionExact(k)
      BY <3>1, <3>2 DEF QuietInv, BooksAgreeAt, BooksExact
    <3>4. ASSUME NEW c \in Currency
          PROVE  /\ book[c].available = wallet[c].available
                 /\ book[c].frozen = wallet[c].frozen
                 /\ book[c].reserved = LockedIn(c, {o \in Order : Undecided(o)})
      <4>1. WalletExact(p, c) /\ BookExact(p, c)
        BY <3>3
      <4>2. /\ [o \in emitted |-> Made(p, o, c, applied[o], Keeping(o))]
                 = [o \in emitted |-> Made(p, o, c, exch[o].filled, Resting(o))]
            /\ [o \in emitted |-> Kept(o, c, Keeping(o))] = [o \in emitted |-> Kept(o, c, Resting(o))]
        BY <2>1, <2>2
      <4>3. book[c].reserved = LockedIn(c, {o \in Order : Undecided(o)})
        BY <2>1, <2>2, <4>1, ReservedIsLocked
      <4> QED BY <4>1, <4>2, <4>3 DEF WalletExact, BookExact
    <3>5. \A k : [o \in emitted |-> Contract(o, k, applied[o])]
                   = [o \in emitted |-> Contract(o, k, Filled[o])]
      BY <2>1, <2>2 DEF Filled
    <3>6. swap \in [Position -> Int] /\ holding \in [Position -> Int]
      BY <2>1 DEF LedgerInv, Orderly, TypeOK, HandlerTypeOK
    <3>7. \A k \in Position : swap[k] = holding[k]
      BY <3>3, <3>5 DEF PositionExact, Net
    <3>8. swap = holding
      BY <3>6, <3>7
    <3> QED BY <3>4, <3>8 DEF BooksQuiet
  <2>5. /\ live \subseteq Order
        /\ cids \subseteq Order
        /\ tracker \in [Order -> Nat] /\ applied \in [Order -> Nat]
    <3>1. h[Listener].pc = "idle"
      BY DEF Idle
    <3>2. NoId \notin live
      BY <2>1, <3>1 DEF TablesExact, RecoversRefusals
    <3> QED BY <2>1, <3>2 DEF LedgerInv, Orderly, TypeOK, HandlerTypeOK, Id
  <2>6. live = {o \in Order : Open(o)}
    BY <2>2, <2>5
  <2>7. cids = {o \in Order : Holds(o) /\ (hand = o \/ o \in Range(wire))}
    BY <2>2, <2>5
  <2>8. tracker = [o \in Order |-> IF Open(o) THEN exch[o].filled ELSE 0]
    BY <2>2, <2>5
  <2>9. applied = [o \in Order |-> exch[o].filled]
    BY <2>2, <2>5
  <2> QED BY <2>3, <2>6, <2>7, <2>8, <2>9
<1> QED BY <1>1, InitQuiet, QuietStep, PTL DEF ChannelSpec
===============================================================================
