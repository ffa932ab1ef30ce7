------------------------ MODULE PrivateChannel_proof ------------------------
(***************************************************************************)
(* Theorems about PrivateChannel, for any orders, channels, plan and number *)
(* of troubles.  Four inductive invariants, each on top of the types and of *)
(* Local, which says where each thread may be:                              *)
(*   WireInv     every body on the wire has its header before it, and a     *)
(*               header without its body is one its thread is still at;     *)
(*   Connection  what a reconnect leaves of the connection before it;       *)
(*   ChannelInv  every channel asked for is carried or about to be sent;    *)
(*   OrdersInv   the way of each order from the dispatcher to its answer.   *)
(* Each is preserved by lemmas about sequences that know nothing of the     *)
(* model, and one lemma that goes through the actions.                      *)
(***************************************************************************)
EXTENDS PrivateChannel, SequenceTheorems, TLAPS

(* Where each thread may be and what it holds there: which frame it sends, and *)
(* that sub_mutex_ is held between a header and its payload and all through a   *)
(* reconnect.                                                                   *)
Local ==
  /\ pc[Main] \in {"idle", "head", "body"}
  /\ pc[Dispatcher] \in {"idle", "insert", "head", "body"}
  /\ pc[Listener] \in {"lock", "head", "body", "select", "read", "erase", "connect", "await"}
  /\ pc[Listener] = "erase" => erasing \in Request
  /\ pc[Main] \in {"head", "body"} =>
       frame[Main].op = "sub" /\ frame[Main].arg \in Range(wanted)
  /\ pc[Dispatcher] \in {"insert", "head", "body"} =>
       frame[Dispatcher].op = "order" /\ frame[Dispatcher].arg \in begun
  /\ frame[Listener].op \in {"ping", "pong"}
  /\ \A t \in {Main, Dispatcher} : pc[t] = "body" => mutex = t
  /\ pc[Listener] \in {"connect", "await"} <=> mutex = Listener

-----------------------------------------------------------------------------
(* Types: what the helpers return, then what each group of actions preserves. *)
LEMMA Sizes ==
  /\ Main \in Thread /\ Dispatcher \in Thread /\ Listener \in Thread
  /\ \A t \in Thread : t = Main \/ t = Dispatcher \/ t = Listener
BY DEF Thread

LEMMA ControlTyped == \A op \in {"ping", "pong", "login"} : Control(op) \in Frame
BY DEF Control, Frame

LEMMA WholeTyped == \A f \in Frame : Whole(f) \in Piece
BY Sizes DEF Whole, Piece

LEMMA SayTyped ==
  /\ \A kind \in {"pong", "ping", "welcome", "unwelcome", "stub"} : Say(kind, Nothing) \in Message
  /\ \A kind \in {"taken", "refused"}, r \in Request : Say(kind, r) \in Message
BY DEF Say, Message

LEMMA PutTyped ==
  ASSUME TypeOK, NEW t \in Thread, NEW part \in {"head", "body", "whole"}, Put(t, part)
  PROVE  wire' \in Seq(Piece)
<1>1. [by |-> t, frame |-> frame[t], part |-> part] \in Piece
  BY DEF TypeOK, Piece
<1> QED BY <1>1 DEF Put, TypeOK

LEMMA RestTyped ==
  ASSUME TypeOK, Ready
  PROVE  Rest \in Seq(Piece) /\ wire[1] \in Piece
<1>1. wire \in Seq(Piece) /\ wire # <<>>
  BY DEF TypeOK, Ready
<1>2. Tail(wire) \in Seq(Piece) /\ wire[1] \in Piece
  BY <1>1
<1>3. CASE wire[1].part = "whole"
  BY <1>2, <1>3 DEF Rest
<1>4. CASE wire[1].part # "whole"
  <2>1. Len(wire) >= 2
    BY <1>4 DEF Ready
  <2>2. Tail(wire) # <<>>
    BY <2>1, <1>1
  <2> QED BY <1>2, <2>2, <1>4 DEF Rest
<1> QED BY <1>3, <1>4

LEMMA HeadTyped ==
  ASSUME TypeOK, NEW kinds, Reads(kinds)
  PROVE  /\ inbox' \in Seq(Message) /\ Head(inbox) \in Message
         /\ Head(inbox).kind \in kinds
BY DEF TypeOK, Reads

LEMMA LostTyped == Lost => wire' \in Seq(Piece) /\ loggedIn' \in BOOLEAN /\ subs' \subseteq Channel
<1> SUFFICES ASSUME Lost PROVE wire' \in Seq(Piece) /\ loggedIn' \in BOOLEAN /\ subs' \subseteq Channel
  OBVIOUS
<1>1. wire' = <<>> /\ subs' = {}
  BY DEF Lost
<1>2. loggedIn' \in BOOLEAN
  BY DEF Lost
<1> QED BY <1>1, <1>2

LEMMA AnswerTyped ==
  ASSUME NEW m \in Message, m.kind \in {"taken", "refused"}
  PROVE  m.of \in Request
BY DEF Message

LEMMA AnswerRead ==
  ASSUME TypeOK, NEW kinds \in SUBSET {"taken", "refused"}, Reads(kinds)
  PROVE  Head(inbox).of \in Request
BY HeadTyped, AnswerTyped

USE DEF At, GoTo, Trouble

LEMMA WriteTyped ==
  ASSUME TypeOK, NEW t \in Thread, WriteHead(t) \/ WriteBody(t) \/ SendFails(t)
  PROVE  TypeOK'
<1>1. CASE WriteHead(t)
  BY <1>1, PutTyped DEF TypeOK, WriteHead, opsVars, historyVars
<1>2. CASE WriteBody(t)
  BY <1>2, PutTyped, ControlTyped DEF TypeOK, WriteBody, opsVars, historyVars
<1>3. CASE SendFails(t)
  BY <1>3, ControlTyped DEF TypeOK, SendFails, opsVars, historyVars, linkVars
<1> QED BY <1>1, <1>2, <1>3

LEMMA TypeInit == Init => TypeOK
<1> SUFFICES ASSUME Init PROVE TypeOK
  OBVIOUS
<1>1. pc \in [Thread -> {"idle", "insert", "lock", "head", "body", "select", "read",
                        "erase", "connect", "await"}]
  BY DEF Init
<1>2. frame \in [Thread -> Frame]
  BY ControlTyped DEF Init
<1>3. verdict \in [Request -> {"none", "taken", "refused"}] /\ told \in [Request -> Nat]
  BY DEF Init
<1>4. wire \in Seq(Piece) /\ inbox \in Seq(Message) /\ wanted \in Seq(Channel)
  BY DEF Init
<1>5. loggedIn \in BOOLEAN /\ pinged \in BOOLEAN /\ raced \in BOOLEAN
  BY DEF Init
<1> QED BY <1>1, <1>2, <1>3, <1>4, <1>5, BoundsAssumption DEF Init, TypeOK

LEMMA SenderTyped ==
  ASSUME TypeOK, Local
  PROVE  Subscribe \/ EndInsert \/ (\E r \in Request : BeginOrder(r)) => TypeOK'
<1>1. ASSUME Subscribe PROVE TypeOK'
  <2>1. Len(wanted) + 1 \in 1 .. Len(Plan)
    BY <1>1, PlanAssumption DEF Subscribe, TypeOK
  <2>2. Plan[Len(wanted) + 1] \in Channel
    BY <2>1, PlanAssumption
  <2>3. [op |-> "sub", arg |-> Plan[Len(wanted) + 1]] \in Frame
    BY <2>2 DEF Frame
  <2>4. wanted' \in Seq(Channel)
    BY <1>1, <2>2 DEF TypeOK, Subscribe
  <2>5. frame' \in [Thread -> Frame]
    BY <1>1, <2>3 DEF TypeOK, Subscribe
  <2> QED BY <1>1, <2>4, <2>5 DEF TypeOK, Subscribe, linkVars, opsVars, historyVars
<1>2. ASSUME EndInsert PROVE TypeOK'
  <2>1. frame[Dispatcher].arg \in Request
    BY <1>2 DEF EndInsert, Local, TypeOK
  <2>3. ops' \subseteq Request
    BY <1>2, <2>1 DEF EndInsert, TypeOK
  <2>4. raced' \in BOOLEAN
    BY <1>2 DEF EndInsert, TypeOK
  <2> QED BY <1>2, <2>3, <2>4 DEF TypeOK, EndInsert, linkVars, historyVars
<1>3. ASSUME NEW r \in Request, BeginOrder(r) PROVE TypeOK'
  <2>1. [op |-> "order", arg |-> r] \in Frame
    BY DEF Frame
  <2> QED BY <1>3, <2>1 DEF TypeOK, BeginOrder, linkVars, opsVars
<1> QED BY <1>1, <1>2, <1>3

LEMMA ListenerTyped ==
  ASSUME TypeOK, Local
  PROVE  ListenerStep \/ ConnectFails => TypeOK'
<1> USE Sizes, BoundsAssumption DEF opsVars, historyVars, linkVars
<1>1. ASSUME NoticeDown PROVE TypeOK'
  BY <1>1 DEF TypeOK, NoticeDown
<1>2. ASSUME Ping PROVE TypeOK'
  BY <1>2, ControlTyped DEF TypeOK, Ping, Quiet
<1>3. ASSUME PongTimeout PROVE TypeOK'
  BY <1>3 DEF TypeOK, PongTimeout, Quiet
<1>4. ASSUME ListenerHead PROVE TypeOK'
  BY <1>4, PutTyped DEF TypeOK, ListenerHead
<1>5. ASSUME ListenerBody PROVE TypeOK'
  BY <1>5, PutTyped, ControlTyped DEF TypeOK, ListenerBody
<1>6. ASSUME ReadStub PROVE TypeOK'
  BY <1>6 DEF TypeOK, ReadStub
<1>7. ASSUME ReadFails PROVE TypeOK'
  BY <1>7 DEF TypeOK, ReadFails
<1>8. ASSUME ReadPing PROVE TypeOK'
  BY <1>8, HeadTyped, ControlTyped DEF TypeOK, ReadPing
<1>9. ASSUME ReadPong PROVE TypeOK'
  BY <1>9, HeadTyped DEF TypeOK, ReadPong
<1>10. ASSUME ReadTaken PROVE TypeOK'
  <2>1. inbox' \in Seq(Message) /\ Head(inbox).of \in Request
    BY <1>10, HeadTyped, AnswerRead DEF ReadTaken
  <2> QED BY <1>10, <2>1 DEF TypeOK, ReadTaken
<1>11. ASSUME ReadRefused PROVE TypeOK'
  <2>1. inbox' \in Seq(Message) /\ Head(inbox).of \in Request
    BY <1>11, HeadTyped, AnswerRead DEF ReadRefused
  <2>2. raced' \in BOOLEAN
    BY <1>11 DEF TypeOK, ReadRefused
  <2>3. told' \in [Request -> Nat] /\ erasing' \in Request \cup {Nothing} /\ heard' \subseteq Request
    BY <1>11, <2>1 DEF TypeOK, ReadRefused
  <2> QED BY <1>11, <2>1, <2>2, <2>3 DEF TypeOK, ReadRefused
<1>12. ASSUME Erase PROVE TypeOK'
  <2>1. ops' \subseteq Request
    BY <1>12 DEF TypeOK, Erase
  <2>2. raced' \in BOOLEAN
    BY <1>12 DEF TypeOK, Erase
  <2>3. heard' \subseteq Request
    BY <1>12 DEF TypeOK, Erase, Local
  <2> QED BY <1>12, <2>1, <2>2, <2>3 DEF TypeOK, Erase
<1>13. ASSUME Reopen PROVE TypeOK'
  <2>1. wire' \in Seq(Piece) /\ loggedIn' \in BOOLEAN /\ subs' \subseteq Channel
    BY <1>13, LostTyped DEF Reopen, Reset
  <2>2. link' = "down" /\ inbox' \in Seq(Message) /\ mutex' = Listener
    BY <1>13 DEF Reopen, Reset
  <2> QED BY <1>13, <2>1, <2>2 DEF TypeOK, Reopen
<1>14. ASSUME Connect PROVE TypeOK'
  BY <1>14, ControlTyped, WholeTyped DEF TypeOK, Connect
<1>15. ASSUME AwaitPing PROVE TypeOK'
  BY <1>15, HeadTyped, ControlTyped, WholeTyped DEF TypeOK, AwaitPing
<1>16. ASSUME LoginFails PROVE TypeOK'
  <2>1. wire' \in Seq(Piece) /\ loggedIn' \in BOOLEAN /\ subs' \subseteq Channel
    BY <1>16, LostTyped DEF LoginFails, Reset
  <2>2. link' = "down" /\ inbox' \in Seq(Message)
    BY <1>16 DEF LoginFails, Reset
  <2>4. GiveUp /\ UNCHANGED <<wanted, opsVars, frame, erasing, historyVars, troubles>>
    BY <1>16 DEF LoginFails
  <2>3. mutex' = Nobody /\ pinged' = FALSE /\ pc' = [pc EXCEPT ![Listener] = "select"]
        /\ UNCHANGED <<wanted, opsVars, frame, erasing, historyVars, troubles>>
    BY <2>4 DEF GiveUp
  <2> QED BY <2>1, <2>2, <2>3 DEF TypeOK
<1>17. ASSUME Resubscribe PROVE TypeOK'
  <2>1. \A i \in 1 .. Len(wanted) : [op |-> "sub", arg |-> wanted[i]] \in Frame
    BY DEF TypeOK, Frame
  <2>0. Len(wanted) \in Nat
    BY DEF TypeOK
  <2>2. [i \in 1 .. Len(wanted) |-> Whole([op |-> "sub", arg |-> wanted[i]])] \in Seq(Piece)
    BY <2>0, <2>1, WholeTyped
  <2>3. wire' \in Seq(Piece)
    BY <1>17, <2>2 DEF TypeOK, Resubscribe
  <2> QED BY <1>17, <2>3, HeadTyped DEF TypeOK, Resubscribe, GiveUp
<1>18. ASSUME ConnectFails PROVE TypeOK'
  <2>1. mutex' = Nobody /\ pinged' = FALSE /\ pc' = [pc EXCEPT ![Listener] = "select"]
        /\ troubles' = troubles + 1 /\ troubles < MaxTroubles
        /\ UNCHANGED <<linkVars, wanted, opsVars, frame, erasing, historyVars>>
    BY <1>18 DEF ConnectFails, GiveUp
  <2>2. pc' \in [Thread -> {"idle", "insert", "lock", "head", "body", "select", "read",
                           "erase", "connect", "await"}]
    BY <2>1 DEF TypeOK
  <2>3. troubles' \in 0 .. MaxTroubles /\ mutex' \in Thread \cup {Nobody}
    BY <2>1 DEF TypeOK
  <2>4. pinged' \in BOOLEAN /\ loggedIn' \in BOOLEAN /\ raced' \in BOOLEAN
    BY <2>1 DEF TypeOK
  <2> QED BY <2>1, <2>2, <2>3, <2>4 DEF TypeOK
<1>19. ASSUME ConnectBreaks PROVE TypeOK'
  <2>1. wire' \in Seq(Piece) /\ loggedIn' \in BOOLEAN /\ subs' \subseteq Channel
    BY <1>19, LostTyped DEF ConnectBreaks, Reset
  <2>2. link' = "down" /\ inbox' \in Seq(Message)
    BY <1>19 DEF ConnectBreaks, Reset
  <2>3. GiveUp /\ UNCHANGED <<wanted, opsVars, frame, erasing, historyVars, troubles>>
    BY <1>19 DEF ConnectBreaks
  <2>4. mutex' = Nobody /\ pinged' = FALSE /\ pc' = [pc EXCEPT ![Listener] = "select"]
        /\ UNCHANGED <<wanted, opsVars, frame, erasing, historyVars, troubles>>
    BY <2>3 DEF GiveUp
  <2> QED BY <2>1, <2>2, <2>4 DEF TypeOK
<1> QED BY <1>1, <1>2, <1>3, <1>4, <1>5, <1>6, <1>7, <1>8, <1>9, <1>10, <1>11, <1>12, <1>13,
           <1>14, <1>15, <1>16, <1>17, <1>18, <1>19 DEF ListenerStep

LEMMA ExchangeTyped ==
  ASSUME TypeOK
  PROVE  ExchangeStep \/ ProtocolPing \/ Die \/ FallSilent => TypeOK'
<1> USE BoundsAssumption DEF opsVars, historyVars
<1>1. ASSUME TakeSubscription PROVE TypeOK'
  <2>1. wire[1].frame.arg \in Channel
    BY <1>1, RestTyped DEF TypeOK, TakeSubscription, Piece, Frame
  <2> QED BY <1>1, <2>1, RestTyped DEF TypeOK, TakeSubscription
<1>2. ASSUME TakeOrder PROVE TypeOK'
  <2>1. wire[1].frame.arg \in Request
    BY <1>2, RestTyped DEF TypeOK, TakeOrder, Piece, Frame
  <2>2. verdict' \in [Request -> {"none", "taken", "refused"}] /\ inbox' \in Seq(Message)
    BY <1>2, <2>1, SayTyped DEF TypeOK, TakeOrder
  <2> QED BY <1>2, <2>2, RestTyped DEF TypeOK, TakeOrder
<1>3. ASSUME TakePing PROVE TypeOK'
  <2>1. inbox' \in Seq(Message)
    BY <1>3, SayTyped DEF TypeOK, TakePing
  <2> QED BY <1>3, <2>1, RestTyped DEF TypeOK, TakePing
<1>4. ASSUME TakeLogin PROVE TypeOK'
  <2>1. /\ inbox \in Seq(Message)
        /\ Say("welcome", Nothing) \in Message /\ Say("unwelcome", Nothing) \in Message
    BY SayTyped DEF TypeOK
  <2>2. \/ loggedIn' = TRUE /\ inbox' = Append(inbox, Say("welcome", Nothing)) /\ troubles' = troubles
        \/ Trouble /\ inbox' = Append(inbox, Say("unwelcome", Nothing)) /\ loggedIn' = loggedIn
    BY <1>4 DEF TakeLogin
  <2>3. inbox' \in Seq(Message)
    BY <2>1, <2>2
  <2>4. loggedIn' \in BOOLEAN
    BY <2>2 DEF TypeOK
  <2>5. troubles' \in 0 .. MaxTroubles
    BY <2>2 DEF TypeOK
  <2> QED BY <1>4, <2>3, <2>4, <2>5, RestTyped DEF TypeOK, TakeLogin
<1>5. ASSUME CloseTorn PROVE TypeOK'
  <2>1. wire' \in Seq(Piece) /\ loggedIn' \in BOOLEAN /\ subs' \subseteq Channel
    BY <1>5, LostTyped DEF CloseTorn
  <2> QED BY <1>5, <2>1 DEF TypeOK, CloseTorn
<1>6. ASSUME ProtocolPing PROVE TypeOK'
  BY <1>6, SayTyped DEF TypeOK, ProtocolPing
<1>7. ASSUME Die PROVE TypeOK'
  <2>1. wire' \in Seq(Piece) /\ loggedIn' \in BOOLEAN /\ subs' \subseteq Channel
    BY <1>7, LostTyped DEF Die
  <2>4. inbox' \in {inbox, <<>>}
    BY <1>7 DEF Die
  <2>5. inbox \in Seq(Message) /\ <<>> \in Seq(Message)
    BY DEF TypeOK
  <2>6. link' = "dead" /\ troubles' \in 0 .. MaxTroubles
    BY <1>7 DEF TypeOK, Die
  <2>2. link' = "dead" /\ inbox' \in Seq(Message) /\ troubles' \in 0 .. MaxTroubles
    BY <2>4, <2>5, <2>6
  <2>3. UNCHANGED <<mutex, wanted, opsVars, pc, frame, erasing, pinged, historyVars>>
    BY <1>7 DEF Die
  <2> QED BY <2>1, <2>2, <2>3 DEF TypeOK
<1>8. ASSUME FallSilent PROVE TypeOK'
  <2>1. ASSUME NEW n \in DOMAIN inbox PROVE Append(SubSeq(inbox, 1, n - 1), Say("stub", Nothing)) \in Seq(Message)
    <3>1. inbox \in Seq(Message) /\ n \in 1 .. Len(inbox)
      BY DEF TypeOK
    <3>2. SubSeq(inbox, 1, n - 1) \in Seq(Message)
      BY <3>1
    <3> QED BY <3>2, SayTyped
  <2>3. inbox \in Seq(Message) /\ <<>> \in Seq(Message)
    BY DEF TypeOK
  <2>2. inbox' \in Seq(Message)
    BY <1>8, <2>1, <2>3 DEF FallSilent
  <2>4. wire' \in Seq(Piece) /\ loggedIn' \in BOOLEAN /\ subs' \subseteq Channel
    BY <1>8, LostTyped DEF FallSilent
  <2>5. link' \in {"down", "up", "mute", "dead"} /\ troubles' \in 0 .. MaxTroubles
    BY <1>8 DEF TypeOK, FallSilent
  <2>6. UNCHANGED <<mutex, wanted, opsVars, pc, frame, erasing, pinged, historyVars>>
    BY <1>8 DEF FallSilent
  <2> QED BY <2>2, <2>4, <2>5, <2>6 DEF TypeOK
<1> QED BY <1>1, <1>2, <1>3, <1>4, <1>5, <1>6, <1>7, <1>8 DEF ExchangeStep

LEMMA TypeStep == TypeOK /\ Local /\ [Next]_vars => TypeOK'
<1> SUFFICES ASSUME TypeOK, Local, [Next]_vars PROVE TypeOK'
  OBVIOUS
<1>1. CASE UNCHANGED vars
  BY <1>1 DEF vars, linkVars, opsVars, historyVars, TypeOK
<1> QED BY <1>1, Sizes, WriteTyped, SenderTyped, ListenerTyped, ExchangeTyped
        DEF Next, MainStep, SendingStep

LEMMA InitLocal == Init => Local
BY Sizes, ThreadAssumption DEF Init, Local, Control

LEMMA LocalStep == TypeOK /\ Local /\ [Next]_vars => Local'
<1> SUFFICES ASSUME TypeOK, Local PROVE [Next]_vars => Local'
  OBVIOUS
<1> USE Sizes, ThreadAssumption
<1>0. /\ pc \in [Thread -> {"idle", "insert", "lock", "head", "body", "select", "read",
                          "erase", "connect", "await"}]
      /\ frame \in [Thread -> Frame]
      /\ Main # Nobody /\ Dispatcher # Nobody /\ Listener # Nobody
  BY DEF TypeOK
<1> USE <1>0 DEF Local, opsVars, historyVars, linkVars
<1>1. ASSUME UNCHANGED vars PROVE Local'
  BY <1>1 DEF vars
<1>2. ASSUME Subscribe PROVE Local'
  <2>1. /\ frame' = [frame EXCEPT ![Main] = [op |-> "sub", arg |-> Plan[Len(wanted) + 1]]]
        /\ pc' = [pc EXCEPT ![Main] = "head"]
        /\ UNCHANGED <<mutex, erasing, begun>>
    BY <1>2 DEF Subscribe
  <2>3. Plan[Len(wanted) + 1] \in Channel /\ wanted \in Seq(Channel)
    BY <1>2, PlanAssumption DEF Subscribe, TypeOK
  <2>4. wanted' = Append(wanted, Plan[Len(wanted) + 1])
    BY <1>2 DEF Subscribe
  <2>5. Len(wanted) + 1 \in DOMAIN wanted' /\ wanted'[Len(wanted) + 1] = Plan[Len(wanted) + 1]
    BY <2>3, <2>4
  <2>2. Plan[Len(wanted) + 1] \in Range(wanted')
    BY <2>5 DEF Range
  <2> QED BY <2>1, <2>2
<1>3. ASSUME NEW t \in {Main, Dispatcher}, WriteHead(t) PROVE Local'
  BY <1>3 DEF WriteHead
<1>4. ASSUME NEW t \in {Main, Dispatcher}, WriteBody(t) PROVE Local'
  BY <1>4 DEF WriteBody, Control
<1>5. ASSUME NEW t \in {Main, Dispatcher}, SendFails(t) PROVE Local'
  BY <1>5 DEF SendFails, Control
<1>6. ASSUME NEW r \in Request, BeginOrder(r) PROVE Local'
  BY <1>6 DEF BeginOrder
<1>7. ASSUME EndInsert PROVE Local'
  BY <1>7 DEF EndInsert
<1>8. ASSUME ListenerHead \/ ListenerBody PROVE Local'
  BY <1>8 DEF ListenerHead, ListenerBody, Control
<1>9. ASSUME NoticeDown \/ Ping \/ PongTimeout \/ ReadStub \/ ReadFails PROVE Local'
  BY <1>9 DEF NoticeDown, Ping, PongTimeout, ReadStub, ReadFails, Quiet, Control, Reading
<1>10. ASSUME ReadPing \/ ReadPong PROVE Local'
  BY <1>10 DEF ReadPing, ReadPong, Control, Reading
<1>11. ASSUME ReadTaken \/ ReadRefused PROVE Local'
  <2>1. Head(inbox).of \in Request
    BY <1>11, AnswerRead DEF ReadTaken, ReadRefused
  <2> QED BY <1>11, <2>1 DEF ReadTaken, ReadRefused, Reading
<1>12. ASSUME Erase PROVE Local'
  BY <1>12 DEF Erase
<1>13. ASSUME Reopen \/ Connect \/ AwaitPing PROVE Local'
  BY <1>13 DEF Reopen, Connect, AwaitPing, Opening
<1>14. ASSUME ConnectFails \/ ConnectBreaks \/ LoginFails \/ Resubscribe PROVE Local'
  BY <1>14 DEF ConnectFails, ConnectBreaks, LoginFails, Resubscribe, GiveUp, Opening
<1>15. ASSUME ExchangeStep \/ ProtocolPing \/ Die \/ FallSilent PROVE Local'
  <2>1. UNCHANGED <<mutex, wanted, pc, frame, erasing, begun>>
    BY <1>15 DEF ExchangeStep, TakeSubscription, TakeOrder, TakePing, TakeLogin, CloseTorn,
                 ProtocolPing, Die, FallSilent
  <2> QED BY <2>1
<1> QED BY <1>1, <1>2, <1>3, <1>4, <1>5, <1>6, <1>7, <1>8, <1>9, <1>10, <1>11, <1>12, <1>13, <1>14, <1>15
        DEF Next, MainStep, SendingStep, ListenerStep

-----------------------------------------------------------------------------
(* What lies on the wire, w of length n, while thread t is at p[t] with the  *)
(* frame f[t] and the connection is l: every body has its head before it,    *)
(* every head has its body or its thread is about to write it, and only the  *)
(* listener comes between the two.                                           *)
Matched(w, j, i) == /\ j < i
                    /\ w[j].part = "head" /\ w[i].part = "body"
                    /\ w[i].by = w[j].by /\ w[i].frame = w[j].frame
                    /\ \A k \in j + 1 .. i - 1 : w[k].by # w[i].by

Unmatched(w, n, j, t) == /\ w[j].by = t /\ w[j].part = "head"
                         /\ \A k \in j + 1 .. n : w[k].by # t

BodiesMatched(w, n) == \A i \in 1 .. n : w[i].part = "body" => \E j \in 1 .. n : Matched(w, j, i)

HeadsMatched(w, n, p, f) ==
  \A j \in 1 .. n : w[j].part = "head" =>
    \/ \E i \in 1 .. n : Matched(w, j, i)
    \/ /\ p[w[j].by] = "body"
       /\ Unmatched(w, n, j, w[j].by)
       /\ w[j].frame = f[w[j].by]

HeadSent(w, n, p, f, l) ==
  \A t \in Thread : p[t] = "body" /\ l = "up" =>
    \E j \in 1 .. n : Unmatched(w, n, j, t) /\ w[j].frame = f[t]

Undisturbed(w, n) ==
  \A i, j \in 1 .. n : Matched(w, j, i) =>
    \A k \in j + 1 .. i - 1 : Listener \in {w[k].by, w[i].by}

StillUndisturbed(w, n, p) ==
  \A t \in {Main, Dispatcher}, j \in 1 .. n : p[t] = "body" /\ Unmatched(w, n, j, t) =>
    \A k \in j + 1 .. n : w[k].by = Listener

Pieces(w, n) == \A i \in 1 .. n : w[i] \in Piece

WellSent(w, n, p, f, l) ==
  /\ Pieces(w, n)
  /\ l # "up" => n = 0
  /\ BodiesMatched(w, n)
  /\ HeadsMatched(w, n, p, f)
  /\ HeadSent(w, n, p, f, l)
  /\ Undisturbed(w, n)
  /\ StillUndisturbed(w, n, p)

(* How the parts of WellSent follow the wire: it is kept, it is emptied, a     *)
(* piece is written, whole frames are written, the first frame is taken.       *)
LEMMA PieceFields ==
  ASSUME NEW x \in Piece
  PROVE  x.by \in Thread /\ x.frame \in Frame /\ x.part \in {"head", "body", "whole"}
BY DEF Piece

(* Nothing is written and no frame half written changes. *)
LEMMA WireKept ==
  ASSUME NEW w, NEW n \in Nat, NEW p, NEW q, NEW f, NEW g, NEW l, WellSent(w, n, p, f, l),
         \A t \in Thread : (q[t] = "body" <=> p[t] = "body") /\ (p[t] = "body" => g[t] = f[t])
  PROVE  WellSent(w, n, q, g, l)
<1>1. HeadsMatched(w, n, q, g)
  BY PieceFields DEF WellSent, HeadsMatched, Pieces
<1>2. HeadSent(w, n, q, g, l)
  BY DEF WellSent, HeadSent
<1>3. StillUndisturbed(w, n, q)
  BY Sizes DEF WellSent, StillUndisturbed
<1> QED BY <1>1, <1>2, <1>3 DEF WellSent

LEMMA WireEmpty ==
  ASSUME NEW w, NEW q, NEW g, NEW l, l # "up" \/ \A t \in Thread : q[t] # "body"
  PROVE  WellSent(w, 0, q, g, l)
BY DEF WellSent, Pieces, BodiesMatched, HeadsMatched, HeadSent, Undisturbed, StillUndisturbed

(* A body that has its header keeps it when the wire grows. *)
LEMMA MatchedExtended ==
  ASSUME NEW w, NEW v, NEW n \in Nat, \A k \in 1 .. n : v[k] = w[k], NEW i \in 1 .. n, NEW j \in 1 .. n
  PROVE  Matched(w, j, i) <=> Matched(v, j, i)
<1>1. v[i] = w[i] /\ v[j] = w[j] /\ \A k \in j + 1 .. i - 1 : v[k] = w[k]
  OBVIOUS
<1> QED BY <1>1 DEF Matched

(* v is w, of length n, with piece z of the frame of thread t written after it. *)
Written(w, v, n, z, f, t, part) ==
  /\ z = n + 1
  /\ \A k \in 1 .. n : v[k] = w[k]
  /\ v[n + 1] \in Piece
  /\ v[n + 1].by = t /\ v[n + 1].frame = f[t] /\ v[n + 1].part = part

(* Thread t writes a header: it had none that waits for its body. *)
HeadWritten(w, v, n, z, p, q, f, t) ==
  /\ Written(w, v, n, z, f, t, "head")
  /\ p[t] # "body"
  /\ \A u \in Thread : q[u] = IF u = t THEN "body" ELSE p[u]
  /\ t # Listener => \A u \in {Main, Dispatcher} : p[u] # "body"

LEMMA WireHead ==
  ASSUME NEW w, NEW v, NEW n \in Nat, NEW z, NEW p, NEW q, NEW f, NEW t \in Thread,
         WellSent(w, n, p, f, "up"), HeadWritten(w, v, n, z, p, q, f, t)
  PROVE  WellSent(v, z, q, f, "up")
<1> USE DEF HeadWritten, Written
<1>7. \A i, j \in 1 .. n : Matched(w, j, i) <=> Matched(v, j, i)
  BY MatchedExtended
<1>8. \A i, j \in 1 .. n + 1 : Matched(v, j, i) =>
        v[i].part = "body" /\ i \in 1 .. n /\ j \in 1 .. n
  <2> SUFFICES ASSUME NEW i \in 1 .. n + 1, NEW j \in 1 .. n + 1, Matched(v, j, i)
               PROVE  v[i].part = "body" /\ i \in 1 .. n /\ j \in 1 .. n
    OBVIOUS
  <2>1. v[i].part = "body" /\ j < i
    BY DEF Matched
  <2>2. i # n + 1
    BY <2>1
  <2> QED BY <2>1, <2>2
<1>0. /\ Pieces(w, n) /\ BodiesMatched(w, n) /\ HeadsMatched(w, n, p, f)
      /\ HeadSent(w, n, p, f, "up") /\ Undisturbed(w, n) /\ StillUndisturbed(w, n, p)
  BY DEF WellSent
<1>1. Pieces(v, n + 1)
  <2>1. \A i \in 1 .. n + 1 : i \in 1 .. n \/ i = n + 1
    OBVIOUS
  <2> QED BY <1>0, <2>1 DEF Pieces
<1>2. BodiesMatched(v, n + 1)
  <2> SUFFICES ASSUME NEW i \in 1 .. n + 1, v[i].part = "body"
               PROVE  \E j \in 1 .. n + 1 : Matched(v, j, i)
    BY DEF BodiesMatched
  <2>1. i \in 1 .. n /\ w[i].part = "body"
    OBVIOUS
  <2>2. PICK j \in 1 .. n : Matched(w, j, i)
    BY <2>1, <1>0 DEF BodiesMatched
  <2> QED BY <2>1, <2>2, <1>7
<1>3. HeadsMatched(v, n + 1, q, f)
  <2> SUFFICES ASSUME NEW j \in 1 .. n + 1, v[j].part = "head"
               PROVE  \/ \E i \in 1 .. n + 1 : Matched(v, j, i)
                      \/ /\ q[v[j].by] = "body"
                         /\ Unmatched(v, n + 1, j, v[j].by)
                         /\ v[j].frame = f[v[j].by]
    BY DEF HeadsMatched
  <2>1. CASE j = n + 1
    BY <2>1 DEF Unmatched
  <2>2. CASE j \in 1 .. n
    <3>1. v[j] = w[j] /\ w[j].by \in Thread
      BY <2>2, <1>0, PieceFields DEF Pieces
    <3>2. CASE \E i \in 1 .. n : Matched(w, j, i)
      <4>1. PICK i \in 1 .. n : Matched(w, j, i)
        BY <3>2
      <4>2. Matched(v, j, i) /\ i \in 1 .. n + 1
        BY <4>1, <2>2, <1>7
      <4> QED BY <4>2
    <3>3. CASE p[w[j].by] = "body" /\ Unmatched(w, n, j, w[j].by) /\ w[j].frame = f[w[j].by]
      <4>1. w[j].by # t
        BY <3>3
      <4>2. \A k \in j + 1 .. n + 1 : k \in j + 1 .. n \/ k = n + 1
        BY <2>2
      <4>3. \A k \in j + 1 .. n : v[k] = w[k]
        BY <2>2
      <4>4. Unmatched(v, n + 1, j, v[j].by)
        BY <3>1, <3>3, <4>1, <4>2, <4>3 DEF Unmatched
      <4> QED BY <3>1, <3>3, <4>1, <4>4
    <3> QED BY <3>1, <3>2, <3>3, <2>2, <1>0 DEF HeadsMatched
  <2> QED BY <2>1, <2>2
<1>4. HeadSent(v, n + 1, q, f, "up")
  <2> SUFFICES ASSUME NEW u \in Thread, q[u] = "body"
               PROVE  \E j \in 1 .. n + 1 : Unmatched(v, n + 1, j, u) /\ v[j].frame = f[u]
    BY DEF HeadSent
  <2>1. CASE u = t
    <3>1. Unmatched(v, n + 1, n + 1, u)
      BY <2>1 DEF Unmatched
    <3> QED BY <2>1, <3>1
  <2>2. CASE u # t
    <3>1. p[u] = "body"
      BY <2>2
    <3>2. PICK j \in 1 .. n : Unmatched(w, n, j, u) /\ w[j].frame = f[u]
      BY <3>1, <1>0 DEF HeadSent
    <3>3. \A k \in j + 1 .. n + 1 : (k \in j + 1 .. n /\ v[k] = w[k]) \/ k = n + 1
      OBVIOUS
    <3>4. Unmatched(v, n + 1, j, u)
      BY <2>2, <3>2, <3>3 DEF Unmatched
    <3> QED BY <3>2, <3>4
  <2> QED BY <2>1, <2>2
<1>5. Undisturbed(v, n + 1)
  <2> SUFFICES ASSUME NEW i \in 1 .. n + 1, NEW j \in 1 .. n + 1, Matched(v, j, i),
                      NEW k \in j + 1 .. i - 1
               PROVE  Listener \in {v[k].by, v[i].by}
    BY DEF Undisturbed
  <2>1. i \in 1 .. n /\ j \in 1 .. n /\ k \in 1 .. n
    BY <1>8
  <2>2. Matched(w, j, i)
    BY <2>1, <1>7
  <2> QED BY <2>1, <2>2, <1>0 DEF Undisturbed
<1>6. StillUndisturbed(v, n + 1, q)
  <2> SUFFICES ASSUME NEW u \in {Main, Dispatcher}, NEW j \in 1 .. n + 1, q[u] = "body",
                      Unmatched(v, n + 1, j, u), NEW k \in j + 1 .. n + 1
               PROVE  v[k].by = Listener
    BY DEF StillUndisturbed
  <2>1. j \in 1 .. n /\ u \in Thread /\ v[j] = w[j]
    BY Sizes
  <2>2. CASE u = t
    <3>1. ~ \E i \in 1 .. n : Matched(w, j, i)
      <4> SUFFICES ASSUME NEW i \in 1 .. n, Matched(w, j, i) PROVE FALSE
        OBVIOUS
      <4>1. i \in j + 1 .. n + 1 /\ v[i] = w[i]
        BY <2>1 DEF Matched
      <4> QED BY <4>1, <2>1 DEF Matched, Unmatched
    <3>2. w[j].by = t /\ w[j].part = "head"
      BY <2>1, <2>2 DEF Unmatched
    <3> QED BY <3>1, <3>2, <2>1, <1>0 DEF HeadsMatched
  <2>3. CASE u # t
    <3>1. p[u] = "body" /\ t = Listener
      BY <2>3, <2>1
    <3>2. \A m \in j + 1 .. n : v[m] = w[m] /\ m \in j + 1 .. n + 1
      BY <2>1
    <3>3. Unmatched(w, n, j, u)
      BY <2>1, <3>2 DEF Unmatched
    <3>4. k \in j + 1 .. n \/ k = n + 1
      BY <2>1
    <3> QED BY <3>1, <3>2, <3>3, <3>4, <2>1, <1>0 DEF StillUndisturbed
  <2> QED BY <2>2, <2>3
<1>9. WellSent(v, n + 1, q, f, "up")
  BY <1>1, <1>2, <1>3, <1>4, <1>5, <1>6 DEF WellSent
<1> QED BY <1>9

(* Thread t writes the payload of the header it wrote. *)
BodyWritten(w, v, n, z, p, q, f, g, t) ==
  /\ Written(w, v, n, z, f, t, "body")
  /\ p[t] = "body" /\ q[t] # "body"
  /\ \A u \in Thread \ {t} : q[u] = p[u] /\ g[u] = f[u]
  /\ t # Listener => \A u \in {Main, Dispatcher} \ {t} : p[u] # "body"

LEMMA WireBody ==
  ASSUME NEW w, NEW v, NEW n \in Nat, NEW z, NEW p, NEW q, NEW f, NEW g, NEW t \in Thread,
         WellSent(w, n, p, f, "up"), BodyWritten(w, v, n, z, p, q, f, g, t)
  PROVE  WellSent(v, z, q, g, "up")
<1> USE DEF BodyWritten, Written
<1>0. /\ Pieces(w, n) /\ BodiesMatched(w, n) /\ HeadsMatched(w, n, p, f)
      /\ HeadSent(w, n, p, f, "up") /\ Undisturbed(w, n) /\ StillUndisturbed(w, n, p)
  BY DEF WellSent
<1>7. \A i, j \in 1 .. n : Matched(w, j, i) <=> Matched(v, j, i)
  BY MatchedExtended
<1>8. \A i \in 1 .. n + 1 : (i \in 1 .. n /\ v[i] = w[i]) \/ i = n + 1
  OBVIOUS
<1>9. PICK m \in 1 .. n : Unmatched(w, n, m, t) /\ w[m].frame = f[t]
  BY <1>0 DEF HeadSent
<1>10. Matched(v, m, n + 1)
  <2>1. \A k \in m + 1 .. n : w[k].by # t /\ v[k] = w[k]
    BY <1>9 DEF Unmatched
  <2>2. v[m].part = "head" /\ v[m].by = t /\ v[m].frame = f[t]
    BY <1>9 DEF Unmatched
  <2>3. (n + 1) - 1 = n /\ m < n + 1
    OBVIOUS
  <2> QED BY <2>1, <2>2, <2>3 DEF Matched
<1>1. Pieces(v, n + 1)
  BY <1>0, <1>8 DEF Pieces
<1>2. BodiesMatched(v, n + 1)
  <2> SUFFICES ASSUME NEW i \in 1 .. n + 1, v[i].part = "body"
               PROVE  \E j \in 1 .. n + 1 : Matched(v, j, i)
    BY DEF BodiesMatched
  <2>1. CASE i \in 1 .. n
    <3>1. PICK j \in 1 .. n : Matched(w, j, i)
      BY <2>1, <1>0 DEF BodiesMatched
    <3> QED BY <3>1, <2>1, <1>7
  <2>2. CASE i = n + 1
    <3>1. m \in 1 .. n + 1
      OBVIOUS
    <3> QED BY <2>2, <3>1, <1>10
  <2> QED BY <2>1, <2>2, <1>8
<1>3. HeadsMatched(v, n + 1, q, g)
  <2> SUFFICES ASSUME NEW j \in 1 .. n + 1, v[j].part = "head"
               PROVE  \/ \E i \in 1 .. n + 1 : Matched(v, j, i)
                      \/ /\ q[v[j].by] = "body"
                         /\ Unmatched(v, n + 1, j, v[j].by)
                         /\ v[j].frame = g[v[j].by]
    BY DEF HeadsMatched
  <2>1. j \in 1 .. n /\ v[j] = w[j]
    BY <1>8
  <2>2. w[j].by \in Thread
    BY <2>1, <1>0, PieceFields DEF Pieces
  <2>3. CASE \E i \in 1 .. n : Matched(w, j, i)
    <3>1. PICK i \in 1 .. n : Matched(w, j, i)
      BY <2>3
    <3>2. Matched(v, j, i) /\ i \in 1 .. n + 1
      BY <3>1, <2>1, <1>7
    <3> QED BY <3>2
  <2>4. CASE p[w[j].by] = "body" /\ Unmatched(w, n, j, w[j].by) /\ w[j].frame = f[w[j].by]
    <3>1. CASE w[j].by = t
      <4>1. j = m
        <5>1. ~(j < m) /\ ~(m < j)
          <6>1. w[m].by = t /\ w[j].by = t
            BY <1>9, <3>1 DEF Unmatched
          <6>2. (m \in j + 1 .. n => w[m].by # t) /\ (j \in m + 1 .. n => w[j].by # t)
            BY <1>9, <2>4, <3>1 DEF Unmatched
          <6> QED BY <6>1, <6>2, <2>1
        <5> QED BY <5>1, <2>1
      <4>2. n + 1 \in 1 .. n + 1
        OBVIOUS
      <4> QED BY <4>1, <4>2, <1>10
    <3>2. CASE w[j].by # t
      <4>1. \A k \in j + 1 .. n + 1 : (k \in j + 1 .. n /\ v[k] = w[k]) \/ k = n + 1
        BY <2>1
      <4>2. Unmatched(v, n + 1, j, v[j].by)
        BY <2>1, <2>4, <3>2, <4>1 DEF Unmatched
      <4> QED BY <4>2, <2>1, <2>2, <2>4, <3>2
    <3> QED BY <3>1, <3>2
  <2> QED BY <2>1, <2>3, <2>4, <1>0 DEF HeadsMatched
<1>4. HeadSent(v, n + 1, q, g, "up")
  <2> SUFFICES ASSUME NEW u \in Thread, q[u] = "body"
               PROVE  \E j \in 1 .. n + 1 : Unmatched(v, n + 1, j, u) /\ v[j].frame = g[u]
    BY DEF HeadSent
  <2>1. u # t /\ p[u] = "body" /\ g[u] = f[u]
    OBVIOUS
  <2>2. PICK j \in 1 .. n : Unmatched(w, n, j, u) /\ w[j].frame = f[u]
    BY <2>1, <1>0 DEF HeadSent
  <2>3. \A k \in j + 1 .. n + 1 : (k \in j + 1 .. n /\ v[k] = w[k]) \/ k = n + 1
    OBVIOUS
  <2>4. Unmatched(v, n + 1, j, u)
    BY <2>1, <2>2, <2>3 DEF Unmatched
  <2> QED BY <2>1, <2>2, <2>4
<1>5. Undisturbed(v, n + 1)
  <2> SUFFICES ASSUME NEW i \in 1 .. n + 1, NEW j \in 1 .. n + 1, Matched(v, j, i),
                      NEW k \in j + 1 .. i - 1
               PROVE  Listener \in {v[k].by, v[i].by}
    BY DEF Undisturbed
  <2>0. j \in 1 .. n /\ k \in 1 .. n /\ v[k] = w[k] /\ v[j] = w[j]
    BY DEF Matched
  <2>1. CASE i \in 1 .. n
    <3>1. Matched(w, j, i) /\ v[i] = w[i]
      BY <2>0, <2>1, <1>7
    <3> QED BY <2>0, <2>1, <3>1, <1>0 DEF Undisturbed
  <2>2. CASE i = n + 1
    <3>1. CASE t = Listener
      BY <2>2, <3>1
    <3>2. CASE t # Listener
      <4>1. w[j].by = t /\ w[j].part = "head"
        BY <2>0, <2>2 DEF Matched
      <4>2. \A x \in j + 1 .. n : x \in j + 1 .. i - 1 /\ v[x] = w[x]
        BY <2>0, <2>2
      <4>3. \A x \in j + 1 .. n : w[x].by # t
        BY <4>2, <2>2 DEF Matched
      <4>4. Unmatched(w, n, j, t)
        BY <4>1, <4>3 DEF Unmatched
      <4>5. t \in {Main, Dispatcher} /\ k \in j + 1 .. n
        BY <3>2, <2>2, Sizes
      <4> QED BY <4>4, <4>5, <2>0, <1>0 DEF StillUndisturbed
    <3> QED BY <3>1, <3>2
  <2> QED BY <2>1, <2>2, <1>8
<1>6. StillUndisturbed(v, n + 1, q)
  <2> SUFFICES ASSUME NEW u \in {Main, Dispatcher}, NEW j \in 1 .. n + 1, q[u] = "body",
                      Unmatched(v, n + 1, j, u), NEW k \in j + 1 .. n + 1
               PROVE  v[k].by = Listener
    BY DEF StillUndisturbed
  <2>1. u \in Thread /\ u # t /\ p[u] = "body"
    BY Sizes
  <2>2. j \in 1 .. n /\ v[j] = w[j]
    BY <2>1, <1>8 DEF Unmatched
  <2>3. \A x \in j + 1 .. n : v[x] = w[x] /\ x \in j + 1 .. n + 1
    BY <2>2
  <2>4. Unmatched(w, n, j, u)
    BY <2>2, <2>3 DEF Unmatched
  <2>5. \A x \in j + 1 .. n : w[x].by = Listener
    BY <2>1, <2>2, <2>4, <1>0 DEF StillUndisturbed
  <2>6. CASE k \in j + 1 .. n
    BY <2>3, <2>5, <2>6
  <2>7. CASE k = n + 1
    BY <2>1, <2>7
  <2> QED BY <2>2, <2>6, <2>7
<1>11. WellSent(v, n + 1, q, g, "up")
  BY <1>1, <1>2, <1>3, <1>4, <1>5, <1>6 DEF WellSent
<1> QED BY <1>11

(* While no frame is half written, the listener writes whole ones. *)
WholeWritten(w, v, n, m) ==
  /\ n <= m
  /\ \A k \in 1 .. n : v[k] = w[k]
  /\ \A k \in n + 1 .. m : v[k] \in Piece /\ v[k].by = Listener /\ v[k].part = "whole"

LEMMA WireWhole ==
  ASSUME NEW w, NEW v, NEW n \in Nat, NEW m \in Nat, NEW p, NEW f, NEW q, NEW g,
         WellSent(w, n, p, f, "up"), WholeWritten(w, v, n, m),
         \A t \in Thread : p[t] # "body" /\ q[t] # "body"
  PROVE  WellSent(v, m, q, g, "up")
<1> USE DEF WholeWritten
<1>0. /\ Pieces(w, n) /\ BodiesMatched(w, n) /\ HeadsMatched(w, n, p, f) /\ Undisturbed(w, n)
  BY DEF WellSent
<1>7. \A i, j \in 1 .. n : Matched(w, j, i) <=> Matched(v, j, i)
  BY MatchedExtended
<1>8. \A i \in 1 .. m : (i \in 1 .. n /\ v[i] = w[i])
                     \/ (v[i] \in Piece /\ v[i].by = Listener /\ v[i].part = "whole")
  <2> SUFFICES ASSUME NEW i \in 1 .. m, i \notin 1 .. n
               PROVE  v[i] \in Piece /\ v[i].by = Listener /\ v[i].part = "whole"
    OBVIOUS
  <2>1. i \in n + 1 .. m
    OBVIOUS
  <2> QED BY <2>1
<1>1. Pieces(v, m)
  BY <1>0, <1>8 DEF Pieces
<1>2. BodiesMatched(v, m)
  <2> SUFFICES ASSUME NEW i \in 1 .. m, v[i].part = "body"
               PROVE  \E j \in 1 .. m : Matched(v, j, i)
    BY DEF BodiesMatched
  <2>1. i \in 1 .. n /\ w[i].part = "body"
    BY <1>8
  <2>2. PICK j \in 1 .. n : Matched(w, j, i)
    BY <2>1, <1>0 DEF BodiesMatched
  <2>3. j \in 1 .. m /\ Matched(v, j, i)
    BY <2>1, <2>2, <1>7
  <2> QED BY <2>3
<1>3. HeadsMatched(v, m, q, g)
  <2> SUFFICES ASSUME NEW j \in 1 .. m, v[j].part = "head"
               PROVE  \E i \in 1 .. m : Matched(v, j, i)
    BY DEF HeadsMatched
  <2>1. j \in 1 .. n /\ w[j].part = "head"
    BY <1>8
  <2>2. w[j].by \in Thread
    BY <2>1, <1>0, PieceFields DEF Pieces
  <2>3. PICK i \in 1 .. n : Matched(w, j, i)
    BY <2>1, <2>2, <1>0 DEF HeadsMatched
  <2>4. i \in 1 .. m /\ Matched(v, j, i)
    BY <2>1, <2>3, <1>7
  <2> QED BY <2>4
<1>5. Undisturbed(v, m)
  <2> SUFFICES ASSUME NEW i \in 1 .. m, NEW j \in 1 .. m, Matched(v, j, i),
                      NEW k \in j + 1 .. i - 1
               PROVE  Listener \in {v[k].by, v[i].by}
    BY DEF Undisturbed
  <2>1. v[i].part = "body"
    BY DEF Matched
  <2>2. i \in 1 .. n
    BY <2>1, <1>8
  <2>3. j \in 1 .. n /\ k \in 1 .. n /\ Matched(w, j, i) /\ v[k] = w[k] /\ v[i] = w[i]
    <3>1. j < i
      BY DEF Matched
    <3> QED BY <3>1, <2>2, <1>7
  <2> QED BY <2>2, <2>3, <1>0 DEF Undisturbed
<1> QED BY <1>1, <1>2, <1>3, <1>5, Sizes DEF WellSent, HeadSent, StillUndisturbed

(* The first d pieces are taken, and no frame is divided by that. *)
LEMMA WireTaken ==
  ASSUME NEW w, NEW v, NEW n \in Nat, NEW d \in Nat, d <= n, NEW p, NEW f,
         WellSent(w, n, p, f, "up"),
         \A k \in 1 .. n - d : v[k] = w[k + d],
         \A j \in 1 .. d, i \in 1 .. n : Matched(w, j, i) => i <= d,
         \A j \in 1 .. d : ~Unmatched(w, n, j, w[j].by)
  PROVE  WellSent(v, n - d, p, f, "up")
<1>0. /\ Pieces(w, n) /\ BodiesMatched(w, n) /\ HeadsMatched(w, n, p, f)
      /\ HeadSent(w, n, p, f, "up") /\ Undisturbed(w, n) /\ StillUndisturbed(w, n, p)
  BY DEF WellSent
<1>8. \A k \in 1 .. n - d : k + d \in 1 .. n /\ v[k] = w[k + d]
  OBVIOUS
<1>9. \A k \in d + 1 .. n : k - d \in 1 .. n - d /\ v[k - d] = w[k]
  <2> SUFFICES ASSUME NEW k \in d + 1 .. n PROVE k - d \in 1 .. n - d /\ v[k - d] = w[k]
    OBVIOUS
  <2>1. k - d \in 1 .. n - d /\ (k - d) + d = k
    OBVIOUS
  <2> QED BY <2>1
<1>7. \A i, j \in 1 .. n - d : Matched(v, j, i) <=> Matched(w, j + d, i + d)
  <2> SUFFICES ASSUME NEW i \in 1 .. n - d, NEW j \in 1 .. n - d
               PROVE  Matched(v, j, i) <=> Matched(w, j + d, i + d)
    OBVIOUS
  <2>1. v[i] = w[i + d] /\ v[j] = w[j + d] /\ (j < i <=> j + d < i + d)
    OBVIOUS
  <2>2. (\A k \in j + 1 .. i - 1 : v[k].by # v[i].by)
          <=> (\A k \in (j + d) + 1 .. (i + d) - 1 : w[k].by # w[i + d].by)
    <3>1. ASSUME \A k \in j + 1 .. i - 1 : v[k].by # v[i].by,
                 NEW k \in (j + d) + 1 .. (i + d) - 1
          PROVE  w[k].by # w[i + d].by
      <4>1. k \in d + 1 .. n /\ k - d \in j + 1 .. i - 1
        OBVIOUS
      <4>2. v[k - d] = w[k]
        BY <4>1, <1>9
      <4> QED BY <4>1, <4>2, <3>1, <2>1
    <3>2. ASSUME \A k \in (j + d) + 1 .. (i + d) - 1 : w[k].by # w[i + d].by,
                 NEW k \in j + 1 .. i - 1
          PROVE  v[k].by # v[i].by
      <4>1. k \in 1 .. n - d /\ k + d \in (j + d) + 1 .. (i + d) - 1
        OBVIOUS
      <4> QED BY <4>1, <3>2, <2>1, <1>8
    <3> QED BY <3>1, <3>2
  <2> QED BY <2>1, <2>2 DEF Matched
<1>10. \A j \in 1 .. n - d, t \in Thread : Unmatched(v, n - d, j, t) <=> Unmatched(w, n, j + d, t)
  <2> SUFFICES ASSUME NEW j \in 1 .. n - d, NEW t \in Thread
               PROVE  Unmatched(v, n - d, j, t) <=> Unmatched(w, n, j + d, t)
    OBVIOUS
  <2>2. (\A k \in j + 1 .. n - d : v[k].by # t) <=> (\A k \in (j + d) + 1 .. n : w[k].by # t)
    <3>1. ASSUME \A k \in j + 1 .. n - d : v[k].by # t, NEW k \in (j + d) + 1 .. n
          PROVE  w[k].by # t
      <4>1. k \in d + 1 .. n /\ k - d \in j + 1 .. n - d
        OBVIOUS
      <4>2. v[k - d] = w[k]
        BY <4>1, <1>9
      <4> QED BY <4>1, <4>2, <3>1
    <3>2. ASSUME \A k \in (j + d) + 1 .. n : w[k].by # t, NEW k \in j + 1 .. n - d
          PROVE  v[k].by # t
      <4>1. k \in 1 .. n - d /\ k + d \in (j + d) + 1 .. n
        OBVIOUS
      <4> QED BY <4>1, <3>2, <1>8
    <3> QED BY <3>1, <3>2
  <2> QED BY <2>2 DEF Unmatched
<1>1. Pieces(v, n - d)
  BY <1>0, <1>8 DEF Pieces
<1>2. BodiesMatched(v, n - d)
  <2> SUFFICES ASSUME NEW i \in 1 .. n - d, v[i].part = "body"
               PROVE  \E j \in 1 .. n - d : Matched(v, j, i)
    BY DEF BodiesMatched
  <2>1. i + d \in 1 .. n /\ w[i + d].part = "body"
    BY <1>8
  <2>2. PICK j \in 1 .. n : Matched(w, j, i + d)
    BY <2>1, <1>0 DEF BodiesMatched
  <2>3. ~(j <= d)
    BY <2>1, <2>2
  <2>4. j - d \in 1 .. n - d /\ (j - d) + d = j
    BY <2>3
  <2>5. Matched(v, j - d, i)
    BY <2>2, <2>4, <1>7
  <2> QED BY <2>4, <2>5
<1>3. HeadsMatched(v, n - d, p, f)
  <2> SUFFICES ASSUME NEW j \in 1 .. n - d, v[j].part = "head"
               PROVE  \/ \E i \in 1 .. n - d : Matched(v, j, i)
                      \/ /\ p[v[j].by] = "body"
                         /\ Unmatched(v, n - d, j, v[j].by)
                         /\ v[j].frame = f[v[j].by]
    BY DEF HeadsMatched
  <2>1. j + d \in 1 .. n /\ v[j] = w[j + d]
    BY <1>8
  <2>2. v[j].by \in Thread
    BY <2>1, <1>0, PieceFields DEF Pieces
  <2>3. CASE \E i \in 1 .. n : Matched(w, j + d, i)
    <3>1. PICK i \in 1 .. n : Matched(w, j + d, i)
      BY <2>3
    <3>2. j + d < i
      BY <3>1 DEF Matched
    <3>3. i - d \in 1 .. n - d /\ (i - d) + d = i
      BY <3>2
    <3>4. Matched(v, j, i - d)
      BY <3>1, <3>3, <1>7
    <3> QED BY <3>3, <3>4
  <2>4. CASE p[w[j + d].by] = "body" /\ Unmatched(w, n, j + d, w[j + d].by)
               /\ w[j + d].frame = f[w[j + d].by]
    BY <2>1, <2>2, <2>4, <1>10
  <2> QED BY <2>1, <2>3, <2>4, <1>0 DEF HeadsMatched
<1>4. HeadSent(v, n - d, p, f, "up")
  <2> SUFFICES ASSUME NEW u \in Thread, p[u] = "body"
               PROVE  \E j \in 1 .. n - d : Unmatched(v, n - d, j, u) /\ v[j].frame = f[u]
    BY DEF HeadSent
  <2>1. PICK j \in 1 .. n : Unmatched(w, n, j, u) /\ w[j].frame = f[u]
    BY <1>0 DEF HeadSent
  <2>2. ~(j <= d)
    <3>1. w[j].by = u
      BY <2>1 DEF Unmatched
    <3> QED BY <2>1, <3>1
  <2>3. j - d \in 1 .. n - d /\ (j - d) + d = j
    BY <2>2
  <2>4. Unmatched(v, n - d, j - d, u) /\ v[j - d] = w[j]
    BY <2>1, <2>3, <1>10, <1>8
  <2> QED BY <2>1, <2>3, <2>4
<1>5. Undisturbed(v, n - d)
  <2> SUFFICES ASSUME NEW i \in 1 .. n - d, NEW j \in 1 .. n - d, Matched(v, j, i),
                      NEW k \in j + 1 .. i - 1
               PROVE  Listener \in {v[k].by, v[i].by}
    BY DEF Undisturbed
  <2>1. i + d \in 1 .. n /\ j + d \in 1 .. n /\ v[i] = w[i + d]
    OBVIOUS
  <2>2. k \in 1 .. n - d /\ k + d \in (j + d) + 1 .. (i + d) - 1
    OBVIOUS
  <2>3. v[k] = w[k + d]
    BY <2>2
  <2>4. Matched(w, j + d, i + d)
    BY <1>7
  <2> QED BY <2>1, <2>2, <2>3, <2>4, <1>0 DEF Undisturbed
<1>6. StillUndisturbed(v, n - d, p)
  <2> SUFFICES ASSUME NEW u \in {Main, Dispatcher}, NEW j \in 1 .. n - d, p[u] = "body",
                      Unmatched(v, n - d, j, u), NEW k \in j + 1 .. n - d
               PROVE  v[k].by = Listener
    BY DEF StillUndisturbed
  <2>1. j + d \in 1 .. n /\ k + d \in (j + d) + 1 .. n /\ k \in 1 .. n - d
    OBVIOUS
  <2>2. Unmatched(w, n, j + d, u)
    BY <1>10, Sizes
  <2> QED BY <2>1, <2>2, <1>0, <1>8 DEF StillUndisturbed
<1> QED BY <1>1, <1>2, <1>3, <1>4, <1>5, <1>6 DEF WellSent

WireInv == WellSent(wire, Len(wire), pc, frame, link)

(* What the exchange takes next: a whole frame, or a header and its body. *)
LEMMA RestOfWire ==
  ASSUME TypeOK, WireInv, Ready
  PROVE  /\ wire[1].part = "whole" => /\ Len(Rest) = Len(wire) - 1
                                      /\ \A k \in 1 .. Len(wire) - 1 : Rest[k] = wire[k + 1]
         /\ wire[1].part # "whole" => /\ Len(wire) >= 2 /\ Matched(wire, 1, 2)
                                      /\ Len(Rest) = Len(wire) - 2
                                      /\ \A k \in 1 .. Len(wire) - 2 : Rest[k] = wire[k + 2]
         /\ wire # <<>> /\ link = "up" /\ Len(wire) >= 1
<1>1. wire \in Seq(Piece) /\ wire # <<>> /\ Len(wire) >= 1 /\ Len(wire) \in Nat /\ link = "up"
  BY DEF TypeOK, Ready
<1>2. /\ Pieces(wire, Len(wire)) /\ BodiesMatched(wire, Len(wire))
      /\ HeadsMatched(wire, Len(wire), pc, frame)
  BY DEF WireInv, WellSent
<1>3. CASE wire[1].part = "whole"
  BY <1>1, <1>3 DEF Rest
<1>4. CASE wire[1].part # "whole"
  <2>1. Len(wire) >= 2 /\ ~Torn
    BY <1>4 DEF Ready
  <2>2. wire[1].part # "body"
    <3>1. \A j \in 1 .. Len(wire) : ~ (j < 1)
      OBVIOUS
    <3> QED BY <3>1, <1>1, <1>2 DEF BodiesMatched, Matched
  <2>3. wire[1].part = "head" /\ wire[1].by \in Thread
    BY <1>1, <1>2, <1>4, <2>2, PieceFields DEF Pieces
  <2>4. wire[2].by = wire[1].by
    BY <2>1, <2>3 DEF Torn
  <2>5. ~Unmatched(wire, Len(wire), 1, wire[1].by)
    <3>1. 2 \in 1 + 1 .. Len(wire)
      BY <2>1, <1>1
    <3> QED BY <3>1, <2>4 DEF Unmatched
  <2>6. PICK i \in 1 .. Len(wire) : Matched(wire, 1, i)
    BY <1>1, <1>2, <2>3, <2>5 DEF HeadsMatched
  <2>7. i = 2
    <3>1. 1 < i /\ (2 \in 1 + 1 .. i - 1 => wire[2].by # wire[i].by) /\ wire[i].by = wire[1].by
      BY <2>6 DEF Matched
    <3> QED BY <3>1, <2>4
  <2>8. /\ Tail(wire) \in Seq(Piece) /\ Len(Tail(wire)) = Len(wire) - 1
        /\ \A k \in 1 .. Len(wire) - 1 : Tail(wire)[k] = wire[k + 1]
    BY <1>1
  <2>9. Tail(wire) # <<>>
    <3>1. Len(Tail(wire)) # 0
      BY <1>1, <2>1, <2>8
    <3>2. Len(<<>>) = 0
      OBVIOUS
    <3> QED BY ONLY <3>1, <3>2
  <2>10. /\ Len(Rest) = Len(wire) - 2
         /\ \A k \in 1 .. Len(wire) - 2 : Rest[k] = Tail(wire)[k + 1]
    BY <2>8, <2>9, <1>4 DEF Rest
  <2>11. \A k \in 1 .. Len(wire) - 2 : Tail(wire)[k + 1] = wire[k + 2]
    BY <2>8, <2>1
  <2> QED BY <2>1, <2>6, <2>7, <2>10, <2>11, <1>1, <1>4
<1> QED BY <1>1, <1>3, <1>4

(* The same for the wire of the model, one lemma for each way it changes. *)
LEMMA WireTake ==
  ASSUME TypeOK, WireInv, Ready, wire' = Rest, UNCHANGED <<pc, frame, link>>
  PROVE  WireInv'
<1>1. /\ Len(wire) \in Nat /\ Len(wire) >= 1 /\ link = "up" /\ Rest \in Seq(Piece)
      /\ WellSent(wire, Len(wire), pc, frame, "up")
  BY RestOfWire, RestTyped DEF TypeOK, WireInv
<1>2. CASE wire[1].part = "whole"
  <2>1. ~Matched(wire, 1, 1) /\ \A i \in 1 .. Len(wire) : ~Matched(wire, 1, i)
    BY <1>2 DEF Matched
  <2>2. ~Unmatched(wire, Len(wire), 1, wire[1].by)
    BY <1>2 DEF Unmatched
  <2>3. \A j \in 1 .. 1 : j = 1
    OBVIOUS
  <2>4. \A k \in 1 .. Len(wire) - 1 : Rest[k] = wire[k + 1]
    BY <1>2, RestOfWire
  <2>5. \A j \in 1 .. 1, i \in 1 .. Len(wire) : Matched(wire, j, i) => i <= 1
    BY <2>1, <2>3
  <2>6. \A j \in 1 .. 1 : ~Unmatched(wire, Len(wire), j, wire[j].by)
    BY <2>2, <2>3
  <2>7. 1 \in Nat /\ 1 <= Len(wire)
    BY <1>1
  <2>8. WellSent(Rest, Len(wire) - 1, pc, frame, "up")
    BY <1>1, <2>4, <2>5, <2>6, <2>7, WireTaken
  <2> QED BY <1>1, <1>2, <2>8, RestOfWire DEF WireInv
<1>3. CASE wire[1].part # "whole"
  <2>1. Len(wire) >= 2 /\ Matched(wire, 1, 2)
    BY <1>3, RestOfWire
  <2>2. \A j \in 1 .. 2 : j = 1 \/ j = 2
    OBVIOUS
  <2>3. \A i \in 1 .. Len(wire) : Matched(wire, 1, i) => i <= 2
    <3> SUFFICES ASSUME NEW i \in 1 .. Len(wire), Matched(wire, 1, i), i > 2 PROVE FALSE
      BY <1>1
    <3>1. 2 \in 1 + 1 .. i - 1
      OBVIOUS
    <3>2. wire[2].by = wire[1].by /\ wire[i].by = wire[1].by
      BY <2>1 DEF Matched
    <3> QED BY <3>1, <3>2 DEF Matched
  <2>4. \A i \in 1 .. Len(wire) : ~Matched(wire, 2, i)
    BY <2>1 DEF Matched
  <2>5. \A j \in 1 .. 2, i \in 1 .. Len(wire) : Matched(wire, j, i) => i <= 2
    BY <2>2, <2>3, <2>4
  <2>6. ~Unmatched(wire, Len(wire), 1, wire[1].by)
    <3>1. 2 \in 1 + 1 .. Len(wire)
      BY <2>1, <1>1
    <3> QED BY <3>1, <2>1 DEF Unmatched, Matched
  <2>7. ~Unmatched(wire, Len(wire), 2, wire[2].by)
    BY <2>1 DEF Unmatched, Matched
  <2>8. \A j \in 1 .. 2 : ~Unmatched(wire, Len(wire), j, wire[j].by)
    BY <2>2, <2>6, <2>7
  <2>9. \A k \in 1 .. Len(wire) - 2 : Rest[k] = wire[k + 2]
    BY <1>3, RestOfWire
  <2>10. 2 \in Nat /\ 2 <= Len(wire)
    BY <1>1, <2>1
  <2>11. WellSent(Rest, Len(wire) - 2, pc, frame, "up")
    BY <1>1, <2>5, <2>8, <2>9, <2>10, WireTaken
  <2> QED BY <1>1, <1>3, <2>11, RestOfWire DEF WireInv
<1> QED BY <1>2, <1>3

LEMMA WireLost ==
  ASSUME wire' = <<>>, link' # "up"
  PROVE  WireInv'
<1>1. Len(wire') = 0
  OBVIOUS
<1> QED BY <1>1, WireEmpty DEF WireInv

LEMMA WireUntouched ==
  ASSUME TypeOK, WireInv, UNCHANGED <<wire, link>>,
         \A t \in Thread : (pc'[t] = "body" <=> pc[t] = "body") /\ (pc[t] = "body" => frame'[t] = frame[t])
  PROVE  WireInv'
<1>1. Len(wire) \in Nat
  BY DEF TypeOK
<1>2. WellSent(wire, Len(wire), pc', frame', link)
  BY <1>1, WireKept DEF WireInv
<1> QED BY <1>2 DEF WireInv

LEMMA WirePutHead ==
  ASSUME TypeOK, Local, WireInv, NEW t \in Thread, pc[t] = "head", Put(t, "head"),
         GoTo(t, "body"), UNCHANGED <<link, frame>>, t # Listener => mutex = Nobody
  PROVE  WireInv'
<1>0. wire \in Seq(Piece) /\ Len(wire) \in Nat /\ pc' = [pc EXCEPT ![t] = "body"] /\ DOMAIN pc = Thread
  BY DEF TypeOK
<1>1. CASE link = "up"
  <2> DEFINE x == [by |-> t, frame |-> frame[t], part |-> "head"]
  <2>1. x \in Piece /\ wire' = Append(wire, x)
    BY <1>1 DEF Put, TypeOK, Piece
  <2>2. /\ Len(wire') = Len(wire) + 1 /\ wire'[Len(wire) + 1] = x
        /\ \A k \in 1 .. Len(wire) : wire'[k] = wire[k]
    BY <1>0, <2>1
  <2>3. t # Listener => \A u \in {Main, Dispatcher} : pc[u] # "body"
    BY ThreadAssumption, Sizes DEF Local
  <2>4. \A u \in Thread : pc'[u] = IF u = t THEN "body" ELSE pc[u]
    BY <1>0
  <2>5. x.by = t /\ x.frame = frame[t] /\ x.part = "head"
    OBVIOUS
  <2>6. WellSent(wire, Len(wire), pc, frame, "up") /\ pc[t] # "body"
    BY <1>1 DEF WireInv
  <2> HIDE DEF x
  <2>8. /\ wire'[Len(wire) + 1] \in Piece /\ wire'[Len(wire) + 1].by = t
        /\ wire'[Len(wire) + 1].frame = frame[t] /\ wire'[Len(wire) + 1].part = "head"
    BY <2>1, <2>2, <2>5
  <2>9. Len(wire) \in Nat /\ \A k \in 1 .. Len(wire) : wire'[k] = wire[k]
    BY <1>0, <2>2
  <2>10. Written(wire, wire', Len(wire), Len(wire'), frame, t, "head")
    BY <2>2, <2>8, <2>9 DEF Written
  <2>11. HeadWritten(wire, wire', Len(wire), Len(wire'), pc, pc', frame, t)
    BY <2>3, <2>4, <2>6, <2>10 DEF HeadWritten
  <2>7. WellSent(wire', Len(wire'), pc', frame, "up")
    BY <2>6, <2>9, <2>11, WireHead
  <2> QED BY <2>2, <2>7, <1>1 DEF WireInv
<1>2. CASE link # "up"
  <2>1. Len(wire) = 0 /\ wire' = wire
    BY <1>2 DEF WireInv, WellSent, Put
  <2> QED BY <1>2, <2>1, WireEmpty DEF WireInv
<1> QED BY <1>1, <1>2

LEMMA WirePutBody ==
  ASSUME TypeOK, Local, WireInv, NEW t \in Thread, pc[t] = "body", Put(t, "body"),
         NEW place, place # "body", GoTo(t, place), UNCHANGED link,
         frame' = [frame EXCEPT ![t] = Control("ping")]
  PROVE  WireInv'
<1>0. /\ wire \in Seq(Piece) /\ Len(wire) \in Nat /\ pc' = [pc EXCEPT ![t] = place]
      /\ DOMAIN pc = Thread /\ DOMAIN frame = Thread
  BY DEF TypeOK
<1>1. CASE link = "up"
  <2> DEFINE x == [by |-> t, frame |-> frame[t], part |-> "body"]
  <2>1. x \in Piece /\ wire' = Append(wire, x)
    BY <1>1 DEF Put, TypeOK, Piece
  <2>2. /\ Len(wire') = Len(wire) + 1 /\ wire'[Len(wire) + 1] = x
        /\ \A k \in 1 .. Len(wire) : wire'[k] = wire[k]
    BY <1>0, <2>1
  <2>3. t # Listener => \A u \in {Main, Dispatcher} \ {t} : pc[u] # "body"
    BY ThreadAssumption, Sizes DEF Local
  <2>4. pc'[t] # "body" /\ \A u \in Thread \ {t} : pc'[u] = pc[u] /\ frame'[u] = frame[u]
    BY <1>0
  <2>5. x.by = t /\ x.frame = frame[t] /\ x.part = "body"
    OBVIOUS
  <2>6. WellSent(wire, Len(wire), pc, frame, "up")
    BY <1>1 DEF WireInv
  <2> HIDE DEF x
  <2>8. /\ wire'[Len(wire) + 1] \in Piece /\ wire'[Len(wire) + 1].by = t
        /\ wire'[Len(wire) + 1].frame = frame[t] /\ wire'[Len(wire) + 1].part = "body"
    BY <2>1, <2>2, <2>5
  <2>9. Len(wire) \in Nat /\ \A k \in 1 .. Len(wire) : wire'[k] = wire[k]
    BY <1>0, <2>2
  <2>10. Written(wire, wire', Len(wire), Len(wire'), frame, t, "body")
    BY <2>2, <2>8, <2>9 DEF Written
  <2>11. BodyWritten(wire, wire', Len(wire), Len(wire'), pc, pc', frame, frame', t)
    BY <2>3, <2>4, <2>6, <2>10 DEF BodyWritten
  <2>7. WellSent(wire', Len(wire'), pc', frame', "up")
    BY <2>6, <2>9, <2>11, WireBody
  <2> QED BY <2>2, <2>7, <1>1 DEF WireInv
<1>2. CASE link # "up"
  <2>1. Len(wire) = 0 /\ wire' = wire
    BY <1>2 DEF WireInv, WellSent, Put
  <2> QED BY <1>2, <2>1, WireEmpty DEF WireInv
<1> QED BY <1>1, <1>2

LEMMA WireInit == Init => WireInv
<1> SUFFICES ASSUME Init PROVE WireInv
  OBVIOUS
<1>1. Len(wire) = 0 /\ \A t \in Thread : pc[t] # "body"
  BY DEF Init
<1> QED BY <1>1, WireEmpty DEF WireInv

LEMMA AppendOne ==
  ASSUME NEW S, NEW s \in Seq(S), NEW x \in S
  PROVE  Append(s, x) = s \o <<x>>
<1>1. /\ Append(s, x) \in Seq(S) /\ Len(Append(s, x)) = Len(s) + 1
      /\ \A i \in 1 .. Len(s) + 1 : Append(s, x)[i] = IF i = Len(s) + 1 THEN x ELSE s[i]
  OBVIOUS
<1>2. <<x>> \in Seq(S) /\ Len(<<x>>) = 1 /\ <<x>>[1] = x
  OBVIOUS
<1>3. /\ s \o <<x>> \in Seq(S) /\ Len(s \o <<x>>) = Len(s) + 1
      /\ \A i \in 1 .. Len(s) + 1 : (s \o <<x>>)[i] = IF i = Len(s) + 1 THEN x ELSE s[i]
  BY <1>2
<1> QED BY <1>1, <1>3, SeqEqual

LEMMA WireAwait ==
  ASSUME TypeOK, Local, WireInv, pc[Listener] = "await", UNCHANGED link,
         pc' = pc \/ pc' = [pc EXCEPT ![Listener] = "select"],
         NEW s \in Seq(Piece), \A k \in 1 .. Len(s) : s[k].by = Listener /\ s[k].part = "whole",
         wire' = IF link = "up" THEN wire \o s ELSE wire
  PROVE  WireInv'
<1>1. wire \in Seq(Piece) /\ Len(wire) \in Nat /\ DOMAIN pc = Thread
  BY DEF TypeOK
<1>2. \A t \in Thread : pc[t] # "body" /\ pc'[t] # "body"
  BY <1>1, Sizes, ThreadAssumption DEF Local
<1>3. CASE link # "up"
  <2>1. wire' = wire /\ Len(wire) = 0
    BY <1>3 DEF WireInv, WellSent
  <2> QED BY <1>3, <2>1, WireEmpty DEF WireInv
<1>4. CASE link = "up"
  <2>1. /\ wire' = wire \o s /\ Len(wire') = Len(wire) + Len(s) /\ Len(wire') \in Nat
        /\ \A k \in 1 .. Len(wire) : wire'[k] = wire[k]
        /\ \A k \in Len(wire) + 1 .. Len(wire') :
             k - Len(wire) \in 1 .. Len(s) /\ wire'[k] = s[k - Len(wire)]
    BY <1>1, <1>4
  <2>2. WholeWritten(wire, wire', Len(wire), Len(wire'))
    BY <2>1, <1>1 DEF WholeWritten
  <2>3. WellSent(wire', Len(wire'), pc', frame', "up")
    BY <1>1, <1>2, <1>4, <2>1, <2>2, WireWhole DEF WireInv
  <2> QED BY <1>4, <2>3 DEF WireInv
<1> QED BY <1>3, <1>4

LEMMA WireStep == TypeOK /\ Local /\ WireInv /\ [Next]_vars => WireInv'
<1> SUFFICES ASSUME TypeOK, Local, WireInv PROVE [Next]_vars => WireInv'
  OBVIOUS
<1> USE Sizes, ThreadAssumption DEF opsVars, historyVars, linkVars
<1>0. /\ DOMAIN pc = Thread /\ DOMAIN frame = Thread /\ Len(wire) \in Nat
      /\ pc \in [Thread -> {"idle", "insert", "lock", "head", "body", "select", "read",
                          "erase", "connect", "await"}]
  BY DEF TypeOK
<1> USE <1>0
<1>1. ASSUME UNCHANGED vars PROVE WireInv'
  BY <1>1, WireUntouched DEF vars
<1>2. ASSUME NEW t \in {Main, Dispatcher}, WriteHead(t) PROVE WireInv'
  <2>1. pc[t] = "head" /\ Put(t, "head") /\ GoTo(t, "body") /\ mutex = Nobody
    BY <1>2 DEF WriteHead
  <2> QED BY <1>2, <2>1, WirePutHead DEF WriteHead
<1>3. ASSUME NEW t \in {Main, Dispatcher}, WriteBody(t) PROVE WireInv'
  <2>1. /\ pc[t] = "body" /\ Put(t, "body") /\ GoTo(t, "idle")
        /\ frame' = [frame EXCEPT ![t] = Control("ping")] /\ UNCHANGED link
    BY <1>3 DEF WriteBody
  <2> QED BY <2>1, WirePutBody
<1>4. ASSUME ListenerHead PROVE WireInv'
  <2>1. pc[Listener] = "head" /\ Put(Listener, "head") /\ GoTo(Listener, "body")
    BY <1>4 DEF ListenerHead
  <2> QED BY <1>4, <2>1, WirePutHead DEF ListenerHead
<1>5. ASSUME ListenerBody PROVE WireInv'
  <2>1. /\ pc[Listener] = "body" /\ Put(Listener, "body")
        /\ GoTo(Listener, "select") \/ GoTo(Listener, "read")
        /\ frame' = [frame EXCEPT ![Listener] = Control("ping")] /\ UNCHANGED link
    BY <1>5 DEF ListenerBody
  <2>2. CASE GoTo(Listener, "select")
    BY <2>1, <2>2, WirePutBody
  <2>3. CASE GoTo(Listener, "read")
    BY <2>1, <2>3, WirePutBody
  <2> QED BY <2>1, <2>2, <2>3
<1>6. ASSUME NEW t \in {Main, Dispatcher}, SendFails(t) PROVE WireInv'
  BY <1>6, WireUntouched DEF SendFails
<1>7. ASSUME Subscribe \/ EndInsert PROVE WireInv'
  BY <1>7, WireUntouched DEF Subscribe, EndInsert
<1>8. ASSUME NEW r \in Request, BeginOrder(r) PROVE WireInv'
  BY <1>8, WireUntouched DEF BeginOrder
<1>9. ASSUME NoticeDown \/ Ping \/ PongTimeout \/ ReadStub \/ ReadFails PROVE WireInv'
  <2>1. /\ UNCHANGED <<wire, link>> /\ pc[Listener] # "body" /\ pc'[Listener] # "body"
        /\ \A t \in Thread \ {Listener} : pc'[t] = pc[t] /\ frame'[t] = frame[t]
    BY <1>9 DEF NoticeDown, Ping, PongTimeout, ReadStub, ReadFails, Quiet, Reading
  <2> QED BY <2>1, WireUntouched
<1>10. ASSUME ReadPing \/ ReadPong \/ ReadTaken \/ ReadRefused \/ Erase \/ ConnectFails PROVE WireInv'
  <2>1. /\ UNCHANGED <<wire, link>> /\ pc[Listener] # "body" /\ pc'[Listener] # "body"
        /\ \A t \in Thread \ {Listener} : pc'[t] = pc[t] /\ frame'[t] = frame[t]
    BY <1>10 DEF ReadPing, ReadPong, ReadTaken, ReadRefused, Erase, ConnectFails, GiveUp,
                 Reading, Opening
  <2> QED BY <2>1, WireUntouched
<1>11. ASSUME CloseTorn \/ Die \/ FallSilent PROVE WireInv'
  BY <1>11, WireLost DEF CloseTorn, Die, FallSilent, Lost
<1>12. ASSUME Reopen \/ ConnectBreaks \/ LoginFails PROVE WireInv'
  BY <1>12, WireLost DEF Reopen, ConnectBreaks, LoginFails, Reset, Lost
<1>13. ASSUME ProtocolPing PROVE WireInv'
  BY <1>13, WireUntouched DEF ProtocolPing
<1>14. ASSUME TakeSubscription \/ TakeOrder \/ TakePing \/ TakeLogin PROVE WireInv'
  <2>1. Ready /\ wire' = Rest /\ UNCHANGED <<pc, frame, link>>
    BY <1>14 DEF TakeSubscription, TakeOrder, TakePing, TakeLogin
  <2> QED BY <2>1, WireTake
<1>15. \A f \in Frame : Whole(f) \in Piece /\ Whole(f).by = Listener /\ Whole(f).part = "whole"
  BY WholeTyped DEF Whole
<1>16. pc[Listener] \in {"connect", "await"} => \A t \in Thread : pc[t] # "body"
  BY DEF Local
<1>17. ASSUME Connect PROVE WireInv'
  <2>1. /\ wire' = <<Whole(Control("login"))>> /\ link' = "up"
        /\ pc[Listener] = "connect" /\ pc' = [pc EXCEPT ![Listener] = "await"]
    BY <1>17 DEF Connect, Opening
  <2>2. Control("login") \in Frame
    BY ControlTyped
  <2>3. Len(wire') = 1 /\ \A k \in 1 .. 1 : wire'[k] = Whole(Control("login"))
    BY <2>1
  <2>4. \A t \in Thread : pc[t] # "body" /\ pc'[t] # "body"
    BY <2>1, <1>16
  <2>5. WellSent(wire', 0, pc, frame, "up")
    BY <2>4, WireEmpty
  <2>6. \A k \in 0 + 1 .. 1 : wire'[k] \in Piece /\ wire'[k].by = Listener /\ wire'[k].part = "whole"
    BY <2>2, <2>3, <1>15
  <2>8. WholeWritten(wire', wire', 0, 1)
    BY <2>6 DEF WholeWritten
  <2>7. WellSent(wire', 1, pc', frame', "up")
    <3>1. 0 \in Nat /\ 1 \in Nat
      OBVIOUS
    <3> QED BY <3>1, <2>4, <2>5, <2>8, WireWhole
  <2> QED BY <2>1, <2>3, <2>7 DEF WireInv
<1>18. ASSUME AwaitPing PROVE WireInv'
  <2> DEFINE pong == <<Whole(Control("pong"))>>
  <2>1. pong \in Seq(Piece) /\ \A k \in 1 .. Len(pong) : pong[k].by = Listener /\ pong[k].part = "whole"
    BY <1>15, ControlTyped
  <2>2. wire' = IF link = "up" THEN wire \o pong ELSE wire
    BY <1>18, <1>15, ControlTyped, AppendOne DEF AwaitPing, TypeOK
  <2>3. pc[Listener] = "await" /\ UNCHANGED <<pc, link>>
    BY <1>18 DEF AwaitPing
  <2> QED BY <2>1, <2>2, <2>3, WireAwait
<1>19. ASSUME Resubscribe PROVE WireInv'
  <2> DEFINE subscriptions == [i \in 1 .. Len(wanted) |-> Whole([op |-> "sub", arg |-> wanted[i]])]
  <2>1. Len(wanted) \in Nat /\ \A i \in 1 .. Len(wanted) : [op |-> "sub", arg |-> wanted[i]] \in Frame
    BY DEF TypeOK, Frame
  <2>2. /\ subscriptions \in Seq(Piece)
        /\ \A k \in 1 .. Len(subscriptions) :
             subscriptions[k].by = Listener /\ subscriptions[k].part = "whole"
    BY <2>1, <1>15
  <2>3. wire' = IF link = "up" THEN wire \o subscriptions ELSE wire
    BY <1>19 DEF Resubscribe
  <2>4. pc[Listener] = "await" /\ UNCHANGED link /\ pc' = [pc EXCEPT ![Listener] = "select"]
    BY <1>19 DEF Resubscribe, GiveUp
  <2> HIDE DEF subscriptions
  <2> QED BY <2>2, <2>3, <2>4, WireAwait
<1> QED BY <1>1, <1>2, <1>3, <1>4, <1>5, <1>6, <1>7, <1>8, <1>9, <1>10, <1>11, <1>12, <1>13, <1>14, <1>17, <1>18, <1>19
        DEF Next, MainStep, SendingStep, ListenerStep, ExchangeStep

-----------------------------------------------------------------------------
(* The inductive invariant: types, what each thread may be doing, and what   *)
(* lies on the wire.                                                         *)
FramesInv == TypeOK /\ Local /\ WireInv

LEMMA FramesInvariant == Spec => []FramesInv
<1>1. Init => FramesInv
  BY TypeInit, InitLocal, WireInit DEF FramesInv
<1>2. FramesInv /\ [Next]_vars => FramesInv'
  BY TypeStep, LocalStep, WireStep DEF FramesInv
<1> QED BY <1>1, <1>2, PTL DEF Spec

(* Every variable keeps its type, in every reachable state, whatever the     *)
(* orders, the channels and the number of troubles.                          *)
THEOREM ChannelTypeCorrect == Spec => []TypeOK
<1>1. FramesInv => TypeOK
  BY DEF FramesInv
<1> QED BY <1>1, FramesInvariant, PTL

(* No frame of Init's thread or the dispatcher is divided by a reconnect or  *)
(* by one another: the body of every frame on the wire follows its header,   *)
(* on the same connection, with only the listener's ping and pong between.   *)
THEOREM FramesAreWhole == Spec => []WholeButForListener
<1>1. FramesInv => WholeButForListener
  <2> SUFFICES ASSUME FramesInv, NEW i \in DOMAIN wire, wire[i].part = "body"
               PROVE  \E j \in 1 .. i - 1 :
                        /\ wire[j] = [wire[i] EXCEPT !.part = "head"]
                        /\ \A k \in j + 1 .. i - 1 : Listener \in {wire[k].by, wire[i].by}
    BY DEF WholeButForListener
  <2>1. i \in 1 .. Len(wire) /\ Len(wire) \in Nat
    BY DEF FramesInv, TypeOK
  <2>2. /\ Pieces(wire, Len(wire)) /\ BodiesMatched(wire, Len(wire)) /\ Undisturbed(wire, Len(wire))
    BY DEF FramesInv, WireInv, WellSent
  <2>3. PICK j \in 1 .. Len(wire) : Matched(wire, j, i)
    BY <2>1, <2>2 DEF BodiesMatched
  <2>4. j \in 1 .. i - 1 /\ \A k \in j + 1 .. i - 1 : Listener \in {wire[k].by, wire[i].by}
    BY <2>1, <2>2, <2>3 DEF Matched, Undisturbed
  <2>5. wire[j] = [wire[i] EXCEPT !.part = "head"]
    <3>1. wire[i] \in Piece /\ wire[j] \in Piece
      BY <2>1, <2>2, <2>3 DEF Pieces
    <3>2. wire[i].by = wire[j].by /\ wire[i].frame = wire[j].frame /\ wire[j].part = "head"
      BY <2>3 DEF Matched
    <3> QED BY <3>1, <3>2 DEF Piece
  <2> QED BY <2>4, <2>5
<1> QED BY <1>1, FramesInvariant, PTL

-----------------------------------------------------------------------------
(* What a reconnect leaves: nothing is subscribed before the login came back, *)
(* a login is the first frame of its connection, and no welcome is older.    *)
NoWelcome(messages) == \A k \in 1 .. Len(messages) : messages[k].kind # "welcome"

Connecting == pc[Listener] = "connect" => link # "up" /\ inbox = <<>> /\ subs = {}

Awaiting == pc[Listener] = "await" =>
  /\ subs = {}
  /\ \A i \in 1 .. Len(wire) : wire[i].frame.op # "sub"
  /\ link = "up" => NoWelcome(inbox) \/ loggedIn

LoginFirst == \A i \in 1 .. Len(wire) : wire[i].frame.op = "login" =>
  i = 1 /\ pc[Listener] = "await" /\ NoWelcome(inbox)

LetIn == link = "up" /\ pc[Listener] \notin {"connect", "await"} => loggedIn

Connection == Connecting /\ Awaiting /\ LoginFirst /\ LetIn

(* Facts about sequences, and what Put and Rest do to the frames on the wire. *)
LEMMA TailHasNoWelcome ==
  ASSUME NEW s \in Seq(Message), s # <<>>, NoWelcome(s)
  PROVE  NoWelcome(Tail(s))
<1>1. Len(Tail(s)) = Len(s) - 1 /\ \A k \in 1 .. Len(s) - 1 : Tail(s)[k] = s[k + 1]
  OBVIOUS
<1> QED BY <1>1 DEF NoWelcome

LEMMA AppendHasNoWelcome ==
  ASSUME NEW s \in Seq(Message), NEW m \in Message, m.kind # "welcome", NoWelcome(s)
  PROVE  NoWelcome(Append(s, m))
BY DEF NoWelcome

LEMMA ConcatElement ==
  ASSUME NEW S, NEW s \in Seq(S), NEW t \in Seq(S), NEW w, w = s \o t
  PROVE  \A i \in 1 .. Len(w) :
           \/ i \in 1 .. Len(s) /\ w[i] = s[i]
           \/ i - Len(s) \in 1 .. Len(t) /\ w[i] = t[i - Len(s)]
<1>1. /\ Len(s) \in Nat /\ Len(t) \in Nat /\ Len(w) = Len(s) + Len(t)
      /\ \A i \in 1 .. Len(w) : w[i] = IF i <= Len(s) THEN s[i] ELSE t[i - Len(s)]
  BY ConcatProperties
<1> SUFFICES ASSUME NEW i \in 1 .. Len(w)
             PROVE  \/ i \in 1 .. Len(s) /\ w[i] = s[i]
                    \/ i - Len(s) \in 1 .. Len(t) /\ w[i] = t[i - Len(s)]
  OBVIOUS
<1>2. CASE i <= Len(s)
  BY <1>1, <1>2
<1>3. CASE ~(i <= Len(s))
  <2>1. i - Len(s) \in 1 .. Len(t)
    BY <1>1, <1>3
  <2> QED BY <1>1, <1>3, <2>1
<1> QED BY <1>2, <1>3

LEMMA ConcatSecond ==
  ASSUME NEW S, NEW s \in Seq(S), NEW t \in Seq(S), NEW w, w = s \o t
  PROVE  \A i \in 1 .. Len(t) : Len(s) + i \in 1 .. Len(w) /\ w[Len(s) + i] = t[i]
<1>1. /\ Len(s) \in Nat /\ Len(t) \in Nat /\ Len(w) = Len(s) + Len(t)
      /\ \A i \in 1 .. Len(w) : w[i] = IF i <= Len(s) THEN s[i] ELSE t[i - Len(s)]
  BY ConcatProperties
<1> SUFFICES ASSUME NEW i \in 1 .. Len(t)
             PROVE  Len(s) + i \in 1 .. Len(w) /\ w[Len(s) + i] = t[i]
  OBVIOUS
<1>2. Len(s) + i \in 1 .. Len(w) /\ ~(Len(s) + i <= Len(s)) /\ (Len(s) + i) - Len(s) = i
  BY <1>1
<1> QED BY <1>1, <1>2

LEMMA PutFrames ==
  ASSUME TypeOK, NEW t \in Thread, NEW part \in {"head", "body"}, Put(t, part)
  PROVE  \A i \in 1 .. Len(wire') :
           \/ i \in 1 .. Len(wire) /\ wire'[i] = wire[i]
           \/ /\ link = "up" /\ i = Len(wire) + 1
              /\ wire'[i] = [by |-> t, frame |-> frame[t], part |-> part]
<1>1. wire \in Seq(Piece) /\ Len(wire) \in Nat /\ [by |-> t, frame |-> frame[t], part |-> part] \in Piece
  BY DEF TypeOK, Piece
<1> QED BY <1>1 DEF Put

LEMMA RestFrames ==
  ASSUME TypeOK, WireInv, Ready
  PROVE  \E d \in {1, 2} :
           /\ Len(Rest) = Len(wire) - d
           /\ \A i \in 1 .. Len(Rest) : i + d \in 2 .. Len(wire) /\ Rest[i] = wire[i + d]
<1>1. Len(wire) \in Nat
  BY DEF TypeOK
<1>2. CASE wire[1].part = "whole"
  <2>1. Len(Rest) = Len(wire) - 1 /\ \A i \in 1 .. Len(wire) - 1 : Rest[i] = wire[i + 1]
    BY <1>2, RestOfWire
  <2>2. \A i \in 1 .. Len(Rest) : i + 1 \in 2 .. Len(wire) /\ Rest[i] = wire[i + 1]
    BY <2>1, <1>1
  <2> QED BY <2>1, <2>2
<1>3. CASE wire[1].part # "whole"
  <2>1. Len(Rest) = Len(wire) - 2 /\ \A i \in 1 .. Len(wire) - 2 : Rest[i] = wire[i + 2]
    BY <1>3, RestOfWire
  <2>2. \A i \in 1 .. Len(Rest) : i + 2 \in 2 .. Len(wire) /\ Rest[i] = wire[i + 2]
    BY <2>1, <1>1
  <2> QED BY <2>1, <2>2
<1> QED BY <1>2, <1>3

LEMMA ConnectionInit == Init => Connection
<1> SUFFICES ASSUME Init PROVE Connection
  OBVIOUS
<1>1. pc[Listener] = "select" /\ Len(wire) = 0 /\ loggedIn
  BY Sizes DEF Init
<1> QED BY <1>1 DEF Connection, Connecting, Awaiting, LoginFirst, LetIn

(* The steps that leave the connection alone. *)
LEMMA ConnectionAlone ==
  ASSUME Connection, UNCHANGED linkVars,
         \/ UNCHANGED pc[Listener]
         \/ {pc[Listener], pc'[Listener]} \cap {"connect", "await"} = {}
  PROVE  Connection'
<1>1. UNCHANGED <<link, wire, inbox, loggedIn, subs>>
  BY DEF linkVars
<1> QED BY <1>1 DEF Connection, Connecting, Awaiting, LoginFirst, LetIn, NoWelcome

(* The steps that lose the connection, that write, and that read. *)
LEMMA ConnectionLost ==
  ASSUME TypeOK, Connection, Lost, link' # "up", pc'[Listener] # "connect"
  PROVE  Connection'
<1>1. wire' = <<>> /\ Len(wire') = 0 /\ subs' = {}
  BY DEF Lost
<1> QED BY <1>1 DEF Connection, Connecting, Awaiting, LoginFirst, LetIn

LEMMA ConnectionPut ==
  ASSUME TypeOK, Local, Connection, NEW t \in Thread, NEW part \in {"head", "body"}, Put(t, part),
         frame[t].op # "login", UNCHANGED <<link, inbox, loggedIn, subs>>,
         pc[Listener] \notin {"connect", "await"}, pc'[Listener] \notin {"connect", "await"}
  PROVE  Connection'
<1>1. \A i \in 1 .. Len(wire) : wire[i].frame.op # "login"
  BY DEF Connection, LoginFirst
<1>3. \A i \in 1 .. Len(wire') : \/ i \in 1 .. Len(wire) /\ wire'[i] = wire[i]
                                 \/ wire'[i] = [by |-> t, frame |-> frame[t], part |-> part]
  BY PutFrames
<1>2. \A i \in 1 .. Len(wire') : wire'[i].frame.op # "login"
  BY <1>1, <1>3
<1> QED BY <1>2 DEF Connection, Connecting, Awaiting, LoginFirst, LetIn

LEMMA ConnectionRead ==
  ASSUME TypeOK, Connection, Reading, NEW kinds, Reads(kinds),
         UNCHANGED <<link, wire, loggedIn, subs>>, pc'[Listener] \notin {"connect", "await"}
  PROVE  Connection'
<1>1. pc[Listener] \notin {"connect", "await"}
  BY DEF Reading
<1> QED BY <1>1 DEF Connection, Connecting, Awaiting, LoginFirst, LetIn

LEMMA ConnectionStep == TypeOK /\ Local /\ WireInv /\ Connection /\ [Next]_vars => Connection'
<1> SUFFICES ASSUME TypeOK, Local, WireInv, Connection PROVE [Next]_vars => Connection'
  OBVIOUS
<1> USE Sizes, ThreadAssumption DEF opsVars, historyVars
<1>0. DOMAIN pc = Thread /\ wire \in Seq(Piece) /\ inbox \in Seq(Message) /\ Len(wire) \in Nat
  BY DEF TypeOK
<1> USE <1>0
<1>1. ASSUME UNCHANGED vars PROVE Connection'
  BY <1>1, ConnectionAlone DEF vars
<1>2. ASSUME NEW t \in {Main, Dispatcher}, WriteHead(t) PROVE Connection'
  <2>1. /\ Put(t, "head") /\ UNCHANGED <<link, inbox, loggedIn, subs>>
        /\ pc[t] = "head" /\ mutex = Nobody /\ pc'[Listener] = pc[Listener]
    BY <1>2 DEF WriteHead
  <2>2. frame[t].op # "login" /\ pc[Listener] \notin {"connect", "await"}
    BY <2>1 DEF Local
  <2> QED BY <2>1, <2>2, ConnectionPut
<1>3. ASSUME NEW t \in {Main, Dispatcher}, WriteBody(t) PROVE Connection'
  <2>1. /\ Put(t, "body") /\ UNCHANGED <<link, inbox, loggedIn, subs>>
        /\ pc[t] = "body" /\ pc'[Listener] = pc[Listener]
    BY <1>3 DEF WriteBody
  <2>2. frame[t].op # "login" /\ pc[Listener] \notin {"connect", "await"}
    BY <2>1 DEF Local
  <2> QED BY <2>1, <2>2, ConnectionPut
<1>4. ASSUME ListenerHead \/ ListenerBody PROVE Connection'
  <2>1. /\ Put(Listener, "head") \/ Put(Listener, "body")
        /\ UNCHANGED <<link, inbox, loggedIn, subs>>
        /\ pc[Listener] \notin {"connect", "await"} /\ pc'[Listener] \notin {"connect", "await"}
    BY <1>4 DEF ListenerHead, ListenerBody
  <2>2. frame[Listener].op # "login"
    BY DEF Local
  <2> QED BY <2>1, <2>2, ConnectionPut
<1>5. ASSUME NEW t \in {Main, Dispatcher}, SendFails(t) PROVE Connection'
  BY <1>5, ConnectionAlone DEF SendFails
<1>6. ASSUME Subscribe \/ EndInsert PROVE Connection'
  BY <1>6, ConnectionAlone DEF Subscribe, EndInsert
<1>7. ASSUME NEW r \in Request, BeginOrder(r) PROVE Connection'
  BY <1>7, ConnectionAlone DEF BeginOrder
<1>8. ASSUME NoticeDown \/ Ping \/ PongTimeout \/ ReadStub \/ ReadFails \/ Erase PROVE Connection'
  <2>1. UNCHANGED linkVars /\ {pc[Listener], pc'[Listener]} \cap {"connect", "await"} = {}
    BY <1>8 DEF NoticeDown, Ping, PongTimeout, ReadStub, ReadFails, Erase, Quiet, Reading
  <2> QED BY <2>1, ConnectionAlone
<1>9. ASSUME ReadPing \/ ReadPong \/ ReadTaken \/ ReadRefused PROVE Connection'
  <2>1. /\ Reading /\ \E kinds \in {{"ping"}, {"pong"}, {"taken"}, {"refused"}} : Reads(kinds)
        /\ UNCHANGED <<link, wire, loggedIn, subs>> /\ pc'[Listener] \notin {"connect", "await"}
    BY <1>9 DEF ReadPing, ReadPong, ReadTaken, ReadRefused
  <2> QED BY <2>1, ConnectionRead
<1>10. ASSUME CloseTorn \/ Die \/ FallSilent PROVE Connection'
  <2>1. Lost /\ link' # "up" /\ UNCHANGED pc
    BY <1>10 DEF CloseTorn, Die, FallSilent
  <2>2. CASE pc[Listener] # "connect"
    BY <2>1, <2>2, ConnectionLost
  <2>3. CASE pc[Listener] = "connect"
    <3>1. inbox = <<>> /\ DOMAIN inbox = {}
      BY <2>3 DEF Connection, Connecting
    <3>2. inbox' = <<>>
      BY <1>10, <3>1 DEF CloseTorn, Die, FallSilent
    <3>3. Len(wire') = 0 /\ subs' = {} /\ pc'[Listener] = "connect"
      BY <2>1, <2>3 DEF Lost
    <3> QED BY <2>1, <3>2, <3>3 DEF Connection, Connecting, Awaiting, LoginFirst, LetIn
  <2> QED BY <2>2, <2>3
<1>11. ASSUME Reopen PROVE Connection'
  <2>1. Reset /\ pc'[Listener] = "connect"
    BY <1>11 DEF Reopen
  <2>2. wire' = <<>> /\ Len(wire') = 0 /\ subs' = {} /\ link' = "down" /\ inbox' = <<>>
    BY <2>1 DEF Reset, Lost
  <2> QED BY <2>1, <2>2 DEF Connection, Connecting, Awaiting, LoginFirst, LetIn
<1>12. ASSUME ConnectBreaks \/ LoginFails PROVE Connection'
  <2>1. Lost /\ link' # "up" /\ pc'[Listener] # "connect"
    BY <1>12 DEF ConnectBreaks, LoginFails, Reset, GiveUp
  <2> QED BY <2>1, ConnectionLost
<1>13. ASSUME ConnectFails PROVE Connection'
  <2>1. /\ UNCHANGED <<link, wire, subs>> /\ link = "down"
        /\ pc[Listener] = "connect" /\ pc'[Listener] = "select"
    BY <1>13 DEF ConnectFails, GiveUp, linkVars, Opening
  <2>2. Len(wire) = 0
    BY <2>1 DEF WireInv, WellSent
  <2> QED BY <2>1, <2>2 DEF Connection, Connecting, Awaiting, LoginFirst, LetIn
<1>14. ASSUME Connect PROVE Connection'
  <2>1. /\ wire' = <<Whole(Control("login"))>> /\ UNCHANGED <<inbox, subs>>
        /\ pc[Listener] = "connect" /\ pc'[Listener] = "await"
    BY <1>14 DEF Connect, Opening
  <2>2. inbox = <<>> /\ subs = {} /\ NoWelcome(inbox')
    BY <2>1 DEF Connection, Connecting, NoWelcome
  <2>3. Len(wire') = 1 /\ \A i \in 1 .. Len(wire') : i = 1 /\ wire'[i].frame.op = "login"
    BY <2>1 DEF Whole, Control
  <2> QED BY <2>1, <2>2, <2>3 DEF Connection, Connecting, Awaiting, LoginFirst, LetIn
<1>15. ASSUME AwaitPing PROVE Connection'
  <2>1. /\ pc[Listener] = "await" /\ inbox # <<>> /\ inbox' = Tail(inbox)
        /\ wire' = IF link = "up" THEN Append(wire, Whole(Control("pong"))) ELSE wire
        /\ UNCHANGED <<link, loggedIn, subs, pc>>
    BY <1>15 DEF AwaitPing, Reads
  <2>2. NoWelcome(inbox) => NoWelcome(inbox')
    BY <2>1, TailHasNoWelcome
  <2>3. \A i \in 1 .. Len(wire') : \/ i \in 1 .. Len(wire) /\ wire'[i] = wire[i]
                                 \/ wire'[i] = Whole(Control("pong"))
    BY <2>1
  <2>4. Whole(Control("pong")).frame.op = "pong"
    BY DEF Whole, Control
  <2> QED BY <2>1, <2>2, <2>3, <2>4 DEF Connection, Connecting, Awaiting, LoginFirst, LetIn
<1>16. ASSUME Resubscribe PROVE Connection'
  <2> DEFINE subscriptions == [i \in 1 .. Len(wanted) |-> Whole([op |-> "sub", arg |-> wanted[i]])]
  <2>1. /\ pc[Listener] = "await" /\ inbox # <<>> /\ Head(inbox).kind \in {"welcome"}
        /\ wire' = IF link = "up" THEN wire \o subscriptions ELSE wire
        /\ UNCHANGED <<link, loggedIn, subs>> /\ pc'[Listener] = "select"
    BY <1>16 DEF Resubscribe, Reads, GiveUp
  <2>2. ~NoWelcome(inbox)
    BY <2>1 DEF NoWelcome
  <2>3. /\ link = "up" => loggedIn
        /\ \A i \in 1 .. Len(wire) : wire[i].frame.op # "login"
    BY <2>1, <2>2 DEF Connection, Awaiting, LoginFirst
  <2>4. \A i \in 1 .. Len(wire') : wire'[i].frame.op # "login"
    <3>1. CASE link # "up"
      BY <2>1, <2>3, <3>1
    <3>2. CASE link = "up"
      <4>1. Len(wanted) \in Nat /\ Len(subscriptions) = Len(wanted)
        BY DEF TypeOK
      <4>2. \A i \in 1 .. Len(wanted) : subscriptions[i].frame.op = "sub"
        BY DEF Whole
      <4>3. subscriptions \in Seq(Piece)
        <5>1. \A i \in 1 .. Len(wanted) : Whole([op |-> "sub", arg |-> wanted[i]]) \in Piece
          BY WholeTyped DEF TypeOK, Frame
        <5> QED BY <5>1, <4>1
      <4>4. \A i \in 1 .. Len(wire') :
              \/ i \in 1 .. Len(wire) /\ wire'[i] = wire[i]
              \/ i - Len(wire) \in 1 .. Len(subscriptions) /\ wire'[i] = subscriptions[i - Len(wire)]
        <5> HIDE DEF subscriptions
        <5>1. wire' = wire \o subscriptions
          BY <2>1, <3>2
        <5>2. wire \in Seq(Piece)
          OBVIOUS
        <5> QED BY ONLY <5>1, <5>2, <4>3, ConcatElement
      <4> QED BY <2>3, <4>1, <4>2, <4>4
    <3> QED BY <3>1, <3>2
  <2> QED BY <2>1, <2>3, <2>4 DEF Connection, Connecting, Awaiting, LoginFirst, LetIn
<1>17. ASSUME ProtocolPing PROVE Connection'
  <2>1. /\ inbox' = Append(inbox, Say("ping", Nothing)) /\ link = "up"
        /\ UNCHANGED <<link, wire, loggedIn, subs, pc>>
    BY <1>17 DEF ProtocolPing
  <2>2. NoWelcome(inbox) => NoWelcome(inbox')
    BY <2>1, SayTyped, AppendHasNoWelcome DEF Say
  <2> QED BY <2>1, <2>2 DEF Connection, Connecting, Awaiting, LoginFirst, LetIn
<1>18. ASSUME TakeSubscription \/ TakeOrder \/ TakePing \/ TakeLogin PROVE Connection'
  <2>1. Ready /\ wire' = Rest /\ UNCHANGED <<pc, link>> /\ link = "up"
    BY <1>18, RestOfWire DEF TakeSubscription, TakeOrder, TakePing, TakeLogin
  <2>2. PICK d \in {1, 2} : /\ Len(Rest) = Len(wire) - d
                            /\ \A i \in 1 .. Len(Rest) : i + d \in 2 .. Len(wire) /\ Rest[i] = wire[i + d]
    BY <2>1, RestFrames
  <2>3. \A i \in 1 .. Len(wire') : wire'[i].frame.op # "login"
    <3> SUFFICES ASSUME NEW i \in 1 .. Len(wire'), wire'[i].frame.op = "login" PROVE FALSE
      OBVIOUS
    <3>1. i + d \in 2 .. Len(wire) /\ wire[i + d].frame.op = "login"
      BY <2>1, <2>2
    <3>2. i + d \in 1 .. Len(wire) /\ i + d # 1
      BY <3>1
    <3> QED BY <3>1, <3>2 DEF Connection, LoginFirst
  <2>4. (\A i \in 1 .. Len(wire) : wire[i].frame.op # "sub") => \A i \in 1 .. Len(wire') : wire'[i].frame.op # "sub"
    <3> SUFFICES ASSUME \A i \in 1 .. Len(wire) : wire[i].frame.op # "sub", NEW i \in 1 .. Len(wire')
                 PROVE  wire'[i].frame.op # "sub"
      OBVIOUS
    <3>1. i + d \in 1 .. Len(wire) /\ wire'[i] = wire[i + d]
      BY <2>1, <2>2
    <3> QED BY <3>1
  <2>5. pc[Listener] # "connect"
    BY <2>1 DEF Connection, Connecting
  <2>6. pc[Listener] = "await" => subs' = {}
    <3>1. 1 \in 1 .. Len(wire)
      BY <2>1, RestOfWire
    <3>2. pc[Listener] = "await" => wire[1].frame.op # "sub" /\ subs = {}
      BY <3>1 DEF Connection, Awaiting
    <3> QED BY <3>2, <1>18 DEF TakeSubscription, TakeOrder, TakePing, TakeLogin
  <2>7. loggedIn => loggedIn'
    BY <1>18 DEF TakeSubscription, TakeOrder, TakePing, TakeLogin
  <2>8. NoWelcome(inbox) => NoWelcome(inbox') \/ loggedIn'
    <3> SUFFICES ASSUME NoWelcome(inbox) PROVE NoWelcome(inbox') \/ loggedIn'
      OBVIOUS
    <3>1. ASSUME TakeSubscription PROVE NoWelcome(inbox')
      BY <3>1 DEF TakeSubscription
    <3>2. ASSUME TakeOrder PROVE NoWelcome(inbox')
      <4>1. PICK kind \in {"taken", "refused"} : inbox' = Append(inbox, Say(kind, wire[1].frame.arg))
        BY <3>2 DEF TakeOrder
      <4>2. wire[1].frame.arg \in Request
        BY <2>1, <3>2, RestTyped DEF TakeOrder, Piece, Frame
      <4>3. Say(kind, wire[1].frame.arg) \in Message /\ Say(kind, wire[1].frame.arg).kind # "welcome"
        BY <4>2, SayTyped DEF Say
      <4> QED BY <4>1, <4>3, AppendHasNoWelcome
    <3>3. ASSUME TakePing PROVE NoWelcome(inbox')
      <4>1. inbox' = inbox \/ inbox' = Append(inbox, Say("pong", Nothing))
        BY <3>3 DEF TakePing
      <4> QED BY <4>1, SayTyped, AppendHasNoWelcome DEF Say
    <3>4. ASSUME TakeLogin PROVE NoWelcome(inbox') \/ loggedIn'
      <4>1. loggedIn' \/ inbox' = Append(inbox, Say("unwelcome", Nothing))
        BY <3>4 DEF TakeLogin
      <4> QED BY <4>1, SayTyped, AppendHasNoWelcome DEF Say
    <3> QED BY <1>18, <3>1, <3>2, <3>3, <3>4
  <2> QED BY <2>1, <2>3, <2>4, <2>5, <2>6, <2>7, <2>8
          DEF Connection, Connecting, Awaiting, LoginFirst, LetIn
<1> QED BY <1>1, <1>2, <1>3, <1>4, <1>5, <1>6, <1>7, <1>8, <1>9, <1>10, <1>11, <1>12, <1>13, <1>14,
           <1>15, <1>16, <1>17, <1>18
        DEF Next, MainStep, SendingStep, ListenerStep, ExchangeStep

-----------------------------------------------------------------------------
(* What the connection carries, step by step. *)
SubscriptionsOn(w, n) ==
  {c \in Channel : \E i \in 1 .. n : w[i].frame = [op |-> "sub", arg |-> c] /\ w[i].part # "head"}

LEMMA CarriedIs ==
  ASSUME wire \in Seq(Piece)
  PROVE  Carried = IF InUse THEN subs \cup SubscriptionsOn(wire, Len(wire)) ELSE {}
<1>1. DOMAIN wire = 1 .. Len(wire)
  OBVIOUS
<1> QED BY <1>1 DEF Carried, OnWire, SubscriptionsOn

LEMMA CarriedNext ==
  ASSUME wire' \in Seq(Piece)
  PROVE  Carried' = IF InUse' THEN subs' \cup SubscriptionsOn(wire', Len(wire')) ELSE {}
<1>1. DOMAIN wire' = 1 .. Len(wire')
  OBVIOUS
<1> QED BY <1>1 DEF Carried, OnWire, SubscriptionsOn

(* Every step keeps what is carried, carries one channel more, loses it all, or *)
(* restores all that was asked for.                                             *)
Keeps == /\ UNCHANGED <<wanted, InUse, Carried>>
         /\ \A c \in Channel : AboutToSend(c) => AboutToSend(c)'

Carries == /\ InUse /\ InUse'
           /\ pc[Main] = "body"
           /\ Carried' = Carried \cup {frame[Main].arg}
           /\ UNCHANGED wanted

Loses == ~InUse' /\ Carried' = {} /\ UNCHANGED wanted

Restores == ~InUse /\ InUse' /\ Carried' = Range(wanted) /\ UNCHANGED wanted

LEMMA NotInUse ==
  ASSUME ~InUse', UNCHANGED wanted
  PROVE  Loses
BY DEF Loses, Carried

LEMMA Untouched ==
  ASSUME TypeOK, UNCHANGED <<link, wire, subs, wanted>>,
         \/ UNCHANGED pc[Listener]
         \/ {pc[Listener], pc'[Listener]} \cap {"connect", "await"} = {}
  PROVE  UNCHANGED <<InUse, Carried>>
<1>1. InUse' = InUse
  BY DEF InUse
<1>2. UNCHANGED <<wire, subs>>
  OBVIOUS
<1> QED BY <1>1, <1>2 DEF Carried, OnWire

(* A header carries nothing yet, a payload carries its channel. *)
LEMMA PutCarries ==
  ASSUME TypeOK, TypeOK', NEW t \in Thread, NEW part \in {"head", "body"}, Put(t, part),
         UNCHANGED <<link, subs>>, InUse, InUse'
  PROVE  Carried' = Carried \cup (IF part = "head" THEN {}
                                  ELSE {c \in Channel : frame[t] = [op |-> "sub", arg |-> c]})
<1> DEFINE x == [by |-> t, frame |-> frame[t], part |-> part]
<1>1. wire \in Seq(Piece) /\ Len(wire) \in Nat /\ x \in Piece
  BY DEF TypeOK, Piece
<1>2. wire' = Append(wire, x)
  BY DEF Put, InUse
<1>3. /\ Len(wire') = Len(wire) + 1 /\ wire'[Len(wire) + 1] = x
      /\ \A i \in 1 .. Len(wire) : wire'[i] = wire[i]
  BY <1>1, <1>2
<1>4. SubscriptionsOn(wire', Len(wire')) = SubscriptionsOn(wire, Len(wire)) \cup
        (IF part = "head" THEN {} ELSE {c \in Channel : frame[t] = [op |-> "sub", arg |-> c]})
  <2>1. \A i \in 1 .. Len(wire') : i \in 1 .. Len(wire) \/ i = Len(wire')
    BY <1>1, <1>3
  <2>2. \A i \in 1 .. Len(wire) : i \in 1 .. Len(wire')
    BY <1>1, <1>3
  <2>3. /\ Len(wire') \in 1 .. Len(wire')
        /\ wire'[Len(wire')].frame = frame[t] /\ wire'[Len(wire')].part = part
    BY <1>1, <1>3
  <2> QED BY <2>1, <2>2, <2>3, <1>3 DEF SubscriptionsOn
<1>5. wire' \in Seq(Piece)
  BY DEF TypeOK
<1>6. Carried = subs \cup SubscriptionsOn(wire, Len(wire))
  BY <1>1, CarriedIs
<1>7. Carried' = subs \cup SubscriptionsOn(wire', Len(wire'))
  BY <1>5, CarriedNext
<1> QED BY <1>4, <1>6, <1>7

(* What the exchange takes off the wire it subscribes: nothing is lost there. *)
LEMMA TakeCarries ==
  ASSUME TypeOK, TypeOK', WireInv, Ready, wire' = Rest, UNCHANGED link, InUse, InUse',
         subs' = IF wire[1].frame.op = "sub" THEN subs \cup {wire[1].frame.arg} ELSE subs
  PROVE  Carried' = Carried
<1>1. wire \in Seq(Piece) /\ Len(wire) \in Nat /\ wire' \in Seq(Piece)
  BY DEF TypeOK
<1>2. /\ Carried = subs \cup SubscriptionsOn(wire, Len(wire))
      /\ Carried' = subs' \cup SubscriptionsOn(wire', Len(wire'))
  BY <1>1, CarriedIs, CarriedNext
<1>3. wire[1] \in Piece /\ 1 \in 1 .. Len(wire)
  BY RestTyped, RestOfWire, <1>1
<1>4. \A c \in Channel : wire[1].frame = [op |-> "sub", arg |-> c]
                           <=> wire[1].frame.op = "sub" /\ wire[1].frame.arg = c
  BY <1>3 DEF Piece, Frame
<1>5. wire[1].frame.op = "sub" => wire[1].frame.arg \in Channel
  BY <1>3 DEF Piece, Frame
<1>6. CASE wire[1].part = "whole"
  <2>1. Len(wire') = Len(wire) - 1 /\ \A i \in 1 .. Len(wire) - 1 : wire'[i] = wire[i + 1]
    BY <1>6, RestOfWire
  <2>2. \A i \in 1 .. Len(wire') : i + 1 \in 1 .. Len(wire) /\ wire'[i] = wire[i + 1]
    BY <1>1, <2>1
  <2>3. \A i \in 1 .. Len(wire) : i = 1 \/ (i - 1 \in 1 .. Len(wire') /\ wire'[i - 1] = wire[i])
    <3> SUFFICES ASSUME NEW i \in 1 .. Len(wire), i # 1
                 PROVE  i - 1 \in 1 .. Len(wire') /\ wire'[i - 1] = wire[i]
      OBVIOUS
    <3>1. i - 1 \in 1 .. Len(wire') /\ (i - 1) + 1 = i
      BY <1>1, <2>1
    <3> QED BY <3>1, <2>2
  <2>4. SubscriptionsOn(wire, Len(wire)) = SubscriptionsOn(wire', Len(wire')) \cup
          {c \in Channel : wire[1].frame = [op |-> "sub", arg |-> c]}
    <3>1. ASSUME NEW c \in Channel
          PROVE  (\E i \in 1 .. Len(wire) : wire[i].frame = [op |-> "sub", arg |-> c] /\ wire[i].part # "head")
                   <=> \/ \E i \in 1 .. Len(wire') :
                            wire'[i].frame = [op |-> "sub", arg |-> c] /\ wire'[i].part # "head"
                       \/ wire[1].frame = [op |-> "sub", arg |-> c]
      <4>1. wire[1].part # "head"
        BY <1>6
      <4> QED BY <1>3, <4>1, <2>2, <2>3
    <3> QED BY <3>1 DEF SubscriptionsOn
  <2> QED BY <1>2, <1>4, <1>5, <2>4
<1>7. CASE wire[1].part # "whole"
  <2>1. /\ Len(wire') = Len(wire) - 2 /\ \A i \in 1 .. Len(wire) - 2 : wire'[i] = wire[i + 2]
        /\ Len(wire) >= 2 /\ wire[1].part = "head" /\ wire[2].part = "body" /\ wire[2].frame = wire[1].frame
    BY <1>7, RestOfWire DEF Matched
  <2>2. \A i \in 1 .. Len(wire') : i + 2 \in 1 .. Len(wire) /\ wire'[i] = wire[i + 2]
    BY <1>1, <2>1
  <2>3. \A i \in 1 .. Len(wire) : i = 1 \/ i = 2 \/ (i - 2 \in 1 .. Len(wire') /\ wire'[i - 2] = wire[i])
    <3> SUFFICES ASSUME NEW i \in 1 .. Len(wire), i # 1, i # 2
                 PROVE  i - 2 \in 1 .. Len(wire') /\ wire'[i - 2] = wire[i]
      OBVIOUS
    <3>1. i - 2 \in 1 .. Len(wire') /\ (i - 2) + 2 = i
      BY <1>1, <2>1
    <3> QED BY <3>1, <2>2
  <2>4. 2 \in 1 .. Len(wire)
    BY <1>1, <2>1
  <2>5. SubscriptionsOn(wire, Len(wire)) = SubscriptionsOn(wire', Len(wire')) \cup
          {c \in Channel : wire[1].frame = [op |-> "sub", arg |-> c]}
    BY <2>1, <2>2, <2>3, <2>4 DEF SubscriptionsOn
  <2> QED BY <1>2, <1>4, <1>5, <2>5
<1> QED BY <1>6, <1>7

(* The last step of a reconnect carries every channel remembered. *)
LEMMA RestoreCarries ==
  ASSUME TypeOK, TypeOK', Connection, Resubscribe, link = "up"
  PROVE  Restores
<1> DEFINE subscriptions == [i \in 1 .. Len(wanted) |-> Whole([op |-> "sub", arg |-> wanted[i]])]
<1>0. /\ wire \in Seq(Piece) /\ Len(wire) \in Nat /\ Len(wanted) \in Nat /\ DOMAIN pc = Thread
      /\ wire' \in Seq(Piece) /\ wanted \in Seq(Channel)
  BY DEF TypeOK
<1>1. /\ pc[Listener] = "await" /\ pc'[Listener] = "select" /\ wire' = wire \o subscriptions
      /\ UNCHANGED <<link, subs, wanted>>
  BY <1>0, Sizes DEF Resubscribe, GiveUp
<1>2. ~InUse /\ InUse'
  BY <1>1 DEF InUse
<1>3. subs = {} /\ \A i \in 1 .. Len(wire) : wire[i].frame.op # "sub"
  BY <1>1 DEF Connection, Awaiting
<1>4. \A i \in 1 .. Len(wanted) : /\ subscriptions[i].frame = [op |-> "sub", arg |-> wanted[i]]
                                  /\ subscriptions[i].frame.arg = wanted[i]
                                  /\ subscriptions[i].part = "whole" /\ subscriptions[i] \in Piece
  <2>1. \A i \in 1 .. Len(wanted) : [op |-> "sub", arg |-> wanted[i]] \in Frame
    BY <1>0 DEF Frame
  <2> QED BY <2>1, WholeTyped DEF Whole
<1>5. subscriptions \in Seq(Piece) /\ Len(subscriptions) = Len(wanted)
  BY <1>0, <1>4
<1> HIDE DEF subscriptions
<1>6. \A i \in 1 .. Len(wire') :
        \/ i \in 1 .. Len(wire) /\ wire'[i] = wire[i]
        \/ i - Len(wire) \in 1 .. Len(subscriptions) /\ wire'[i] = subscriptions[i - Len(wire)]
  BY ONLY <1>0, <1>1, <1>5, ConcatElement
<1>7. \A i \in 1 .. Len(subscriptions) : Len(wire) + i \in 1 .. Len(wire') /\ wire'[Len(wire) + i] = subscriptions[i]
  BY ONLY <1>0, <1>1, <1>5, ConcatSecond
<1>8. Range(wanted) = {wanted[i] : i \in 1 .. Len(wanted)} /\ \A i \in 1 .. Len(wanted) : wanted[i] \in Channel
  BY <1>0 DEF Range
<1>9. SubscriptionsOn(wire', Len(wire')) = Range(wanted)
  <2>1. ASSUME NEW c \in SubscriptionsOn(wire', Len(wire')) PROVE c \in Range(wanted)
    <3>1. PICK i \in 1 .. Len(wire') : wire'[i].frame = [op |-> "sub", arg |-> c]
      BY <2>1 DEF SubscriptionsOn
    <3>2. wire'[i].frame.op = "sub" /\ wire'[i].frame.arg = c
      BY <3>1
    <3>3. i - Len(wire) \in 1 .. Len(wanted) /\ wire'[i] = subscriptions[i - Len(wire)]
      BY <3>2, <1>3, <1>5, <1>6
    <3>4. c = wanted[i - Len(wire)]
      <4> DEFINE k == i - Len(wire)
      <4>1. k \in 1 .. Len(wanted) /\ wire'[i] = subscriptions[k]
        BY <3>3
      <4> HIDE DEF k
      <4>2. subscriptions[k].frame.arg = wanted[k]
        BY <4>1, <1>4
      <4>3. c = wanted[k]
        BY <3>2, <4>1, <4>2
      <4> QED BY <4>3 DEF k
    <3> QED BY <3>3, <3>4, <1>8
  <2>2. ASSUME NEW c \in Range(wanted) PROVE c \in SubscriptionsOn(wire', Len(wire'))
    <3>1. PICK i \in 1 .. Len(wanted) : c = wanted[i]
      BY <2>2, <1>8
    <3>3. i \in 1 .. Len(subscriptions)
      BY <1>5
    <3>2. /\ Len(wire) + i \in 1 .. Len(wire') /\ c \in Channel
          /\ wire'[Len(wire) + i].frame = [op |-> "sub", arg |-> c] /\ wire'[Len(wire) + i].part # "head"
      BY <3>1, <3>3, <1>4, <1>7, <1>8
    <3> QED BY <3>2 DEF SubscriptionsOn
  <2> QED BY <2>1, <2>2
<1>10. Carried' = Range(wanted)
  BY <1>0, <1>1, <1>2, <1>3, <1>9, CarriedNext
<1> QED BY <1>1, <1>2, <1>10 DEF Restores

LEMMA CarriedStep ==
  ASSUME TypeOK, TypeOK', Local, WireInv, Connection
  PROVE  [Next]_vars => \/ Keeps \/ Carries \/ Loses \/ Restores
                        \/ Subscribe /\ UNCHANGED <<InUse, Carried>>
<1> DEFINE Goal == \/ Keeps \/ Carries \/ Loses \/ Restores
                   \/ Subscribe /\ UNCHANGED <<InUse, Carried>>
<1> USE Sizes, ThreadAssumption DEF opsVars, historyVars, linkVars
<1>0. DOMAIN pc = Thread /\ DOMAIN frame = Thread
  BY DEF TypeOK
<1> USE <1>0
<1>1. ASSUME UNCHANGED vars PROVE Goal
  <2>1. UNCHANGED <<link, wire, subs, wanted, pc, frame>>
    BY <1>1 DEF vars
  <2>2. UNCHANGED <<InUse, Carried>>
    BY <2>1, Untouched
  <2> QED BY <2>1, <2>2 DEF Keeps, AboutToSend
<1>2. ASSUME NEW t \in {Main, Dispatcher}, WriteHead(t) PROVE Goal
  <2>1. /\ Put(t, "head") /\ UNCHANGED <<link, subs, wanted, frame>>
        /\ pc[t] = "head" /\ mutex = Nobody /\ pc' = [pc EXCEPT ![t] = "body"]
    BY <1>2 DEF WriteHead
  <2>2. InUse' = InUse
    BY <2>1 DEF InUse
  <2>3. CASE InUse
    <3>1. Carried' = Carried
      BY <2>1, <2>2, <2>3, PutCarries
    <3> QED BY <2>1, <2>2, <3>1 DEF Keeps, AboutToSend
  <2>4. CASE ~InUse
    BY <2>1, <2>2, <2>4, NotInUse
  <2> QED BY <2>3, <2>4
<1>3. ASSUME NEW t \in {Main, Dispatcher}, WriteBody(t) PROVE Goal
  <2>1. /\ Put(t, "body") /\ UNCHANGED <<link, subs, wanted>>
        /\ pc[t] = "body" /\ pc' = [pc EXCEPT ![t] = "idle"]
        /\ frame' = [frame EXCEPT ![t] = Control("ping")]
    BY <1>3 DEF WriteBody
  <2>2. InUse' = InUse
    BY <2>1 DEF InUse
  <2>3. CASE InUse /\ t = Main
    <3>1. Carried' = Carried \cup {c \in Channel : frame[Main] = [op |-> "sub", arg |-> c]}
      BY <2>1, <2>2, <2>3, PutCarries
    <3>2. frame[Main] \in Frame /\ frame[Main].op = "sub"
      BY <2>1, <2>3 DEF Local, TypeOK
    <3>3. {c \in Channel : frame[Main] = [op |-> "sub", arg |-> c]} = {frame[Main].arg}
      BY <3>2 DEF Frame
    <3> QED BY <2>1, <2>2, <2>3, <3>1, <3>3 DEF Carries
  <2>4. CASE InUse /\ t # Main
    <3>1. Carried' = Carried \cup {c \in Channel : frame[t] = [op |-> "sub", arg |-> c]}
      BY <2>1, <2>2, <2>4, PutCarries
    <3>2. frame[t].op # "sub"
      BY <2>1, <2>4 DEF Local
    <3>4. \A c \in Channel : frame[t] # [op |-> "sub", arg |-> c]
      BY <3>2
    <3>3. Carried' = Carried
      BY <3>1, <3>4
    <3> QED BY <2>1, <2>2, <2>4, <3>3 DEF Keeps, AboutToSend
  <2>5. CASE ~InUse
    BY <2>1, <2>2, <2>5, NotInUse
  <2> QED BY <2>3, <2>4, <2>5
<1>4. ASSUME ListenerHead \/ ListenerBody PROVE Goal
  <2>1. /\ Put(Listener, "head") \/ Put(Listener, "body")
        /\ UNCHANGED <<link, subs, wanted>> /\ pc'[Main] = pc[Main] /\ frame'[Main] = frame[Main]
        /\ pc[Listener] \notin {"connect", "await"} /\ pc'[Listener] \notin {"connect", "await"}
    BY <1>4 DEF ListenerHead, ListenerBody
  <2>2. InUse' = InUse
    BY <2>1 DEF InUse
  <2>3. CASE InUse
    <3>1. frame[Listener].op # "sub"
      BY DEF Local
    <3>3. {c \in Channel : frame[Listener] = [op |-> "sub", arg |-> c]} = {}
      BY <3>1
    <3>4. \/ Carried' = Carried \cup {}
          \/ Carried' = Carried \cup {c \in Channel : frame[Listener] = [op |-> "sub", arg |-> c]}
      BY <2>1, <2>2, <2>3, PutCarries
    <3>2. Carried' = Carried
      BY <3>3, <3>4
    <3> QED BY <2>1, <2>2, <3>2 DEF Keeps, AboutToSend
  <2>4. CASE ~InUse
    BY <2>1, <2>2, <2>4, NotInUse
  <2> QED BY <2>3, <2>4
<1>5. ASSUME NEW t \in {Main, Dispatcher}, SendFails(t) PROVE Goal
  <2>1. link = "down" /\ UNCHANGED <<link, wanted>>
    BY <1>5 DEF SendFails
  <2> QED BY <2>1, NotInUse DEF InUse
<1>6. ASSUME Subscribe PROVE Goal
  <2>1. UNCHANGED <<link, wire, subs>> /\ pc'[Listener] = pc[Listener]
    BY <1>6 DEF Subscribe
  <2>2. InUse' = InUse
    BY <2>1 DEF InUse
  <2>3. Carried' = Carried
    BY <2>1, <2>2 DEF Carried, OnWire
  <2> QED BY <1>6, <2>2, <2>3
<1>7. ASSUME EndInsert \/ (\E r \in Request : BeginOrder(r)) PROVE Goal
  <2>1. UNCHANGED <<link, wire, subs, wanted>> /\ pc'[Listener] = pc[Listener]
        /\ pc'[Main] = pc[Main] /\ frame'[Main] = frame[Main]
    BY <1>7 DEF EndInsert, BeginOrder
  <2>2. UNCHANGED <<InUse, Carried>>
    BY <2>1, Untouched
  <2> QED BY <2>1, <2>2 DEF Keeps, AboutToSend
<1>8. ASSUME NoticeDown \/ Ping \/ PongTimeout \/ ReadStub \/ ReadFails \/ Erase PROVE Goal
  <2>1. /\ UNCHANGED <<link, wire, subs, wanted>>
        /\ {pc[Listener], pc'[Listener]} \cap {"connect", "await"} = {}
        /\ pc'[Main] = pc[Main] /\ frame'[Main] = frame[Main]
    BY <1>8 DEF NoticeDown, Ping, PongTimeout, ReadStub, ReadFails, Erase, Quiet, Reading
  <2>2. UNCHANGED <<InUse, Carried>>
    BY <2>1, Untouched
  <2> QED BY <2>1, <2>2 DEF Keeps, AboutToSend
<1>9. ASSUME ReadPing \/ ReadPong \/ ReadTaken \/ ReadRefused PROVE Goal
  <2>1. /\ UNCHANGED <<link, wire, subs, wanted>>
        /\ {pc[Listener], pc'[Listener]} \cap {"connect", "await"} = {}
        /\ pc'[Main] = pc[Main] /\ frame'[Main] = frame[Main]
    BY <1>9 DEF ReadPing, ReadPong, ReadTaken, ReadRefused, Reading
  <2>2. UNCHANGED <<InUse, Carried>>
    BY <2>1, Untouched
  <2> QED BY <2>1, <2>2 DEF Keeps, AboutToSend
<1>10. ASSUME CloseTorn \/ Die \/ FallSilent \/ Reopen \/ ConnectBreaks \/ LoginFails PROVE Goal
  <2>1. link' # "up" /\ UNCHANGED wanted
    BY <1>10 DEF CloseTorn, Die, FallSilent, Reopen, ConnectBreaks, LoginFails, Reset
  <2> QED BY <2>1, NotInUse DEF InUse
<1>11. ASSUME Connect \/ AwaitPing PROVE Goal
  <2>1. pc'[Listener] = "await" /\ UNCHANGED wanted
    BY <1>11 DEF Connect, AwaitPing
  <2> QED BY <2>1, NotInUse DEF InUse
<1>12. ASSUME ConnectFails PROVE Goal
  <2>1. link' = "down" /\ UNCHANGED wanted
    BY <1>12 DEF ConnectFails, Opening, linkVars
  <2> QED BY <2>1, NotInUse DEF InUse
<1>13. ASSUME Resubscribe PROVE Goal
  <2>1. CASE link = "up"
    BY <1>13, <2>1, RestoreCarries
  <2>2. CASE link # "up"
    <3>1. link' # "up" /\ UNCHANGED wanted
      BY <1>13, <2>2 DEF Resubscribe
    <3> QED BY <3>1, NotInUse DEF InUse
  <2> QED BY <2>1, <2>2
<1>14. ASSUME TakeSubscription \/ TakeOrder \/ TakePing \/ TakeLogin PROVE Goal
  <2>1. Ready /\ wire' = Rest /\ UNCHANGED <<link, wanted, pc, frame>>
    BY <1>14 DEF TakeSubscription, TakeOrder, TakePing, TakeLogin
  <2>2. InUse' = InUse
    BY <2>1 DEF InUse
  <2>3. CASE InUse
    <3>1. loggedIn
      BY <2>3 DEF InUse, Connection, LetIn
    <3>2. subs' = IF wire[1].frame.op = "sub" THEN subs \cup {wire[1].frame.arg} ELSE subs
      BY <1>14, <3>1 DEF TakeSubscription, TakeOrder, TakePing, TakeLogin
    <3>3. Carried' = Carried
      BY <2>1, <2>2, <2>3, <3>2, TakeCarries
    <3> QED BY <2>1, <2>2, <3>3 DEF Keeps, AboutToSend
  <2>4. CASE ~InUse
    BY <2>1, <2>2, <2>4, NotInUse
  <2> QED BY <2>3, <2>4
<1>15. ASSUME ProtocolPing PROVE Goal
  <2>1. UNCHANGED <<link, wire, subs, wanted, pc, frame>>
    BY <1>15 DEF ProtocolPing
  <2>2. UNCHANGED <<InUse, Carried>>
    BY <2>1, Untouched
  <2> QED BY <2>1, <2>2 DEF Keeps, AboutToSend
<1> HIDE DEF Goal
<1>16. [Next]_vars => Goal
  BY <1>1, <1>2, <1>3, <1>4, <1>5, <1>6, <1>7, <1>8, <1>9, <1>10, <1>11, <1>12, <1>13, <1>14, <1>15
     DEF Next, MainStep, SendingStep, ListenerStep, ExchangeStep
<1> QED BY <1>16 DEF Goal

(* The inductive invariant of the subscriptions. *)
ChannelInv == FramesInv /\ Connection /\ SubscribedOrAsked

LEMMA ChannelInit == Init => ChannelInv
<1> SUFFICES ASSUME Init PROVE ChannelInv
  OBVIOUS
<1>1. SubscribedOrAsked
  BY DEF Init, SubscribedOrAsked, Range
<1> QED BY <1>1, TypeInit, InitLocal, WireInit, ConnectionInit DEF ChannelInv, FramesInv

(* What is asked for stays carried or about to be sent, in each of these cases. *)
LEMMA AskedStep ==
  ASSUME TypeOK, TypeOK', Local, WireInv, Connection, SubscribedOrAsked
  PROVE  [Next]_vars => SubscribedOrAsked'
<1>0. /\ wanted \in Seq(Channel) /\ wanted' \in Seq(Channel) /\ DOMAIN pc = Thread /\ DOMAIN frame = Thread
      /\ Range(wanted) \subseteq Channel
  BY DEF TypeOK, Range
<1>1. ASSUME Keeps PROVE SubscribedOrAsked'
  BY <1>0, <1>1 DEF Keeps, SubscribedOrAsked
<1>2. ASSUME Carries PROVE SubscribedOrAsked'
  <2>1. \A c \in Range(wanted) : AboutToSend(c) => frame[Main].arg = c
    BY DEF AboutToSend
  <2> QED BY <1>2, <2>1 DEF Carries, SubscribedOrAsked
<1>3. ASSUME Loses PROVE SubscribedOrAsked'
  BY <1>3 DEF Loses, SubscribedOrAsked
<1>4. ASSUME Restores PROVE SubscribedOrAsked'
  BY <1>4 DEF Restores, SubscribedOrAsked
<1>5. ASSUME Subscribe, UNCHANGED <<InUse, Carried>> PROVE SubscribedOrAsked'
  <2>1. /\ pc[Main] = "idle" /\ pc' = [pc EXCEPT ![Main] = "head"]
        /\ wanted' = Append(wanted, Plan[Len(wanted) + 1])
        /\ frame' = [frame EXCEPT ![Main] = [op |-> "sub", arg |-> Plan[Len(wanted) + 1]]]
    BY <1>5 DEF Subscribe
  <2>2. \A c \in Channel : c = Plan[Len(wanted) + 1] => AboutToSend(c)'
    BY <1>0, <2>1, Sizes DEF AboutToSend
  <2>3. Range(wanted') \subseteq Range(wanted) \cup {Plan[Len(wanted) + 1]}
    <3>1. Plan[Len(wanted) + 1] \in Channel
      BY <1>5, PlanAssumption DEF Subscribe, TypeOK
    <3>2. /\ DOMAIN wanted' = 1 .. Len(wanted) + 1 /\ DOMAIN wanted = 1 .. Len(wanted)
          /\ \A i \in 1 .. Len(wanted) + 1 :
               wanted'[i] = IF i = Len(wanted) + 1 THEN Plan[Len(wanted) + 1] ELSE wanted[i]
      BY <1>0, <2>1, <3>1
    <3>3. \A i \in 1 .. Len(wanted) + 1 : i \in 1 .. Len(wanted) \/ i = Len(wanted) + 1
      BY <1>0
    <3> QED BY <3>2, <3>3 DEF Range
  <2>4. ~ \E c \in Range(wanted) : AboutToSend(c)
    BY <2>1 DEF AboutToSend
  <2>5. \A c \in Range(wanted') : c \in Channel
    BY <1>0 DEF Range
  <2> QED BY <1>5, <2>2, <2>3, <2>4, <2>5 DEF SubscribedOrAsked
<1> QED BY <1>1, <1>2, <1>3, <1>4, <1>5, CarriedStep

LEMMA ChannelInvariant == Spec => []ChannelInv
<1>1. ChannelInv /\ [Next]_vars => ChannelInv'
  <2> SUFFICES ASSUME ChannelInv, [Next]_vars PROVE ChannelInv'
    OBVIOUS
  <2>1. TypeOK /\ Local /\ WireInv /\ Connection /\ SubscribedOrAsked
    BY DEF ChannelInv, FramesInv
  <2>2. TypeOK' /\ Local' /\ WireInv' /\ Connection'
    BY <2>1, TypeStep, LocalStep, WireStep, ConnectionStep
  <2>3. SubscribedOrAsked'
    BY <2>1, <2>2, AskedStep
  <2> QED BY <2>2, <2>3 DEF ChannelInv, FramesInv
<1> QED BY <1>1, ChannelInit, PTL DEF Spec

(* No subscription falls between a reconnect and SubscribePrivateChannel: in  *)
(* every reachable state the connection in use carries every channel         *)
(* remembered, but for the one Init is about to send.                        *)
THEOREM NoneForgotten == Spec => []SubscribedOrAsked
<1>1. ChannelInv => SubscribedOrAsked
  BY DEF ChannelInv
<1> QED BY <1>1, ChannelInvariant, PTL

(* The private channel implements the session its users rely on: it carries  *)
(* what was asked for, loses everything at once, and what it takes up again  *)
(* is all that was asked for by then.                                        *)
THEOREM ChannelImplementsSession == Spec => ImplementsSession
<1> USE DEF AbstractSession!vars
<1>1. Init => AbstractSession!Init
  <2> SUFFICES ASSUME Init PROVE AbstractSession!Init
    OBVIOUS
  <2>1. pc[Listener] = "select" /\ link = "up" /\ wire = <<>> /\ subs = {} /\ wanted = <<>>
    BY Sizes DEF Init
  <2>2. InUse
    BY <2>1 DEF InUse, At
  <2>3. Carried = {} /\ Range(wanted) = {}
    BY <2>1 DEF Carried, OnWire, Range
  <2> QED BY <2>2, <2>3 DEF AbstractSession!Init
<1>2. ChannelInv /\ ChannelInv' /\ [Next]_vars => [AbstractSession!Next]_(AbstractSession!vars)
  <2> SUFFICES ASSUME ChannelInv, ChannelInv', [Next]_vars
               PROVE  [AbstractSession!Next]_(AbstractSession!vars)
    OBVIOUS
  <2>0. /\ TypeOK /\ TypeOK' /\ Local /\ WireInv /\ Connection
        /\ wanted \in Seq(Channel) /\ wanted' \in Seq(Channel) /\ Range(wanted) \subseteq Channel
    BY DEF ChannelInv, FramesInv, TypeOK, Range
  <2>1. CASE Keeps
    BY <2>1 DEF Keeps
  <2>2. CASE Carries
    <3>1. frame[Main].arg \in Range(wanted)
      BY <2>0, <2>2 DEF Carries, Local
    <3>2. AbstractSession!Carry(frame[Main].arg)
      BY <2>2, <3>1 DEF Carries, AbstractSession!Carry
    <3> QED BY <2>0, <3>1, <3>2 DEF AbstractSession!Next
  <2>3. CASE Loses
    BY <2>3 DEF Loses, AbstractSession!Next, AbstractSession!Lose
  <2>4. CASE Restores
    BY <2>4 DEF Restores, AbstractSession!Next, AbstractSession!Restore
  <2>5. CASE Subscribe /\ UNCHANGED <<InUse, Carried>>
    <3>1. /\ Plan[Len(wanted) + 1] \in Channel
          /\ wanted' = Append(wanted, Plan[Len(wanted) + 1])
      BY <2>0, <2>5, PlanAssumption DEF Subscribe
    <3>2. Range(wanted') = Range(wanted) \cup {Plan[Len(wanted) + 1]}
      <4>1. /\ DOMAIN wanted' = 1 .. Len(wanted) + 1 /\ DOMAIN wanted = 1 .. Len(wanted)
            /\ \A i \in 1 .. Len(wanted) + 1 :
                 wanted'[i] = IF i = Len(wanted) + 1 THEN Plan[Len(wanted) + 1] ELSE wanted[i]
        BY <2>0, <3>1
      <4>2. /\ \A i \in 1 .. Len(wanted) + 1 : i \in 1 .. Len(wanted) \/ i = Len(wanted) + 1
            /\ \A i \in 1 .. Len(wanted) : i \in 1 .. Len(wanted) + 1 /\ i # Len(wanted) + 1
            /\ Len(wanted) + 1 \in 1 .. Len(wanted) + 1
        BY <2>0
      <4> QED BY <4>1, <4>2 DEF Range
    <3>3. AbstractSession!Ask(Plan[Len(wanted) + 1])
      BY <2>5, <3>2 DEF AbstractSession!Ask
    <3> QED BY <3>1, <3>3 DEF AbstractSession!Next
  <2> QED BY <2>0, <2>1, <2>2, <2>3, <2>4, <2>5, CarriedStep
<1>3. Spec => AbstractSession!Spec
  BY <1>1, <1>2, ChannelInvariant, PTL DEF Spec, AbstractSession!Spec
<1> QED BY <1>3 DEF ImplementsSession

-----------------------------------------------------------------------------
(* The way of an order: it waits to be sent, is sent once, answered once, and *)
(* is in pending_ws_ops_ until its answer has been handled.                  *)
OrderFrame(r) == [op |-> "order", arg |-> r]

Inserted(r)  == pc[Dispatcher] = "insert" /\ frame[Dispatcher].arg = r
Waiting(r)   == r \notin begun \/ (pc[Dispatcher] \in {"insert", "head"} /\ frame[Dispatcher].arg = r)
OnItsWay(r)  == \E i \in 1 .. Len(wire) : wire[i].frame = OrderFrame(r)
AnswerHere(r) == \E k \in 1 .. Len(inbox) : inbox[k].of = r

Unanswered(r) == /\ verdict[r] = "none" /\ told[r] = 0
                 /\ r \notin heard /\ erasing # r
                 /\ ~AnswerHere(r)

SentOnce(r) == \A i, j \in 1 .. Len(wire) :
  /\ wire[i].frame = OrderFrame(r) /\ wire[i].part # "body"
  /\ wire[j].frame = OrderFrame(r) /\ wire[j].part # "body"
  => i = j

AnsweredOnce(r) == \A k, m \in 1 .. Len(inbox) : inbox[k].of = r /\ inbox[m].of = r => k = m

Answered(r) == \A k \in 1 .. Len(inbox) : inbox[k].of = r =>
  verdict[r] = inbox[k].kind /\ told[r] = 0 /\ r \notin heard /\ erasing # r

Forgetting(r) == erasing = r =>
  r \notin heard /\ verdict[r] # "none" /\ (verdict[r] = "refused" => told[r] = 1)

Told(r) == /\ told[r] \in {0, 1}
           /\ told[r] = 1 => verdict[r] = "refused"
           /\ r \in heard /\ verdict[r] = "refused" /\ ~raced => told[r] = 1

Remembered(r) == ~raced /\ r \in begun /\ r \notin heard /\ erasing # r /\ ~Inserted(r) => r \in ops

Way(r) == /\ Waiting(r) => ~OnItsWay(r)
          /\ Waiting(r) \/ OnItsWay(r) => Unanswered(r)
          /\ SentOnce(r) /\ AnsweredOnce(r) /\ Answered(r)
          /\ Forgetting(r) /\ Told(r) /\ Remembered(r)

OrdersInv == /\ pc[Listener] # "erase" => erasing = Nothing
             /\ \A r \in Request : Way(r)

(* A step that is not about r. *)
WireAside(r) == \E d \in {0, 1, 2} : \A i \in 1 .. Len(wire') : wire'[i].frame = OrderFrame(r) =>
  i + d \in 1 .. Len(wire) /\ wire'[i] = wire[i + d]

InboxAside(r) == \E d \in {0, 1} : \A k \in 1 .. Len(inbox') : inbox'[k].of = r =>
  k + d \in 1 .. Len(inbox) /\ inbox'[k] = inbox[k + d]

HistoryAside(r) ==
  /\ verdict'[r] = verdict[r] /\ told'[r] = told[r]
  /\ r \in heard' <=> r \in heard
  /\ erasing' = r <=> erasing = r
  /\ raced => raced'
  /\ r \in ops => r \in ops' \/ raced'

SenderAside(r) ==
  /\ r \in begun' <=> r \in begun
  /\ Waiting(r)' => Waiting(r)
  /\ Inserted(r) => Inserted(r)'

(* Such a step keeps the way of r. *)
LEMMA WireAsideOrders ==
  ASSUME NEW r, WireAside(r), SentOnce(r)
  PROVE  (OnItsWay(r)' => OnItsWay(r)) /\ SentOnce(r)'
<1>1. PICK d \in {0, 1, 2} : \A i \in 1 .. Len(wire') : wire'[i].frame = OrderFrame(r) =>
        i + d \in 1 .. Len(wire) /\ wire'[i] = wire[i + d]
  BY DEF WireAside
<1>2. OnItsWay(r)' => OnItsWay(r)
  BY <1>1 DEF OnItsWay, OrderFrame
<1>3. SentOnce(r)'
  <2> SUFFICES ASSUME NEW i \in 1 .. Len(wire'), NEW j \in 1 .. Len(wire'),
                      wire'[i].frame = OrderFrame(r), wire'[i].part # "body",
                      wire'[j].frame = OrderFrame(r), wire'[j].part # "body"
               PROVE  i = j
    BY DEF SentOnce, OrderFrame
  <2>1. /\ i + d \in 1 .. Len(wire) /\ wire'[i] = wire[i + d]
        /\ j + d \in 1 .. Len(wire) /\ wire'[j] = wire[j + d]
    BY <1>1
  <2>2. i + d = j + d
    BY <2>1 DEF SentOnce
  <2> QED BY <2>2
<1> QED BY <1>2, <1>3

LEMMA InboxAsideAnswers ==
  ASSUME NEW r, InboxAside(r), AnsweredOnce(r)
  PROVE  /\ AnswerHere(r)' => AnswerHere(r)
         /\ AnsweredOnce(r)'
         /\ \A k \in 1 .. Len(inbox') : inbox'[k].of = r =>
              \E m \in 1 .. Len(inbox) : inbox'[k] = inbox[m]
<1>1. PICK d \in {0, 1} : \A k \in 1 .. Len(inbox') : inbox'[k].of = r =>
        k + d \in 1 .. Len(inbox) /\ inbox'[k] = inbox[k + d]
  BY DEF InboxAside
<1>2. AnswerHere(r)' => AnswerHere(r)
  BY <1>1 DEF AnswerHere
<1>3. AnsweredOnce(r)'
  <2> SUFFICES ASSUME NEW k \in 1 .. Len(inbox'), NEW m \in 1 .. Len(inbox'),
                      inbox'[k].of = r, inbox'[m].of = r
               PROVE  k = m
    BY DEF AnsweredOnce
  <2>1. k + d \in 1 .. Len(inbox) /\ inbox[k + d].of = r /\ m + d \in 1 .. Len(inbox) /\ inbox[m + d].of = r
    BY <1>1
  <2>2. k + d = m + d
    BY <2>1 DEF AnsweredOnce
  <2> QED BY <2>2
<1> QED BY <1>1, <1>2, <1>3

LEMMA WayAside ==
  ASSUME NEW r \in Request, Way(r), WireAside(r), InboxAside(r), HistoryAside(r), SenderAside(r)
  PROVE  Way(r)'
<1>1. /\ OnItsWay(r)' => OnItsWay(r)
      /\ SentOnce(r)'
  BY WireAsideOrders DEF Way
<1>2. /\ AnswerHere(r)' => AnswerHere(r)
      /\ AnsweredOnce(r)'
      /\ \A k \in 1 .. Len(inbox') : inbox'[k].of = r => \E m \in 1 .. Len(inbox) : inbox'[k] = inbox[m]
  BY InboxAsideAnswers DEF Way
<1>3. Waiting(r)' => Waiting(r)
  BY DEF SenderAside
<1>4. Unanswered(r) => Unanswered(r)'
  BY <1>2 DEF Unanswered, HistoryAside
<1>5. Answered(r)'
  BY <1>2 DEF Way, Answered, HistoryAside
<1>6. Forgetting(r)' /\ Told(r)'
  BY DEF Way, Forgetting, Told, HistoryAside
<1>7. Remembered(r)'
  BY DEF Way, Remembered, HistoryAside, SenderAside
<1> QED BY <1>1, <1>2, <1>3, <1>4, <1>5, <1>6, <1>7 DEF Way

(* What kinds of change to the wire, the inbox, the history and the dispatcher *)
(* are not about r.                                                            *)
LEMMA WireSameAside == ASSUME NEW r, UNCHANGED wire, Len(wire) \in Nat PROVE WireAside(r)
<1>1. \A i \in 1 .. Len(wire) : i + 0 = i
  OBVIOUS
<1> QED BY <1>1 DEF WireAside

LEMMA WireGoneAside == ASSUME NEW r, wire' = <<>> PROVE WireAside(r)
<1>1. Len(wire') = 0
  OBVIOUS
<1> QED BY <1>1 DEF WireAside

LEMMA WirePutAside ==
  ASSUME TypeOK, NEW r, NEW t \in Thread, NEW part \in {"head", "body"}, Put(t, part),
         frame[t] # OrderFrame(r)
  PROVE  WireAside(r)
<1>1. \A i \in 1 .. Len(wire') : \/ i \in 1 .. Len(wire) /\ wire'[i] = wire[i]
                                 \/ wire'[i] = [by |-> t, frame |-> frame[t], part |-> part]
  BY PutFrames
<1>2. \A i \in 1 .. Len(wire') : wire'[i].frame = OrderFrame(r) =>
        i + 0 \in 1 .. Len(wire) /\ wire'[i] = wire[i + 0]
  BY <1>1
<1> QED BY <1>2 DEF WireAside

LEMMA WireRestAside ==
  ASSUME TypeOK, WireInv, Ready, wire' = Rest, NEW r
  PROVE  WireAside(r)
<1>1. PICK d \in {1, 2} : /\ Len(Rest) = Len(wire) - d
                          /\ \A i \in 1 .. Len(Rest) : i + d \in 2 .. Len(wire) /\ Rest[i] = wire[i + d]
  BY RestFrames
<1>2. Len(wire) \in Nat
  BY DEF TypeOK
<1>3. \A i \in 1 .. Len(wire') : i + d \in 1 .. Len(wire) /\ wire'[i] = wire[i + d]
  BY <1>1, <1>2
<1> QED BY <1>3 DEF WireAside

LEMMA WireMoreAside ==
  ASSUME TypeOK, NEW r, NEW s \in Seq(Piece), \A k \in 1 .. Len(s) : s[k].frame.op # "order",
         wire' = IF link = "up" THEN wire \o s ELSE wire
  PROVE  WireAside(r)
<1>0. wire \in Seq(Piece) /\ Len(wire) \in Nat
  BY DEF TypeOK
<1>1. CASE link # "up"
  BY <1>0, <1>1, WireSameAside
<1>2. CASE link = "up"
  <2>0. wire' = wire \o s
    BY <1>2
  <2>1. \A i \in 1 .. Len(wire') : \/ i \in 1 .. Len(wire) /\ wire'[i] = wire[i]
                                   \/ i - Len(wire) \in 1 .. Len(s) /\ wire'[i] = s[i - Len(wire)]
    <3>1. wire \in Seq(Piece) /\ s \in Seq(Piece)
      BY <1>0
    <3> QED BY <3>1, <2>0, ConcatElement
  <2>2. \A k \in 1 .. Len(s) : s[k].frame # OrderFrame(r)
    BY DEF OrderFrame
  <2>3. \A i \in 1 .. Len(wire') : wire'[i].frame = OrderFrame(r) =>
          i + 0 \in 1 .. Len(wire) /\ wire'[i] = wire[i + 0]
    BY <2>1, <2>2
  <2> QED BY <2>3 DEF WireAside
<1> QED BY <1>1, <1>2

LEMMA InboxSameAside == ASSUME NEW r, UNCHANGED inbox, Len(inbox) \in Nat PROVE InboxAside(r)
<1>1. \A k \in 1 .. Len(inbox) : k + 0 = k
  OBVIOUS
<1> QED BY <1>1 DEF InboxAside

LEMMA InboxGoneAside == ASSUME NEW r, inbox' = <<>> PROVE InboxAside(r)
<1>1. Len(inbox') = 0
  OBVIOUS
<1> QED BY <1>1 DEF InboxAside

LEMMA InboxTailAside ==
  ASSUME inbox \in Seq(Message), inbox # <<>>, inbox' = Tail(inbox), NEW r
  PROVE  InboxAside(r)
<1>1. /\ Len(inbox) \in Nat /\ Len(inbox') = Len(inbox) - 1
      /\ \A k \in 1 .. Len(inbox) - 1 : inbox'[k] = inbox[k + 1]
  OBVIOUS
<1>2. \A k \in 1 .. Len(inbox') : k + 1 \in 1 .. Len(inbox) /\ inbox'[k] = inbox[k + 1]
  BY <1>1
<1> QED BY <1>2 DEF InboxAside

LEMMA InboxMoreAside ==
  ASSUME inbox \in Seq(Message), NEW r, NEW m \in Message, m.of # r, inbox' = Append(inbox, m)
  PROVE  InboxAside(r)
<1>1. /\ Len(inbox) \in Nat /\ Len(inbox') = Len(inbox) + 1 /\ inbox'[Len(inbox) + 1] = m
      /\ \A k \in 1 .. Len(inbox) : inbox'[k] = inbox[k]
  OBVIOUS
<1>2. \A k \in 1 .. Len(inbox') : inbox'[k].of = r => k + 0 \in 1 .. Len(inbox) /\ inbox'[k] = inbox[k + 0]
  BY <1>1
<1> QED BY <1>2 DEF InboxAside

LEMMA InboxCutAside ==
  ASSUME inbox \in Seq(Message), NEW r \in Request, NEW n \in 1 .. Len(inbox),
         inbox' = Append(SubSeq(inbox, 1, n - 1), Say("stub", Nothing))
  PROVE  InboxAside(r)
<1>1. Say("stub", Nothing) \in Message /\ Say("stub", Nothing).of # r
  BY SayTyped, NothingAssumption DEF Say
<1>2. /\ SubSeq(inbox, 1, n - 1) \in Seq(Message) /\ Len(SubSeq(inbox, 1, n - 1)) = n - 1
      /\ \A k \in 1 .. n - 1 : SubSeq(inbox, 1, n - 1)[k] = inbox[k]
  OBVIOUS
<1>3. /\ Len(inbox') = n /\ inbox'[n] = Say("stub", Nothing)
      /\ \A k \in 1 .. n - 1 : inbox'[k] = inbox[k]
  BY <1>1, <1>2
<1>4. \A k \in 1 .. Len(inbox') : inbox'[k].of = r => k + 0 \in 1 .. Len(inbox) /\ inbox'[k] = inbox[k + 0]
  <2> SUFFICES ASSUME NEW k \in 1 .. n, inbox'[k].of = r
               PROVE  k + 0 \in 1 .. Len(inbox) /\ inbox'[k] = inbox[k + 0]
    BY <1>3
  <2>1. k \in 1 .. n - 1
    BY <1>1, <1>3
  <2> QED BY <2>1, <1>3
<1> QED BY <1>4 DEF InboxAside

LEMMA HistorySameAside ==
  ASSUME NEW r, UNCHANGED <<ops, raced, erasing, verdict, told, heard>>
  PROVE  HistoryAside(r)
BY DEF HistoryAside

LEMMA SenderSameAside ==
  ASSUME NEW r, UNCHANGED <<begun, pc[Dispatcher], frame[Dispatcher]>>
  PROVE  SenderAside(r)
BY DEF SenderAside, Waiting, Inserted

LEMMA OrdersInit == Init => OrdersInv
<1> SUFFICES ASSUME Init PROVE OrdersInv
  OBVIOUS
<1>1. Len(wire) = 0 /\ Len(inbox) = 0
  BY DEF Init
<1>2. ASSUME NEW r \in Request PROVE Way(r)
  <2>1. /\ verdict[r] = "none" /\ told[r] = 0 /\ r \notin heard /\ erasing # r /\ r \notin begun
    BY <1>2, NothingAssumption DEF Init
  <2> QED BY <1>1, <2>1 DEF Way, OnItsWay, Unanswered, AnswerHere, SentOnce, AnsweredOnce, Answered,
                            Forgetting, Told, Remembered
<1>3. erasing = Nothing
  BY DEF Init
<1> QED BY <1>2, <1>3 DEF OrdersInv

(* The steps that handle an order, for the order they handle. *)
LEMMA WayBegins ==
  ASSUME TypeOK, NEW r \in Request, Way(r), BeginOrder(r)
  PROVE  Way(r)'
<1>1. /\ r \notin begun /\ begun' = begun \cup {r}
      /\ pc'[Dispatcher] = "insert" /\ frame'[Dispatcher].arg = r
      /\ UNCHANGED <<wire, inbox, ops, raced, erasing, verdict, told, heard>>
  BY Sizes DEF TypeOK, BeginOrder, linkVars, opsVars
<1>2. /\ UNCHANGED <<OnItsWay(r), AnswerHere(r), SentOnce(r), AnsweredOnce(r)>>
  BY <1>1 DEF OnItsWay, AnswerHere, SentOnce, AnsweredOnce
<1>3. Waiting(r) /\ Inserted(r)'
  BY <1>1 DEF Waiting, Inserted
<1> QED BY <1>1, <1>2, <1>3 DEF Way, Unanswered, Answered, Forgetting, Told, Remembered

LEMMA WayInserted ==
  ASSUME TypeOK, Local, NEW r \in Request, Way(r), Inserted(r), EndInsert, erasing # r
  PROVE  Way(r)'
<1>1. /\ frame[Dispatcher].arg = r /\ UNCHANGED <<wire, inbox, frame, erasing, verdict, begun, told, heard>>
      /\ pc[Dispatcher] = "insert" /\ pc'[Dispatcher] = "head"
  BY Sizes DEF TypeOK, EndInsert, Inserted, linkVars, historyVars
<1>2. /\ UNCHANGED <<OnItsWay(r), AnswerHere(r), SentOnce(r), AnsweredOnce(r)>>
  BY <1>1 DEF OnItsWay, AnswerHere, SentOnce, AnsweredOnce
<1>3. Waiting(r)
  BY <1>1 DEF Waiting
<1>4. raced => raced'
  BY DEF EndInsert
<1>5. ~raced' => r \in ops'
  BY <1>1 DEF EndInsert
<1> QED BY <1>1, <1>2, <1>3, <1>4, <1>5 DEF Way, Unanswered, Answered, Forgetting, Told, Remembered

LEMMA WayHead ==
  ASSUME TypeOK, Local, NEW r \in Request, Way(r), frame[Dispatcher].arg = r, WriteHead(Dispatcher)
  PROVE  Way(r)'
<1>1. /\ UNCHANGED <<inbox, ops, raced, erasing, verdict, begun, told, heard, frame>>
      /\ pc[Dispatcher] = "head" /\ pc'[Dispatcher] = "body" /\ Put(Dispatcher, "head")
  BY Sizes DEF TypeOK, WriteHead, opsVars, historyVars
<1>2. r \in begun /\ Waiting(r) /\ ~Waiting(r)' /\ ~Inserted(r)'
  BY <1>1 DEF Local, Waiting, Inserted
<1>3. ~OnItsWay(r) /\ Unanswered(r)
  BY <1>2 DEF Way
<1>4. SentOnce(r)'
  <2>1. \A i \in 1 .. Len(wire') : wire'[i].frame = OrderFrame(r) => i = Len(wire) + 1
    BY <1>1, <1>3, PutFrames, Sizes DEF OnItsWay
  <2> QED BY <2>1 DEF SentOnce, OrderFrame
<1>5. Unanswered(r)' /\ (UNCHANGED <<AnswerHere(r), AnsweredOnce(r)>>)
  BY <1>1, <1>3 DEF Unanswered, AnswerHere, AnsweredOnce
<1> QED BY <1>1, <1>2, <1>4, <1>5 DEF Way, Unanswered, Answered, Forgetting, Told, Remembered, Inserted

LEMMA WayBody ==
  ASSUME TypeOK, Local, WireInv, NEW r \in Request, Way(r), frame[Dispatcher].arg = r,
         WriteBody(Dispatcher)
  PROVE  Way(r)'
<1>1. /\ UNCHANGED <<inbox, ops, raced, erasing, verdict, begun, told, heard>>
      /\ pc[Dispatcher] = "body" /\ pc'[Dispatcher] = "idle" /\ Put(Dispatcher, "body")
  BY Sizes DEF TypeOK, WriteBody, opsVars, historyVars
<1>2. r \in begun /\ ~Waiting(r)' /\ ~Inserted(r)' /\ ~Inserted(r)
  BY <1>1 DEF Local, Waiting, Inserted
<1>3. OnItsWay(r)' => Unanswered(r)
  <2>1. CASE link # "up"
    <3>1. wire' = wire
      BY <1>1, <2>1 DEF Put
    <3> QED BY <3>1 DEF Way, OnItsWay
  <2>2. CASE link = "up"
    <3>1. PICK j \in 1 .. Len(wire) : wire[j].frame = frame[Dispatcher]
      BY <1>1, <2>2, Sizes DEF WireInv, WellSent, HeadSent
    <3>2. frame[Dispatcher] = OrderFrame(r)
      BY <1>1, Sizes DEF Local, TypeOK, Frame, OrderFrame
    <3> QED BY <3>1, <3>2 DEF Way, OnItsWay
  <2> QED BY <2>1, <2>2
<1>4. SentOnce(r)'
  <2>1. \A i \in 1 .. Len(wire') : wire'[i].part # "body" => i \in 1 .. Len(wire) /\ wire'[i] = wire[i]
    <3>1. \A i \in 1 .. Len(wire') :
            \/ i \in 1 .. Len(wire) /\ wire'[i] = wire[i]
            \/ wire'[i] = [by |-> Dispatcher, frame |-> frame[Dispatcher], part |-> "body"]
      BY <1>1, PutFrames, Sizes
    <3> QED BY <3>1
  <2>2. SentOnce(r)
    BY DEF Way
  <2> QED BY <2>1, <2>2 DEF SentOnce, OrderFrame
<1>5. UNCHANGED <<Unanswered(r), AnswerHere(r), AnsweredOnce(r)>>
  BY <1>1 DEF Unanswered, AnswerHere, AnsweredOnce
<1> QED BY <1>1, <1>2, <1>3, <1>4, <1>5 DEF Way, Answered, Forgetting, Told, Remembered

(* The exchange takes the order of r: nothing of it is left on the wire. *)
LEMMA OrderGone ==
  ASSUME TypeOK, WireInv, Ready, wire' = Rest, NEW r, SentOnce(r), wire[1].frame = OrderFrame(r)
  PROVE  ~OnItsWay(r)'
<1>0. Len(wire) \in Nat /\ Len(wire) >= 1 /\ BodiesMatched(wire, Len(wire)) /\ Pieces(wire, Len(wire))
  BY RestOfWire DEF TypeOK, WireInv, WellSent
<1>1. ASSUME NEW i \in 2 .. Len(wire), wire[i].frame = OrderFrame(r)
      PROVE  wire[1].part # "whole" /\ i = 2
  <2>1. i \in 1 .. Len(wire) /\ 1 \in 1 .. Len(wire) /\ i # 1
    BY <1>0
  <2>2. wire[1].part # "body"
    <3>1. \A j \in 1 .. Len(wire) : ~(j < 1)
      OBVIOUS
    <3> QED BY <3>1, <2>1, <1>0 DEF BodiesMatched, Matched
  <2>3. wire[i].part = "body"
    BY <1>1, <2>1, <2>2 DEF SentOnce
  <2>4. PICK j \in 1 .. Len(wire) : Matched(wire, j, i)
    BY <2>1, <2>3, <1>0 DEF BodiesMatched
  <2>5. wire[j].frame = OrderFrame(r) /\ wire[j].part = "head"
    BY <2>4, <1>1 DEF Matched
  <2>6. j = 1
    BY <2>1, <2>2, <2>5 DEF SentOnce
  <2>7. wire[1].part = "head"
    BY <2>5, <2>6
  <2>8. Matched(wire, 1, 2)
    BY <2>7, RestOfWire
  <2>9. i = 2
    <3>1. wire[2].by = wire[1].by /\ wire[i].by = wire[1].by
      BY <2>8, <2>4, <2>6 DEF Matched
    <3>2. 2 \in 1 + 1 .. i - 1 => wire[2].by # wire[i].by
      BY <2>4, <2>6 DEF Matched
    <3> QED BY <3>1, <3>2
  <2> QED BY <2>7, <2>9
<1>2. CASE wire[1].part = "whole"
  <2>1. Len(Rest) = Len(wire) - 1 /\ \A i \in 1 .. Len(wire) - 1 : Rest[i] = wire[i + 1]
    BY <1>2, RestOfWire
  <2>2. \A i \in 1 .. Len(wire') : i + 1 \in 2 .. Len(wire) /\ wire'[i] = wire[i + 1]
    BY <2>1, <1>0
  <2> QED BY <2>2, <1>1, <1>2 DEF OnItsWay, OrderFrame
<1>3. CASE wire[1].part # "whole"
  <2>1. Len(Rest) = Len(wire) - 2 /\ \A i \in 1 .. Len(wire) - 2 : Rest[i] = wire[i + 2]
    BY <1>3, RestOfWire
  <2>2. \A i \in 1 .. Len(wire') : i + 2 \in 2 .. Len(wire) /\ i + 2 # 2 /\ wire'[i] = wire[i + 2]
    BY <2>1, <1>0
  <2> QED BY <2>2, <1>1 DEF OnItsWay, OrderFrame
<1> QED BY <1>2, <1>3

LEMMA WayTaken ==
  ASSUME TypeOK, WireInv, NEW r \in Request, Way(r), TakeOrder, wire[1].frame = OrderFrame(r)
  PROVE  Way(r)'
<1>0. /\ Ready /\ wire' = Rest /\ Len(wire) >= 1
      /\ UNCHANGED <<ops, raced, pc, frame, erasing, begun, told, heard>>
  BY RestOfWire DEF TakeOrder, opsVars
<1>1. OnItsWay(r)
  <2>1. 1 \in 1 .. Len(wire)
    BY <1>0 DEF TypeOK
  <2> QED BY <2>1 DEF OnItsWay
<1>2. ~Waiting(r) /\ Unanswered(r) /\ SentOnce(r) /\ Told(r) /\ Remembered(r)
  BY <1>1 DEF Way
<1>3. ~OnItsWay(r)'
  BY <1>0, <1>2, OrderGone
<1>4. PICK kind \in {"taken", "refused"} :
        verdict' = [verdict EXCEPT ![r] = kind] /\ inbox' = Append(inbox, Say(kind, r))
  <2>1. wire[1].frame.arg = r
    BY DEF OrderFrame
  <2> QED BY <2>1 DEF TakeOrder
<1>5. /\ inbox \in Seq(Message) /\ Len(inbox) \in Nat /\ verdict'[r] = kind
      /\ Say(kind, r) \in Message /\ Say(kind, r).kind = kind
  BY <1>4, SayTyped DEF TypeOK, Say
<1>6. /\ Len(inbox') = Len(inbox) + 1 /\ inbox'[Len(inbox) + 1] = Say(kind, r)
      /\ \A k \in 1 .. Len(inbox) : inbox'[k] = inbox[k]
  BY <1>4, <1>5
<1>7. \A k \in 1 .. Len(inbox') : inbox'[k].of = r => k = Len(inbox) + 1 /\ inbox'[k].kind = kind
  <2>1. \A k \in 1 .. Len(inbox) : inbox[k].of # r
    BY <1>2 DEF Unanswered, AnswerHere
  <2> QED BY <1>5, <1>6, <2>1
<1>8. SentOnce(r)' /\ AnsweredOnce(r)'
  BY <1>3, <1>7 DEF SentOnce, OnItsWay, AnsweredOnce, OrderFrame
<1>9. ~Waiting(r)' /\ (Inserted(r)' <=> Inserted(r))
  BY <1>0, <1>2 DEF Waiting, Inserted
<1>10. Answered(r)' /\ Forgetting(r)' /\ Told(r)' /\ Remembered(r)'
  BY <1>0, <1>2, <1>5, <1>7, <1>9 DEF Unanswered, Answered, Forgetting, Told, Remembered
<1> QED BY <1>3, <1>8, <1>9, <1>10 DEF Way

(* What the listener reads of r is the only answer, and r is not on the wire. *)
LEMMA AnswerLast ==
  ASSUME TypeOK, NEW r \in Request, Way(r), inbox # <<>>, Head(inbox).of = r, inbox' = Tail(inbox)
  PROVE  /\ ~AnswerHere(r)' /\ ~OnItsWay(r) /\ ~Waiting(r)
         /\ verdict[r] = Head(inbox).kind /\ told[r] = 0 /\ r \notin heard /\ erasing # r
<1>1. /\ inbox \in Seq(Message) /\ Len(inbox) \in Nat /\ 1 \in 1 .. Len(inbox) /\ inbox[1] = Head(inbox)
      /\ Len(inbox') = Len(inbox) - 1 /\ \A k \in 1 .. Len(inbox) - 1 : inbox'[k] = inbox[k + 1]
  BY DEF TypeOK
<1>2. /\ verdict[r] = Head(inbox).kind /\ told[r] = 0 /\ r \notin heard /\ erasing # r
      /\ AnswerHere(r)
  BY <1>1 DEF Way, Answered, AnswerHere
<1>3. ~OnItsWay(r) /\ ~Waiting(r)
  BY <1>2 DEF Way, Unanswered
<1>4. \A k \in 1 .. Len(inbox') : inbox'[k].of # r
  <2> SUFFICES ASSUME NEW k \in 1 .. Len(inbox'), inbox'[k].of = r PROVE FALSE
    OBVIOUS
  <2>1. k + 1 \in 1 .. Len(inbox) /\ inbox[k + 1].of = r /\ k + 1 # 1
    BY <1>1
  <2> QED BY <1>1, <2>1 DEF Way, AnsweredOnce
<1> QED BY <1>2, <1>3, <1>4 DEF AnswerHere

LEMMA WayReadTaken ==
  ASSUME TypeOK, NEW r \in Request, Way(r), ReadTaken, Head(inbox).of = r
  PROVE  Way(r)'
<1>1. /\ inbox # <<>> /\ Head(inbox).kind = "taken" /\ inbox' = Tail(inbox) /\ erasing' = r
      /\ UNCHANGED <<wire, ops, raced, frame, verdict, begun, told, heard>>
      /\ pc'[Dispatcher] = pc[Dispatcher]
  BY Sizes, ThreadAssumption DEF ReadTaken, Reads, opsVars, historyVars
<1>2. /\ ~AnswerHere(r)' /\ ~OnItsWay(r) /\ ~Waiting(r)
      /\ verdict[r] = "taken" /\ told[r] = 0 /\ r \notin heard
  BY <1>1, AnswerLast
<1>3. ~OnItsWay(r)' /\ ~Waiting(r)' /\ SentOnce(r)' /\ AnsweredOnce(r)' /\ Answered(r)'
  BY <1>1, <1>2 DEF OnItsWay, Waiting, SentOnce, AnswerHere, AnsweredOnce, Answered, OrderFrame
<1>4. Forgetting(r)' /\ Told(r)' /\ Remembered(r)'
  BY <1>1, <1>2 DEF Forgetting, Told, Remembered
<1> QED BY <1>3, <1>4 DEF Way

LEMMA WayReadRefused ==
  ASSUME TypeOK, NEW r \in Request, Way(r), ReadRefused, Head(inbox).of = r
  PROVE  Way(r)'
<1>1. /\ inbox # <<>> /\ Head(inbox).kind = "refused" /\ inbox' = Tail(inbox)
      /\ UNCHANGED <<wire, ops, frame, verdict, begun>>
      /\ pc'[Dispatcher] = pc[Dispatcher]
  <2>1. Reads({"refused"}) /\ UNCHANGED <<wire, ops, frame, verdict, begun>>
    BY DEF ReadRefused
  <2>2. \/ pc' = [pc EXCEPT ![Listener] = "erase"]
        \/ pc' = [pc EXCEPT ![Listener] = "select"]
    BY DEF ReadRefused
  <2>3. pc'[Dispatcher] = pc[Dispatcher]
    BY <2>2, Sizes, ThreadAssumption DEF TypeOK
  <2> QED BY <2>1, <2>3 DEF Reads
<1>2. /\ ~AnswerHere(r)' /\ ~OnItsWay(r) /\ ~Waiting(r)
      /\ verdict[r] = "refused" /\ told[r] = 0 /\ r \notin heard /\ erasing # r
  BY <1>1, AnswerLast
<1>3. ~OnItsWay(r)' /\ ~Waiting(r)' /\ SentOnce(r)' /\ AnsweredOnce(r)' /\ Answered(r)'
  BY <1>1, <1>2 DEF OnItsWay, Waiting, SentOnce, AnswerHere, AnsweredOnce, Answered, OrderFrame
<1>4. CASE told' = [told EXCEPT ![r] = @ + 1] /\ erasing' = r /\ UNCHANGED heard
  <2>1. told'[r] = 1
    BY <1>2, <1>4 DEF TypeOK
  <2>2. Forgetting(r)' /\ Told(r)' /\ Remembered(r)'
    BY <1>1, <1>2, <1>4, <2>1 DEF Forgetting, Told, Remembered
  <2> QED BY <1>3, <2>2 DEF Way
<1>5. CASE /\ r \in ops => Inserting
           /\ heard' = heard \cup {r} /\ UNCHANGED <<told, erasing>>
  <2>1. (raced => raced') /\ (Inserting => raced')
    BY DEF ReadRefused
  <2>2. raced'
    <3>1. r \in begun /\ (Inserted(r) => Inserting)
      BY <1>2 DEF Waiting, Inserted, Inserting
    <3> QED BY <1>2, <1>5, <2>1, <3>1 DEF Way, Remembered
  <2>3. Forgetting(r)' /\ Told(r)' /\ Remembered(r)'
    BY <1>1, <1>2, <1>5, <2>2 DEF Forgetting, Told, Remembered
  <2> QED BY <1>3, <2>3 DEF Way
<1> QED BY <1>4, <1>5 DEF ReadRefused

LEMMA WayErased ==
  ASSUME TypeOK, NEW r \in Request, Way(r), Erase, erasing = r
  PROVE  Way(r)'
<1>1. /\ heard' = heard \cup {r} /\ erasing' = Nothing
      /\ UNCHANGED <<wire, inbox, frame, verdict, begun, told>> /\ pc'[Dispatcher] = pc[Dispatcher]
  BY Sizes, ThreadAssumption DEF Erase, linkVars
<1>2. raced => raced'
  BY DEF Erase
<1>3. verdict[r] # "none" /\ (verdict[r] = "refused" => told[r] = 1) /\ Told(r)
  BY DEF Way, Forgetting
<1>4. ~AnswerHere(r) /\ ~OnItsWay(r) /\ ~Waiting(r)
  BY <1>3 DEF Way, Unanswered, Answered, AnswerHere
<1>5. ~AnswerHere(r)' /\ ~OnItsWay(r)' /\ ~Waiting(r)' /\ SentOnce(r)' /\ AnsweredOnce(r)' /\ Answered(r)'
  BY <1>1, <1>4 DEF AnswerHere, OnItsWay, Waiting, SentOnce, AnsweredOnce, Answered, OrderFrame
<1>6. erasing' # r
  BY <1>1, NothingAssumption
<1>7. Forgetting(r)' /\ Told(r)' /\ Remembered(r)'
  BY <1>1, <1>3, <1>6 DEF Forgetting, Told, Remembered
<1> QED BY <1>5, <1>7 DEF Way

(* Every action: it is about r, and one of the lemmas above holds, or it is not. *)
LEMMA ErasingStep ==
  ASSUME TypeOK, Local, pc[Listener] # "erase" => erasing = Nothing
  PROVE  [Next]_vars => (pc'[Listener] # "erase" => erasing' = Nothing)
<1> DEFINE Goal == pc'[Listener] # "erase" => erasing' = Nothing
<1> USE Sizes, ThreadAssumption DEF linkVars, opsVars, historyVars
<1>0. DOMAIN pc = Thread
  BY DEF TypeOK
<1> USE <1>0
<1>1. ASSUME UNCHANGED vars PROVE Goal
  BY <1>1 DEF vars
<1>2. ASSUME NEW t \in {Main, Dispatcher}, WriteHead(t) \/ WriteBody(t) \/ SendFails(t) PROVE Goal
  BY <1>2 DEF WriteHead, WriteBody, SendFails
<1>3. ASSUME Subscribe \/ EndInsert \/ (\E r \in Request : BeginOrder(r)) PROVE Goal
  BY <1>3 DEF Subscribe, EndInsert, BeginOrder
<1>4. ASSUME NoticeDown \/ Ping \/ PongTimeout \/ ListenerHead \/ ListenerBody PROVE Goal
  BY <1>4 DEF NoticeDown, Ping, PongTimeout, ListenerHead, ListenerBody, Quiet
<1>5. ASSUME ReadStub \/ ReadFails \/ ReadPing \/ ReadPong PROVE Goal
  BY <1>5 DEF ReadStub, ReadFails, ReadPing, ReadPong, Reading
<1>6. ASSUME ReadTaken PROVE Goal
  BY <1>6 DEF ReadTaken
<1>7. ASSUME ReadRefused PROVE Goal
  <2>1. pc[Listener] # "erase"
    BY <1>7 DEF ReadRefused, Reading
  <2>2. pc' = [pc EXCEPT ![Listener] = "erase"] \/ UNCHANGED erasing
    BY <1>7 DEF ReadRefused
  <2> QED BY <2>1, <2>2
<1>8. ASSUME Erase PROVE Goal
  BY <1>8 DEF Erase
<1>9. ASSUME \/ Reopen \/ Connect \/ ConnectFails \/ ConnectBreaks
             \/ AwaitPing \/ LoginFails \/ Resubscribe
      PROVE  Goal
  BY <1>9 DEF Reopen, Connect, ConnectFails, ConnectBreaks, AwaitPing, LoginFails, Resubscribe,
              GiveUp, Opening
<1>10. ASSUME ExchangeStep \/ ProtocolPing \/ Die \/ FallSilent PROVE Goal
  <2>1. UNCHANGED <<pc, erasing>>
    BY <1>10 DEF ExchangeStep, TakeSubscription, TakeOrder, TakePing, TakeLogin, CloseTorn,
                 ProtocolPing, Die, FallSilent
  <2> QED BY <2>1
<1> HIDE DEF Goal
<1>11. [Next]_vars => Goal
  BY <1>1, <1>2, <1>3, <1>4, <1>5, <1>6, <1>7, <1>8, <1>9, <1>10
     DEF Next, MainStep, SendingStep, ListenerStep
<1> QED BY <1>11 DEF Goal

LEMMA WayStep ==
  ASSUME TypeOK, Local, WireInv, pc[Listener] # "erase" => erasing = Nothing,
         NEW r \in Request, Way(r)
  PROVE  [Next]_vars => Way(r)'
<1> USE Sizes, ThreadAssumption
<1>0. /\ DOMAIN pc = Thread /\ DOMAIN frame = Thread
      /\ wire \in Seq(Piece) /\ Len(wire) \in Nat /\ inbox \in Seq(Message) /\ Len(inbox) \in Nat
  BY DEF TypeOK
<1> USE <1>0
<1>1. ASSUME UNCHANGED vars PROVE Way(r)'
  BY <1>1, WayAside, WireSameAside, InboxSameAside, HistorySameAside, SenderSameAside
     DEF vars, linkVars, opsVars, historyVars
<1>2. ASSUME Subscribe \/ WriteHead(Main) \/ WriteBody(Main) \/ SendFails(Main) PROVE Way(r)'
  <2>1. /\ UNCHANGED <<inbox, ops, raced, erasing, verdict, told, heard, begun>>
        /\ pc'[Dispatcher] = pc[Dispatcher] /\ frame'[Dispatcher] = frame[Dispatcher]
    BY <1>2 DEF Subscribe, WriteHead, WriteBody, SendFails, linkVars, opsVars, historyVars
  <2>2. WireAside(r)
    <3>1. CASE Subscribe \/ SendFails(Main)
      BY <3>1, WireSameAside DEF Subscribe, SendFails, linkVars
    <3>2. CASE WriteHead(Main) \/ WriteBody(Main)
      <4>1. frame[Main].op = "sub" /\ (Put(Main, "head") \/ Put(Main, "body"))
        BY <3>2 DEF Local, WriteHead, WriteBody
      <4>2. frame[Main] # OrderFrame(r)
        BY <4>1 DEF OrderFrame
      <4> QED BY <4>1, <4>2, WirePutAside
    <3> QED BY <1>2, <3>1, <3>2
  <2> QED BY <2>1, <2>2, WayAside, InboxSameAside, HistorySameAside, SenderSameAside
<1>3. ASSUME NEW q \in Request, BeginOrder(q) PROVE Way(r)'
  <2>1. CASE q = r
    BY <1>3, <2>1, WayBegins
  <2>2. CASE q # r
    <3>1. /\ UNCHANGED <<wire, inbox, ops, raced, erasing, verdict, told, heard>>
          /\ begun' = begun \cup {q} /\ pc[Dispatcher] = "idle"
          /\ frame'[Dispatcher].arg = q
      BY <1>3 DEF BeginOrder, linkVars, opsVars
    <3>2. SenderAside(r)
      BY <2>2, <3>1 DEF SenderAside, Waiting, Inserted
    <3> QED BY <3>1, <3>2, WayAside, WireSameAside, InboxSameAside, HistorySameAside
  <2> QED BY <2>1, <2>2
<1>4. ASSUME EndInsert PROVE Way(r)'
  <2>1. /\ UNCHANGED <<wire, inbox, frame, erasing, verdict, told, heard, begun>>
        /\ pc[Dispatcher] = "insert" /\ pc'[Dispatcher] = "head"
    BY <1>4 DEF EndInsert, linkVars, historyVars
  <2>2. CASE frame[Dispatcher].arg = r
    <3>1. Inserted(r) /\ Waiting(r)
      BY <2>1, <2>2 DEF Inserted, Waiting
    <3>2. erasing # r
      BY <3>1 DEF Way, Unanswered
    <3> QED BY <1>4, <3>1, <3>2, WayInserted
  <2>3. CASE frame[Dispatcher].arg # r
    <3>1. SenderAside(r)
      BY <2>1, <2>3 DEF SenderAside, Waiting, Inserted
    <3>2. (raced => raced') /\ (r \in ops => r \in ops')
      BY <1>4 DEF EndInsert
    <3>3. HistoryAside(r)
      BY <2>1, <3>2 DEF HistoryAside
    <3> QED BY <2>1, <3>1, <3>3, WayAside, WireSameAside, InboxSameAside
  <2> QED BY <2>2, <2>3
<1>5. ASSUME WriteHead(Dispatcher) \/ WriteBody(Dispatcher) PROVE Way(r)'
  <2>1. /\ UNCHANGED <<inbox, ops, raced, erasing, verdict, told, heard, begun>>
        /\ pc[Dispatcher] \in {"head", "body"} /\ pc'[Dispatcher] \in {"body", "idle"}
        /\ Put(Dispatcher, "head") \/ Put(Dispatcher, "body")
    BY <1>5 DEF WriteHead, WriteBody, opsVars, historyVars
  <2>2. CASE frame[Dispatcher].arg = r
    BY <1>5, <2>2, WayHead, WayBody
  <2>3. CASE frame[Dispatcher].arg # r
    <3>1. frame[Dispatcher] # OrderFrame(r)
      BY <2>3 DEF OrderFrame
    <3>2. WireAside(r)
      BY <2>1, <3>1, WirePutAside
    <3>3. SenderAside(r)
      BY <2>1, <2>3 DEF SenderAside, Waiting, Inserted
    <3> QED BY <2>1, <3>2, <3>3, WayAside, InboxSameAside, HistorySameAside
  <2> QED BY <2>2, <2>3
<1>6. ASSUME SendFails(Dispatcher) PROVE Way(r)'
  <2>1. /\ UNCHANGED <<wire, inbox, ops, raced, erasing, verdict, told, heard, begun>>
        /\ pc[Dispatcher] = "head" /\ pc'[Dispatcher] = "idle"
    BY <1>6 DEF SendFails, linkVars, opsVars, historyVars
  <2>2. SenderAside(r)
    BY <2>1 DEF SenderAside, Waiting, Inserted
  <2> QED BY <2>1, <2>2, WayAside, WireSameAside, InboxSameAside, HistorySameAside
<1>7. ASSUME NoticeDown \/ Ping \/ PongTimeout \/ ReadStub \/ ReadFails \/ ConnectFails PROVE Way(r)'
  <2>1. /\ UNCHANGED <<wire, inbox, ops, raced, erasing, verdict, told, heard, begun>>
        /\ pc'[Dispatcher] = pc[Dispatcher] /\ frame'[Dispatcher] = frame[Dispatcher]
    BY <1>7 DEF NoticeDown, Ping, PongTimeout, ReadStub, ReadFails, ConnectFails, GiveUp,
                linkVars, opsVars, historyVars
  <2> QED BY <2>1, WayAside, WireSameAside, InboxSameAside, HistorySameAside, SenderSameAside
<1>8. ASSUME ListenerHead \/ ListenerBody PROVE Way(r)'
  <2>1. /\ UNCHANGED <<inbox, ops, raced, erasing, verdict, told, heard, begun>>
        /\ pc'[Dispatcher] = pc[Dispatcher] /\ frame'[Dispatcher] = frame[Dispatcher]
        /\ Put(Listener, "head") \/ Put(Listener, "body")
    BY <1>8 DEF ListenerHead, ListenerBody, opsVars, historyVars
  <2>2. frame[Listener] # OrderFrame(r)
    BY DEF Local, OrderFrame
  <2>3. WireAside(r)
    BY <2>1, <2>2, WirePutAside
  <2> QED BY <2>1, <2>3, WayAside, InboxSameAside, HistorySameAside, SenderSameAside
<1>9. ASSUME ReadPing \/ ReadPong PROVE Way(r)'
  <2>1. /\ UNCHANGED <<wire, ops, raced, erasing, verdict, told, heard, begun>>
        /\ pc'[Dispatcher] = pc[Dispatcher] /\ frame'[Dispatcher] = frame[Dispatcher]
        /\ inbox # <<>> /\ inbox' = Tail(inbox)
    BY <1>9 DEF ReadPing, ReadPong, Reads, opsVars, historyVars
  <2> QED BY <2>1, WayAside, WireSameAside, InboxTailAside, HistorySameAside, SenderSameAside
<1>10. ASSUME ReadTaken PROVE Way(r)'
  <2>1. /\ UNCHANGED <<wire, ops, raced, verdict, told, heard, begun>>
        /\ pc'[Dispatcher] = pc[Dispatcher] /\ frame'[Dispatcher] = frame[Dispatcher]
        /\ inbox # <<>> /\ inbox' = Tail(inbox) /\ erasing' = Head(inbox).of
        /\ pc[Listener] # "erase"
    BY <1>10 DEF ReadTaken, Reads, Reading, opsVars, historyVars
  <2>2. CASE Head(inbox).of = r
    BY <1>10, <2>2, WayReadTaken
  <2>3. CASE Head(inbox).of # r
    <3>1. HistoryAside(r)
      BY <2>1, <2>3, NothingAssumption DEF HistoryAside
    <3> QED BY <2>1, <3>1, WayAside, WireSameAside, InboxTailAside, SenderSameAside
  <2> QED BY <2>2, <2>3
<1>11. ASSUME ReadRefused PROVE Way(r)'
  <2>1. /\ UNCHANGED <<wire, ops, verdict, begun, frame>>
        /\ inbox # <<>> /\ inbox' = Tail(inbox) /\ pc[Listener] # "erase"
        /\ raced => raced'
    BY <1>11 DEF ReadRefused, Reads, Reading
  <2>2. CASE Head(inbox).of = r
    BY <1>11, <2>2, WayReadRefused
  <2>3. CASE Head(inbox).of # r
    <3>1. \/ /\ told' = [told EXCEPT ![Head(inbox).of] = @ + 1]
             /\ erasing' = Head(inbox).of /\ UNCHANGED heard
             /\ pc' = [pc EXCEPT ![Listener] = "erase"]
          \/ /\ heard' = heard \cup {Head(inbox).of} /\ UNCHANGED <<told, erasing>>
             /\ pc' = [pc EXCEPT ![Listener] = "select"]
      BY <1>11 DEF ReadRefused
    <3>2. pc'[Dispatcher] = pc[Dispatcher]
      BY <3>1
    <3>3. told'[r] = told[r] /\ (r \in heard' <=> r \in heard) /\ (erasing' = r <=> erasing = r)
      BY <2>1, <2>3, <3>1, NothingAssumption DEF TypeOK
    <3>4. HistoryAside(r)
      BY <2>1, <3>3 DEF HistoryAside
    <3> QED BY <2>1, <3>2, <3>4, WayAside, WireSameAside, InboxTailAside, SenderSameAside
  <2> QED BY <2>2, <2>3
<1>12. ASSUME Erase PROVE Way(r)'
  <2>1. /\ UNCHANGED <<wire, inbox, verdict, told, begun, frame>>
        /\ pc'[Dispatcher] = pc[Dispatcher]
        /\ heard' = heard \cup {erasing} /\ erasing' = Nothing
    BY <1>12 DEF Erase, linkVars
  <2>2. CASE erasing = r
    BY <1>12, <2>2, WayErased
  <2>3. CASE erasing # r
    <3>1. (raced => raced') /\ (r \in ops => r \in ops')
      BY <1>12, <2>3 DEF Erase
    <3>2. HistoryAside(r)
      BY <2>1, <2>3, <3>1, NothingAssumption DEF HistoryAside
    <3> QED BY <2>1, <3>2, WayAside, WireSameAside, InboxSameAside, SenderSameAside
  <2> QED BY <2>2, <2>3
<1>13. ASSUME CloseTorn \/ Die \/ FallSilent PROVE Way(r)'
  <2>1. /\ UNCHANGED <<ops, raced, erasing, verdict, told, heard, begun, pc, frame>>
        /\ wire' = <<>>
    BY <1>13 DEF CloseTorn, Die, FallSilent, Lost, opsVars, historyVars
  <2>2. \/ inbox' = inbox \/ inbox' = <<>>
        \/ \E n \in DOMAIN inbox : inbox' = Append(SubSeq(inbox, 1, n - 1), Say("stub", Nothing))
    BY <1>13 DEF CloseTorn, Die, FallSilent
  <2>3. DOMAIN inbox = 1 .. Len(inbox)
    OBVIOUS
  <2>4. InboxAside(r)
    BY <2>2, <2>3, InboxSameAside, InboxGoneAside, InboxCutAside
  <2> QED BY <2>1, <2>4, WayAside, WireGoneAside, HistorySameAside, SenderSameAside
<1>14. ASSUME Reopen \/ ConnectBreaks \/ LoginFails PROVE Way(r)'
  <2>1. /\ UNCHANGED <<ops, raced, erasing, verdict, told, heard, begun>>
        /\ pc'[Dispatcher] = pc[Dispatcher] /\ frame'[Dispatcher] = frame[Dispatcher]
        /\ wire' = <<>> /\ inbox' = <<>>
    BY <1>14 DEF Reopen, ConnectBreaks, LoginFails, Reset, Lost, GiveUp, opsVars, historyVars
  <2> QED BY <2>1, WayAside, WireGoneAside, InboxGoneAside, HistorySameAside, SenderSameAside
<1>15. ASSUME Connect PROVE Way(r)'
  <2>1. /\ UNCHANGED <<inbox, ops, raced, erasing, verdict, told, heard, begun>>
        /\ pc'[Dispatcher] = pc[Dispatcher] /\ frame'[Dispatcher] = frame[Dispatcher]
        /\ wire' = <<Whole(Control("login"))>>
    BY <1>15 DEF Connect, opsVars, historyVars
  <2>2. \A i \in 1 .. Len(wire') : wire'[i].frame # OrderFrame(r)
    BY <2>1 DEF Whole, Control, OrderFrame
  <2>3. WireAside(r)
    BY <2>2 DEF WireAside
  <2> QED BY <2>1, <2>3, WayAside, InboxSameAside, HistorySameAside, SenderSameAside
<1>16. ASSUME AwaitPing PROVE Way(r)'
  <2> DEFINE pong == <<Whole(Control("pong"))>>
  <2>1. /\ UNCHANGED <<ops, raced, erasing, verdict, told, heard, begun, pc, frame>>
        /\ inbox # <<>> /\ inbox' = Tail(inbox)
    BY <1>16 DEF AwaitPing, Reads, opsVars, historyVars
  <2>2. pong \in Seq(Piece) /\ \A k \in 1 .. Len(pong) : pong[k].frame.op # "order"
    BY WholeTyped, ControlTyped DEF Whole, Control
  <2>3. wire' = IF link = "up" THEN wire \o pong ELSE wire
    BY <1>16, WholeTyped, ControlTyped, AppendOne DEF AwaitPing
  <2> HIDE DEF pong
  <2>4. WireAside(r)
    BY <2>2, <2>3, WireMoreAside
  <2> QED BY <2>1, <2>4, WayAside, InboxTailAside, HistorySameAside, SenderSameAside
<1>17. ASSUME Resubscribe PROVE Way(r)'
  <2> DEFINE subscriptions == [i \in 1 .. Len(wanted) |-> Whole([op |-> "sub", arg |-> wanted[i]])]
  <2>1. /\ UNCHANGED <<ops, raced, erasing, verdict, told, heard, begun, frame>>
        /\ pc'[Dispatcher] = pc[Dispatcher] /\ inbox # <<>> /\ inbox' = Tail(inbox)
    BY <1>17 DEF Resubscribe, Reads, GiveUp, opsVars, historyVars
  <2>2. Len(wanted) \in Nat /\ \A i \in 1 .. Len(wanted) : [op |-> "sub", arg |-> wanted[i]] \in Frame
    BY DEF TypeOK, Frame
  <2>3. subscriptions \in Seq(Piece) /\ \A k \in 1 .. Len(subscriptions) : subscriptions[k].frame.op # "order"
    BY <2>2, WholeTyped DEF Whole
  <2>4. wire' = IF link = "up" THEN wire \o subscriptions ELSE wire
    BY <1>17 DEF Resubscribe
  <2> HIDE DEF subscriptions
  <2>5. WireAside(r)
    BY <2>3, <2>4, WireMoreAside
  <2> QED BY <2>1, <2>5, WayAside, InboxTailAside, HistorySameAside, SenderSameAside
<1>18. ASSUME ProtocolPing PROVE Way(r)'
  <2>1. /\ UNCHANGED <<wire, ops, raced, erasing, verdict, told, heard, begun, pc, frame>>
        /\ inbox' = Append(inbox, Say("ping", Nothing))
    BY <1>18 DEF ProtocolPing, opsVars, historyVars
  <2>2. Say("ping", Nothing) \in Message /\ Say("ping", Nothing).of # r
    BY SayTyped, NothingAssumption DEF Say
  <2>3. InboxAside(r)
    BY <2>1, <2>2, InboxMoreAside
  <2> QED BY <2>1, <2>3, WayAside, WireSameAside, HistorySameAside, SenderSameAside
<1>19. ASSUME TakeSubscription \/ TakePing \/ TakeLogin PROVE Way(r)'
  <2>1. /\ UNCHANGED <<ops, raced, erasing, verdict, told, heard, begun, pc, frame>>
        /\ Ready /\ wire' = Rest
    BY <1>19 DEF TakeSubscription, TakePing, TakeLogin, opsVars, historyVars
  <2>2. inbox' = inbox \/ \E kind \in {"pong", "welcome", "unwelcome"} : inbox' = Append(inbox, Say(kind, Nothing))
    BY <1>19 DEF TakeSubscription, TakePing, TakeLogin
  <2>3. \A kind \in {"pong", "welcome", "unwelcome"} : Say(kind, Nothing) \in Message /\ Say(kind, Nothing).of # r
    BY SayTyped, NothingAssumption DEF Say
  <2>4. InboxAside(r)
    BY <2>2, <2>3, InboxSameAside, InboxMoreAside
  <2> QED BY <2>1, <2>4, WayAside, WireRestAside, HistorySameAside, SenderSameAside
<1>20. ASSUME TakeOrder PROVE Way(r)'
  <2>1. /\ UNCHANGED <<ops, raced, erasing, told, heard, begun, pc, frame>>
        /\ Ready /\ wire' = Rest /\ wire[1].frame.op = "order"
    BY <1>20 DEF TakeOrder, opsVars
  <2>2. /\ wire[1].frame.arg \in Request /\ wire[1].frame = OrderFrame(wire[1].frame.arg)
    BY <2>1, RestTyped DEF Piece, Frame, OrderFrame
  <2>3. CASE wire[1].frame.arg = r
    BY <1>20, <2>2, <2>3, WayTaken
  <2>4. CASE wire[1].frame.arg # r
    <3>1. PICK kind \in {"taken", "refused"} :
            /\ verdict' = [verdict EXCEPT ![wire[1].frame.arg] = kind]
            /\ inbox' = Append(inbox, Say(kind, wire[1].frame.arg))
      BY <1>20 DEF TakeOrder
    <3>2. Say(kind, wire[1].frame.arg) \in Message /\ Say(kind, wire[1].frame.arg).of # r
      BY <2>2, <2>4, SayTyped DEF Say
    <3>3. InboxAside(r)
      BY <3>1, <3>2, InboxMoreAside
    <3>4. verdict'[r] = verdict[r]
      BY <2>4, <3>1 DEF TypeOK
    <3>5. HistoryAside(r)
      BY <2>1, <3>4 DEF HistoryAside
    <3> QED BY <2>1, <3>3, <3>5, WayAside, WireRestAside, SenderSameAside
  <2> QED BY <2>3, <2>4
<1> QED BY <1>1, <1>2, <1>3, <1>4, <1>5, <1>6, <1>7, <1>8, <1>9, <1>10, <1>11, <1>12, <1>13, <1>14,
           <1>15, <1>16, <1>17, <1>18, <1>19, <1>20
        DEF Next, MainStep, SendingStep, ListenerStep, ExchangeStep

-----------------------------------------------------------------------------
(* The inductive invariant of the orders' way. *)
AnswersInv == FramesInv /\ OrdersInv

LEMMA AnswersInvariant == Spec => []AnswersInv
<1>1. Init => AnswersInv
  BY TypeInit, InitLocal, WireInit, OrdersInit DEF AnswersInv, FramesInv
<1>2. AnswersInv /\ [Next]_vars => AnswersInv'
  <2> SUFFICES ASSUME FramesInv, OrdersInv, [Next]_vars PROVE AnswersInv'
    BY DEF AnswersInv
  <2>0. TypeOK /\ Local /\ WireInv
    BY DEF FramesInv
  <2>1. FramesInv'
    BY <2>0, TypeStep, LocalStep, WireStep DEF FramesInv
  <2>2. (pc[Listener] # "erase" => erasing = Nothing)'
    BY <2>0, ErasingStep DEF OrdersInv
  <2>3. ASSUME NEW r \in Request PROVE Way(r)'
    BY <2>0, WayStep DEF OrdersInv
  <2>4. OrdersInv'
    BY <2>2, <2>3 DEF OrdersInv
  <2> QED BY <2>1, <2>4 DEF AnswersInv
<1> QED BY <1>1, <1>2, PTL DEF Spec

(* However messages, reconnects and the dispatcher's insertions interleave, a *)
(* rejection handed on is one the exchange gave, no request has two, and a    *)
(* refusal that is handled is reported unless an insertion overlapped it.     *)
THEOREM RefusalsAreReported == Spec => []RefusalsReported
<1>1. AnswersInv => RefusalsReported
  <2> SUFFICES ASSUME AnswersInv, NEW r \in Request
               PROVE  /\ told[r] <= 1
                      /\ told[r] = 1 => verdict[r] = "refused"
                      /\ r \in heard /\ verdict[r] = "refused" /\ ~raced => told[r] = 1
    BY DEF RefusalsReported
  <2>1. Told(r)
    BY DEF AnswersInv, OrdersInv, Way
  <2> QED BY <2>1 DEF Told
<1> QED BY <1>1, AnswersInvariant, PTL
=============================================================================
