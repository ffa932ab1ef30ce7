--------------------------- MODULE PrivateChannel ---------------------------
(***************************************************************************)
(* The private web socket of the trading engine after LoginPrivate         *)
(* (clients/exchange_client.cpp, common/websocket.hpp, clients/okx/okx.cpp): *)
(* Init's thread subscribes, the dispatcher sends orders, the listener     *)
(* reads, pings and, when the connection fails it, connects again.         *)
(*                                                                         *)
(* A frame is written in two pieces, header and payload.  sub_mutex_ is    *)
(* held around the frames of Init and the dispatcher and around the whole  *)
(* of ReconnectPrivate, but not around the listener's own ping and pong.   *)
(* An exchange that reads pieces of two frames mixed closes the            *)
(* connection.  A connection is dead when the next read or write says so,  *)
(* mute when nothing comes or goes any more and no call says so (a peer or *)
(* an HTTP proxy that still acknowledges, say); it may be so from the      *)
(* start, before a handshake is answered.                                  *)
(*                                                                         *)
(* pending_ws_ops_ has no lock: its insertion and its erasure are open     *)
(* intervals here, and what overlaps may be lost.                          *)
(***************************************************************************)
EXTENDS Naturals, Sequences, Functions

CONSTANTS Request,      \* the orders the dispatcher sends
          Channel,      \* the channels of the private web socket
          Plan,         \* the channels Init subscribes to, in order
          Main,         \* the thread of TradingEngine::Init
          Dispatcher,   \* the thread of RunOrderDispatcher
          Listener,     \* the thread of StartPrivateListener
          Nobody,       \* no thread
          Nothing,      \* no channel and no order
          MaxTroubles   \* bound: connections that die, go mute or are refused, protocol
                        \* pings of the exchange, answers that outlast a timeout

Thread == {Main, Dispatcher, Listener}

ASSUME PlanAssumption   == Plan \in Seq(Channel)
ASSUME ThreadAssumption == /\ Main # Dispatcher /\ Main # Listener /\ Dispatcher # Listener
                           /\ Nobody \notin Thread
ASSUME BoundsAssumption == MaxTroubles \in Nat
ASSUME NothingAssumption == Nothing \notin Request

VARIABLES link,      \* the connection: down (ssl_ is null), up, mute or dead
          wire,      \* pieces of frames on their way to the exchange
          inbox,     \* messages on their way to the listener
          loggedIn,  \* whether the exchange has let this connection in
          subs,      \* the channels the exchange has subscribed it to
          mutex,     \* who holds sub_mutex_
          wanted,    \* private_subscriptions_
          ops,       \* pending_ws_ops_
          pc,        \* pc[t]: where thread t is
          frame,     \* frame[t]: the frame thread t is sending
          erasing,   \* the request the listener is about to forget
          pinged,    \* ping_pending
          verdict,   \* verdict[r]: what the exchange made of request r
          begun,     \* history: the requests the dispatcher has taken
          heard,     \* history: the requests whose answer the listener has handled
          told,      \* history: told[r] rejections of r were handed on
          raced,     \* history: two threads were inside pending_ws_ops_ at once
          troubles   \* history: what MaxTroubles bounds

linkVars    == <<link, wire, inbox, loggedIn, subs>>
opsVars     == <<ops, raced>>
historyVars == <<verdict, begun, heard, told>>
vars == <<linkVars, mutex, wanted, opsVars, pc, frame, erasing, pinged, historyVars, troubles>>

Frame == [op : {"sub"}, arg : Channel] \cup [op : {"order"}, arg : Request]
           \cup [op : {"ping", "pong", "login"}, arg : {Nothing}]

Control(op) == [op |-> op, arg |-> Nothing]

Piece   == [by : Thread, frame : Frame, part : {"head", "body", "whole"}]
Message == [kind : {"pong", "ping", "welcome", "unwelcome", "stub"}, of : {Nothing}]
             \cup [kind : {"taken", "refused"}, of : Request]

Say(kind, of) == [kind |-> kind, of |-> of]

Init == /\ link = "up"
        /\ wire = <<>>
        /\ inbox = <<>>
        /\ loggedIn = TRUE
        /\ subs = {}
        /\ mutex = Nobody
        /\ wanted = <<>>
        /\ ops = {}
        /\ pc = [t \in Thread |-> IF t = Listener THEN "select" ELSE "idle"]
        /\ frame = [t \in Thread |-> Control("ping")]
        /\ erasing = Nothing
        /\ pinged = FALSE
        /\ verdict = [r \in Request |-> "none"]
        /\ begun = {}
        /\ heard = {}
        /\ told = [r \in Request |-> 0]
        /\ raced = FALSE
        /\ troubles = 0

At(t, place)   == pc[t] = place
GoTo(t, place) == pc' = [pc EXCEPT ![t] = place]
Trouble == troubles < MaxTroubles /\ troubles' = troubles + 1

-----------------------------------------------------------------------------
(* WsClient::SendFrame: the header, then the payload.  What RawSend says is  *)
(* not looked at.                                                            *)
Put(t, part) ==
  wire' = IF link = "up"
          THEN Append(wire, [by |-> t, frame |-> frame[t], part |-> part]) ELSE wire

(* Mutant: nothing keeps two senders apart. *)
WriteHeadUnlocked(t) ==
  /\ At(t, "head")
  /\ link # "down"
  /\ Put(t, "head")
  /\ mutex' = t
  /\ GoTo(t, "body")
  /\ UNCHANGED <<link, inbox, loggedIn, subs, wanted, opsVars, frame, erasing, pinged,
                 historyVars, troubles>>

(* SendToPrivate and SubscribePrivateChannel: Send under sub_mutex_, which   *)
(* does nothing if ssl_ is null.                                             *)
WriteHead(t) ==
  /\ At(t, "head")
  /\ mutex = Nobody
  /\ link # "down"
  /\ Put(t, "head")
  /\ mutex' = t
  /\ GoTo(t, "body")
  /\ UNCHANGED <<link, inbox, loggedIn, subs, wanted, opsVars, frame, erasing, pinged,
                 historyVars, troubles>>

WriteBody(t) ==
  /\ At(t, "body")
  /\ Put(t, "body")
  /\ mutex' = Nobody
  /\ GoTo(t, "idle")
  /\ frame' = [frame EXCEPT ![t] = Control("ping")]
  /\ UNCHANGED <<link, inbox, loggedIn, subs, wanted, opsVars, erasing, pinged, historyVars, troubles>>

SendFails(t) ==
  /\ At(t, "head")
  /\ mutex = Nobody
  /\ link = "down"
  /\ GoTo(t, "idle")
  /\ frame' = [frame EXCEPT ![t] = Control("ping")]
  /\ UNCHANGED <<linkVars, mutex, wanted, opsVars, erasing, pinged, historyVars, troubles>>

(* The listener's own ping and pong, with no lock. *)
ListenerHead ==
  /\ At(Listener, "head")
  /\ Put(Listener, "head")
  /\ GoTo(Listener, "body")
  /\ UNCHANGED <<link, inbox, loggedIn, subs, mutex, wanted, opsVars, frame, erasing, pinged,
                 historyVars, troubles>>

ListenerBody ==
  /\ At(Listener, "body")
  /\ Put(Listener, "body")
  /\ IF frame[Listener].op = "ping"
     THEN pinged' = TRUE /\ GoTo(Listener, "select")
     ELSE GoTo(Listener, "read") /\ UNCHANGED pinged
  /\ frame' = [frame EXCEPT ![Listener] = Control("ping")]
  /\ UNCHANGED <<link, inbox, loggedIn, subs, mutex, wanted, opsVars, erasing, historyVars, troubles>>

-----------------------------------------------------------------------------
(* Init's thread: remember the channel under sub_mutex_, then send.          *)
Subscribe ==
  /\ At(Main, "idle")
  /\ Len(wanted) < Len(Plan)
  /\ mutex = Nobody
  /\ wanted' = Append(wanted, Plan[Len(wanted) + 1])
  /\ frame' = [frame EXCEPT ![Main] = [op |-> "sub", arg |-> Plan[Len(wanted) + 1]]]
  /\ GoTo(Main, "head")
  /\ UNCHANGED <<linkVars, mutex, opsVars, erasing, pinged, historyVars, troubles>>

(* The dispatcher, which starts when Init has ended: BuildOrderMessage enters *)
(* the request in pending_ws_ops_, SendPlaceOrder sends it.                  *)
Initialised == Len(wanted) = Len(Plan) /\ At(Main, "idle")

BeginOrder(r) ==
  /\ Initialised
  /\ At(Dispatcher, "idle")
  /\ r \notin begun
  /\ begun' = begun \cup {r}
  /\ frame' = [frame EXCEPT ![Dispatcher] = [op |-> "order", arg |-> r]]
  /\ GoTo(Dispatcher, "insert")
  /\ UNCHANGED <<linkVars, mutex, wanted, opsVars, erasing, pinged, verdict, heard, told, troubles>>

(* Mutant: the request is entered when it has been sent. *)
EndInsertNothing ==
  /\ At(Dispatcher, "insert")
  /\ GoTo(Dispatcher, "head")
  /\ UNCHANGED <<linkVars, mutex, wanted, opsVars, frame, erasing, pinged, historyVars, troubles>>

EndInsert ==
  /\ At(Dispatcher, "insert")
  /\ ops' \in {ops \cup {frame[Dispatcher].arg}} \cup (IF At(Listener, "erase") THEN {ops} ELSE {})
  /\ raced' = (raced \/ At(Listener, "erase"))
  /\ GoTo(Dispatcher, "head")
  /\ UNCHANGED <<linkVars, mutex, wanted, frame, erasing, pinged, historyVars, troubles>>

-----------------------------------------------------------------------------
(* The exchange reads a frame, or finds two mixed. *)
Torn  == Len(wire) >= 2 /\ wire[1].part = "head" /\ wire[2].by # wire[1].by
Ready == /\ link = "up"
         /\ wire # <<>>
         /\ \/ wire[1].part = "whole"
            \/ Len(wire) >= 2 /\ ~Torn

Rest == IF wire[1].part = "whole" THEN Tail(wire) ELSE Tail(Tail(wire))

TakeSubscription ==
  /\ Ready
  /\ wire[1].frame.op = "sub"
  /\ subs' = IF loggedIn THEN subs \cup {wire[1].frame.arg} ELSE subs
  /\ wire' = Rest
  /\ UNCHANGED <<link, inbox, loggedIn, mutex, wanted, opsVars, pc, frame, erasing, pinged,
                 historyVars, troubles>>

TakeOrder ==
  /\ Ready
  /\ wire[1].frame.op = "order"
  /\ \E kind \in {"taken", "refused"} :
       /\ verdict' = [verdict EXCEPT ![wire[1].frame.arg] = kind]
       /\ inbox' = Append(inbox, Say(kind, wire[1].frame.arg))
  /\ wire' = Rest
  /\ UNCHANGED <<link, loggedIn, subs, mutex, wanted, opsVars, pc, frame, erasing, pinged,
                 begun, heard, told, troubles>>

TakePing ==
  /\ Ready
  /\ wire[1].frame.op \in {"ping", "pong"}
  /\ inbox' = IF wire[1].frame.op = "ping" THEN Append(inbox, Say("pong", Nothing)) ELSE inbox
  /\ wire' = Rest
  /\ UNCHANGED <<link, loggedIn, subs, mutex, wanted, opsVars, pc, frame, erasing, pinged,
                 historyVars, troubles>>

TakeLogin ==
  /\ Ready
  /\ wire[1].frame.op = "login"
  /\ \/ /\ loggedIn' = TRUE
        /\ inbox' = Append(inbox, Say("welcome", Nothing))
        /\ UNCHANGED troubles
     \/ /\ Trouble
        /\ inbox' = Append(inbox, Say("unwelcome", Nothing))
        /\ UNCHANGED loggedIn
  /\ wire' = Rest
  /\ UNCHANGED <<link, subs, mutex, wanted, opsVars, pc, frame, erasing, pinged, historyVars>>

Lost == /\ wire' = <<>>
        /\ loggedIn' = FALSE
        /\ subs' = {}

CloseTorn ==
  /\ link = "up"
  /\ Torn
  /\ link' = "dead"
  /\ Lost
  /\ UNCHANGED <<inbox, mutex, wanted, opsVars, pc, frame, erasing, pinged, historyVars, troubles>>

ProtocolPing ==
  /\ link = "up"
  /\ Trouble
  /\ inbox' = Append(inbox, Say("ping", Nothing))
  /\ UNCHANGED <<link, wire, loggedIn, subs, mutex, wanted, opsVars, pc, frame, erasing, pinged,
                 historyVars>>

(* The connection dies, or goes mute, perhaps in the middle of a message or  *)
(* of the handshakes it begins with.                                         *)
Die ==
  /\ link \in {"up", "mute"}
  /\ Trouble
  /\ link' = "dead"
  /\ inbox' \in {inbox, <<>>}
  /\ Lost
  /\ UNCHANGED <<mutex, wanted, opsVars, pc, frame, erasing, pinged, historyVars>>

Opening == At(Listener, "connect") /\ link = "down"

FallSilent ==
  /\ link = "up" \/ Opening
  /\ Trouble
  /\ link' = "mute"
  /\ inbox' \in {inbox, <<>>} \cup
                {Append(SubSeq(inbox, 1, n - 1), Say("stub", Nothing)) : n \in DOMAIN inbox}
  /\ Lost
  /\ UNCHANGED <<mutex, wanted, opsVars, pc, frame, erasing, pinged, historyVars>>

ExchangeStep == TakeSubscription \/ TakeOrder \/ TakePing \/ TakeLogin \/ CloseTorn

-----------------------------------------------------------------------------
(* StartPrivateListener: wait up to 5 s for something to read, then ping,    *)
(* then give the connection up.                                              *)
NoticeDown ==
  /\ At(Listener, "select")
  /\ link = "down"
  /\ GoTo(Listener, "lock")
  /\ UNCHANGED <<linkVars, mutex, wanted, opsVars, frame, erasing, pinged, historyVars, troubles>>

(* An exchange with nothing left to read owes nothing: what it owes it pays  *)
(* within 5 s, but as often as MaxTroubles allows.                           *)
Quiet == /\ At(Listener, "select")
         /\ inbox = <<>>
         /\ IF link = "up" /\ wire # <<>> THEN Trouble
            ELSE link \in {"up", "mute"} /\ UNCHANGED troubles

Ping ==
  /\ Quiet
  /\ ~pinged
  /\ frame' = [frame EXCEPT ![Listener] = Control("ping")]
  /\ GoTo(Listener, "head")
  /\ UNCHANGED <<linkVars, mutex, wanted, opsVars, erasing, pinged, historyVars>>

(* Mutant: an overdue pong is waited for again. *)
PongTimeoutIgnored ==
  /\ Quiet
  /\ pinged
  /\ pinged' = FALSE
  /\ UNCHANGED <<linkVars, mutex, wanted, opsVars, pc, frame, erasing, historyVars>>

PongTimeout ==
  /\ Quiet
  /\ pinged
  /\ GoTo(Listener, "lock")
  /\ UNCHANGED <<linkVars, mutex, wanted, opsVars, frame, erasing, pinged, historyVars>>

(* WsClient::Read has no time limit: it answers a protocol ping and reads on, *)
(* and waits for the rest of a message it has the start of.                  *)
Reading == At(Listener, "select") \/ At(Listener, "read")
Stub    == inbox # <<>> /\ Head(inbox).kind = "stub"

ReadStub ==
  /\ At(Listener, "select")
  /\ Stub
  /\ GoTo(Listener, "read")
  /\ UNCHANGED <<linkVars, mutex, wanted, opsVars, frame, erasing, pinged, historyVars, troubles>>

ReadFails ==
  /\ Reading
  /\ inbox # <<>> => Stub
  /\ link = "dead"
  /\ GoTo(Listener, "lock")
  /\ UNCHANGED <<linkVars, mutex, wanted, opsVars, frame, erasing, pinged, historyVars, troubles>>

Reads(kinds) == inbox # <<>> /\ Head(inbox).kind \in kinds /\ inbox' = Tail(inbox)

ReadPing ==
  /\ Reading
  /\ Reads({"ping"})
  /\ frame' = [frame EXCEPT ![Listener] = Control("pong")]
  /\ GoTo(Listener, "head")
  /\ UNCHANGED <<link, wire, loggedIn, subs, mutex, wanted, opsVars, erasing, pinged,
                 historyVars, troubles>>

ReadPong ==
  /\ Reading
  /\ Reads({"pong"})
  /\ pinged' = FALSE
  /\ GoTo(Listener, "select")
  /\ UNCHANGED <<link, wire, loggedIn, subs, mutex, wanted, opsVars, frame, erasing,
                 historyVars, troubles>>

(* OnPrivateMessage: a refusal is handed on as a rejection if the request is  *)
(* found, and the request is forgotten.                                      *)
Inserting == At(Dispatcher, "insert")

(* Mutant: the message is kept where its request is meant. *)
ReadTakenWhole ==
  /\ Reading
  /\ Reads({"taken"})
  /\ erasing' = Head(inbox)
  /\ pinged' = FALSE
  /\ GoTo(Listener, "erase")
  /\ UNCHANGED <<link, wire, loggedIn, subs, mutex, wanted, opsVars, frame, historyVars, troubles>>

ReadTaken ==
  /\ Reading
  /\ Reads({"taken"})
  /\ erasing' = Head(inbox).of
  /\ pinged' = FALSE
  /\ GoTo(Listener, "erase")
  /\ UNCHANGED <<link, wire, loggedIn, subs, mutex, wanted, opsVars, frame, historyVars, troubles>>

ReadRefused ==
  /\ Reading
  /\ Reads({"refused"})
  /\ pinged' = FALSE
  /\ raced' = (raced \/ Inserting)
  /\ LET r == Head(inbox).of IN
       \/ /\ r \in ops
          /\ told' = [told EXCEPT ![r] = @ + 1]
          /\ erasing' = r
          /\ GoTo(Listener, "erase")
          /\ UNCHANGED heard
       \/ /\ r \in ops => Inserting
          /\ heard' = heard \cup {r}
          /\ GoTo(Listener, "select")
          /\ UNCHANGED <<told, erasing>>
  /\ UNCHANGED <<link, wire, loggedIn, subs, mutex, wanted, ops, frame, verdict, begun, troubles>>

Erase ==
  /\ At(Listener, "erase")
  /\ ops' \in {ops \ {erasing}} \cup (IF Inserting THEN {ops} ELSE {})
  /\ raced' = (raced \/ Inserting)
  /\ heard' = heard \cup {erasing}
  /\ erasing' = Nothing
  /\ GoTo(Listener, "select")
  /\ UNCHANGED <<linkVars, mutex, wanted, frame, pinged, verdict, begun, told, troubles>>

-----------------------------------------------------------------------------
(* ReconnectPrivate: sub_mutex_ is held from Close to the last subscription. *)
Reset == /\ link' = "down"
         /\ inbox' = <<>>
         /\ Lost

Reopen ==
  /\ At(Listener, "lock")
  /\ mutex = Nobody
  /\ mutex' = Listener
  /\ Reset
  /\ GoTo(Listener, "connect")
  /\ UNCHANGED <<wanted, opsVars, frame, erasing, pinged, historyVars, troubles>>

GiveUp == /\ mutex' = Nobody
          /\ pinged' = FALSE
          /\ GoTo(Listener, "select")

(* WsClient::Connect: what the proxy, TLS and the web socket have to answer   *)
(* is waited for without a time limit, until the connection dies.            *)
ConnectFails ==
  /\ Opening
  /\ Trouble
  /\ GiveUp
  /\ UNCHANGED <<linkVars, wanted, opsVars, frame, erasing, historyVars>>

ConnectBreaks ==
  /\ At(Listener, "connect")
  /\ link = "dead"
  /\ Reset
  /\ GiveUp
  /\ UNCHANGED <<wanted, opsVars, frame, erasing, historyVars, troubles>>

Whole(f) == [by |-> Listener, frame |-> f, part |-> "whole"]

Connect ==
  /\ Opening
  /\ link' = "up"
  /\ wire' = <<Whole(Control("login"))>>
  /\ GoTo(Listener, "await")
  /\ UNCHANGED <<inbox, loggedIn, subs, mutex, wanted, opsVars, frame, erasing, pinged,
                 historyVars, troubles>>

AwaitPing ==
  /\ At(Listener, "await")
  /\ Reads({"ping"})
  /\ wire' = IF link = "up" THEN Append(wire, Whole(Control("pong"))) ELSE wire
  /\ UNCHANGED <<link, loggedIn, subs, mutex, wanted, opsVars, pc, frame, erasing, pinged,
                 historyVars, troubles>>

LoginFails ==
  /\ At(Listener, "await")
  /\ \/ (inbox # <<>> => Stub) /\ link = "dead"
     \/ inbox # <<>> /\ Head(inbox).kind = "unwelcome"
  /\ Reset
  /\ GiveUp
  /\ UNCHANGED <<wanted, opsVars, frame, erasing, historyVars, troubles>>

(* Mutants: the last channel is left out; what the login came to is not asked. *)
ResubscribeAllButLast ==
  /\ At(Listener, "await")
  /\ Reads({"welcome"})
  /\ wire' = IF link = "up"
             THEN wire \o [i \in 1 .. Len(wanted) - 1 |-> Whole([op |-> "sub", arg |-> wanted[i]])]
             ELSE wire
  /\ GiveUp
  /\ UNCHANGED <<link, loggedIn, subs, wanted, opsVars, frame, erasing, historyVars, troubles>>

ResubscribeUnasked ==
  /\ At(Listener, "await")
  /\ Reads({"welcome", "unwelcome"})
  /\ wire' = IF link = "up"
             THEN wire \o [i \in 1 .. Len(wanted) |-> Whole([op |-> "sub", arg |-> wanted[i]])]
             ELSE wire
  /\ GiveUp
  /\ UNCHANGED <<link, loggedIn, subs, wanted, opsVars, frame, erasing, historyVars, troubles>>

Resubscribe ==
  /\ At(Listener, "await")
  /\ Reads({"welcome"})
  /\ wire' = IF link = "up"
             THEN wire \o [i \in 1 .. Len(wanted) |-> Whole([op |-> "sub", arg |-> wanted[i]])]
             ELSE wire
  /\ GiveUp
  /\ UNCHANGED <<link, loggedIn, subs, wanted, opsVars, frame, erasing, historyVars, troubles>>

-----------------------------------------------------------------------------
MainStep == Subscribe \/ WriteHead(Main) \/ WriteBody(Main) \/ SendFails(Main)

SendingStep == \/ EndInsert
               \/ WriteHead(Dispatcher) \/ WriteBody(Dispatcher) \/ SendFails(Dispatcher)

ListenerStep == \/ NoticeDown \/ Ping \/ PongTimeout \/ ListenerHead \/ ListenerBody
                \/ ReadStub \/ ReadFails \/ ReadPing \/ ReadPong
                \/ ReadTaken \/ ReadRefused \/ Erase
                \/ Reopen \/ Connect \/ ConnectBreaks \/ AwaitPing \/ LoginFails \/ Resubscribe

Next == \/ MainStep
        \/ (\E r \in Request : BeginOrder(r)) \/ SendingStep
        \/ ListenerStep \/ ConnectFails
        \/ ExchangeStep \/ ProtocolPing \/ Die \/ FallSilent

Spec == Init /\ [][Next]_vars

(* A thread that has begun goes on while it can, and the exchange reads what  *)
(* it gets.  No order need be sent and no connection need break.             *)
Fairness == /\ WF_vars(MainStep)
            /\ WF_vars(SendingStep)
            /\ WF_vars(ListenerStep)
            /\ WF_vars(ExchangeStep)

FairSpec == Spec /\ Fairness

-----------------------------------------------------------------------------
(* Properties *)

TypeOK == /\ link \in {"down", "up", "mute", "dead"}
          /\ wire \in Seq(Piece)
          /\ inbox \in Seq(Message)
          /\ loggedIn \in BOOLEAN
          /\ subs \subseteq Channel
          /\ mutex \in Thread \cup {Nobody}
          /\ wanted \in Seq(Channel)
          /\ ops \subseteq Request
          /\ pc \in [Thread -> {"idle", "insert", "lock", "head", "body", "select", "read",
                                "erase", "connect", "await"}]
          /\ frame \in [Thread -> Frame]
          /\ erasing \in Request \cup {Nothing}
          /\ pinged \in BOOLEAN
          /\ verdict \in [Request -> {"none", "taken", "refused"}]
          /\ begun \subseteq Request
          /\ heard \subseteq Request
          /\ told \in [Request -> Nat]
          /\ raced \in BOOLEAN
          /\ troubles \in 0 .. MaxTroubles

(* The connection as its users see it: not while it is being replaced. *)
InUse     == link = "up" /\ ~At(Listener, "connect") /\ ~At(Listener, "await")
OnWire(c) == \E i \in DOMAIN wire : wire[i].frame = [op |-> "sub", arg |-> c] /\ wire[i].part # "head"
Carried   == IF InUse THEN subs \cup {c \in Channel : OnWire(c)} ELSE {}

(* The private channel does what its users rely on: connections come and go,  *)
(* and each new one carries every channel asked for (ReconnectPrivate and     *)
(* SubscribePrivateChannel, exchange_client.cpp 62-69 and 204-234).           *)
AbstractSession == INSTANCE Session WITH asked <- Range(wanted), open <- InUse, carried <- Carried
ImplementsSession == AbstractSession!Spec

(* No subscription falls between a reconnect and SubscribePrivateChannel: the *)
(* connection in use carries every channel remembered, but for the one Init   *)
(* is about to send.  It is remembered under sub_mutex_ before it is sent.    *)
AboutToSend(c) == /\ pc[Main] \in {"head", "body"}
                  /\ frame[Main] = [op |-> "sub", arg |-> c]
SubscribedOrAsked ==
  InUse => \A c \in Range(wanted) : c \in Carried \/ AboutToSend(c)

(* A frame reaches the connection it was begun on whole, but for the          *)
(* listener's ping and pong: sub_mutex_ keeps a reconnect from coming between *)
(* the header and the payload of Init's and the dispatcher's frames.          *)
WholeButForListener ==
  \A i \in DOMAIN wire : wire[i].part = "body" =>
    \E j \in 1 .. i - 1 :
      /\ wire[j] = [wire[i] EXCEPT !.part = "head"]
      /\ \A k \in j + 1 .. i - 1 : Listener \in {wire[k].by, wire[i].by}

(* A request is reported as rejected only if the exchange refused it, once,   *)
(* and every refusal the listener handles is reported: the request is in      *)
(* pending_ws_ops_ before it can be answered (okx.cpp 65-67, 770-818).  Only  *)
(* an insertion that overlaps the listener's use of the map may spoil that.   *)
RefusalsReported ==
  \A r \in Request :
    /\ told[r] <= 1
    /\ told[r] = 1 => verdict[r] = "refused"
    /\ r \in heard /\ verdict[r] = "refused" /\ ~raced => told[r] = 1

(* In the end the channel serves for good, every channel subscribed, or the   *)
(* listener is stuck in a read without a time limit on a connection that has  *)
(* gone mute: in the middle of a message, the 5 s of ReadWithTimeout covering *)
(* only the wait for the first byte, in the login, or in one of the           *)
(* handshakes (websocket.hpp 101, 121, 202, 347-364, 366-389).                *)
Serving == link = "up" /\ loggedIn /\ Range(wanted) \subseteq subs
Stuck   == link = "mute" /\ pc[Listener] \in {"read", "connect", "await"}
ServesOrSticks == <>[](Serving \/ Stuck)
=============================================================================
