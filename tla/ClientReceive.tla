---------------------------- MODULE ClientReceive ----------------------------
(***************************************************************************)
(* The receiving half of a client: the thread of the socket                *)
(* (mytcpsocket.cpp: connectServer, recvFromSocket, errorDetect), the      *)
(* thread that takes messages from queue_recv (recvsolve.cpp) and hands    *)
(* them to the GUI thread (widget.cpp: datasolve).  That one waits for the *)
(* socket's thread when it connects, and for it and the writing thread     *)
(* (MyTcpSocket::run) when a session ends.                                 *)
(*                                                                         *)
(* A packet is two cells of the byte stream, its head and its rest, so     *)
(* that a read may end within a packet.  A slot of the GUI thread is one   *)
(* step, its message boxes included, except where it waits for another     *)
(* thread or, after a connect, runs a box that lets other slots run.       *)
(* AUDIO_RECV goes to a queue of its own, and matters here only when that  *)
(* queue takes no more.  PARTNER_JOIN stands for PARTNER_JOIN2 and         *)
(* IMG_RECV too, which do the same to the list of partners.  CLOSE_CAMERA, *)
(* which changes a picture only, and the frames of one's own camera are    *)
(* left out.                                                               *)
(*                                                                         *)
(* The way a request takes to the server is left out: it arrives within    *)
(* the session or never.  The server is the environment: the dispatcher's  *)
(* answers come to what was asked, and a room that has the client sends    *)
(* any news of anybody in any order, as its five sending threads may.      *)
(***************************************************************************)
EXTENDS Integers, Sequences, FiniteSets

CONSTANTS Me,           \* the local address
          Others,       \* the addresses of the other users; Me may be one of them
          NoIp,         \* what getlocalip() makes of a closed socket
          QueueMax,     \* QUEUE_MAXSIZE
          MaxAttempts,  \* how often the user connects, at most
          MaxPackets,   \* how many packets the server sends
          NoMsg

ASSUME ClientAssumption ==
  /\ NoIp \notin Others \cup {Me}
  /\ QueueMax \in Nat /\ MaxAttempts \in Nat /\ MaxPackets \in Nat

Ips == Others \cup {Me, NoIp}

Responses == {"CREATE_MEETING_RESPONSE", "JOIN_MEETING_RESPONSE"}

Errors == {"RemoteHostClosedError", "OtherNetError"}

MsgTypes == Responses \cup Errors \cup
            {"PARTNER_JOIN", "PARTNER_EXIT", "TEXT_RECV"}

\* code is what a response says; session and no tell which packet of which
\* session a message was (no is 0 for an error the client found itself).
Msg == [type : MsgTypes, code : -1..1, ips : SUBSET Ips,
        session : 0..MaxAttempts, no : 0..MaxPackets]

ASSUME NoMsgAssumption == NoMsg \notin Msg

Cell == [pkt : Msg, part : {1, 2}]

Buttons == {"connServer", "createmeetBtn", "joinmeetBtn", "exitmeetBtn"}

VARIABLES
  ui, why,             \* GUI: "free", or what it waits for; why a session ends
  boxed,               \* the box of a successful connect is open
  enabled, createmeet, joinmeet, partner,               \* the widget
  sock,                \* _sockThread: "off", "on", "quit"
  sockAt, sockMsg,     \* where it is about to push, and what
  recvbuf, queue_recv,
  held,                \* RecvSolve: the message datasolve() has to deal with
  session,             \* the attempts to connect so far
  conn, wire,          \* the connection: "down", "up", "closing"; unread cells
  writer,              \* MyTcpSocket::run: "off", "start", "on" or "told" to stop
  asks, room, due, sent,           \* the server
  clean, handledNo,    \* history: nothing left from before; last packet handled
  told                 \* history: the list of partners as the packets tell it

widget  == <<createmeet, joinmeet, partner>>
socket  == <<sockAt, sockMsg, recvbuf>>
server  == <<asks, room, due, sent>>
history == <<clean, handledNo, told>>

vars == <<ui, why, boxed, enabled, widget, sock, socket, queue_recv, held, session,
          conn, wire, writer, server, history>>

----------------------------------------------------------------------------
Packet(type, code, ips) ==
  [type |-> type, code |-> code, ips |-> ips, session |-> session, no |-> sent + 1]

Error(type) ==
  [type |-> type, code |-> 0, ips |-> {}, session |-> session, no |-> 0]

Cells(pkt) == <<[pkt |-> pkt, part |-> 1], [pkt |-> pkt, part |-> 2]>>

Own == IF conn = "down" THEN NoIp ELSE Me

\* What the server and the history say of a connection ends with it.
Gone == asks' = {} /\ room' = FALSE /\ due' = {} /\ told' = {}

ConnDown ==
  /\ conn' = "down" /\ wire' = << >>
  /\ Gone /\ clean' = FALSE /\ handledNo' = sent /\ UNCHANGED sent

\* push_msg waits `while(size() > QUEUE_MAXSIZE)'.
HasRoom == Len(queue_recv) <= QueueMax

Init ==
  /\ ui = "free" /\ why = "exit" /\ boxed = FALSE /\ enabled = {"connServer"}
  /\ createmeet = FALSE /\ joinmeet = FALSE /\ partner = {}
  /\ sock = "off" /\ sockAt = "idle" /\ sockMsg = NoMsg
  /\ recvbuf = << >> /\ queue_recv = << >> /\ held = NoMsg
  /\ session = 0 /\ conn = "down" /\ wire = << >> /\ writer = "off"
  /\ asks = {} /\ room = FALSE /\ due = {} /\ sent = 0
  /\ clean = FALSE /\ handledNo = 0 /\ told = {}

----------------------------------------------------------------------------
\* The socket's thread.

\* A packet is complete at the front of the buffer.
Complete(buf) ==
  /\ Len(buf) > 1
  /\ buf[1].part = 1 /\ buf[2].part = 2 /\ buf[1].pkt = buf[2].pkt

\* The front is no packet's beginning, or its head announces the length of a
\* packet whose rest never came.
Broken(buf) ==
  /\ buf # << >> /\ ~Complete(buf)
  /\ buf[1].part = 2 \/ Len(buf) > 1

From(buf, n) == SubSeq(buf, n, Len(buf))

\* faulty: what follows the packet is dropped with it
KeptNone(buf) == << >>

Kept(buf) == From(buf, 3)

\* One notification of readyRead: all that has arrived is read, and one packet
\* at most is taken from the front.  Of a broken front some bytes are dropped
\* ("package error"), or more are waited for.
ReadyRead ==
  /\ sock # "off" /\ sockAt = "idle" /\ wire # << >>
  /\ \E n \in 1..Len(wire) :
       LET buf == recvbuf \o SubSeq(wire, 1, n)
       IN  /\ wire' = From(wire, n + 1)
           /\ \/ /\ Complete(buf)
                 /\ sockMsg' = buf[1].pkt /\ sockAt' = "push"
                 /\ recvbuf' = Kept(buf)
              \/ /\ ~Complete(buf) /\ recvbuf' = buf
                 /\ UNCHANGED <<sockAt, sockMsg>>
              \/ /\ Broken(buf)
                 /\ \E k \in 1..Len(buf) : recvbuf' = From(buf, k + 1)
                 /\ UNCHANGED <<sockAt, sockMsg>>
  /\ UNCHANGED <<ui, why, boxed, enabled, widget, sock, queue_recv, held, session,
                 conn, writer, server, history>>

\* AudioOutput::run has ended and audio_recv is full: the push of an AUDIO_RECV
\* does not return.
SoundBlocks ==
  /\ sock # "off" /\ sockAt = "idle" /\ conn # "down"
  /\ sockAt' = "sound"
  /\ UNCHANGED <<ui, why, boxed, enabled, widget, sock, sockMsg, recvbuf, queue_recv,
                 held, session, conn, wire, writer, server, history>>

\* errorDetect, with the error that ends the connection.
ErrorDetect(type) ==
  /\ sock # "off" /\ sockAt = "idle"
  /\ sockMsg' = Error(type) /\ sockAt' = "push"
  /\ ConnDown
  /\ UNCHANGED <<ui, why, boxed, enabled, widget, sock, recvbuf, queue_recv, held,
                 session, writer>>

\* The server has closed the connection, and all it sent before was read.
RemoteClosed ==
  conn = "closing" /\ wire = << >> /\ ErrorDetect("RemoteHostClosedError")

NetworkFails == conn # "down" /\ ErrorDetect("OtherNetError")

PushMsg ==
  /\ HasRoom
  /\ queue_recv' = Append(queue_recv, sockMsg)
  /\ sockAt' = "idle" /\ sockMsg' = NoMsg
  /\ UNCHANGED <<why, boxed, enabled, widget, sock, recvbuf, held, session,
                 conn, wire, writer, server, history>>

PushRecv == sockAt = "push" /\ PushMsg /\ UNCHANGED ui

\* The event loop ends, and the slot of finished() closes the socket.
CloseSocket ==
  /\ sock = "quit" /\ sockAt = "idle"
  /\ sock' = "off" /\ ConnDown
  /\ UNCHANGED <<ui, why, boxed, enabled, widget, socket, queue_recv, held, session,
                 writer>>

----------------------------------------------------------------------------
\* connectServer, which the GUI has the socket's thread call, and waits for.

Connecting == ui = "connect" /\ sock = "on" /\ sockAt = "idle"

\* The connection is made: connectToServer starts run(), and the slot opens a box.
Connected ==
  /\ Connecting
  /\ conn' = "up" /\ wire' = << >> /\ ui' = "free"
  /\ writer' = IF writer = "off" THEN "start" ELSE writer
  /\ enabled' = (enabled \ {"exitmeetBtn"}) \cup {"createmeetBtn", "joinmeetBtn"}
  /\ boxed' = TRUE
  /\ clean' = (recvbuf = << >> /\ queue_recv = << >> /\ held = NoMsg /\ partner = {})
  /\ UNCHANGED <<why, widget, sock, socket, queue_recv, held, session, server,
                 handledNo, told>>

\* The five seconds are over, and nothing is told.
ConnTimeout ==
  /\ Connecting
  /\ ui' = "free"
  /\ UNCHANGED <<why, boxed, enabled, widget, sock, socket, queue_recv, held, session,
                 conn, wire, writer, server, history>>

\* The attempt fails, and errorDetect is called within connectServer.
ConnFails ==
  /\ Connecting
  /\ sockMsg' = Error("OtherNetError") /\ sockAt' = "refused"
  /\ UNCHANGED <<ui, why, boxed, enabled, widget, sock, recvbuf, queue_recv, held,
                 session, conn, wire, writer, server, history>>

PushRefused == sockAt = "refused" /\ PushMsg /\ ui' = "free"

Connect == Connected \/ ConnTimeout \/ ConnFails \/ PushRefused

SockThread == ReadyRead \/ RemoteClosed \/ PushRecv \/ CloseSocket \/ Connect

----------------------------------------------------------------------------
\* MyTcpSocket::run, as far as its end goes.  Its first statement makes it forget
\* whatever it was told before.

RunStarts ==
  /\ writer = "start" /\ writer' = "on"
  /\ UNCHANGED <<ui, why, boxed, enabled, widget, sock, socket, queue_recv, held,
                 session, conn, wire, server, history>>

RunEnds ==
  /\ writer = "told" /\ writer' = "off"
  /\ UNCHANGED <<ui, why, boxed, enabled, widget, sock, socket, queue_recv, held,
                 session, conn, wire, server, history>>

Writer == RunStarts \/ RunEnds

----------------------------------------------------------------------------
\* RecvSolve::run: one message at a time; it waits until datasolve() is done.
Solve ==
  /\ held = NoMsg /\ queue_recv # << >>
  /\ held' = Head(queue_recv) /\ queue_recv' = Tail(queue_recv)
  /\ UNCHANGED <<ui, why, boxed, enabled, widget, sock, socket, session, conn, wire,
                 writer, server, history>>

----------------------------------------------------------------------------
\* Widget::datasolve, one action for the messages that are dealt with alike.

Given(types) == ui = "free" /\ held # NoMsg /\ held.type \in types

HandledNo == IF conn # "down" /\ held.session = session /\ held.no > 0
             THEN held.no ELSE handledNo

Dealt == held' = NoMsg /\ handledNo' = HandledNo

\* addPartner, once for each address.
AddPartners(ips) == partner' = partner \cup ips

RemovePartnerNot(ip) == partner' = partner         \* faulty: the entry stays in

RemovePartner(ip) == partner' = partner \ {ip}

ClearPartnerNot == partner' = partner              \* faulty: the list is kept

ClearPartner == partner' = {}

CreateResponse ==
  /\ Given({"CREATE_MEETING_RESPONSE"})
  /\ IF held.code # 0
     THEN /\ enabled' = (enabled \cup {"exitmeetBtn"}) \ {"joinmeetBtn"}
          /\ createmeet' = TRUE
          /\ AddPartners({Own})
     ELSE /\ enabled' = enabled \cup {"createmeetBtn"}
          /\ createmeet' = FALSE
          /\ UNCHANGED partner
  /\ Dealt
  /\ UNCHANGED <<ui, why, boxed, joinmeet, sock, socket, queue_recv, session, conn,
                 wire, writer, server, clean, told>>

\* 0 says that there is no such meeting, -1 that it is full.
JoinResponse ==
  /\ Given({"JOIN_MEETING_RESPONSE"})
  /\ \/ /\ held.code = 0
        /\ enabled' = (enabled \ {"exitmeetBtn", "connServer"}) \cup {"joinmeetBtn"}
        /\ joinmeet' = FALSE
        /\ UNCHANGED partner
     \/ /\ held.code = -1
        /\ UNCHANGED <<enabled, joinmeet, partner>>
     \/ /\ held.code > 0
        /\ enabled' = (enabled \cup {"exitmeetBtn"}) \ {"joinmeetBtn", "createmeetBtn"}
        /\ joinmeet' = TRUE
        /\ AddPartners({Own})
  /\ Dealt
  /\ UNCHANGED <<ui, why, boxed, createmeet, sock, socket, queue_recv, session, conn,
                 wire, writer, server, clean, told>>

PartnersCome ==
  /\ Given({"PARTNER_JOIN"})
  /\ AddPartners(held.ips)
  /\ Dealt
  /\ UNCHANGED <<ui, why, boxed, enabled, createmeet, joinmeet, sock, socket,
                 queue_recv, session, conn, wire, writer, server, clean, told>>

PartnerExit ==
  /\ Given({"PARTNER_EXIT"})
  /\ \E ip \in held.ips : RemovePartner(ip)
  /\ Dealt
  /\ UNCHANGED <<ui, why, boxed, enabled, createmeet, joinmeet, sock, socket,
                 queue_recv, session, conn, wire, writer, server, clean, told>>

Text ==
  /\ Given({"TEXT_RECV"})
  /\ Dealt
  /\ UNCHANGED <<ui, why, boxed, enabled, widget, sock, socket, queue_recv, session,
                 conn, wire, writer, server, clean, told>>

QuitForgotten == UNCHANGED sock                \* faulty: the wait alone

\* disconnectFromHost asks the socket's thread to end and waits for it.
QuitSock == sock' = IF sock = "off" THEN "off" ELSE "quit"

\* It clears m_isCanRun before; a run() that has not begun will set it again.
StopRun == writer' = IF writer = "on" THEN "told" ELSE writer

Leave(reason) ==
  /\ ui = "free" /\ ui' = "quit" /\ why' = reason
  /\ ClearPartner /\ StopRun /\ QuitSock

\* Either error ends the session; RecvSolve waits until that is through.
NetError ==
  /\ Given(Errors) /\ Leave(held.type)
  /\ UNCHANGED <<boxed, enabled, createmeet, joinmeet, socket, queue_recv, held,
                 session, conn, wire, server, history>>

Datasolve ==
  CreateResponse \/ JoinResponse \/ PartnersCome \/ PartnerExit \/ Text \/ NetError

\* faulty: the queue is cleared before the wait, here not at all
ClearedEarly == UNCHANGED queue_recv

Cleared == queue_recv' = << >>

\* The rest of disconnectFromHost; the slot that called it waits for run() next.
Disconnected ==
  /\ ui = "quit" /\ sock = "off"
  /\ Cleared
  /\ ui' = "join"
  /\ UNCHANGED <<why, boxed, enabled, widget, sock, socket, held, session, conn, wire,
                 writer, server, history>>

\* The rest of that slot.
Joined ==
  /\ ui = "join" /\ writer = "off"
  /\ ui' = "free" /\ why' = "exit"
  /\ enabled' = CASE why = "exit" -> enabled \cup {"connServer"}
                  [] why = "RemoteHostClosedError" -> {"connServer"}
                  [] why = "OtherNetError" -> enabled
  /\ held' = IF why = "exit" THEN held ELSE NoMsg
  /\ UNCHANGED <<boxed, widget, sock, socket, queue_recv, session, conn, wire, writer,
                 server, history>>

----------------------------------------------------------------------------
\* The user.

UserMayClick(button) == ui = "free" /\ ~boxed /\ button \in enabled

\* connectToServer starts the socket's thread and waits for connectServer; recvbuf
\* is left as it is.
ConnServer ==
  /\ UserMayClick("connServer") /\ session < MaxAttempts
  /\ sock # "quit"
  /\ session' = session + 1
  /\ sock' = "on" /\ ui' = "connect"
  /\ UNCHANGED <<why, boxed, enabled, widget, socket, queue_recv, held, conn, wire,
                 writer, server, history>>

CloseBoxOnly == boxed' = FALSE /\ UNCHANGED enabled      \* faulty: stays enabled

BoxClosed == boxed' = FALSE /\ enabled' = enabled \ {"connServer"}

\* The message box of the connect, and what the slot does after it.
CloseBox ==
  /\ boxed /\ ui = "free"
  /\ BoxClosed
  /\ UNCHANGED <<ui, why, widget, sock, socket, queue_recv, held, session, conn, wire,
                 writer, server, history>>

Ask(what) == asks' = IF conn = "up" THEN asks \cup {what} ELSE asks

CreateMeet ==
  /\ UserMayClick("createmeetBtn") /\ ~createmeet
  /\ enabled' = enabled \ {"createmeetBtn", "exitmeetBtn"}
  /\ Ask("create")
  /\ UNCHANGED <<ui, why, boxed, widget, sock, socket, queue_recv, held, session, conn,
                 wire, writer, room, due, sent, history>>

JoinMeet ==
  /\ UserMayClick("joinmeetBtn")
  /\ Ask("join")
  /\ UNCHANGED <<ui, why, boxed, enabled, widget, sock, socket, queue_recv, held,
                 session, conn, wire, writer, room, due, sent, history>>

ExitMeet ==
  /\ UserMayClick("exitmeetBtn") /\ Leave("exit")
  /\ enabled' = enabled \ {"createmeetBtn", "exitmeetBtn"}
  /\ createmeet' = FALSE /\ joinmeet' = FALSE
  /\ UNCHANGED <<boxed, socket, queue_recv, held, session, conn, wire, server, history>>

User == ConnServer \/ CloseBox \/ CreateMeet \/ JoinMeet \/ ExitMeet

----------------------------------------------------------------------------
\* The server, as the dispatcher and a room show themselves to one client.

\* What a packet makes of a list of partners.
Tells(list, type, code, ips) ==
  CASE type \in Responses /\ code = 1 -> list \cup {Me}
    [] type = "PARTNER_JOIN" -> list \cup ips
    [] type = "PARTNER_EXIT" -> list \ ips
    [] OTHER -> list

Send(type, code, ips) ==
  /\ conn = "up" /\ sent < MaxPackets
  /\ wire' = wire \o Cells(Packet(type, code, ips))
  /\ sent' = sent + 1
  /\ told' = Tells(told, type, code, ips)
  /\ UNCHANGED <<ui, why, boxed, enabled, widget, sock, socket, queue_recv, held,
                 session, conn, writer, clean, handledNo>>

\* The dispatcher has no room, or no such room, or a full one.
Refuse ==
  /\ ~room
  /\ \/ /\ "create" \in asks /\ asks' = asks \ {"create"}
        /\ Send("CREATE_MEETING_RESPONSE", 0, {})
     \/ /\ "join" \in asks /\ asks' = asks \ {"join"}
        /\ \E code \in {0, -1} : Send("JOIN_MEETING_RESPONSE", code, {})
  /\ UNCHANGED <<room, due>>

\* The dispatcher hands the connection to a room.  Who answers, the room's thread
\* to a create and the dispatcher to a join, is not the first to write: others of
\* the room may be.
Admit ==
  /\ conn = "up" /\ ~room /\ room' = TRUE
  /\ \/ /\ "create" \in asks /\ asks' = asks \ {"create"}
        /\ due' = {"CREATE_MEETING_RESPONSE"}
     \/ /\ "join" \in asks /\ asks' = asks \ {"join"}
        /\ due' = {"JOIN_MEETING_RESPONSE"}
  /\ UNCHANGED <<ui, why, boxed, enabled, widget, sock, socket, queue_recv, held,
                 session, conn, wire, writer, sent, history>>

SendDue ==
  /\ \E type \in due : due' = due \ {type} /\ Send(type, 1, {})
  /\ UNCHANGED <<asks, room>>

\* News of the room, of anybody in any order.
SendNews ==
  /\ room
  /\ \/ \E ips \in SUBSET Others \ {{}} : Send("PARTNER_JOIN", 0, ips)
     \/ \E ip \in Others : Send("PARTNER_EXIT", 0, {ip})
     \/ Send("TEXT_RECV", 0, {})
  /\ UNCHANGED <<asks, room, due>>

ServerCloses ==
  /\ conn = "up"
  /\ conn' = "closing" /\ Gone
  /\ UNCHANGED <<ui, why, boxed, enabled, widget, sock, socket, queue_recv, held,
                 session, wire, writer, sent, clean, handledNo>>

Server == Refuse \/ Admit \/ SendDue \/ SendNews \/ ServerCloses

----------------------------------------------------------------------------
Gui == Datasolve \/ Disconnected \/ Joined

Next ==
  SockThread \/ NetworkFails \/ SoundBlocks \/ Writer \/ Solve \/ Gui \/ User \/ Server

Spec == Init /\ [][Next]_vars

\* Every thread of the client runs when it can, an attempt to connect ends, and the
\* boxes datasolve shows are closed; the user, the server and the network need not
\* do anything.
Fairness == WF_vars(SockThread) /\ WF_vars(Writer) /\ WF_vars(Solve) /\ WF_vars(Gui)

LiveSpec == Spec /\ Fairness

----------------------------------------------------------------------------
GuiType ==
  /\ ui \in {"free", "connect", "quit", "join"} /\ why \in {"exit"} \cup Errors
  /\ boxed \in BOOLEAN
  /\ enabled \subseteq Buttons /\ createmeet \in BOOLEAN /\ joinmeet \in BOOLEAN
  /\ partner \subseteq Ips

SocketType ==
  /\ sockAt \in {"idle", "push", "refused", "sound"} /\ sockMsg \in Msg \cup {NoMsg}
  /\ sockAt \in {"push", "refused"} <=> sockMsg # NoMsg
  /\ recvbuf \in Seq(Cell)

ConnType ==
  /\ sock \in {"off", "on", "quit"} /\ conn \in {"down", "up", "closing"}
  /\ sock = "off" => conn = "down"
  /\ session \in 0..MaxAttempts /\ wire \in Seq(Cell)
  /\ writer \in {"off", "start", "on", "told"}

RecvType ==
  /\ queue_recv \in Seq(Msg) /\ Len(queue_recv) <= QueueMax + 1
  /\ held \in Msg \cup {NoMsg}
  /\ ui \in {"quit", "join"} /\ why \in Errors => held # NoMsg

ServerType ==
  /\ asks \subseteq {"create", "join"} /\ room \in BOOLEAN
  /\ due \subseteq Responses /\ sent \in 0..MaxPackets

HistoryType ==
  clean \in BOOLEAN /\ handledNo \in 0..MaxPackets /\ told \subseteq Ips

\* Every variable has its type, a push at hand its message, and a session that
\* ends for an error the message of it.
TypeOK == GuiType /\ SocketType /\ ConnType /\ RecvType /\ ServerType /\ HistoryType

Opt(msg) == IF msg = NoMsg THEN << >> ELSE <<msg>>

\* The messages between the stream and datasolve, and the stream.
Msgs == Opt(held) \o queue_recv \o Opt(sockMsg)

Stream == recvbuf \o wire

\* The place of a cell in all that the server wrote.
Place(cell) == 2 * (cell.pkt.no - 1) + cell.part

InOrder(msgs, n) == \A i \in DOMAIN msgs : msgs[i].no = n + i

InPlace(cells, n) == \A i \in DOMAIN cells : Place(cells[i]) = n + i

\* As long as the connection lasts, no packet is lost, doubled or overtaken on
\* its way through four buffers and three threads, however the stream is cut
\* into reads; provided nothing of an earlier session was left in them.
NothingLost ==
  clean /\ conn # "down" =>
    /\ InOrder(Msgs, handledNo)
    /\ InPlace(Stream, 2 * (handledNo + Len(Msgs)))
    /\ Len(Stream) = 2 * (sent - handledNo - Len(Msgs))

\* disconnectFromHost waits for the socket's thread before it clears the queue:
\* when it returns, one message at most, RecvSolve's, outlives the session.
OfflineEmpty ==
  sock = "off" /\ ui = "free" => queue_recv = << >> /\ sockMsg = NoMsg

\* Once all the server sent has been dealt with, the list of partners is what its
\* packets make of an empty list, in the order they were sent: an address is in it
\* if and only if the last packet about it was not a PARTNER_EXIT.
ListAsTold ==
  clean /\ conn = "up" /\ ui = "free" /\ handledNo = sent => partner = told

\* The user cannot connect twice: the button is off until the connection is down.
ConnectsOnce == "connServer" \in enabled /\ ui = "free" /\ ~boxed => conn = "down"

\* Three threads wait for each other: the GUI for the socket's thread, that one
\* for room in the queue, RecvSolve for the GUI.
Stuck ==
  ui \in {"connect", "quit"} /\ sockAt \in {"push", "refused"} /\ ~HasRoom /\ held # NoMsg

\* run() never sees the stop that the GUI waits for.
StopLost == ui \in {"quit", "join"} /\ writer \in {"start", "on"}

\* A slot that waits, for a connection or the end of a session, goes on, unless the
\* three threads are stuck on a full queue_recv, the stop came before run() had
\* begun, or the socket's thread waits for room in audio_recv for ever.
WaitsEnd == ui # "free" ~> (ui = "free" \/ Stuck \/ StopLost \/ sockAt = "sound")

\* The server's closing is noticed: the session ends and the list is emptied,
\* behind everything that was received before, unless one of two full queues holds
\* the socket's thread.
CloseNoticed ==
  conn = "closing" ~> (Stuck \/ sockAt = "sound" \/ (sock = "off" /\ partner = {}))

\* "to make sure that all can be received" (mytcpsocket.cpp:472): a packet that
\* lies complete in recvbuf is taken from it while the connection lasts and the
\* socket's thread is not held by audio_recv.
AllTakenIn ==
  (conn = "up" /\ Complete(recvbuf))
  ~> (conn # "up" \/ ~Complete(recvbuf) \/ sockAt = "sound")
=============================================================================
