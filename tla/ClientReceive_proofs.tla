------------------------- MODULE ClientReceive_proofs -------------------------
(***************************************************************************)
(* Theorems about the receiving half of a client, for any number of other  *)
(* users, sessions and packets and any bound of its queue: its type        *)
(* invariant, that a session leaves nothing in the queue, that nobody      *)
(* connects twice, that no packet is lost, doubled or overtaken between    *)
(* the server and datasolve, and that the list of partners is what the     *)
(* packets tell.                                                           *)
(***************************************************************************)
EXTENDS ClientReceive, SequenceTheorems, TLAPS

\* What a step leaves alone keeps its type.
LEMMA Frames ==
  /\ GuiType /\ UNCHANGED <<ui, why, boxed, enabled, widget>> => GuiType'
  /\ SocketType /\ UNCHANGED socket => SocketType'
  /\ ConnType /\ UNCHANGED <<sock, conn, session, wire, writer>> => ConnType'
  /\ RecvType /\ UNCHANGED <<ui, why, queue_recv, held>> => RecvType'
  /\ ServerType /\ UNCHANGED server => ServerType'
  /\ HistoryType /\ UNCHANGED history => HistoryType'
BY DEF GuiType, SocketType, ConnType, RecvType, ServerType, HistoryType, widget, socket,
       server, history

\* Packets and the client's own errors are messages.
LEMMA MsgTyped ==
  ASSUME ConnType, ServerType
  PROVE  /\ \A type \in MsgTypes, code \in -1..1, ips \in SUBSET Ips :
              sent < MaxPackets => Packet(type, code, ips) \in Msg
         /\ \A type \in Errors : Error(type) \in Msg /\ Error(type) # NoMsg
<1>1. sent \in 0..MaxPackets /\ MaxPackets \in Nat /\ session \in 0..MaxAttempts
  BY ClientAssumption DEF ConnType, ServerType
<1>2. ASSUME NEW type \in MsgTypes, NEW code \in -1..1, NEW ips \in SUBSET Ips,
             sent < MaxPackets
      PROVE  Packet(type, code, ips) \in Msg
  <2>1. sent + 1 \in 0..MaxPackets
    BY <1>1, <1>2
  <2> QED
    BY <1>1, <1>2, <2>1 DEF Packet, Msg
<1>3. ASSUME NEW type \in Errors PROVE Error(type) \in Msg
  <2>1. type \in MsgTypes /\ 0 \in -1..1 /\ {} \in SUBSET Ips /\ 0 \in 0..MaxPackets
    BY <1>1, <1>3 DEF MsgTypes
  <2> QED
    BY <1>1, <2>1 DEF Error, Msg
<1> QED
  BY <1>2, <1>3, NoMsgAssumption

\* The two cells of a packet.
LEMMA CellsTyped == ASSUME NEW pkt \in Msg PROVE Cells(pkt) \in Seq(Cell)
<1>1. [pkt |-> pkt, part |-> 1] \in Cell /\ [pkt |-> pkt, part |-> 2] \in Cell
  BY DEF Cell
<1> QED
  BY <1>1 DEF Cells

\* What follows in a stream is a stream, and a complete packet a message.
LEMMA StreamTyped ==
  ASSUME NEW buf \in Seq(Cell)
  PROVE  /\ \A n \in Nat \ {0} : From(buf, n) \in Seq(Cell)
         /\ Complete(buf) => buf[1].pkt \in Msg
<1>1. \A n \in Nat \ {0} : From(buf, n) \in Seq(Cell)
  BY DEF From
<1>2. ASSUME Complete(buf) PROVE buf[1].pkt \in Msg
  <2>1. 1 \in DOMAIN buf
    BY <1>2 DEF Complete
  <2>2. buf[1] \in Cell
    BY <2>1
  <2> QED
    BY <2>2 DEF Cell
<1> QED
  BY <1>1, <1>2

\* What the server sends changes the stream only.
LEMMA SendTyped ==
  ASSUME TypeOK, NEW type \in MsgTypes, NEW code \in -1..1, NEW ips \in SUBSET Ips,
         Send(type, code, ips)
  PROVE  /\ GuiType' /\ SocketType' /\ ConnType' /\ RecvType' /\ HistoryType'
         /\ sent' \in 0..MaxPackets
<1> USE DEF TypeOK
<1>1. Packet(type, code, ips) \in Msg
  BY MsgTyped DEF Send
<1>2. Cells(Packet(type, code, ips)) \in Seq(Cell)
  BY <1>1, CellsTyped
<1>3. wire \in Seq(Cell) /\ wire' = wire \o Cells(Packet(type, code, ips))
  BY DEF Send, ConnType
<1>4. wire' \in Seq(Cell)
  BY <1>2, <1>3
<1>5. ConnType'
  BY <1>4 DEF Send, ConnType
<1>6. sent' \in 0..MaxPackets
  BY ClientAssumption DEF Send, ServerType
<1>7. HistoryType'
  <2>1. told' \subseteq Ips
    BY DEF Send, Tells, HistoryType, Ips
  <2> QED
    BY <2>1 DEF Send, HistoryType
<1> QED
  BY <1>5, <1>6, <1>7, Frames DEF Send

\* The end of a connection.
LEMMA ConnDownTyped ==
  ASSUME TypeOK, ConnDown, UNCHANGED <<session, writer>>, sock' \in {"off", "on", "quit"}
  PROVE  ConnType' /\ ServerType' /\ HistoryType'
<1> USE ClientAssumption DEF TypeOK
<1>1. ConnType'
  BY DEF ConnDown, ConnType
<1>2. ServerType'
  <2>1. asks' = {} /\ room' = FALSE /\ due' = {} /\ sent' = sent
    BY DEF ConnDown, Gone
  <2>2. sent' \in 0..MaxPackets
    BY <2>1 DEF ServerType
  <2>3. room' \in BOOLEAN
    BY <2>1
  <2> QED
    BY <2>1, <2>2, <2>3 DEF ServerType
<1>3. HistoryType'
  <2>1. handledNo' \in 0..MaxPackets
    BY DEF ConnDown, ServerType
  <2>2. clean' \in BOOLEAN /\ told' = {}
    BY DEF ConnDown, Gone
  <2> QED
    BY <2>1, <2>2 DEF HistoryType
<1> QED
  BY <1>1, <1>2, <1>3

\* The client starts with nothing.
LEMMA InitTyped == Init => TypeOK
<1> SUFFICES ASSUME Init PROVE TypeOK
  OBVIOUS
<1> USE ClientAssumption, NoMsgAssumption
<1>1. GuiType
  BY DEF Init, GuiType, Buttons, Ips
<1>2. SocketType
  BY DEF Init, SocketType
<1>3. ConnType
  BY DEF Init, ConnType
<1>4. RecvType
  BY DEF Init, RecvType, Errors
<1>5. ServerType
  <2>1. room \in BOOLEAN
    BY DEF Init
  <2> QED
    BY <2>1 DEF Init, ServerType
<1>6. HistoryType
  <2>1. clean \in BOOLEAN
    BY DEF Init
  <2> QED
    BY <2>1 DEF Init, HistoryType
<1> QED
  BY <1>1, <1>2, <1>3, <1>4, <1>5, <1>6 DEF TypeOK

----------------------------------------------------------------------------
\* The threads.

\* One notification takes one packet at most.
LEMMA ReadTyped == TypeOK /\ ReadyRead => TypeOK'
<1> SUFFICES ASSUME TypeOK, ReadyRead PROVE TypeOK'
  OBVIOUS
<1> USE DEF TypeOK
<1>1. PICK n \in 1..Len(wire) :
        LET buf == recvbuf \o SubSeq(wire, 1, n)
        IN  /\ wire' = From(wire, n + 1)
            /\ \/ /\ Complete(buf)
                  /\ sockMsg' = buf[1].pkt /\ sockAt' = "push"
                  /\ recvbuf' = Kept(buf)
               \/ /\ ~Complete(buf) /\ recvbuf' = buf
                  /\ UNCHANGED <<sockAt, sockMsg>>
               \/ /\ Broken(buf)
                  /\ \E k \in 1..Len(buf) : recvbuf' = From(buf, k + 1)
                  /\ UNCHANGED <<sockAt, sockMsg>>
  BY DEF ReadyRead
<1> DEFINE buf == recvbuf \o SubSeq(wire, 1, n)
<1>2. buf \in Seq(Cell) /\ wire' \in Seq(Cell)
  <2>1. recvbuf \in Seq(Cell) /\ wire \in Seq(Cell)
    BY DEF SocketType, ConnType
  <2>2. SubSeq(wire, 1, n) \in Seq(Cell) /\ From(wire, n + 1) \in Seq(Cell)
    BY <2>1 DEF From
  <2> QED
    BY <1>1, <2>1, <2>2
<1> HIDE DEF buf
<1>3. ASSUME Complete(buf), sockMsg' = buf[1].pkt, sockAt' = "push", recvbuf' = Kept(buf)
      PROVE  SocketType'
  <2>1. buf[1].pkt \in Msg /\ Kept(buf) \in Seq(Cell)
    BY <1>2, <1>3, StreamTyped DEF Kept
  <2> QED
    BY <1>3, <2>1, NoMsgAssumption DEF SocketType
<1>4. ASSUME recvbuf' = buf, UNCHANGED <<sockAt, sockMsg>>
      PROVE  SocketType'
  BY <1>2, <1>4 DEF SocketType
<1>5. ASSUME \E k \in 1..Len(buf) : recvbuf' = From(buf, k + 1),
             UNCHANGED <<sockAt, sockMsg>>
      PROVE  SocketType'
  <2>1. PICK k \in 1..Len(buf) : recvbuf' = From(buf, k + 1)
    BY <1>5
  <2>2. k + 1 \in Nat \ {0} /\ UNCHANGED <<sockAt, sockMsg>>
    BY <1>2, <1>5
  <2>3. recvbuf' \in Seq(Cell)
    BY <1>2, <2>1, <2>2, StreamTyped
  <2> QED
    BY <2>2, <2>3 DEF SocketType
<1>6. SocketType'
  BY <1>1, <1>3, <1>4, <1>5 DEF buf
<1>7. ConnType'
  BY <1>2 DEF ReadyRead, ConnType
<1> QED
  BY <1>6, <1>7, Frames DEF ReadyRead

\* The other steps of the socket's thread, and RecvSolve.
LEMMA ThreadsTyped ==
  TypeOK /\ \/ RemoteClosed \/ NetworkFails \/ SoundBlocks \/ PushRecv
            \/ CloseSocket \/ Connect \/ Writer \/ Solve
  => TypeOK'
<1> SUFFICES ASSUME TypeOK, \/ RemoteClosed \/ NetworkFails \/ SoundBlocks \/ PushRecv
                            \/ CloseSocket \/ Connect \/ Writer \/ Solve
             PROVE  TypeOK'
  OBVIOUS
<1> USE DEF TypeOK
<1>1. ASSUME NEW type \in Errors, ErrorDetect(type) PROVE TypeOK'
  <2>1. Error(type) \in Msg /\ Error(type) # NoMsg
    BY MsgTyped
  <2>2. SocketType'
    BY <1>1, <2>1 DEF ErrorDetect, SocketType
  <2>3. ConnDown /\ UNCHANGED <<session, writer>> /\ sock' \in {"off", "on", "quit"}
    BY <1>1 DEF ErrorDetect, ConnType
  <2>4. ConnType' /\ ServerType' /\ HistoryType'
    BY <2>3, ConnDownTyped
  <2> QED
    BY <1>1, <2>2, <2>4, Frames DEF ErrorDetect
<1>2. CASE PushRecv \/ PushRefused
  <2>1. sockMsg \in Msg /\ PushMsg
    BY <1>2 DEF PushRecv, PushRefused, SocketType
  <2>2. RecvType'
    <3>1. (ui' = ui \/ ui' = "free") /\ UNCHANGED <<why, held>>
      BY <1>2 DEF PushRecv, PushRefused, PushMsg
    <3>2. queue_recv' \in Seq(Msg) /\ Len(queue_recv') <= QueueMax + 1
      BY <2>1, ClientAssumption DEF PushMsg, HasRoom, RecvType
    <3> QED
      BY <3>1, <3>2 DEF RecvType
  <2>3. SocketType'
    BY <2>1 DEF PushMsg, SocketType
  <2>4. GuiType'
    <3>1. ui' \in {ui, "free"} /\ UNCHANGED <<why, boxed, enabled, createmeet, joinmeet, partner>>
      BY <1>2 DEF PushRecv, PushRefused, PushMsg, widget
    <3> QED
      BY <3>1 DEF GuiType
  <2> QED
    BY <2>1, <2>2, <2>3, <2>4, Frames DEF PushMsg
<1>3. CASE CloseSocket
  <2>1. ConnDown /\ UNCHANGED <<session, writer>> /\ sock' \in {"off", "on", "quit"}
    BY <1>3 DEF CloseSocket
  <2>2. ConnType' /\ ServerType' /\ HistoryType'
    BY <2>1, ConnDownTyped
  <2> QED
    BY <1>3, <2>2, Frames DEF CloseSocket
<1>4. CASE Solve
  <2>1. Head(queue_recv) \in Msg /\ Tail(queue_recv) \in Seq(Msg)
    BY <1>4 DEF Solve, RecvType
  <2>2. held' \in Msg /\ queue_recv' \in Seq(Msg) /\ ui' = ui
    BY <1>4, <2>1 DEF Solve
  <2>3. Len(queue_recv') <= QueueMax + 1
    BY <1>4, <2>1, ClientAssumption DEF Solve, RecvType
  <2>4. RecvType'
    BY <2>2, <2>3, NoMsgAssumption DEF RecvType
  <2> QED
    BY <1>4, <2>4, Frames DEF Solve
<1>5. CASE SoundBlocks
  <2>1. SocketType'
    BY <1>5 DEF SoundBlocks, SocketType
  <2> QED
    BY <1>5, <2>1, Frames DEF SoundBlocks
<1>6. CASE Connected
  <2>1. ConnType'
    <3>1. wire' \in Seq(Cell) /\ writer' \in {"off", "start", "on", "told"}
      BY <1>6 DEF Connected, ConnType
    <3>2. sock # "off"
      BY <1>6 DEF Connected, Connecting
    <3> QED
      BY <1>6, <3>1, <3>2 DEF Connected, ConnType
  <2>2. GuiType'
    <3>1. enabled' \subseteq Buttons /\ boxed' \in BOOLEAN /\ ui' = "free"
      BY <1>6 DEF Connected, GuiType, Buttons
    <3>2. UNCHANGED <<why, createmeet, joinmeet, partner>>
      BY <1>6 DEF Connected, widget
    <3> QED
      BY <3>1, <3>2 DEF GuiType
  <2>3. HistoryType'
    <3>1. clean' \in BOOLEAN /\ UNCHANGED <<handledNo, told>>
      BY <1>6 DEF Connected
    <3> QED
      BY <3>1 DEF HistoryType
  <2>4. RecvType'
    BY <1>6 DEF Connected, RecvType
  <2> QED
    BY <1>6, <2>1, <2>2, <2>3, <2>4, Frames DEF Connected
<1>7. CASE ConnTimeout
  <2>1. GuiType'
    BY <1>7 DEF ConnTimeout, GuiType, widget
  <2>2. RecvType'
    BY <1>7 DEF ConnTimeout, RecvType
  <2> QED
    BY <1>7, <2>1, <2>2, Frames DEF ConnTimeout
<1>8. CASE ConnFails
  <2>1. Error("OtherNetError") \in Msg /\ Error("OtherNetError") # NoMsg
    BY MsgTyped DEF Errors
  <2>2. SocketType'
    BY <1>8, <2>1 DEF ConnFails, SocketType
  <2> QED
    BY <1>8, <2>2, Frames DEF ConnFails
<1>9. CASE Writer
  <2>1. ConnType'
    BY <1>9 DEF Writer, RunStarts, RunEnds, ConnType
  <2> QED
    BY <1>9, <2>1, Frames DEF Writer, RunStarts, RunEnds
<1> QED
  BY <1>1, <1>2, <1>3, <1>4, <1>5, <1>6, <1>7, <1>8, <1>9
  DEF RemoteClosed, NetworkFails, Errors, Connect

----------------------------------------------------------------------------
\* The GUI.

\* What the history makes of a message that has been dealt with.
LEMMA DealtTyped ==
  ASSUME TypeOK, held \in Msg, ui = "free", Dealt,
         UNCHANGED <<ui, queue_recv, clean, told>>
  PROVE  RecvType' /\ HistoryType'
<1>1. RecvType'
  BY DEF TypeOK, RecvType, Dealt, Errors
<1>2. handledNo' \in 0..MaxPackets
  BY DEF TypeOK, HistoryType, Dealt, HandledNo, Msg
<1>3. HistoryType'
  BY <1>2 DEF TypeOK, HistoryType
<1> QED
  BY <1>1, <1>3

\* Widget::datasolve.
LEMMA DatasolveTyped == TypeOK /\ Datasolve => TypeOK'
<1> SUFFICES ASSUME TypeOK, Datasolve PROVE TypeOK'
  OBVIOUS
<1> USE DEF TypeOK
<1>1. held \in Msg /\ ui = "free"
  BY DEF Datasolve, CreateResponse, JoinResponse, PartnersCome, PartnerExit, Text,
         NetError, Given, RecvType
<1>2. Own \in Ips /\ held.ips \subseteq Ips
  BY <1>1 DEF Own, Ips, Msg
<1>3. CASE CreateResponse
  <2>1. enabled' \subseteq Buttons /\ partner' \subseteq Ips
    BY <1>2, <1>3 DEF CreateResponse, AddPartners, GuiType, Buttons
  <2>2. createmeet' \in BOOLEAN /\ UNCHANGED <<ui, why, boxed, joinmeet>>
    BY <1>3 DEF CreateResponse
  <2>3. GuiType'
    BY <2>1, <2>2 DEF GuiType
  <2>4. RecvType' /\ HistoryType'
    BY <1>1, <1>3, DealtTyped DEF CreateResponse
  <2> QED
    BY <1>3, <2>3, <2>4, Frames DEF CreateResponse
<1>4. CASE JoinResponse
  <2>1. enabled' \subseteq Buttons /\ partner' \subseteq Ips
    BY <1>2, <1>4 DEF JoinResponse, AddPartners, GuiType, Buttons
  <2>2. joinmeet' \in BOOLEAN /\ UNCHANGED <<ui, why, boxed, createmeet>>
    BY <1>4 DEF JoinResponse, GuiType
  <2>3. GuiType'
    BY <2>1, <2>2 DEF GuiType
  <2>4. RecvType' /\ HistoryType'
    BY <1>1, <1>4, DealtTyped DEF JoinResponse
  <2> QED
    BY <1>4, <2>3, <2>4, Frames DEF JoinResponse
<1>5. CASE PartnersCome
  <2>1. GuiType'
    BY <1>2, <1>5 DEF PartnersCome, AddPartners, GuiType
  <2>2. RecvType' /\ HistoryType'
    BY <1>1, <1>5, DealtTyped DEF PartnersCome
  <2> QED
    BY <1>5, <2>1, <2>2, Frames DEF PartnersCome
<1>6. CASE PartnerExit
  <2>1. GuiType'
    BY <1>6 DEF PartnerExit, RemovePartner, GuiType
  <2>2. RecvType' /\ HistoryType'
    BY <1>1, <1>6, DealtTyped DEF PartnerExit
  <2> QED
    BY <1>6, <2>1, <2>2, Frames DEF PartnerExit
<1>7. CASE Text
  <2>1. RecvType' /\ HistoryType'
    BY <1>1, <1>7, DealtTyped DEF Text
  <2> QED
    BY <1>7, <2>1, Frames DEF Text
<1>8. CASE NetError
  <2>1. /\ ui' = "quit" /\ why' \in Errors /\ partner' = {}
        /\ UNCHANGED <<boxed, enabled, createmeet, joinmeet>>
    BY <1>8 DEF NetError, Given, Leave, ClearPartner
  <2>2. GuiType'
    BY <2>1 DEF GuiType
  <2>3. RecvType'
    BY <1>1, <1>8, NoMsgAssumption DEF NetError, RecvType
  <2>4. ConnType'
    BY <1>8 DEF NetError, Leave, StopRun, QuitSock, ConnType
  <2> QED
    BY <1>8, <2>2, <2>3, <2>4, Frames DEF NetError
<1> QED
  BY <1>3, <1>4, <1>5, <1>6, <1>7, <1>8 DEF Datasolve

\* The end of a session, and the user.
LEMMA UserTyped == TypeOK /\ (Disconnected \/ Joined \/ User) => TypeOK'
<1> SUFFICES ASSUME TypeOK, Disconnected \/ Joined \/ User PROVE TypeOK'
  OBVIOUS
<1> USE DEF TypeOK
<1>1. CASE Disconnected
  <2>1. GuiType'
    BY <1>1 DEF Disconnected, GuiType, widget
  <2>2. RecvType'
    BY <1>1, ClientAssumption DEF Disconnected, Cleared, RecvType
  <2> QED
    BY <1>1, <2>1, <2>2, Frames DEF Disconnected
<1>2. CASE ConnServer
  <2>1. session' \in 0..MaxAttempts
    BY <1>2, ClientAssumption DEF ConnServer, ConnType
  <2>2. ConnType'
    BY <1>2, <2>1 DEF ConnServer, ConnType
  <2>3. GuiType'
    BY <1>2 DEF ConnServer, GuiType, widget
  <2>4. RecvType'
    BY <1>2 DEF ConnServer, RecvType
  <2> QED
    BY <1>2, <2>2, <2>3, <2>4, Frames DEF ConnServer
<1>3. CASE Joined
  <2>1. enabled' \subseteq Buttons
    BY <1>3 DEF Joined, GuiType, Buttons, Errors
  <2>2. ui' = "free" /\ why' = "exit" /\ UNCHANGED <<boxed, createmeet, joinmeet, partner>>
    BY <1>3 DEF Joined, widget
  <2>3. GuiType'
    BY <2>1, <2>2 DEF GuiType
  <2>4. held' \in Msg \cup {NoMsg} /\ UNCHANGED queue_recv
    BY <1>3 DEF Joined, RecvType
  <2>5. RecvType'
    BY <2>2, <2>4 DEF RecvType
  <2> QED
    BY <1>3, <2>3, <2>5, Frames DEF Joined
<1>4. CASE CloseBox
  <2>1. boxed' \in BOOLEAN /\ UNCHANGED <<ui, why, createmeet, joinmeet, partner>>
    BY <1>4 DEF CloseBox, BoxClosed, widget
  <2>2. enabled' \subseteq Buttons
    BY <1>4 DEF CloseBox, BoxClosed, GuiType
  <2>3. GuiType'
    BY <2>1, <2>2 DEF GuiType
  <2> QED
    BY <1>4, <2>3, Frames DEF CloseBox
<1>5. CASE CreateMeet \/ JoinMeet
  <2>1. GuiType'
    BY <1>5 DEF CreateMeet, JoinMeet, GuiType, widget
  <2>2. asks' \subseteq {"create", "join"} /\ UNCHANGED <<room, due, sent>>
    BY <1>5 DEF CreateMeet, JoinMeet, Ask, ServerType
  <2>3. ServerType'
    BY <2>2 DEF ServerType
  <2> QED
    BY <1>5, <2>1, <2>3, Frames DEF CreateMeet, JoinMeet
<1>6. CASE ExitMeet
  <2>1. /\ ui' = "quit" /\ why' = "exit" /\ enabled' \subseteq enabled
        /\ createmeet' = FALSE /\ joinmeet' = FALSE /\ partner' = {} /\ boxed' = boxed
    BY <1>6 DEF ExitMeet, Leave, ClearPartner
  <2>2. createmeet' \in BOOLEAN /\ joinmeet' \in BOOLEAN
    BY <2>1
  <2>3. GuiType'
    BY <2>1, <2>2 DEF GuiType
  <2>4. RecvType'
    BY <1>6, <2>1 DEF ExitMeet, RecvType, Errors
  <2>5. ConnType'
    BY <1>6 DEF ExitMeet, Leave, StopRun, QuitSock, ConnType
  <2> QED
    BY <1>6, <2>3, <2>4, <2>5, Frames DEF ExitMeet
<1> QED
  BY <1>1, <1>2, <1>3, <1>4, <1>5, <1>6 DEF User

----------------------------------------------------------------------------
\* The steps of the server that write a packet.
Writes == Refuse \/ SendDue \/ SendNews

\* Each of them writes one, of a type, a code and addresses that packets have.
LEMMA WritesSend ==
  ASSUME TypeOK, Writes
  PROVE  \E type \in MsgTypes, code \in -1..1, ips \in SUBSET Ips :
           /\ Send(type, code, ips)
           /\ type = "PARTNER_EXIT" => \E ip \in Others : ips = {ip}
           /\ type = "CREATE_MEETING_RESPONSE" => code # -1
<1>1. /\ {"CREATE_MEETING_RESPONSE", "JOIN_MEETING_RESPONSE", "PARTNER_JOIN",
          "PARTNER_EXIT", "TEXT_RECV"} \subseteq MsgTypes
      /\ {} \in SUBSET Ips /\ {-1, 0, 1} \subseteq -1..1
  BY DEF MsgTypes, Responses
<1>2. /\ SUBSET Others \subseteq SUBSET Ips /\ \A ip \in Others : {ip} \in SUBSET Ips
      /\ due \subseteq Responses
  BY DEF TypeOK, ServerType, Ips
<1>3. CASE Refuse
  <2>1. CASE Send("CREATE_MEETING_RESPONSE", 0, {})
    BY <1>1, <2>1
  <2>2. CASE \E code \in {0, -1} : Send("JOIN_MEETING_RESPONSE", code, {})
    BY <1>1, <2>2
  <2> QED
    BY <1>3, <2>1, <2>2 DEF Refuse
<1>4. CASE SendDue
  <2>1. PICK type \in due : Send(type, 1, {})
    BY <1>4 DEF SendDue
  <2>2. type \in MsgTypes /\ type # "PARTNER_EXIT" /\ 1 # -1
    BY <1>1, <1>2 DEF Responses
  <2> QED
    BY <1>1, <2>1, <2>2
<1>5. CASE SendNews
  <2>1. CASE \E ips \in SUBSET Others \ {{}} : Send("PARTNER_JOIN", 0, ips)
    <3>1. PICK ips \in SUBSET Others \ {{}} : Send("PARTNER_JOIN", 0, ips)
      BY <2>1
    <3>2. ips \in SUBSET Ips
      BY <1>2
    <3> QED
      BY <1>1, <3>1, <3>2
  <2>2. CASE \E ip \in Others : Send("PARTNER_EXIT", 0, {ip})
    <3>1. PICK ip \in Others : Send("PARTNER_EXIT", 0, {ip})
      BY <2>2
    <3>2. {ip} \in SUBSET Ips
      BY <1>2
    <3> QED
      BY <1>1, <3>1, <3>2
  <2>3. CASE Send("TEXT_RECV", 0, {})
    BY <1>1, <2>3
  <2> QED
    BY <1>5, <2>1, <2>2, <2>3 DEF SendNews
<1> QED
  BY <1>3, <1>4, <1>5 DEF Writes

\* The server.
LEMMA ServerTyped == TypeOK /\ Server => TypeOK'
<1> SUFFICES ASSUME TypeOK, Server PROVE TypeOK'
  OBVIOUS
<1> USE DEF TypeOK
<1>1. CASE Writes
  <2>1. PICK type \in MsgTypes, code \in -1..1, ips \in SUBSET Ips : Send(type, code, ips)
    BY <1>1, WritesSend
  <2>2. /\ GuiType' /\ SocketType' /\ ConnType' /\ RecvType' /\ HistoryType'
        /\ sent' \in 0..MaxPackets
    BY <2>1, SendTyped
  <2>3. asks' \subseteq asks /\ room' = room /\ due' \subseteq due
    BY <1>1 DEF Writes, Refuse, SendDue, SendNews
  <2>4. ServerType'
    BY <2>2, <2>3 DEF ServerType
  <2> QED
    BY <2>2, <2>4
<1>2. CASE Admit
  <2>1. asks' \subseteq asks /\ room' = TRUE /\ due' \subseteq Responses /\ sent' = sent
    BY <1>2 DEF Admit, Responses
  <2>2. room' \in BOOLEAN
    BY <2>1
  <2>3. ServerType'
    BY <2>1, <2>2 DEF ServerType
  <2> QED
    BY <1>2, <2>3, Frames DEF Admit
<1>3. CASE ServerCloses
  <2>1. ConnType'
    BY <1>3 DEF ServerCloses, ConnType
  <2>2. asks' = {} /\ room' = FALSE /\ due' = {} /\ told' = {} /\ sent' = sent
    BY <1>3 DEF ServerCloses, Gone
  <2>3. room' \in BOOLEAN
    BY <2>2
  <2>4. ServerType'
    BY <2>2, <2>3 DEF ServerType
  <2>5. HistoryType'
    BY <1>3, <2>2 DEF ServerCloses, HistoryType
  <2> QED
    BY <1>3, <2>1, <2>4, <2>5, Frames DEF ServerCloses
<1> QED
  BY <1>1, <1>2, <1>3 DEF Server, Writes

\* The inductive step of the type invariant.
LEMMA NextTyped == TypeOK /\ [Next]_vars => TypeOK'
<1> SUFFICES ASSUME TypeOK, [Next]_vars PROVE TypeOK'
  OBVIOUS
<1>1. CASE UNCHANGED vars
  BY <1>1, Frames DEF vars, TypeOK
<1>2. CASE Next
  BY <1>2, ReadTyped, ThreadsTyped, DatasolveTyped, UserTyped, ServerTyped
  DEF Next, SockThread, Gui
<1> QED
  BY <1>1, <1>2

\* In every reachable state each variable holds what its declaration allows,
\* queue_recv is within its bound, a push at hand has its message, and a session that
\* ends for an error has RecvSolve waiting with it.
THEOREM TypeCorrect == Spec => []TypeOK
<1> QED
  BY InitTyped, NextTyped, PTL DEF Spec

----------------------------------------------------------------------------
\* Who waits for whom.

\* The slot that told the socket's thread to end waits until it has, a slot that
\* connects has it running and no connection yet, and no other slot enables the
\* button to connect before the connection is down.
WaitInv ==
  /\ sock = "quit" => ui = "quit"
  /\ ui = "connect" => sock = "on" /\ conn = "down"
  /\ ui = "join" => sock = "off"
  /\ sockAt = "refused" => ui = "connect"
  /\ ConnectsOnce

\* A step that enables no connecting.
LEMMA WaitFrame ==
  ASSUME WaitInv, conn = "down" => conn' = "down",
         sockAt' = "refused" => sockAt = "refused", UNCHANGED <<ui, boxed, sock>>,
         "connServer" \in enabled' => "connServer" \in enabled
  PROVE  WaitInv'
BY DEF WaitInv, ConnectsOnce

\* The inductive step.
LEMMA WaitStep == TypeOK /\ WaitInv /\ [Next]_vars => WaitInv'
<1> SUFFICES ASSUME TypeOK, WaitInv, [Next]_vars PROVE WaitInv'
  OBVIOUS
<1>1. CASE UNCHANGED <<conn, ui, boxed, enabled, sock, sockAt>>
  BY <1>1, WaitFrame
<1>2. CASE ReadyRead \/ PushRecv \/ SoundBlocks
  <2>1. UNCHANGED <<conn, ui, boxed, enabled, sock>> /\ sockAt' # "refused"
    <3>1. CASE ReadyRead
      <4>1. sockAt' \in {sockAt, "push"} /\ sockAt = "idle"
        BY <3>1 DEF ReadyRead
      <4> QED
        BY <3>1, <4>1 DEF ReadyRead
    <3>2. CASE PushRecv \/ SoundBlocks
      BY <3>2 DEF PushRecv, PushMsg, SoundBlocks
    <3> QED
      BY <1>2, <3>1, <3>2
  <2> QED
    BY <2>1, WaitFrame
<1>3. CASE RemoteClosed \/ NetworkFails
  <2>1. conn' = "down" /\ sockAt' = "push" /\ UNCHANGED <<ui, boxed, enabled, sock>>
    BY <1>3 DEF RemoteClosed, NetworkFails, ErrorDetect, ConnDown
  <2> QED
    BY <2>1, WaitFrame
<1>4. CASE CloseSocket
  <2>1. /\ conn' = "down" /\ sockAt' = "idle" /\ sock' = "off" /\ ui' = "quit"
    BY <1>4 DEF CloseSocket, ConnDown, socket, WaitInv
  <2> QED
    BY <2>1 DEF WaitInv, ConnectsOnce
<1>5. CASE Connected
  <2>1. boxed' = TRUE /\ ui' = "free" /\ sock' = "on" /\ sockAt' = "idle"
    BY <1>5 DEF Connected, Connecting, socket
  <2> QED
    BY <2>1 DEF WaitInv, ConnectsOnce
<1>6. CASE ConnTimeout
  <2>1. ui' = "free" /\ sock' = "on" /\ sockAt' = "idle" /\ conn' = "down"
    BY <1>6 DEF ConnTimeout, Connecting, socket, WaitInv
  <2> QED
    BY <2>1 DEF WaitInv, ConnectsOnce
<1>7. CASE ConnFails
  <2>1. ui' = "connect" /\ sock' = "on" /\ conn' = "down"
    BY <1>7 DEF ConnFails, Connecting, WaitInv
  <2> QED
    BY <2>1 DEF WaitInv, ConnectsOnce
<1>8. CASE PushRefused
  <2>1. ui' = "free" /\ sock' = "on" /\ sockAt' = "idle" /\ conn' = "down"
    BY <1>8 DEF PushRefused, PushMsg, WaitInv
  <2> QED
    BY <2>1 DEF WaitInv, ConnectsOnce
<1>9. CASE Writer \/ Solve
  BY <1>1, <1>9 DEF Writer, RunStarts, RunEnds, Solve, socket
<1>10. CASE CreateResponse \/ JoinResponse \/ PartnersCome \/ PartnerExit \/ Text
  <2>1. UNCHANGED <<conn, ui, boxed, sock, sockAt>>
    BY <1>10 DEF CreateResponse, JoinResponse, PartnersCome, PartnerExit, Text, socket
  <2>2. "connServer" \in enabled' => "connServer" \in enabled
    BY <1>10 DEF CreateResponse, JoinResponse, PartnersCome, PartnerExit, Text
  <2> QED
    BY <2>1, <2>2, WaitFrame
<1>11. CASE NetError \/ ExitMeet
  <2>1. ui = "free" /\ ui' = "quit" /\ sockAt' = sockAt
    BY <1>11 DEF NetError, ExitMeet, Leave, socket
  <2> QED
    BY <2>1 DEF WaitInv, ConnectsOnce
<1>12. CASE Disconnected
  <2>1. ui' = "join" /\ sock' = "off" /\ sockAt' # "refused"
    BY <1>12 DEF Disconnected, socket, WaitInv
  <2> QED
    BY <2>1 DEF WaitInv, ConnectsOnce
<1>13. CASE Joined
  <2>1. ui' = "free" /\ sock' = "off" /\ sockAt' # "refused" /\ conn' = "down"
    BY <1>13 DEF Joined, socket, WaitInv, TypeOK, ConnType
  <2> QED
    BY <2>1 DEF WaitInv, ConnectsOnce
<1>14. CASE ConnServer
  <2>1. ui' = "connect" /\ sock' = "on" /\ conn' = "down"
    BY <1>14 DEF ConnServer, UserMayClick, WaitInv, ConnectsOnce
  <2> QED
    BY <2>1 DEF WaitInv, ConnectsOnce
<1>15. CASE CloseBox
  <2>1. "connServer" \notin enabled' /\ UNCHANGED <<ui, sock, sockAt, conn>>
    BY <1>15 DEF CloseBox, BoxClosed, socket
  <2> QED
    BY <2>1 DEF WaitInv, ConnectsOnce
<1>16. CASE CreateMeet \/ JoinMeet
  <2>1. UNCHANGED <<conn, ui, boxed, sock, sockAt>> /\ enabled' \subseteq enabled
    BY <1>16 DEF CreateMeet, JoinMeet, socket
  <2> QED
    BY <2>1, WaitFrame
<1>17. CASE Writes
  <2>1. PICK type, code, ips : Send(type, code, ips)
    BY <1>17, WritesSend
  <2> QED
    BY <1>1, <2>1 DEF Send, socket
<1>18. CASE Admit
  BY <1>1, <1>18 DEF Admit, socket
<1>19. CASE ServerCloses
  <2>1. conn = "up" /\ UNCHANGED <<ui, boxed, enabled, sock, sockAt>>
    BY <1>19 DEF ServerCloses, socket
  <2> QED
    BY <2>1, WaitFrame
<1>20. CASE UNCHANGED vars
  BY <1>1, <1>20 DEF vars, socket
<1> QED
  BY <1>2, <1>3, <1>4, <1>5, <1>6, <1>7, <1>8, <1>9, <1>10, <1>11, <1>12, <1>13, <1>14,
     <1>15, <1>16, <1>17, <1>18, <1>19, <1>20
  DEF Next, SockThread, Connect, Gui, Datasolve, User, Server, Writes

\* It is an invariant.
LEMMA WaitHolds == Spec => []WaitInv
<1>1. Init => WaitInv
  BY DEF Init, WaitInv, ConnectsOnce
<1> QED
  BY <1>1, TypeCorrect, WaitStep, PTL DEF Spec

\* No slot enables the button to connect before the connection is down, the box of
\* the last connect and what runs behind it included.
THEOREM ConnectsAreOnce == Spec => []ConnectsOnce
<1>1. WaitInv => ConnectsOnce
  BY DEF WaitInv
<1> QED
  BY <1>1, WaitHolds, PTL

----------------------------------------------------------------------------
\* What a session leaves behind.

\* The socket's thread ends between two slots of its own, with nothing at hand, and
\* the slot that waits for it clears the queue then.
OfflineInv ==
  /\ sock = "off" => sockMsg = NoMsg
  /\ sock = "off" /\ ui \in {"free", "join"} => queue_recv = << >>

\* A step that leaves the thread and the session alone and pushes nothing.
LEMMA OfflineFrame ==
  ASSUME OfflineInv, UNCHANGED <<ui, sock, sockMsg>>,
         queue_recv = << >> => queue_recv' = << >>
  PROVE  OfflineInv'
BY DEF OfflineInv

\* The inductive step.
LEMMA OfflineStep == TypeOK /\ WaitInv /\ OfflineInv /\ [Next]_vars => OfflineInv'
<1> SUFFICES ASSUME TypeOK, WaitInv, OfflineInv, [Next]_vars PROVE OfflineInv'
  OBVIOUS
<1>1. CASE UNCHANGED <<ui, sock, sockMsg, queue_recv>>
  BY <1>1, OfflineFrame
<1>2. ASSUME sock # "off", sock' = sock PROVE OfflineInv'
  BY <1>2 DEF OfflineInv
<1>3. CASE ReadyRead \/ RemoteClosed \/ NetworkFails \/ SoundBlocks
  BY <1>2, <1>3 DEF ReadyRead, RemoteClosed, NetworkFails, ErrorDetect, SoundBlocks
<1>4. CASE PushRecv \/ PushRefused
  <2>1. sockMsg # NoMsg /\ sock' = sock
    BY <1>4 DEF PushRecv, PushRefused, PushMsg, TypeOK, SocketType
  <2>2. sock # "off"
    BY <2>1 DEF OfflineInv
  <2> QED
    BY <1>2, <2>1, <2>2
<1>5. CASE Connected \/ ConnTimeout \/ ConnFails
  <2>1. sock = "on" /\ sock' = sock
    BY <1>5 DEF Connected, ConnTimeout, ConnFails, Connecting
  <2> QED
    BY <1>2, <2>1
<1>6. CASE CloseSocket
  <2>1. /\ sock' = "off" /\ ui' = "quit" /\ sockMsg' = sockMsg /\ sockMsg = NoMsg
    BY <1>6 DEF CloseSocket, socket, TypeOK, SocketType, WaitInv
  <2> QED
    BY <2>1 DEF OfflineInv
<1>7. CASE Writer
  BY <1>1, <1>7 DEF Writer, RunStarts, RunEnds, socket
<1>8. CASE Solve
  <2>1. queue_recv # << >> /\ UNCHANGED <<ui, sock, sockMsg>>
    BY <1>8 DEF Solve, socket
  <2> QED
    BY <2>1, OfflineFrame
<1>9. CASE CreateResponse \/ JoinResponse \/ PartnersCome \/ PartnerExit \/ Text
  BY <1>1, <1>9
  DEF CreateResponse, JoinResponse, PartnersCome, PartnerExit, Text, socket
<1>10. CASE NetError \/ ExitMeet
  <2>1. ui' = "quit" /\ QuitSock /\ sockMsg' = sockMsg
    BY <1>10 DEF NetError, ExitMeet, Leave, socket
  <2> QED
    BY <2>1 DEF QuitSock, OfflineInv
<1>11. CASE Disconnected
  <2>1. queue_recv' = << >> /\ UNCHANGED <<sock, sockMsg>>
    BY <1>11 DEF Disconnected, Cleared, socket
  <2> QED
    BY <2>1 DEF OfflineInv
<1>12. CASE Joined
  <2>1. ui = "join" /\ UNCHANGED <<queue_recv, sock, sockMsg>>
    BY <1>12 DEF Joined, socket
  <2> QED
    BY <2>1 DEF OfflineInv
<1>13. CASE ConnServer
  <2>1. sock' = "on"
    BY <1>13 DEF ConnServer
  <2> QED
    BY <2>1 DEF OfflineInv
<1>14. CASE CloseBox \/ CreateMeet \/ JoinMeet
  BY <1>1, <1>14 DEF CloseBox, CreateMeet, JoinMeet, socket
<1>15. CASE Writes
  <2>1. PICK type, code, ips : Send(type, code, ips)
    BY <1>15, WritesSend
  <2> QED
    BY <1>1, <2>1 DEF Send, socket
<1>16. CASE Admit \/ ServerCloses
  BY <1>1, <1>16 DEF Admit, ServerCloses, socket
<1>17. CASE UNCHANGED vars
  BY <1>1, <1>17 DEF vars, socket
<1> QED
  BY <1>3, <1>4, <1>5, <1>6, <1>7, <1>8, <1>9, <1>10, <1>11, <1>12, <1>13, <1>14, <1>15,
     <1>16, <1>17
  DEF Next, SockThread, Connect, Gui, Datasolve, User, Server, Writes

\* When the slot that ended a session has returned, queue_recv is empty and the
\* socket's thread has nothing left to push.
THEOREM OfflineIsEmpty == Spec => []OfflineEmpty
<1>1. Init => OfflineInv
  BY DEF Init, OfflineInv
<1>2. OfflineInv => OfflineEmpty
  BY DEF OfflineInv, OfflineEmpty
<1> QED
  BY <1>1, <1>2, TypeCorrect, WaitHolds, OfflineStep, PTL DEF Spec

----------------------------------------------------------------------------
\* How the packets flow: sequences that are consecutive.

\* A row of messages, or of cells, is consecutive when its parts are, one after
\* the other.
LEMMA ConcatInOrder ==
  ASSUME NEW s \in Seq(Msg), NEW t \in Seq(Msg), NEW n \in Nat
  PROVE  InOrder(s \o t, n) <=> InOrder(s, n) /\ InOrder(t, n + Len(s))
<1>1. /\ DOMAIN s = 1..Len(s) /\ DOMAIN t = 1..Len(t)
      /\ DOMAIN (s \o t) = 1..(Len(s) + Len(t)) /\ Len(s) \in Nat /\ Len(t) \in Nat
  OBVIOUS
<1>2. /\ \A i \in 1..Len(s) : (s \o t)[i] = s[i]
      /\ \A j \in 1..Len(t) : (s \o t)[Len(s) + j] = t[j]
  BY <1>1
<1>3. ASSUME InOrder(s \o t, n) PROVE InOrder(s, n) /\ InOrder(t, n + Len(s))
  <2>1. ASSUME NEW i \in 1..Len(s) PROVE s[i].no = n + i
    BY <1>1, <1>2, <1>3 DEF InOrder
  <2>2. ASSUME NEW j \in 1..Len(t) PROVE t[j].no = n + Len(s) + j
    <3>1. Len(s) + j \in DOMAIN (s \o t)
      BY <1>1
    <3>2. (s \o t)[Len(s) + j].no = n + (Len(s) + j)
      BY <1>3, <3>1 DEF InOrder
    <3> QED
      BY <1>1, <1>2, <3>2
  <2> QED
    BY <1>1, <2>1, <2>2 DEF InOrder
<1>4. ASSUME InOrder(s, n), InOrder(t, n + Len(s)) PROVE InOrder(s \o t, n)
  <2>1. ASSUME NEW i \in 1..(Len(s) + Len(t)) PROVE (s \o t)[i].no = n + i
    <3>1. CASE i <= Len(s)
      <4>1. i \in DOMAIN s /\ (s \o t)[i] = s[i]
        BY <1>1, <1>2, <3>1
      <4> QED
        BY <1>4, <4>1 DEF InOrder
    <3>2. CASE i > Len(s)
      <4>1. i - Len(s) \in DOMAIN t /\ Len(s) + (i - Len(s)) = i
        BY <1>1, <3>2
      <4>2. (s \o t)[i] = t[i - Len(s)]
        BY <1>1, <1>2, <4>1
      <4>3. t[i - Len(s)].no = n + Len(s) + (i - Len(s))
        BY <1>4, <4>1 DEF InOrder
      <4> QED
        BY <1>1, <4>2, <4>3
    <3> QED
      BY <1>1, <3>1, <3>2
  <2> QED
    BY <1>1, <2>1 DEF InOrder
<1> QED
  BY <1>3, <1>4

\* The same for the cells of the stream.
LEMMA ConcatInPlace ==
  ASSUME NEW s \in Seq(Cell), NEW t \in Seq(Cell), NEW n \in Nat
  PROVE  InPlace(s \o t, n) <=> InPlace(s, n) /\ InPlace(t, n + Len(s))
<1>1. /\ DOMAIN s = 1..Len(s) /\ DOMAIN t = 1..Len(t)
      /\ DOMAIN (s \o t) = 1..(Len(s) + Len(t)) /\ Len(s) \in Nat /\ Len(t) \in Nat
  OBVIOUS
<1>2. /\ \A i \in 1..Len(s) : (s \o t)[i] = s[i]
      /\ \A j \in 1..Len(t) : (s \o t)[Len(s) + j] = t[j]
  BY <1>1
<1>3. ASSUME InPlace(s \o t, n) PROVE InPlace(s, n) /\ InPlace(t, n + Len(s))
  <2>1. ASSUME NEW i \in 1..Len(s) PROVE Place(s[i]) = n + i
    BY <1>1, <1>2, <1>3 DEF InPlace
  <2>2. ASSUME NEW j \in 1..Len(t) PROVE Place(t[j]) = n + Len(s) + j
    <3>1. Len(s) + j \in DOMAIN (s \o t)
      BY <1>1
    <3>2. Place((s \o t)[Len(s) + j]) = n + (Len(s) + j)
      BY <1>3, <3>1 DEF InPlace
    <3> QED
      BY <1>1, <1>2, <3>2
  <2> QED
    BY <1>1, <2>1, <2>2 DEF InPlace
<1>4. ASSUME InPlace(s, n), InPlace(t, n + Len(s)) PROVE InPlace(s \o t, n)
  <2>1. ASSUME NEW i \in 1..(Len(s) + Len(t)) PROVE Place((s \o t)[i]) = n + i
    <3>1. CASE i <= Len(s)
      <4>1. i \in DOMAIN s /\ (s \o t)[i] = s[i]
        BY <1>1, <1>2, <3>1
      <4> QED
        BY <1>4, <4>1 DEF InPlace
    <3>2. CASE i > Len(s)
      <4>1. i - Len(s) \in DOMAIN t /\ Len(s) + (i - Len(s)) = i
        BY <1>1, <3>2
      <4>2. (s \o t)[i] = t[i - Len(s)]
        BY <1>1, <1>2, <4>1
      <4>3. Place(t[i - Len(s)]) = n + Len(s) + (i - Len(s))
        BY <1>4, <4>1 DEF InPlace
      <4> QED
        BY <1>1, <4>2, <4>3
    <3> QED
      BY <1>1, <3>1, <3>2
  <2> QED
    BY <1>1, <2>1 DEF InPlace
<1> QED
  BY <1>3, <1>4

\* The cells of packet no are the two at its places.
LEMMA CellsInPlace ==
  ASSUME NEW pkt \in Msg, NEW n \in Nat
  PROVE  /\ Len(Cells(pkt)) = 2 /\ DOMAIN Cells(pkt) = {1, 2}
         /\ Cells(pkt)[1] = [pkt |-> pkt, part |-> 1]
         /\ Cells(pkt)[2] = [pkt |-> pkt, part |-> 2]
         /\ InPlace(Cells(pkt), 2 * n) <=> pkt.no = n + 1
<1>1. /\ Len(Cells(pkt)) = 2 /\ DOMAIN Cells(pkt) = {1, 2}
      /\ Cells(pkt)[1] = [pkt |-> pkt, part |-> 1]
      /\ Cells(pkt)[2] = [pkt |-> pkt, part |-> 2]
  BY DEF Cells
<1>2. pkt.no \in Nat
  BY ClientAssumption DEF Msg
<1>3. Place(Cells(pkt)[1]) = 2 * (pkt.no - 1) + 1 /\ Place(Cells(pkt)[2]) = 2 * (pkt.no - 1) + 2
  BY <1>1 DEF Place
<1>4. InPlace(Cells(pkt), 2 * n)
        <=> Place(Cells(pkt)[1]) = 2 * n + 1 /\ Place(Cells(pkt)[2]) = 2 * n + 2
  BY <1>1 DEF InPlace
<1> QED
  BY <1>1, <1>2, <1>3, <1>4

\* Rows are joined in any order.
LEMMA Associative ==
  /\ \A s, t, u \in Seq(Cell) : (s \o t) \o u = s \o (t \o u)
  /\ \A s, t, u \in Seq(Msg) : (s \o t) \o u = s \o (t \o u)
<1>1. ASSUME NEW s \in Seq(Cell), NEW t \in Seq(Cell), NEW u \in Seq(Cell)
      PROVE  (s \o t) \o u = s \o (t \o u)
  BY ConcatAssociative
<1>2. ASSUME NEW s \in Seq(Msg), NEW t \in Seq(Msg), NEW u \in Seq(Msg)
      PROVE  (s \o t) \o u = s \o (t \o u)
  BY ConcatAssociative
<1> QED
  BY <1>1, <1>2

\* The messages and the stream have their types.
LEMMA FlowTyped ==
  ASSUME TypeOK
  PROVE  /\ Opt(held) \in Seq(Msg) /\ Opt(sockMsg) \in Seq(Msg) /\ queue_recv \in Seq(Msg)
         /\ Msgs \in Seq(Msg) /\ Len(Msgs) \in Nat
         /\ recvbuf \in Seq(Cell) /\ wire \in Seq(Cell)
         /\ Stream \in Seq(Cell) /\ Len(Stream) \in Nat
<1>1. Opt(held) \in Seq(Msg) /\ Opt(sockMsg) \in Seq(Msg) /\ queue_recv \in Seq(Msg)
  BY DEF TypeOK, RecvType, SocketType, Opt
<1>2. recvbuf \in Seq(Cell) /\ wire \in Seq(Cell)
  BY DEF TypeOK, SocketType, ConnType
<1>3. Msgs \in Seq(Msg) /\ Len(Msgs) \in Nat
  BY <1>1 DEF Msgs
<1>4. Stream \in Seq(Cell) /\ Len(Stream) \in Nat
  BY <1>2 DEF Stream
<1> QED
  BY <1>1, <1>2, <1>3, <1>4

\* A message that is pushed to queue_recv, or taken from it, stays where it is among
\* the messages on their way.
LEMMA QueueFlow == TypeOK /\ (PushRecv \/ Solve) => Msgs' = Msgs
<1>1. ASSUME TypeOK, PushRecv PROVE Msgs' = Msgs
  <2>1. sockMsg \in Msg /\ Opt(sockMsg) = <<sockMsg>>
    BY <1>1 DEF PushRecv, TypeOK, SocketType, Opt
  <2>2. queue_recv' = queue_recv \o <<sockMsg>>
    BY <1>1, <2>1, FlowTyped, AppendIsConcat DEF PushRecv, PushMsg
  <2>3. Opt(held)' = Opt(held) /\ Opt(sockMsg)' = << >>
    BY <1>1 DEF PushRecv, PushMsg, Opt
  <2>4. /\ Opt(held) \in Seq(Msg) /\ queue_recv \in Seq(Msg) /\ <<sockMsg>> \in Seq(Msg)
        /\ queue_recv \o <<sockMsg>> \in Seq(Msg)
    BY <1>1, <2>1, FlowTyped
  <2>5. Opt(held) \o (queue_recv \o <<sockMsg>>) \in Seq(Msg)
    BY <2>4
  <2>6. (Opt(held) \o (queue_recv \o <<sockMsg>>)) \o << >>
          = (Opt(held) \o queue_recv) \o <<sockMsg>>
    BY <2>4, <2>5, Associative, ConcatEmptySeq
  <2> QED
    BY <2>1, <2>2, <2>3, <2>6 DEF Msgs
<1>2. ASSUME TypeOK, Solve PROVE Msgs' = Msgs
  <2>1. /\ queue_recv \in Seq(Msg) /\ queue_recv # << >>
        /\ held' = Head(queue_recv) /\ queue_recv' = Tail(queue_recv)
        /\ sockMsg' = sockMsg /\ held = NoMsg
    BY <1>2, FlowTyped DEF Solve, socket
  <2>2. held' \in Msg /\ held' # NoMsg
    BY <2>1, NoMsgAssumption
  <2>5. queue_recv = <<held'>> \o queue_recv'
    <3>1. Tail(queue_recv) \in Seq(Msg) /\ Len(queue_recv) = 1 + Len(Tail(queue_recv))
      BY <2>1
    <3>2. \A i \in 1..Len(Tail(queue_recv)) : Tail(queue_recv)[i] = queue_recv[i + 1]
      BY <2>1
    <3>3. queue_recv = <<Head(queue_recv)>> \o Tail(queue_recv)
      BY <2>1, <3>1, <3>2
    <3> QED
      BY <2>1, <3>3
  <2>3. Opt(held) = << >> /\ Opt(held)' = <<held'>> /\ Opt(sockMsg)' = Opt(sockMsg)
    BY <2>1, <2>2 DEF Opt
  <2>4. << >> \o queue_recv = queue_recv
    BY <2>1, ConcatEmptySeq
  <2>6. Msgs = queue_recv \o Opt(sockMsg)
    BY <2>3, <2>4 DEF Msgs
  <2>7. Msgs' = (<<held'>> \o queue_recv') \o Opt(sockMsg)
    BY <2>3 DEF Msgs
  <2> QED
    BY <2>5, <2>6, <2>7
<1> QED
  BY <1>1, <1>2

\* The message datasolve has dealt with was the first of them.
LEMMA DealtFlow ==
  ASSUME TypeOK, held # NoMsg, held' = NoMsg, UNCHANGED <<queue_recv, sockMsg>>
  PROVE  /\ <<held>> \in Seq(Msg) /\ Msgs' \in Seq(Msg)
         /\ Msgs = <<held>> \o Msgs'
<1>1. held \in Msg /\ <<held>> \in Seq(Msg) /\ Opt(held) = <<held>> /\ Opt(held)' = << >>
  BY DEF TypeOK, RecvType, Opt
<1>2. Opt(sockMsg)' = Opt(sockMsg) /\ queue_recv \in Seq(Msg) /\ Opt(sockMsg) \in Seq(Msg)
  BY FlowTyped DEF Opt
<1>3. Msgs' = queue_recv \o Opt(sockMsg)
  BY <1>1, <1>2, ConcatEmptySeq DEF Msgs
<1>4. Msgs = (<<held>> \o queue_recv) \o Opt(sockMsg)
  BY <1>1 DEF Msgs
<1>5. (<<held>> \o queue_recv) \o Opt(sockMsg) = <<held>> \o (queue_recv \o Opt(sockMsg))
  BY <1>1, <1>2, Associative
<1> QED
  BY <1>1, <1>2, <1>3, <1>4, <1>5

\* What the server sends is the end of the stream.
LEMMA SendFlow ==
  ASSUME TypeOK, NEW type \in MsgTypes, NEW code \in -1..1, NEW ips \in SUBSET Ips,
         Send(type, code, ips)
  PROVE  /\ Packet(type, code, ips) \in Msg /\ Cells(Packet(type, code, ips)) \in Seq(Cell)
         /\ Stream' = Stream \o Cells(Packet(type, code, ips))
         /\ Msgs' = Msgs /\ sent' = sent + 1 /\ told' = Tells(told, type, code, ips)
         /\ UNCHANGED <<handledNo, clean, conn, session, partner>>
<1>1. Packet(type, code, ips) \in Msg
  BY MsgTyped DEF Send, TypeOK
<1>2. Cells(Packet(type, code, ips)) \in Seq(Cell)
  BY <1>1, CellsTyped
<1>3. wire' = wire \o Cells(Packet(type, code, ips)) /\ recvbuf' = recvbuf
  BY DEF Send, socket
<1>4. Stream' = Stream \o Cells(Packet(type, code, ips))
  <2>1. Stream' = recvbuf \o (wire \o Cells(Packet(type, code, ips)))
    BY <1>3 DEF Stream
  <2>2. recvbuf \in Seq(Cell) /\ wire \in Seq(Cell)
    BY FlowTyped
  <2>4. Stream \o Cells(Packet(type, code, ips))
          = recvbuf \o (wire \o Cells(Packet(type, code, ips)))
    BY <1>2, <2>2, Associative DEF Stream
  <2> QED
    BY <2>1, <2>4
<1>5. Msgs' = Msgs
  BY DEF Send, socket, Msgs, Opt
<1> QED
  BY <1>1, <1>2, <1>4, <1>5 DEF Send, widget

----------------------------------------------------------------------------
\* All that is on its way in messages m and cells c, and that it is consecutive from
\* packet h + 1 to packet n.
Flight(m, c) == Range(m) \cup {cell.pkt : cell \in Range(c)}

Flows(m, c, h, n) ==
  /\ InOrder(m, h)
  /\ InPlace(c, 2 * (h + Len(m)))
  /\ Len(c) = 2 * (n - h - Len(m))

InFlight == Flight(Msgs, Stream)

\* No two packets have the same number.
OneEach == \A p, q \in InFlight : p.no = q.no => p = q

\* Where the stream is consecutive from the beginning of a packet, it begins with the
\* two cells of one, so that nothing read of it is ever broken.
LEMMA FrontOfBuffer ==
  ASSUME NEW buf \in Seq(Cell), NEW n \in Nat, InPlace(buf, 2 * n),
         \A i, j \in DOMAIN buf : buf[i].pkt.no = buf[j].pkt.no => buf[i].pkt = buf[j].pkt
  PROVE  ~Broken(buf)
<1>1. ASSUME buf # << >> PROVE buf[1].part = 1 /\ buf[1].pkt.no = n + 1 /\ 1 \in DOMAIN buf
  <2>1. 1 \in DOMAIN buf
    BY <1>1
  <2>2. buf[1] \in Cell
    BY <2>1
  <2>3. buf[1].part \in {1, 2} /\ buf[1].pkt.no \in Nat
    BY <2>2, ClientAssumption DEF Cell, Msg
  <2>4. 2 * (buf[1].pkt.no - 1) + buf[1].part = 2 * n + 1
    BY <2>1 DEF InPlace, Place
  <2> QED
    BY <2>1, <2>3, <2>4
<1>2. ASSUME Len(buf) > 1 PROVE buf[2].part = 2 /\ buf[2].pkt.no = n + 1 /\ 2 \in DOMAIN buf
  <2>1. 2 \in DOMAIN buf
    BY <1>2
  <2>2. buf[2] \in Cell
    BY <2>1
  <2>3. buf[2].part \in {1, 2} /\ buf[2].pkt.no \in Nat
    BY <2>2, ClientAssumption DEF Cell, Msg
  <2>4. 2 * (buf[2].pkt.no - 1) + buf[2].part = 2 * n + 2
    BY <2>1 DEF InPlace, Place
  <2> QED
    BY <2>1, <2>3, <2>4
<1>3. ASSUME Len(buf) > 1 PROVE Complete(buf)
  <2>1. buf # << >>
    BY <1>3
  <2> QED
    BY <1>1, <1>2, <1>3, <2>1 DEF Complete
<1> QED
  BY <1>1, <1>3 DEF Broken

\* What a complete packet at the front leaves.
LEMMA CompleteFront ==
  ASSUME NEW buf \in Seq(Cell), Complete(buf)
  PROVE  /\ buf[1].pkt \in Msg /\ From(buf, 3) \in Seq(Cell)
         /\ buf = Cells(buf[1].pkt) \o From(buf, 3)
<1>1. buf[1].pkt \in Msg /\ From(buf, 3) \in Seq(Cell)
  BY StreamTyped
<1>2. Len(buf) > 1 /\ Len(buf) \in Nat /\ 1 \in DOMAIN buf /\ 2 \in DOMAIN buf
  BY DEF Complete
<1>3. buf[1] \in Cell /\ buf[2] \in Cell
  BY <1>2
<1>4. /\ buf[1] = [pkt |-> buf[1].pkt, part |-> 1]
      /\ buf[2] = [pkt |-> buf[1].pkt, part |-> 2]
  BY <1>3 DEF Complete, Cell
<1>5. Cells(buf[1].pkt) = <<buf[1], buf[2]>>
  BY <1>4 DEF Cells
<1>6. /\ Len(From(buf, 3)) = Len(buf) - 2
      /\ \A i \in 1..(Len(buf) - 2) : From(buf, 3)[i] = buf[i + 2]
  <2>1. 3 \in Int /\ Len(buf) \in Int /\ \A i \in 3..Len(buf) : buf[i] \in Cell
    BY <1>2
  <2>2. /\ Len(SubSeq(buf, 3, Len(buf))) = Len(buf) - 2
        /\ \A i \in 1..(Len(buf) - 2) : SubSeq(buf, 3, Len(buf))[i] = buf[3 + i - 1]
    <3>1. /\ Len(SubSeq(buf, 3, Len(buf)))
               = IF 3 <= Len(buf) THEN Len(buf) - 3 + 1 ELSE 0
          /\ \A i \in 1..(Len(buf) - 3 + 1) :
               SubSeq(buf, 3, Len(buf))[i] = buf[3 + i - 1]
      BY <2>1, SubSeqProperties
    <3>2. Len(buf) - 3 + 1 = Len(buf) - 2 /\ (3 <= Len(buf) \/ Len(buf) - 2 = 0)
      <4>1. \A n \in Nat : n > 1 => n - 3 + 1 = n - 2 /\ (3 <= n \/ n - 2 = 0)
        OBVIOUS
      <4> QED
        BY <1>2, <4>1
    <3> QED
      BY <3>1, <3>2
  <2> QED
    BY <1>2, <2>2 DEF From
<1>7. buf = <<buf[1], buf[2]>> \o From(buf, 3)
  <2>1. <<buf[1], buf[2]>> \in Seq(Cell)
    BY <1>3
  <2>2. Len(<<buf[1], buf[2]>> \o From(buf, 3)) = Len(buf)
    BY <1>1, <1>2, <1>6, <2>1
  <2>3. \A i \in 1..Len(buf) : (<<buf[1], buf[2]>> \o From(buf, 3))[i] = buf[i]
    <3> TAKE i \in 1..Len(buf)
    <3>1. CASE i \in {1, 2}
      <4>1. Len(<<buf[1], buf[2]>>) = 2 /\ <<buf[1], buf[2]>>[i] = buf[i]
        BY <3>1
      <4>2. (<<buf[1], buf[2]>> \o From(buf, 3))[i] = <<buf[1], buf[2]>>[i]
        BY <1>1, <2>1, <3>1, <4>1
      <4> QED
        BY <4>1, <4>2
    <3>2. CASE i > 2
      <4>1. i - 2 \in 1..(Len(buf) - 2) /\ (i - 2) + 2 = i
        BY <1>2, <3>2
      <4>2. (<<buf[1], buf[2]>> \o From(buf, 3))[i] = From(buf, 3)[i - 2]
        BY <1>1, <1>2, <1>6, <2>1, <3>2
      <4>3. From(buf, 3)[i - 2] = buf[(i - 2) + 2]
        BY <1>6, <4>1
      <4> QED
        BY <4>1, <4>2, <4>3
    <3>3. i = 1 \/ i = 2 \/ i > 2
      BY <1>2
    <3> QED
      BY <3>1, <3>2, <3>3
  <2>4. <<buf[1], buf[2]>> \o From(buf, 3) \in Seq(Cell)
    BY <1>1, <2>1
  <2> QED
    BY <2>2, <2>3, <2>4, SeqEqual
<1> QED
  BY <1>1, <1>5, <1>7

\* Reading leaves the stream as it is, or takes one packet from its front to the end
\* of the messages.
LEMMA ReadFlow ==
  ASSUME TypeOK, NEW n \in Nat, InPlace(Stream, 2 * n), OneEach, ReadyRead
  PROVE  \/ Stream' = Stream /\ Msgs' = Msgs
         \/ \E p \in Msg : Stream = Cells(p) \o Stream' /\ Msgs' = Msgs \o <<p>>
<1>1. PICK k \in 1..Len(wire) :
        LET buf == recvbuf \o SubSeq(wire, 1, k)
        IN  /\ wire' = From(wire, k + 1)
            /\ \/ /\ Complete(buf)
                  /\ sockMsg' = buf[1].pkt /\ sockAt' = "push"
                  /\ recvbuf' = Kept(buf)
               \/ /\ ~Complete(buf) /\ recvbuf' = buf
                  /\ UNCHANGED <<sockAt, sockMsg>>
               \/ /\ Broken(buf)
                  /\ \E m \in 1..Len(buf) : recvbuf' = From(buf, m + 1)
                  /\ UNCHANGED <<sockAt, sockMsg>>
  BY DEF ReadyRead
<1> DEFINE buf == recvbuf \o SubSeq(wire, 1, k)
           rest == From(wire, k + 1)
<1>2. recvbuf \in Seq(Cell) /\ wire \in Seq(Cell)
  BY FlowTyped
<1>3. SubSeq(wire, 1, k) \in Seq(Cell) /\ rest \in Seq(Cell)
  BY <1>2 DEF From
<1>4. buf \in Seq(Cell)
  BY <1>2, <1>3
<1>5. Stream = buf \o rest
  <2>1. 1 \in 1..(Len(wire) + 1) /\ k \in (1 - 1)..Len(wire) /\ Len(wire) \in k..Len(wire)
    BY <1>2
  <2>2. SubSeq(wire, 1, k) \o rest = SubSeq(wire, 1, Len(wire))
    BY <1>2, <2>1, ConcatAdjacentSubSeq DEF From
  <2>3. SubSeq(wire, 1, Len(wire)) = wire
    BY <1>2, SubSeqFull
  <2>4. recvbuf \o (SubSeq(wire, 1, k) \o rest) = (recvbuf \o SubSeq(wire, 1, k)) \o rest
    BY <1>2, <1>3, Associative
  <2> QED
    BY <2>2, <2>3, <2>4 DEF Stream
<1>6. Stream' = recvbuf' \o rest
  BY <1>1 DEF Stream
<1>7. sockMsg = NoMsg /\ UNCHANGED <<queue_recv, held>>
  BY DEF ReadyRead, TypeOK, SocketType
<1>8. ~Broken(buf)
  <2>1. InPlace(buf, 2 * n)
    <3> HIDE DEF buf, rest
    <3>1. 2 * n \in Nat /\ InPlace(buf \o rest, 2 * n)
      BY <1>5
    <3> QED
      BY <1>3, <1>4, <3>1, ConcatInPlace
  <2>2. ASSUME NEW i \in DOMAIN buf
        PROVE  buf[i].pkt \in InFlight
    <3>1. i \in DOMAIN Stream /\ Stream[i] = buf[i]
      BY <1>3, <1>4, <1>5
    <3> QED
      BY <3>1 DEF InFlight, Flight, Range
  <2>3. \A i, j \in DOMAIN buf : buf[i].pkt.no = buf[j].pkt.no => buf[i].pkt = buf[j].pkt
    BY <2>2 DEF OneEach
  <2> QED
    BY <1>4, <2>1, <2>3, FrontOfBuffer
<1>9. ASSUME Complete(buf), sockMsg' = buf[1].pkt, recvbuf' = Kept(buf)
      PROVE  \E p \in Msg : Stream = Cells(p) \o Stream' /\ Msgs' = Msgs \o <<p>>
  <2>1. /\ buf[1].pkt \in Msg /\ From(buf, 3) \in Seq(Cell)
        /\ buf = Cells(buf[1].pkt) \o From(buf, 3)
    BY <1>4, <1>9, CompleteFront
  <2> DEFINE p == buf[1].pkt
  <2>2. Stream' = From(buf, 3) \o rest
    BY <1>6, <1>9 DEF Kept
  <2> HIDE DEF buf, rest
  <2>3. Cells(p) \in Seq(Cell)
    BY <2>1, CellsTyped
  <2> HIDE DEF p
  <2>4. Stream = Cells(p) \o Stream'
    <3>1. Stream = (Cells(p) \o From(buf, 3)) \o rest
      BY <1>5, <2>1 DEF p
    <3>2. (Cells(p) \o From(buf, 3)) \o rest = Cells(p) \o (From(buf, 3) \o rest)
      BY <1>3, <2>1, <2>3, Associative
    <3> QED
      BY <2>2, <3>1, <3>2
  <2>5. Msgs = Opt(held) \o queue_recv
    <3>1. Opt(sockMsg) = << >> /\ Opt(held) \o queue_recv \in Seq(Msg)
      BY <1>7, FlowTyped DEF Opt
    <3> QED
      BY <3>1, ConcatEmptySeq DEF Msgs
  <2>6. Opt(sockMsg)' = <<p>> /\ Opt(held)' = Opt(held)
    BY <1>7, <1>9, <2>1, NoMsgAssumption DEF Opt, p
  <2>7. Msgs' = Msgs \o <<p>>
    BY <1>7, <2>5, <2>6 DEF Msgs
  <2>8. p \in Msg
    BY <2>1 DEF p
  <2> QED
    BY <2>4, <2>7, <2>8
<1>10. ASSUME recvbuf' = buf, sockMsg' = sockMsg PROVE Stream' = Stream /\ Msgs' = Msgs
  <2>1. Stream' = Stream
    BY <1>5, <1>6, <1>10
  <2>2. Opt(sockMsg)' = Opt(sockMsg) /\ Opt(held)' = Opt(held)
    BY <1>7, <1>10 DEF Opt
  <2> QED
    BY <1>7, <2>1, <2>2 DEF Msgs
<1>11. \/ Complete(buf) /\ sockMsg' = buf[1].pkt /\ recvbuf' = Kept(buf)
       \/ recvbuf' = buf /\ sockMsg' = sockMsg
  BY <1>1, <1>8
<1> QED
  BY <1>9, <1>10, <1>11

\* The two cells of a packet, and how long a row with them is.
LEMMA CellsAreTwo ==
  ASSUME NEW p \in Msg, NEW c \in Seq(Cell)
  PROVE  /\ Cells(p) \in Seq(Cell) /\ Len(Cells(p)) = 2
         /\ Cells(p) \o c \in Seq(Cell) /\ Len(Cells(p) \o c) = Len(c) + 2
         /\ c \o Cells(p) \in Seq(Cell) /\ Len(c \o Cells(p)) = Len(c) + 2
<1>1. Cells(p) \in Seq(Cell)
  BY CellsTyped
<1>2. Len(Cells(p)) = 2
  BY DEF Cells
<1>3. /\ Len(Cells(p) \o c) = Len(Cells(p)) + Len(c)
      /\ Len(c \o Cells(p)) = Len(c) + Len(Cells(p))
      /\ Cells(p) \o c \in Seq(Cell) /\ c \o Cells(p) \in Seq(Cell)
  BY <1>1, ConcatProperties
<1>4. Len(c) \in Nat /\ (Len(c) \in Nat => 2 + Len(c) = Len(c) + 2)
  OBVIOUS
<1> QED
  BY <1>1, <1>2, <1>3, <1>4

\* What is on its way in parts that are joined.
LEMMA FlightOfParts ==
  /\ \A s, t \in Seq(Msg), c \in Seq(Cell) :
       Flight(s \o t, c) = Flight(s, << >>) \cup Flight(t, c)
  /\ \A s \in Seq(Msg), c, d \in Seq(Cell) :
       Flight(s, c \o d) = Flight(s, c) \cup Flight(<< >>, d)
  /\ \A p \in Msg : Flight(<<p>>, << >>) = {p} /\ Flight(<< >>, Cells(p)) = {p}
  /\ \A s \in Seq(Msg), c \in Seq(Cell) :
       Flight(s, c) = Flight(s, << >>) \cup Flight(<< >>, c)
<1>1. /\ Range(<< >>) = {} /\ \A x : Range(<<x>>) = {x}
      /\ \A x, y : Range(<<x, y>>) = {x, y}
  BY DEF Range
<1>2. ASSUME NEW s \in Seq(Msg), NEW t \in Seq(Msg)
      PROVE  Range(s \o t) = Range(s) \cup Range(t)
  BY RangeConcatenation
<1>3. ASSUME NEW c \in Seq(Cell), NEW d \in Seq(Cell)
      PROVE  Range(c \o d) = Range(c) \cup Range(d)
  BY RangeConcatenation
<1>4. ASSUME NEW s \in Seq(Msg), NEW t \in Seq(Msg), NEW c \in Seq(Cell)
      PROVE  Flight(s \o t, c) = Flight(s, << >>) \cup Flight(t, c)
  BY <1>1, <1>2 DEF Flight
<1>5. ASSUME NEW s \in Seq(Msg), NEW c \in Seq(Cell), NEW d \in Seq(Cell)
      PROVE  Flight(s, c \o d) = Flight(s, c) \cup Flight(<< >>, d)
  BY <1>1, <1>3 DEF Flight
<1>6. ASSUME NEW p \in Msg
      PROVE  Flight(<<p>>, << >>) = {p} /\ Flight(<< >>, Cells(p)) = {p}
  BY <1>1 DEF Flight, Cells
<1>7. ASSUME NEW s \in Seq(Msg), NEW c \in Seq(Cell)
      PROVE  Flight(s, c) = Flight(s, << >>) \cup Flight(<< >>, c)
  BY <1>1 DEF Flight
<1> QED
  BY <1>4, <1>5, <1>6, <1>7

\* The same, for two rows of messages.
LEMMA FlightOfMsgs ==
  ASSUME NEW s \in Seq(Msg), NEW t \in Seq(Msg), NEW c \in Seq(Cell)
  PROVE  Flight(s \o t, c) = Flight(s, << >>) \cup Flight(t, c)
BY FlightOfParts

\* Every packet on its way has its number among those.
LEMMA FlightNumbers ==
  ASSUME NEW m \in Seq(Msg), NEW c \in Seq(Cell), NEW h \in Nat, NEW n \in Nat,
         Flows(m, c, h, n)
  PROVE  /\ Len(m) \in Nat /\ h + Len(m) <= n
         /\ \A p \in Flight(m, c) : p \in Msg /\ h < p.no /\ p.no <= n
<1>1. Len(m) \in Nat /\ Len(c) \in Nat /\ DOMAIN m = 1..Len(m) /\ DOMAIN c = 1..Len(c)
  OBVIOUS
<1>2. Len(c) = 2 * (n - h - Len(m))
  BY DEF Flows
<1>3. h + Len(m) <= n
  BY <1>1, <1>2
<1>4. ASSUME NEW i \in DOMAIN m PROVE m[i] \in Msg /\ h < m[i].no /\ m[i].no <= n
  <2>1. m[i].no = h + i /\ i \in 1..Len(m)
    BY <1>1 DEF Flows, InOrder
  <2> QED
    BY <1>1, <1>3, <2>1
<1>5. ASSUME NEW i \in DOMAIN c
      PROVE  c[i].pkt \in Msg /\ h < c[i].pkt.no /\ c[i].pkt.no <= n
  <2>1. c[i] \in Cell /\ i \in 1..Len(c)
    BY <1>1
  <2>2. c[i].pkt \in Msg /\ c[i].part \in {1, 2}
    BY <2>1 DEF Cell
  <2>3. c[i].pkt.no \in Nat
    BY <2>2, ClientAssumption DEF Msg
  <2>4. 2 * (c[i].pkt.no - 1) + c[i].part = 2 * (h + Len(m)) + i
    BY DEF Flows, InPlace, Place
  <2> HIDE DEF Flows
  <2>5. h < c[i].pkt.no /\ c[i].pkt.no <= n
    <3>1. \A k, l, len \in Nat, no \in Nat, part \in {1, 2} :
            \A j \in 1..len :
              /\ len = 2 * (n - h - l) /\ 2 * (no - 1) + part = 2 * (h + l) + j
              => h < no /\ no <= n
      OBVIOUS
    <3> QED
      BY <1>1, <1>2, <2>1, <2>2, <2>3, <2>4, <3>1
  <2> QED
    BY <2>2, <2>5
<1>6. ASSUME NEW p \in Flight(m, c) PROVE p \in Msg /\ h < p.no /\ p.no <= n
  BY <1>4, <1>5 DEF Flight, Range
<1> QED
  BY <1>1, <1>3, <1>6

\* A packet taken from the stream.
LEMMA TakeFlows ==
  ASSUME NEW m \in Seq(Msg), NEW c \in Seq(Cell), NEW h \in Nat, NEW n \in Nat,
         NEW p \in Msg, Flows(m, Cells(p) \o c, h, n)
  PROVE  /\ Flows(m \o <<p>>, c, h, n)
         /\ Flight(m \o <<p>>, c) = Flight(m, Cells(p) \o c)
<1>1. Cells(p) \in Seq(Cell) /\ Len(Cells(p)) = 2 /\ Len(m) \in Nat /\ Len(c) \in Nat
  BY CellsAreTwo
<1> DEFINE k == h + Len(m)
<1>2. k \in Nat /\ 2 * k \in Nat /\ k = h + Len(m)
  BY <1>1
<1> HIDE DEF k
<1>3. InPlace(Cells(p), 2 * k) /\ InPlace(c, 2 * k + 2)
  BY <1>1, <1>2, ConcatInPlace DEF Flows
<1>4. p.no = k + 1
  BY <1>2, <1>3, CellsInPlace
<1>5. InOrder(m \o <<p>>, h)
  <2>1. InOrder(m, h) /\ <<p>> \in Seq(Msg)
    BY DEF Flows
  <2>2. InOrder(<<p>>, h + Len(m))
    BY <1>2, <1>4 DEF InOrder
  <2> QED
    BY <2>1, <2>2, ConcatInOrder
<1>6. Len(m \o <<p>>) = Len(m) + 1
  OBVIOUS
<1>7. InPlace(c, 2 * (h + Len(m \o <<p>>)))
  <2>1. 2 * (h + Len(m \o <<p>>)) = 2 * k + 2
    BY <1>1, <1>2, <1>6
  <2> QED
    BY <1>3, <2>1
<1>8. Len(c) = 2 * (n - h - Len(m \o <<p>>))
  <2>1. Len(Cells(p) \o c) = Len(c) + 2
    BY CellsAreTwo
  <2>2. Len(Cells(p) \o c) = 2 * (n - h - Len(m))
    BY DEF Flows
  <2> QED
    BY <1>1, <1>6, <2>1, <2>2
<1>9. Flight(m \o <<p>>, c) = Flight(m, Cells(p) \o c)
  <2>1. <<p>> \in Seq(Msg) /\ << >> \in Seq(Msg) /\ << >> \in Seq(Cell)
    OBVIOUS
  <2>2. Flight(m \o <<p>>, c) = Flight(m, << >>) \cup ({p} \cup Flight(<< >>, c))
    <3>1. Flight(m \o <<p>>, c) = Flight(m, << >>) \cup Flight(<<p>>, c)
      <4>1. \A t \in Seq(Msg) : Flight(m \o t, c) = Flight(m, << >>) \cup Flight(t, c)
        BY FlightOfMsgs
      <4> QED
        BY <2>1, <4>1
    <3>2. Flight(<<p>>, c) = Flight(<<p>>, << >>) \cup Flight(<< >>, c)
      BY <2>1, FlightOfParts
    <3>3. Flight(<<p>>, << >>) = {p}
      BY FlightOfParts
    <3> QED
      BY <3>1, <3>2, <3>3
  <2>3. Flight(m, Cells(p) \o c) = (Flight(m, << >>) \cup {p}) \cup Flight(<< >>, c)
    <3>1. Flight(m, Cells(p) \o c) = Flight(m, Cells(p)) \cup Flight(<< >>, c)
      BY <1>1, <2>1, FlightOfParts
    <3>2. Flight(m, Cells(p)) = Flight(m, << >>) \cup Flight(<< >>, Cells(p))
      BY <1>1, <2>1, FlightOfParts
    <3>3. Flight(<< >>, Cells(p)) = {p}
      BY FlightOfParts
    <3> QED
      BY <3>1, <3>2, <3>3
  <2> QED
    BY <2>2, <2>3
<1> QED
  BY <1>5, <1>7, <1>8, <1>9 DEF Flows

\* The first message dealt with.
LEMMA DealFlows ==
  ASSUME NEW m \in Seq(Msg), NEW c \in Seq(Cell), NEW h \in Nat, NEW n \in Nat,
         NEW p \in Msg, Flows(<<p>> \o m, c, h, n)
  PROVE  /\ p.no = h + 1
         /\ Flows(m, c, h + 1, n)
         /\ Flight(<<p>> \o m, c) = {p} \cup Flight(m, c)
<1>1. <<p>> \in Seq(Msg) /\ Len(<<p>>) = 1 /\ Len(m) \in Nat
  OBVIOUS
<1>2. InOrder(<<p>>, h) /\ InOrder(m, h + 1)
  BY <1>1, ConcatInOrder DEF Flows
<1>3. p.no = h + 1
  BY <1>2 DEF InOrder
<1>4. Len(<<p>> \o m) = 1 + Len(m)
  BY <1>1
<1>5. Flows(m, c, h + 1, n)
  <2>1. h + Len(<<p>> \o m) = h + 1 + Len(m)
    BY <1>1, <1>4
  <2>2. n - h - Len(<<p>> \o m) = n - (h + 1) - Len(m)
    BY <1>1, <1>4
  <2>3. InPlace(c, 2 * (h + Len(<<p>> \o m))) /\ Len(c) = 2 * (n - h - Len(<<p>> \o m))
    BY DEF Flows
  <2> QED
    BY <1>2, <2>1, <2>2, <2>3 DEF Flows
<1>6. Flight(<<p>> \o m, c) = {p} \cup Flight(m, c)
  <2>1. Flight(<<p>> \o m, c) = Flight(<<p>>, << >>) \cup Flight(m, c)
    BY <1>1, FlightOfMsgs
  <2>2. Flight(<<p>>, << >>) = {p}
    BY FlightOfParts
  <2> QED
    BY <2>1, <2>2
<1> QED
  BY <1>3, <1>5, <1>6

\* A packet the server sends.
LEMMA SendFlows ==
  ASSUME NEW m \in Seq(Msg), NEW c \in Seq(Cell), NEW h \in Nat, NEW n \in Nat,
         NEW p \in Msg, p.no = n + 1, Flows(m, c, h, n)
  PROVE  /\ Flows(m, c \o Cells(p), h, n + 1)
         /\ Flight(m, c \o Cells(p)) = Flight(m, c) \cup {p}
<1>1. Cells(p) \in Seq(Cell) /\ Len(Cells(p)) = 2 /\ Len(m) \in Nat /\ Len(c) \in Nat
  BY CellsAreTwo
<1>2. Len(c) = 2 * (n - h - Len(m)) /\ InPlace(c, 2 * (h + Len(m))) /\ InOrder(m, h)
  BY DEF Flows
<1>3. 2 * (h + Len(m)) + Len(c) = 2 * n /\ 2 * (h + Len(m)) \in Nat
  BY <1>1, <1>2
<1>4. InPlace(Cells(p), 2 * n)
  BY CellsInPlace
<1>5. InPlace(c \o Cells(p), 2 * (h + Len(m)))
  BY <1>1, <1>2, <1>3, <1>4, ConcatInPlace
<1>6. Len(c \o Cells(p)) = 2 * (n + 1 - h - Len(m))
  <2>1. Len(c \o Cells(p)) = Len(c) + 2
    BY CellsAreTwo
  <2> QED
    BY <1>1, <1>2, <2>1
<1>7. Flight(m, c \o Cells(p)) = Flight(m, c) \cup {p}
  <2>1. Flight(m, c \o Cells(p)) = Flight(m, c) \cup Flight(<< >>, Cells(p))
    BY <1>1, FlightOfParts
  <2>2. Flight(<< >>, Cells(p)) = {p}
    BY FlightOfParts
  <2> QED
    BY <2>1, <2>2
<1> QED
  BY <1>2, <1>5, <1>6, <1>7 DEF Flows

\* What is on its way in a session that began clean: consecutive, of this session,
\* each packet once.
Flowing ==
  /\ Flows(Msgs, Stream, handledNo, sent)
  /\ \A p \in InFlight : p.session = session
  /\ OneEach

\* A connection that is down has nothing of the server's left.
DownIsIdle ==
  conn = "down" =>
    handledNo = sent /\ asks = {} /\ room = FALSE /\ due = {} /\ told = {}

FlowInv == DownIsIdle /\ (clean /\ conn # "down" => Flowing)

\* The counters are numbers.
LEMMA Counters ==
  ASSUME TypeOK
  PROVE  handledNo \in Nat /\ sent \in Nat
BY ClientAssumption DEF TypeOK, HistoryType, ServerType

\* The messages and the stream have their types after the step, too.
LEMMA FlowTypedNext ==
  ASSUME TypeOK'
  PROVE  Msgs' \in Seq(Msg) /\ Stream' \in Seq(Cell)
<1>1. Opt(held)' \in Seq(Msg) /\ Opt(sockMsg)' \in Seq(Msg) /\ queue_recv' \in Seq(Msg)
  BY DEF TypeOK, RecvType, SocketType, Opt
<1>2. recvbuf' \in Seq(Cell) /\ wire' \in Seq(Cell)
  BY DEF TypeOK, SocketType, ConnType
<1> QED
  BY <1>1, <1>2 DEF Msgs, Stream

\* Steps that at most take a packet from the stream.
LEMMA StillFlows ==
  ASSUME TypeOK, TypeOK', Flowing, UNCHANGED <<session, handledNo, sent>>,
         \/ Stream' = Stream /\ Msgs' = Msgs
         \/ \E p \in Msg : Stream = Cells(p) \o Stream' /\ Msgs' = Msgs \o <<p>>
  PROVE  Flowing' /\ InFlight' = InFlight
<1>1. /\ Msgs \in Seq(Msg) /\ Stream \in Seq(Cell) /\ handledNo \in Nat /\ sent \in Nat
      /\ Msgs' \in Seq(Msg) /\ Stream' \in Seq(Cell)
  <2>1. Msgs' \in Seq(Msg) /\ Stream' \in Seq(Cell)
    BY FlowTypedNext
  <2> QED
    BY <2>1, FlowTyped, Counters
<1>2. Flows(Msgs', Stream', handledNo, sent) /\ Flight(Msgs', Stream') = Flight(Msgs, Stream)
  <2>1. CASE Stream' = Stream /\ Msgs' = Msgs
    BY <2>1 DEF Flowing
  <2>2. CASE \E p \in Msg : Stream = Cells(p) \o Stream' /\ Msgs' = Msgs \o <<p>>
    <3>1. PICK p \in Msg : Stream = Cells(p) \o Stream' /\ Msgs' = Msgs \o <<p>>
      BY <2>2
    <3>2. Flows(Msgs, Cells(p) \o Stream', handledNo, sent)
      BY <3>1 DEF Flowing
    <3>3. /\ Flows(Msgs \o <<p>>, Stream', handledNo, sent)
          /\ Flight(Msgs \o <<p>>, Stream') = Flight(Msgs, Cells(p) \o Stream')
      BY <1>1, <3>2, TakeFlows
    <3> QED
      BY <3>1, <3>3
  <2> QED
    BY <2>1, <2>2
<1>3. InFlight' = InFlight
  BY <1>2 DEF InFlight
<1>4. (\A p \in InFlight : p.session = session)' /\ OneEach'
  BY <1>3 DEF Flowing, OneEach
<1>5. Flows(Msgs, Stream, handledNo, sent)'
  BY <1>2
<1> QED
  BY <1>3, <1>4, <1>5 DEF Flowing

\* The message dealt with was the next, and is the only one that is gone.
LEMMA DealStep ==
  ASSUME TypeOK, TypeOK', Flowing, conn # "down", held # NoMsg, Dealt,
         UNCHANGED <<queue_recv, socket, wire, session, sent>>
  PROVE  /\ Flowing' /\ held \in InFlight /\ InFlight = {held} \cup InFlight'
         /\ \A p \in InFlight' : held.no < p.no
<1>1. /\ Msgs \in Seq(Msg) /\ Stream \in Seq(Cell) /\ handledNo \in Nat /\ sent \in Nat
      /\ Msgs' \in Seq(Msg) /\ Stream' = Stream /\ held \in Msg
  <2>1. Msgs' \in Seq(Msg)
    BY FlowTypedNext
  <2>2. Stream' = Stream
    BY DEF socket, Stream
  <2> QED
    BY <2>1, <2>2, FlowTyped, Counters DEF TypeOK, RecvType
<1>2. Msgs = <<held>> \o Msgs'
  BY DealtFlow DEF Dealt, socket
<1>3. /\ held.no = handledNo + 1
      /\ Flows(Msgs', Stream, handledNo + 1, sent)
      /\ Flight(Msgs, Stream) = {held} \cup Flight(Msgs', Stream)
  <2>1. Flows(<<held>> \o Msgs', Stream, handledNo, sent)
    BY <1>2 DEF Flowing
  <2>2. /\ held.no = handledNo + 1
        /\ Flows(Msgs', Stream, handledNo + 1, sent)
        /\ Flight(<<held>> \o Msgs', Stream) = {held} \cup Flight(Msgs', Stream)
    BY <1>1, <2>1, DealFlows
  <2> QED
    BY <1>2, <2>2
<1>4. InFlight = {held} \cup InFlight'
  BY <1>1, <1>3 DEF InFlight
<1>5. \A p \in InFlight' : held.no < p.no
  <2>1. handledNo + 1 \in Nat
    BY <1>1
  <2>2. \A p \in Flight(Msgs', Stream) : handledNo + 1 < p.no
    BY <1>1, <1>3, <2>1, FlightNumbers
  <2> QED
    BY <1>1, <1>3, <2>2 DEF InFlight
<1>6. handledNo' = handledNo + 1
  <2>1. held.session = session /\ held.no > 0
    BY <1>1, <1>3, <1>4 DEF Flowing
  <2> QED
    BY <1>3, <2>1 DEF Dealt, HandledNo
<1>7. Flows(Msgs, Stream, handledNo, sent)'
  BY <1>1, <1>3, <1>6
<1>8. (\A p \in InFlight : p.session = session)' /\ OneEach'
  BY <1>4 DEF Flowing, OneEach
<1> QED
  BY <1>4, <1>5, <1>7, <1>8 DEF Flowing

\* A packet that is sent is the last one of those on their way.
LEMMA SendStep ==
  ASSUME TypeOK, TypeOK', Flowing, NEW type \in MsgTypes, NEW code \in -1..1,
         NEW ips \in SUBSET Ips, Send(type, code, ips)
  PROVE  /\ Flowing' /\ InFlight' = InFlight \cup {Packet(type, code, ips)}
         /\ \A p \in InFlight : p.no < Packet(type, code, ips).no
<1> DEFINE new == Packet(type, code, ips)
<1>1. /\ new \in Msg /\ Stream' = Stream \o Cells(new)
      /\ Msgs' = Msgs /\ sent' = sent + 1 /\ UNCHANGED <<handledNo, session>>
  BY SendFlow
<1>2. new.no = sent + 1 /\ new.session = session
  BY DEF Packet
<1> HIDE DEF new
<1>3. Msgs \in Seq(Msg) /\ Stream \in Seq(Cell) /\ handledNo \in Nat /\ sent \in Nat
  BY FlowTyped, Counters
<1>4. /\ Flows(Msgs, Stream \o Cells(new), handledNo, sent + 1)
      /\ Flight(Msgs, Stream \o Cells(new)) = Flight(Msgs, Stream) \cup {new}
  BY <1>1, <1>2, <1>3, SendFlows DEF Flowing
<1>5. Flows(Msgs, Stream, handledNo, sent)'
  BY <1>1, <1>4
<1>6. InFlight' = InFlight \cup {new}
  BY <1>1, <1>4 DEF InFlight
<1>7. \A p \in InFlight : p \in Msg /\ p.no <= sent
  BY <1>3, FlightNumbers DEF Flowing, InFlight
<1>8. \A p \in InFlight : p.no < new.no
  BY <1>2, <1>3, <1>7, ClientAssumption DEF Msg
<1>9. (\A p \in InFlight : p.session = session)'
  BY <1>1, <1>2, <1>6 DEF Flowing
<1>10. OneEach'
  <2>1. \A p \in InFlight : p.no # new.no
    BY <1>2, <1>3, <1>7
  <2> QED
    BY <1>6, <2>1 DEF Flowing, OneEach
<1> QED
  BY <1>5, <1>6, <1>8, <1>9, <1>10 DEF Flowing, new

\* A connection that is made clean has nothing on its way.
LEMMA FreshFlows ==
  ASSUME TypeOK, FlowInv, WaitInv, Connected, clean'
  PROVE  Flowing' /\ InFlight' = {} /\ partner' = {} /\ told' = {}
<1>1. conn = "down" /\ sockMsg' = NoMsg /\ held' = NoMsg /\ queue_recv' = << >>
      /\ recvbuf' = << >> /\ wire' = << >> /\ partner' = {}
  BY DEF Connected, Connecting, WaitInv, TypeOK, SocketType, socket, widget
<1>2. Msgs' = << >> /\ Stream' = << >>
  BY <1>1 DEF Msgs, Stream, Opt
<1>3. InFlight' = {}
  BY <1>2 DEF InFlight, Flight, Range
<1>4. handledNo' = sent' /\ sent' \in Nat /\ told' = {}
  BY <1>1, Counters DEF Connected, server, FlowInv, DownIsIdle
<1>5. Flows(Msgs, Stream, handledNo, sent)'
  <2>1. \A n \in Nat : InOrder(<< >>, n) /\ InPlace(<< >>, 2 * (n + 0))
    BY DEF InOrder, InPlace
  <2>2. Len(<< >>) = 0 /\ \A n \in Nat : 0 = 2 * (n - n - 0)
    OBVIOUS
  <2>3. \A n \in Nat : Flows(<< >>, << >>, n, n)
    BY <2>1, <2>2 DEF Flows
  <2> QED
    BY <1>2, <1>4, <2>3
<1> QED
  BY <1>1, <1>3, <1>4, <1>5 DEF Flowing, OneEach

\* The messages datasolve deals with and is done.
Deals == CreateResponse \/ JoinResponse \/ PartnersCome \/ PartnerExit \/ Text

\* The steps that move nothing.
Rests ==
  \/ NetError \/ CloseBox \/ CreateMeet \/ JoinMeet \/ ExitMeet \/ Admit \/ ServerCloses
  \/ SoundBlocks \/ Writer

\* The steps taken while there is no connection, which make none.
Waits ==
  ConnServer \/ ConnTimeout \/ ConnFails \/ PushRefused \/ Disconnected \/ Joined

\* The steps that end a connection.
Loses == RemoteClosed \/ NetworkFails \/ CloseSocket

\* Every step is one of these.
LEMMA StepsOfFlow ==
  Next => \/ ReadyRead \/ PushRecv \/ Solve \/ Deals \/ Rests \/ Writes
          \/ Connected \/ Waits \/ Loses
BY DEF Next, SockThread, Connect, Gui, Datasolve, User, Server, Deals, Rests, Waits, Loses,
       Writes

\* What the history and the counters do.
LEMMA HistorySteps ==
  /\ ReadyRead \/ PushRecv \/ Solve \/ Rests
       => UNCHANGED <<clean, session, handledNo, sent>>
  /\ Deals => held # NoMsg /\ ui = "free" /\ Dealt
              /\ UNCHANGED <<ui, queue_recv, socket, wire, conn, clean, session, sent,
                             asks, room, due, told>>
  /\ Loses => conn' = "down" /\ ConnDown
  /\ TypeOK /\ WaitInv /\ Waits
       => conn = "down" /\ UNCHANGED <<conn, server, history>>
<1>1. ReadyRead \/ PushRecv \/ Solve \/ Rests
        => UNCHANGED <<clean, session, handledNo, sent>>
  BY DEF ReadyRead, PushRecv, PushMsg, Solve, Rests, NetError, CloseBox, CreateMeet,
         JoinMeet, ExitMeet, Admit, ServerCloses, SoundBlocks, Writer, RunStarts, RunEnds,
         history, server
<1>2. Deals => held # NoMsg /\ ui = "free" /\ Dealt
              /\ UNCHANGED <<ui, queue_recv, socket, wire, conn, clean, session, sent,
                             asks, room, due, told>>
  BY DEF Deals, CreateResponse, JoinResponse, PartnersCome, PartnerExit, Text, Given, server
<1>3. Loses => conn' = "down" /\ ConnDown
  BY DEF Loses, RemoteClosed, NetworkFails, ErrorDetect, CloseSocket, ConnDown
<1>4. ASSUME TypeOK, WaitInv, Waits
      PROVE  conn = "down" /\ UNCHANGED <<conn, server, history>>
  <2>1. CASE ConnServer
    BY <1>4, <2>1 DEF ConnServer, UserMayClick, WaitInv, ConnectsOnce
  <2>2. CASE ConnTimeout \/ ConnFails
    BY <1>4, <2>2 DEF ConnTimeout, ConnFails, Connecting, WaitInv
  <2>3. CASE PushRefused
    BY <1>4, <2>3 DEF PushRefused, PushMsg, WaitInv
  <2>4. CASE Disconnected \/ Joined
    BY <1>4, <2>4 DEF Disconnected, Joined, WaitInv, TypeOK, ConnType
  <2> QED
    BY <1>4, <2>1, <2>2, <2>3, <2>4 DEF Waits
<1> QED
  BY <1>1, <1>2, <1>3, <1>4

\* The steps that move nothing, move nothing.
LEMMA RestFlow ==
  ASSUME Rests
  PROVE  Msgs' = Msgs /\ Stream' = Stream
<1>1. UNCHANGED <<held, queue_recv, sockMsg, recvbuf, wire>>
  BY DEF Rests, NetError, CloseBox, CreateMeet, JoinMeet, ExitMeet, Admit, ServerCloses,
         SoundBlocks, Writer, RunStarts, RunEnds, socket
<1> QED
  BY <1>1 DEF Msgs, Stream, Opt

\* Packets that move on are the same packets.
LEMMA MoveSteps ==
  ASSUME TypeOK, TypeOK', Flowing, ReadyRead \/ PushRecv \/ Solve \/ Rests
  PROVE  Flowing' /\ InFlight' = InFlight
<1>1. CASE ReadyRead
  <2>1. InPlace(Stream, 2 * (handledNo + Len(Msgs))) /\ OneEach
    BY DEF Flowing, Flows
  <2>2. handledNo + Len(Msgs) \in Nat
    BY FlowTyped, Counters
  <2>3. \/ Stream' = Stream /\ Msgs' = Msgs
        \/ \E p \in Msg : Stream = Cells(p) \o Stream' /\ Msgs' = Msgs \o <<p>>
    BY <1>1, <2>1, <2>2, ReadFlow
  <2> QED
    BY <1>1, <2>3, StillFlows, HistorySteps
<1>2. CASE PushRecv \/ Solve
  <2>1. Msgs' = Msgs
    BY <1>2, QueueFlow
  <2>2. Stream' = Stream
    BY <1>2 DEF PushRecv, PushMsg, Solve, Stream, socket
  <2> QED
    BY <1>2, <2>1, <2>2, StillFlows, HistorySteps
<1>3. CASE Rests
  BY <1>3, RestFlow, StillFlows, HistorySteps
<1> QED
  BY <1>1, <1>2, <1>3

\* A step in the middle of a session that began clean moves packets on, deals with
\* the first of them or adds one behind the last.
LEMMA FlowSteps ==
  ASSUME TypeOK, TypeOK', WaitInv, Flowing, [Next]_vars, conn # "down", conn' # "down"
  PROVE  Flowing'
<1>1. CASE ReadyRead \/ PushRecv \/ Solve \/ Rests
  BY <1>1, MoveSteps
<1>2. CASE Deals
  BY <1>2, DealStep, HistorySteps
<1>3. CASE Writes
  <2>1. PICK type \in MsgTypes, code \in -1..1, ips \in SUBSET Ips : Send(type, code, ips)
    BY <1>3, WritesSend
  <2> QED
    BY <2>1, SendStep
<1>4. CASE Connected \/ Waits \/ Loses
  BY <1>4, HistorySteps DEF Connected, Connecting, WaitInv
<1>5. CASE UNCHANGED vars
  <2>1. UNCHANGED <<held, queue_recv, sockMsg, recvbuf, wire, session, handledNo, sent>>
    BY <1>5 DEF vars, socket, server, history
  <2>2. Msgs' = Msgs /\ Stream' = Stream
    BY <2>1 DEF Msgs, Stream, Opt
  <2> QED
    BY <2>1, <2>2, StillFlows
<1> QED
  BY <1>1, <1>2, <1>3, <1>4, <1>5, StepsOfFlow

\* The server says nothing to a connection that is down.
LEMMA DownStep == TypeOK /\ WaitInv /\ DownIsIdle /\ [Next]_vars => DownIsIdle'
<1> SUFFICES ASSUME TypeOK, WaitInv, DownIsIdle, [Next]_vars, conn' = "down"
             PROVE  /\ handledNo' = sent' /\ asks' = {} /\ room' = FALSE
                    /\ due' = {} /\ told' = {}
  BY DEF DownIsIdle
<1>1. CASE Loses
  BY <1>1, HistorySteps DEF ConnDown, Gone
<1>2. ASSUME UNCHANGED <<conn, asks, room, due, told, sent, handledNo>>
      PROVE  /\ handledNo' = sent' /\ asks' = {} /\ room' = FALSE
             /\ due' = {} /\ told' = {}
  BY <1>2 DEF DownIsIdle
<1>3. CASE ReadyRead \/ PushRecv \/ Solve
  BY <1>2, <1>3 DEF ReadyRead, PushRecv, PushMsg, Solve, server, history
<1>4. CASE Waits
  BY <1>2, <1>4, HistorySteps DEF server, history
<1>5. CASE Deals
  <2>1. conn = "down" /\ UNCHANGED <<asks, room, due, told, sent>> /\ Dealt
    BY <1>5, HistorySteps
  <2>2. handledNo' = handledNo
    BY <2>1 DEF Dealt, HandledNo
  <2> QED
    BY <2>1, <2>2 DEF DownIsIdle
<1>6. CASE NetError \/ CloseBox \/ ExitMeet \/ SoundBlocks \/ Writer
  BY <1>2, <1>6
  DEF NetError, CloseBox, ExitMeet, SoundBlocks, Writer, RunStarts, RunEnds, server, history
<1>7. CASE CreateMeet \/ JoinMeet
  <2>1. conn = "down" /\ UNCHANGED <<asks, room, due, told, sent, handledNo>>
    BY <1>7 DEF CreateMeet, JoinMeet, Ask, history
  <2> QED
    BY <2>1 DEF DownIsIdle
<1>8. CASE Connected \/ Admit \/ ServerCloses
  BY <1>8 DEF Connected, Admit, ServerCloses
<1>9. CASE Writes
  <2>1. PICK type \in MsgTypes, code \in -1..1, ips \in SUBSET Ips : Send(type, code, ips)
    BY <1>9, WritesSend
  <2> QED
    BY <2>1 DEF Send
<1>10. CASE UNCHANGED vars
  BY <1>2, <1>10 DEF vars, server, history
<1> QED
  BY <1>1, <1>3, <1>4, <1>5, <1>6, <1>7, <1>8, <1>9, <1>10, StepsOfFlow DEF Rests

\* A step of a session that began clean, after its first.
LEMMA StillClean ==
  ASSUME TypeOK, WaitInv, [Next]_vars, ~Connected, clean', conn' # "down"
  PROVE  clean /\ conn # "down"
<1>1. CASE ReadyRead \/ PushRecv \/ Solve \/ Deals
  <2>1. UNCHANGED <<clean, conn>>
    BY <1>1, HistorySteps DEF ReadyRead, PushRecv, PushMsg, Solve
  <2> QED
    BY <2>1
<1>2. CASE Rests
  BY <1>2, HistorySteps
  DEF Rests, NetError, CloseBox, CreateMeet, JoinMeet, ExitMeet, Admit, ServerCloses,
      SoundBlocks, Writer, RunStarts, RunEnds
<1>3. CASE Writes
  <2>1. PICK type \in MsgTypes, code \in -1..1, ips \in SUBSET Ips : Send(type, code, ips)
    BY <1>3, WritesSend
  <2> QED
    BY <2>1 DEF Send
<1>4. CASE Waits \/ Loses
  BY <1>4, HistorySteps
<1>5. CASE UNCHANGED vars
  BY <1>5 DEF vars, history
<1> QED
  BY <1>1, <1>2, <1>3, <1>4, <1>5, StepsOfFlow

\* The inductive step.
LEMMA FlowStep ==
  TypeOK /\ TypeOK' /\ WaitInv /\ FlowInv /\ [Next]_vars => FlowInv'
<1> SUFFICES ASSUME TypeOK, TypeOK', WaitInv, FlowInv, [Next]_vars PROVE FlowInv'
  OBVIOUS
<1>1. DownIsIdle'
  BY DownStep DEF FlowInv
<1>2. ASSUME clean', conn' # "down" PROVE Flowing'
  <2>1. CASE Connected
    BY <1>2, <2>1, FreshFlows
  <2>2. CASE ~Connected
    BY <1>2, <2>2, StillClean, FlowSteps DEF FlowInv
  <2> QED
    BY <2>1, <2>2
<1> QED
  BY <1>1, <1>2 DEF FlowInv

\* As long as a connection that began with empty buffers lasts, what the server wrote
\* and datasolve has not dealt with is in the buffers between them, each packet once
\* and in order, down to the cells of the stream, wherever the reads end.
THEOREM NothingIsLost == Spec => []NothingLost
<1>1. Init => FlowInv
  BY DEF Init, FlowInv, DownIsIdle
<1>2. FlowInv => NothingLost
  BY DEF FlowInv, NothingLost, Flowing, Flows
<1> QED
  BY <1>1, <1>2, TypeCorrect, WaitHolds, FlowStep, PTL DEF Spec

----------------------------------------------------------------------------
\* The list of partners.

\* A response that says that the client is in the meeting.
Admits(p) == p.type \in Responses /\ p.code = 1

Brings(p, ip) ==
  \/ p.type = "PARTNER_JOIN" /\ ip \in p.ips
  \/ Admits(p) /\ ip = Me

Takes(p, ip) == p.type = "PARTNER_EXIT" /\ ip \in p.ips

\* ip will be in the list when all that is on its way, flight, has been dealt with.
Stays(flight, list, ip) ==
  \/ \E p \in flight : Brings(p, ip) /\ \A q \in flight : Takes(q, ip) => q.no < p.no
  \/ ip \in list /\ \A q \in flight : ~Takes(q, ip)

\* What the packets tell of ip is what their way through the client will make of it.
OneKnown(ip) == ip \in told <=> Stays(InFlight, partner, ip)

\* A packet that says who left names one, and no create is answered with -1.
WellFormed(p) ==
  /\ p.type = "PARTNER_EXIT" => \E ip \in Others : p.ips = {ip}
  /\ p.type = "CREATE_MEETING_RESPONSE" => p.code # -1

Known == (\A ip \in Ips : OneKnown(ip)) /\ \A p \in InFlight : WellFormed(p)

ListInv == clean /\ conn = "up" /\ ui = "free" => Known

\* A packet that is sent decides, if it is about ip, whether ip stays.
LEMMA StaysSent ==
  ASSUME NEW flight, NEW list, NEW ip, NEW new \in Msg, flight \subseteq Msg,
         \A p \in flight : p.no < new.no
  PROVE  /\ Brings(new, ip) => Stays(flight \cup {new}, list, ip)
         /\ Takes(new, ip) => ~Stays(flight \cup {new}, list, ip)
         /\ ~Brings(new, ip) /\ ~Takes(new, ip)
              => (Stays(flight \cup {new}, list, ip) <=> Stays(flight, list, ip))
<1>1. \A p \in flight \cup {new} : p.no \in Int
  BY ClientAssumption DEF Msg
<1>2. ~(Brings(new, ip) /\ Takes(new, ip))
  BY DEF Brings, Takes, Admits, Responses
<1>3. ASSUME Brings(new, ip) PROVE Stays(flight \cup {new}, list, ip)
  BY <1>2, <1>3 DEF Stays
<1>4. ASSUME Takes(new, ip), Stays(flight \cup {new}, list, ip) PROVE FALSE
  <2>1. PICK p \in flight \cup {new} :
          Brings(p, ip) /\ \A q \in flight \cup {new} : Takes(q, ip) => q.no < p.no
    BY <1>4 DEF Stays
  <2>2. new.no < p.no /\ p \in flight
    BY <1>2, <1>4, <2>1
  <2>3. p.no < new.no
    BY <2>2
  <2> QED
    BY <1>1, <2>2, <2>3
<1>5. ASSUME ~Brings(new, ip), ~Takes(new, ip)
      PROVE  Stays(flight \cup {new}, list, ip) <=> Stays(flight, list, ip)
  BY <1>5 DEF Stays
<1> QED
  BY <1>3, <1>4, <1>5

\* Dealing with the first packet changes nothing about who stays in the end.
LEMMA StaysDealt ==
  ASSUME NEW flight, NEW rest, NEW list, NEW list2, NEW ip, NEW p \in Msg,
         flight = {p} \cup rest, rest \subseteq Msg, \A q \in rest : p.no < q.no,
         ip \in list2 <=> (ip \in list \/ Brings(p, ip)) /\ ~Takes(p, ip)
  PROVE  Stays(rest, list2, ip) <=> Stays(flight, list, ip)
<1>1. \A q \in flight : q.no \in Int
  BY ClientAssumption DEF Msg
<1>2. ~(Brings(p, ip) /\ Takes(p, ip))
  BY DEF Brings, Takes, Admits, Responses
<1>3. ASSUME Stays(rest, list2, ip) PROVE Stays(flight, list, ip)
  <2>1. CASE \E r \in rest : Brings(r, ip) /\ \A q \in rest : Takes(q, ip) => q.no < r.no
    <3>1. PICK r \in rest : Brings(r, ip) /\ \A q \in rest : Takes(q, ip) => q.no < r.no
      BY <2>1
    <3>2. r \in flight /\ \A q \in flight : Takes(q, ip) => q.no < r.no
      BY <3>1
    <3> QED
      BY <3>1, <3>2 DEF Stays
  <2>2. CASE ip \in list2 /\ \A q \in rest : ~Takes(q, ip)
    <3>1. \A q \in flight : ~Takes(q, ip)
      BY <2>2
    <3>2. ip \in list \/ Brings(p, ip)
      BY <2>2
    <3> QED
      BY <3>1, <3>2 DEF Stays
  <2> QED
    BY <1>3, <2>1, <2>2 DEF Stays
<1>4. ASSUME Stays(flight, list, ip) PROVE Stays(rest, list2, ip)
  <2>1. CASE \E r \in flight : Brings(r, ip) /\ \A q \in flight : Takes(q, ip) => q.no < r.no
    <3>1. PICK r \in flight : Brings(r, ip) /\ \A q \in flight : Takes(q, ip) => q.no < r.no
      BY <2>1
    <3>2. CASE r = p
      <4>1. \A q \in rest : ~Takes(q, ip)
        <5> SUFFICES ASSUME NEW q \in rest, Takes(q, ip) PROVE FALSE
          OBVIOUS
        <5>1. q.no < p.no /\ p.no < q.no
          BY <3>1, <3>2
        <5>2. p.no \in Int /\ q.no \in Int
          BY <1>1
        <5> QED
          BY <5>1, <5>2
      <4>2. ip \in list2
        BY <1>2, <3>1, <3>2
      <4> QED
        BY <4>1, <4>2 DEF Stays
    <3>3. CASE r # p
      BY <3>1, <3>3 DEF Stays
    <3> QED
      BY <3>2, <3>3
  <2>2. CASE ip \in list /\ \A q \in flight : ~Takes(q, ip)
    BY <2>2 DEF Stays
  <2> QED
    BY <1>4, <2>1, <2>2 DEF Stays
<1> QED
  BY <1>3, <1>4

\* What is on its way are messages.
LEMMA FlightTyped ==
  ASSUME TypeOK
  PROVE  InFlight \subseteq Msg
<1>1. Msgs \in Seq(Msg) /\ Stream \in Seq(Cell)
  BY FlowTyped
<1>2. Range(Msgs) \subseteq Msg /\ Range(Stream) \subseteq Cell
  BY <1>1 DEF Range
<1> QED
  BY <1>2 DEF InFlight, Flight, Cell

\* A step that moves packets, or nothing, and leaves the list alone.
LEMMA KnownFrame ==
  ASSUME Known, InFlight' = InFlight, UNCHANGED <<partner, told>>
  PROVE  Known'
BY DEF Known, OneKnown, WellFormed

\* What datasolve makes of the list of partners, address by address.
LEMMA DealtList ==
  ASSUME TypeOK, conn = "up", Deals, WellFormed(held), NEW ip \in Ips
  PROVE  ip \in partner' <=> (ip \in partner \/ Brings(held, ip)) /\ ~Takes(held, ip)
<1>1. Own = Me /\ held \in Msg
  BY HistorySteps DEF Own, TypeOK, RecvType
<1>2. held.code \in {-1, 0, 1}
  BY <1>1 DEF Msg
<1>3. CASE CreateResponse
  <2>1. held.type = "CREATE_MEETING_RESPONSE" /\ held.code # -1
    BY <1>3 DEF CreateResponse, Given, WellFormed
  <2>2. ~Takes(held, ip) /\ (Brings(held, ip) <=> held.code = 1 /\ ip = Me)
    BY <2>1 DEF Takes, Brings, Admits, Responses
  <2>3. partner' = IF held.code # 0 THEN partner \cup {Me} ELSE partner
    BY <1>1, <1>3 DEF CreateResponse, AddPartners
  <2> QED
    BY <1>2, <2>1, <2>2, <2>3
<1>4. CASE JoinResponse
  <2>1. held.type = "JOIN_MEETING_RESPONSE"
    BY <1>4 DEF JoinResponse, Given
  <2>2. ~Takes(held, ip) /\ (Brings(held, ip) <=> held.code = 1 /\ ip = Me)
    BY <2>1 DEF Takes, Brings, Admits, Responses
  <2>3. \/ held.code \in {0, -1} /\ partner' = partner
        \/ held.code > 0 /\ partner' = partner \cup {Me}
    BY <1>1, <1>4 DEF JoinResponse, AddPartners
  <2> QED
    BY <1>2, <2>2, <2>3
<1>5. CASE PartnersCome
  <2>1. held.type = "PARTNER_JOIN" /\ partner' = partner \cup held.ips
    BY <1>5 DEF PartnersCome, Given, AddPartners
  <2>2. ~Takes(held, ip) /\ (Brings(held, ip) <=> ip \in held.ips)
    BY <2>1 DEF Takes, Brings, Admits, Responses
  <2> QED
    BY <2>1, <2>2
<1>6. CASE PartnerExit
  <2>1. held.type = "PARTNER_EXIT"
    BY <1>6 DEF PartnerExit, Given
  <2>2. PICK x \in Others : held.ips = {x}
    BY <2>1 DEF WellFormed
  <2>3. partner' = partner \ {x}
    BY <1>6, <2>2 DEF PartnerExit, RemovePartner
  <2>4. ~Brings(held, ip) /\ (Takes(held, ip) <=> ip = x)
    BY <2>1, <2>2 DEF Takes, Brings, Admits, Responses
  <2> QED
    BY <2>3, <2>4
<1>7. CASE Text
  <2>1. held.type = "TEXT_RECV" /\ partner' = partner
    BY <1>7 DEF Text, Given, widget
  <2>2. ~Takes(held, ip) /\ ~Brings(held, ip)
    BY <2>1 DEF Takes, Brings, Admits, Responses
  <2> QED
    BY <2>1, <2>2
<1> QED
  BY <1>3, <1>4, <1>5, <1>6, <1>7 DEF Deals

\* datasolve.
LEMMA KnownDealt ==
  ASSUME TypeOK, TypeOK', Flowing, Known, conn = "up", Deals
  PROVE  Known'
<1>1. /\ held # NoMsg /\ Dealt /\ held \in Msg /\ told' = told
      /\ UNCHANGED <<queue_recv, socket, wire, session, sent>>
  BY HistorySteps DEF TypeOK, RecvType
<1>2. /\ held \in InFlight /\ InFlight = {held} \cup InFlight'
      /\ \A p \in InFlight' : held.no < p.no
  BY <1>1, DealStep
<1>3. InFlight' \subseteq Msg
  BY <1>2, FlightTyped
<1>4. WellFormed(held)
  BY <1>2 DEF Known
<1>5. PICK rest, list2 : rest = InFlight' /\ list2 = partner'
  OBVIOUS
<1>6. ASSUME NEW ip \in Ips
      PROVE  Stays(rest, list2, ip) <=> Stays(InFlight, partner, ip)
  <2>1. ip \in list2 <=> (ip \in partner \/ Brings(held, ip)) /\ ~Takes(held, ip)
    BY <1>4, <1>5, DealtList
  <2>2. /\ InFlight = {held} \cup rest /\ rest \subseteq Msg
        /\ \A q \in rest : held.no < q.no
    BY <1>2, <1>3, <1>5
  <2> QED
    BY <1>1, <2>1, <2>2, StaysDealt
<1>7. ASSUME NEW ip \in Ips PROVE OneKnown(ip)'
  BY <1>1, <1>5, <1>6, <1>7 DEF Known, OneKnown
<1>8. \A p \in InFlight' : WellFormed(p)
  BY <1>2 DEF Known
<1> QED
  BY <1>7, <1>8 DEF Known, WellFormed

\* What a packet tells is what it brings and takes.
LEMMA TellsList ==
  ASSUME NEW list, NEW type, NEW code, NEW ips, NEW ip
  PROVE  ip \in Tells(list, type, code, ips) <=>
           \/ Brings(Packet(type, code, ips), ip)
           \/ ip \in list /\ ~Takes(Packet(type, code, ips), ip)
<1>1. /\ Packet(type, code, ips).type = type /\ Packet(type, code, ips).ips = ips
      /\ Packet(type, code, ips).code = code
  BY DEF Packet
<1> QED
  BY <1>1 DEF Tells, Brings, Takes, Admits, Responses

\* The server.
LEMMA KnownWrites ==
  ASSUME TypeOK, TypeOK', Flowing, Known, Writes
  PROVE  Known'
<1>1. PICK type \in MsgTypes, code \in -1..1, ips \in SUBSET Ips :
        /\ Send(type, code, ips)
        /\ type = "PARTNER_EXIT" => \E ip \in Others : ips = {ip}
        /\ type = "CREATE_MEETING_RESPONSE" => code # -1
  BY WritesSend
<1>2. PICK new : new = Packet(type, code, ips)
  OBVIOUS
<1>3. /\ new \in Msg /\ InFlight' = InFlight \cup {new}
      /\ (\A p \in InFlight : p.no < new.no) /\ InFlight \subseteq Msg
      /\ partner' = partner /\ told' = Tells(told, type, code, ips)
  BY <1>1, <1>2, SendStep, SendFlow, FlightTyped
<1>4. ASSUME NEW ip \in Ips PROVE OneKnown(ip)'
  <2>1. /\ Brings(new, ip) => Stays(InFlight \cup {new}, partner, ip)
        /\ Takes(new, ip) => ~Stays(InFlight \cup {new}, partner, ip)
        /\ ~Brings(new, ip) /\ ~Takes(new, ip)
             => (Stays(InFlight \cup {new}, partner, ip) <=> Stays(InFlight, partner, ip))
    BY <1>3, StaysSent
  <2>2. ip \in told' <=> (Brings(new, ip) \/ (ip \in told /\ ~Takes(new, ip)))
    BY <1>2, <1>3, TellsList
  <2>3. ip \in told' <=> Stays(InFlight \cup {new}, partner, ip)
    BY <2>1, <2>2 DEF Known, OneKnown
  <2> QED
    BY <1>3, <2>3 DEF OneKnown
<1>5. WellFormed(new)
  BY <1>1, <1>2 DEF WellFormed, Packet
<1>6. \A p \in InFlight' : WellFormed(p)
  BY <1>3, <1>5 DEF Known
<1> QED
  BY <1>4, <1>6 DEF Known, WellFormed

\* The inductive step.
LEMMA ListStep ==
  TypeOK /\ TypeOK' /\ WaitInv /\ FlowInv /\ ListInv /\ [Next]_vars => ListInv'
<1> SUFFICES ASSUME TypeOK, TypeOK', WaitInv, FlowInv, ListInv, [Next]_vars,
                    clean', conn' = "up", ui' = "free"
             PROVE  Known'
  BY DEF ListInv
<1>1. CASE Connected
  <2>1. InFlight' = {} /\ partner' = {} /\ told' = {}
    BY <1>1, FreshFlows
  <2> QED
    BY <2>1 DEF Known, OneKnown, Stays
<1>2. ASSUME ~Connected PROVE clean /\ conn # "down"
  BY <1>2, StillClean
<1>3. ASSUME clean, conn = "up", ui = "free" PROVE Flowing /\ Known
  BY <1>3 DEF FlowInv, ListInv
<1>4. CASE ReadyRead \/ PushRecv \/ Solve
  <2>1. UNCHANGED <<clean, conn, ui, partner, told>>
    BY <1>4 DEF ReadyRead, PushRecv, PushMsg, Solve, widget, history
  <2> QED
    BY <1>3, <1>4, <2>1, MoveSteps, KnownFrame
<1>5. CASE Rests
  <2>1. CASE NetError \/ ExitMeet \/ ServerCloses
    BY <2>1 DEF NetError, ExitMeet, Leave, ServerCloses
  <2>2. CASE CloseBox \/ CreateMeet \/ JoinMeet \/ Admit \/ SoundBlocks \/ Writer
    <3>1. UNCHANGED <<clean, conn, ui, partner, told>>
      BY <2>2 DEF CloseBox, CreateMeet, JoinMeet, Admit, SoundBlocks, Writer, RunStarts,
                  RunEnds, widget, history
    <3> QED
      BY <1>3, <1>5, <3>1, MoveSteps, KnownFrame
  <2> QED
    BY <1>5, <2>1, <2>2 DEF Rests
<1>6. CASE Deals
  <2>1. clean /\ conn = "up" /\ ui = "free"
    BY <1>6, HistorySteps
  <2> QED
    BY <1>3, <1>6, <2>1, KnownDealt
<1>7. CASE Writes
  <2>1. PICK type \in MsgTypes, code \in -1..1, ips \in SUBSET Ips : Send(type, code, ips)
    BY <1>7, WritesSend
  <2>2. clean /\ conn = "up" /\ ui = "free"
    BY <2>1 DEF Send
  <2> QED
    BY <1>3, <1>7, <2>2, KnownWrites
<1>8. CASE Waits \/ Loses
  BY <1>8, HistorySteps
<1>9. CASE UNCHANGED vars
  <2>1. UNCHANGED <<clean, conn, ui, partner, told>>
    BY <1>9 DEF vars, widget, history
  <2>2. UNCHANGED <<held, queue_recv, sockMsg, recvbuf, wire>>
    BY <1>9 DEF vars, socket
  <2>3. InFlight' = InFlight
    BY <2>2 DEF InFlight, Msgs, Stream, Opt
  <2> QED
    BY <1>3, <2>1, <2>3, KnownFrame
<1> QED
  BY <1>1, <1>4, <1>5, <1>6, <1>7, <1>8, <1>9, StepsOfFlow

\* Once all that the server has sent in a session that began clean is dealt with, the
\* list of partners is what the packets, in the order in which the server's threads
\* sent them, make of an empty list, whatever that order was.
THEOREM ListIsAsTold == Spec => []ListAsTold
<1>1. Init => FlowInv /\ ListInv
  BY DEF Init, FlowInv, DownIsIdle, ListInv
<1>2. TypeOK /\ FlowInv /\ ListInv => ListAsTold
  <2> SUFFICES ASSUME TypeOK, FlowInv, ListInv, clean, conn = "up", ui = "free",
                      handledNo = sent
               PROVE  partner = told
    BY DEF ListAsTold
  <2>1. Flowing /\ Known
    BY DEF FlowInv, ListInv
  <2>2. InFlight = {}
    <3>1. Msgs \in Seq(Msg) /\ Stream \in Seq(Cell) /\ handledNo \in Nat /\ sent \in Nat
      BY FlowTyped, Counters
    <3>2. \A p \in InFlight : p \in Msg /\ sent < p.no /\ p.no <= sent
      BY <2>1, <3>1, FlightNumbers DEF Flowing, InFlight
    <3>3. \A p \in Msg : p.no \in Nat
      BY ClientAssumption DEF Msg
    <3> QED
      BY <3>1, <3>2, <3>3
  <2>3. \A ip \in Ips : ip \in told <=> ip \in partner
    BY <2>1, <2>2 DEF Known, OneKnown, Stays
  <2>4. partner \subseteq Ips /\ told \subseteq Ips
    BY DEF TypeOK, GuiType, HistoryType
  <2> QED
    BY <2>3, <2>4
<1> QED
  BY <1>1, <1>2, TypeCorrect, WaitHolds, FlowStep, ListStep, PTL DEF Spec
=============================================================================
