------------------------- MODULE RoomProcess_proofs -------------------------
(***************************************************************************)
(* Theorems about the room process for any number of connections,          *)
(* descriptors and send threads: its type invariant, that maxfd covers the *)
(* pool, and that a broadcast sees one membership.                         *)
(***************************************************************************)
EXTENDS RoomProcess, TLAPS

\* What a step leaves alone keeps its type.
LEMMA Frames ==
  /\ PoolType /\ UNCHANGED <<files, pool, lock>> => PoolType'
  /\ QueueType /\ UNCHANGED sendqueue => QueueType'
  /\ MainType /\ UNCHANGED main => MainType'
  /\ AcceptType /\ UNCHANGED <<accept, lock>> => AcceptType'
  /\ SendType /\ UNCHANGED <<sending, lock>> => SendType'
  /\ OutsideType /\ UNCHANGED <<running, pipes, input, plan>> => OutsideType'
  /\ ClientType /\ UNCHANGED <<phase, views, history>> => ClientType'
BY DEF PoolType, QueueType, MainType, AcceptType, SendType, OutsideType,
       ClientType, pool, main, accept, sending, pipes, views, history

\* A message is one when its fields are.
LEMMA MessageType ==
  ASSUME NEW type \in MsgTypes, NEW target \in FDs \cup {-1},
         target = -1 => type = "PARTNER_EXIT",
         NEW ip \in Addrs, NEW list \in SUBSET Addrs
  PROVE  Message(type, target, ip, list) \in Msg
BY DEF Message, Msg

\* Those who are hung up are out of the meeting, the others where they were.
LEMMA HangupType ==
  ASSUME NEW S, ClientType, Hangup(S), UNCHANGED <<views, history>>
  PROVE  ClientType'
BY DEF ClientType, Hangup, views, history

\* The process starts with an empty pool and every thread at its loop's head.
LEMMA InitTyped == Init => TypeOK
<1> SUFFICES ASSUME Init PROVE TypeOK
  OBVIOUS
<1> USE RoomAssumption
<1>1. PoolType
  BY DEF Init, PoolType, Addrs
<1>2. QueueType
  BY DEF Init, QueueType
<1>3. MainType
  BY DEF Init, MainType
<1>4. AcceptType
  BY DEF Init, AcceptType
<1>5. SendType
  BY DEF Init, SendType
<1>6. OutsideType
  BY DEF Init, OutsideType
<1>7. ClientType
  BY DEF Init, ClientType
<1> QED
  BY <1>1, <1>2, <1>3, <1>4, <1>5, <1>6, <1>7 DEF TypeOK

----------------------------------------------------------------------------
\* process_main

\* A step of process_main and fdclose.
LEMMA ProcessMainTyped ==
  ASSUME TypeOK, ProcessMain
  PROVE  TypeOK'
<1> USE RoomAssumption DEF TypeOK
<1>1. CASE Select
  <2>1. MainType'
    BY <1>1 DEF Select, Readable, Scanned, MainType, PoolType
  <2> QED
    BY <1>1, <2>1, Frames DEF Select, pipes, clients, views, history
<1>2. CASE SelectFails
  <2>1. OutsideType'
    BY <1>2 DEF SelectFails, OutsideType, pipes, clients
  <2> QED
    BY <1>2, <2>1, Frames DEF SelectFails, clients
<1>3. CASE StartRead
  <2>1. MainType'
    BY <1>3 DEF StartRead, MainType, PoolType
  <2> QED
    BY <1>3, <2>1, Frames DEF StartRead, pipes, clients
<1>4. CASE ReadData
  <2>1. pmMsg' \in Msg
    <3> DEFINE type == Head(input[pmConn])
               ip   == IF type = "CLOSE_CAMERA" THEN IpOf[pmConn] ELSE fdToIp[pmFd]
    <3>1. pmConn \in Conns /\ pmFd \in FDs
      BY <1>4 DEF ReadData, MainType
    <3>2. type \in DataTypes
      BY <1>4, <3>1 DEF ReadData, OutsideType
    <3>3. ip \in Addrs
      BY <3>1 DEF Addrs, PoolType
    <3>4. pmFd \in FDs \cup {-1} /\ pmFd # -1 /\ type \in MsgTypes
      BY <3>1, <3>2 DEF MsgTypes
    <3>5. Message(type, pmFd, ip, {}) \in Msg
      BY <3>3, <3>4, MessageType
    <3> QED
      BY <1>4, <3>5 DEF ReadData
  <2>2. MainType'
    BY <1>4, <2>1 DEF ReadData, MainType
  <2>3. OutsideType'
    BY <1>4 DEF ReadData, OutsideType, pipes, MainType
  <2>4. ClientType'
    BY <1>4, HangupType DEF ReadData
  <2> QED
    BY <1>4, <2>2, <2>3, <2>4, Frames DEF ReadData
<1>5. CASE DropData
  <2>1. MainType'
    BY <1>5 DEF DropData, MainType
  <2>2. OutsideType'
    BY <1>5 DEF DropData, OutsideType, pipes, MainType
  <2>3. ClientType'
    BY <1>5, HangupType DEF DropData
  <2> QED
    BY <1>5, <2>1, <2>2, <2>3, Frames DEF DropData
<1>6. CASE ReadClosed
  <2>1. MainType'
    BY <1>6 DEF ReadClosed, MainType
  <2> QED
    BY <1>6, <2>1, Frames DEF ReadClosed, pipes, clients
<1>7. CASE PushRead
  <2>1. MainType'
    BY <1>7 DEF PushRead, MainType
  <2>2. QueueType'
    BY <1>7 DEF PushRead, HasSpace, QueueType, MainType
  <2> QED
    BY <1>7, <2>1, <2>2, Frames DEF PushRead, pipes, clients
<1>8. CASE TestOwner
  <2>1. MainType'
    BY <1>8 DEF TestOwner, MainType
  <2> QED
    BY <1>8, <2>1, Frames DEF TestOwner, pipes, clients
<1>9. CASE ClearRoom
  <2>1. PoolType'
    BY <1>9 DEF ClearRoom, EmptyPool, PoolType, Addrs
  <2>2. QueueType'
    BY <1>9 DEF ClearRoom, QueueType
  <2>3. MainType'
    BY <1>9 DEF ClearRoom, MainType
  <2>4. ClientType'
    BY <1>9, HangupType DEF ClearRoom
  <2>5. UNCHANGED <<lock, accept, sending, running, pipes, input, plan>>
    BY <1>9 DEF ClearRoom
  <2> QED
    BY <2>1, <2>2, <2>3, <2>4, <2>5, Frames
<1>10. CASE ReportEmpty
  <2>1. MainType'
    BY <1>10 DEF ReportEmpty, MainType
  <2>2. OutsideType'
    BY <1>10 DEF ReportEmpty, OutsideType, clients
  <2> QED
    BY <1>10, <2>1, <2>2, Frames DEF ReportEmpty, clients
<1>11. CASE RemoveFd
  <2>1. pmFd \in FDs
    BY <1>11 DEF RemoveFd, MainType
  <2>2. PoolType'
    BY <1>11, <2>1 DEF RemoveFd, Unwatched, Lowered, PoolType
  <2>3. pmMsg' \in Msg
    <3>1. fdToIp[pmFd] \in Addrs
      BY <2>1 DEF PoolType
    <3>2. Message("PARTNER_EXIT", -1, fdToIp[pmFd], {}) \in Msg
      BY <3>1, MessageType DEF MsgTypes
    <3> QED
      BY <1>11, <3>2 DEF RemoveFd
  <2>4. MainType'
    BY <1>11, <2>3 DEF RemoveFd, MainType
  <2>5. ClientType'
    <3>1. \A g \in Namesakes(pmFd) : files[g] \in Conns
      BY DEF Namesakes, Present, PoolType
    <3> QED
      BY <1>11, <3>1 DEF RemoveFd, ClientType, clients, views
  <2> QED
    BY <1>11, <2>2, <2>4, <2>5, Frames DEF RemoveFd, pipes, clients
<1>12. CASE ReportQuit
  <2>1. MainType'
    BY <1>12 DEF ReportQuit, MainType
  <2>2. OutsideType'
    BY <1>12 DEF ReportQuit, OutsideType, clients
  <2> QED
    BY <1>12, <2>1, <2>2, Frames DEF ReportQuit, clients
<1>13. CASE CloseFd
  <2>1. PoolType'
    BY <1>13 DEF CloseFd, Closed, PoolType, pool
  <2>2. MainType'
    BY <1>13 DEF CloseFd, MainType
  <2>3. ClientType'
    BY <1>13, HangupType DEF CloseFd
  <2> QED
    BY <1>13, <2>1, <2>2, <2>3, Frames DEF CloseFd
<1> QED
  BY <1>1, <1>2, <1>3, <1>4, <1>5, <1>6, <1>7, <1>8, <1>9, <1>10, <1>11,
     <1>12, <1>13 DEF ProcessMain

----------------------------------------------------------------------------
\* accept_fd

\* What getpeerip answers is an address, and who is at a descriptor a connection.
LEMMA PeerIpsTyped ==
  ASSUME PoolType, NEW fd \in FDs
  PROVE  PeerIps(fd) \subseteq Addrs /\ Held(fd) \subseteq Conns
BY RoomAssumption DEF PeerIps, Held, PoolType, Addrs

\* The part of a step that counts a connection into the pool.
LEMMA AddMemberTyped ==
  ASSUME PoolType, AcceptType, acAt \in {"creating", "joining"},
         NEW ip \in PeerIps(acFd), AddMember(ip),
         UNCHANGED <<files, fdset>>, owner' \in FDs \cup {0},
         roomstatus' \in {"ON", "CLOSE"}
  PROVE  PoolType'
<1>1. acFd \in FDs
  BY DEF AcceptType
<1>2. fdToIp' \in [FDs -> Addrs]
  BY <1>1, PeerIpsTyped DEF AddMember, Recorded, PoolType
<1>3. maxfd' \in Nat /\ num' \in Int
  BY <1>1, RoomAssumption DEF AddMember, Larger, PoolType
<1> QED
  BY <1>1, <1>2, <1>3 DEF AddMember, PoolType

\* A step of accept_fd.
LEMMA AcceptFdTyped ==
  ASSUME TypeOK, AcceptFd
  PROVE  TypeOK'
<1> USE RoomAssumption DEF TypeOK
<1>1. CASE ReceiveFd
  <2>1. Head(down) \in Command /\ Tail(down) \in Seq(Command)
    <3>1. down \in Seq(Command) /\ down # << >>
      BY <1>1 DEF ReceiveFd, OutsideType
    <3> QED
      BY <3>1
  <2>2. PoolType'
    BY <1>1, <2>1 DEF ReceiveFd, PoolType, pool, Command
  <2>3. acAt' \in {"read", "create", "join"} /\ acFd' \in FDs /\ acAt = "read"
    BY <1>1 DEF ReceiveFd
  <2>4. AcceptType'
    BY <1>1, <2>3 DEF ReceiveFd, AcceptType
  <2>5. OutsideType'
    BY <1>1, <2>1 DEF ReceiveFd, OutsideType, clients
  <2> QED
    BY <1>1, <2>2, <2>4, <2>5, Frames DEF ReceiveFd, clients
<1>2. CASE ReceiveFails
  <2>1. OutsideType'
    BY <1>2 DEF ReceiveFails, OutsideType, pipes, clients
  <2> QED
    BY <1>2, <2>1, Frames DEF ReceiveFails, clients
<1>3. CASE EnterPool
  <2>1. acFd \in FDs
    BY <1>3 DEF EnterPool, AcceptType
  <2>2. PoolType'
    BY <1>3, <2>1 DEF EnterPool, PoolType
  <2>3. AcceptType'
    BY <1>3 DEF EnterPool, AcceptType
  <2>4. SendType'
    BY <1>3 DEF EnterPool, SendType, sending
  <2> QED
    BY <1>3, <2>2, <2>3, <2>4, Frames DEF EnterPool, pipes, clients
<1>4. CASE CreateMeeting
  <2>1. acFd \in FDs
    BY <1>4 DEF CreateMeeting, AcceptType
  <2>2. PICK ip \in PeerIps(acFd) : AddMember(ip)
    BY <1>4 DEF CreateMeeting
  <2>3. PoolType'
    BY <1>4, <2>1, <2>2, AddMemberTyped DEF CreateMeeting
  <2>4. acMsg' \in Msg
    BY <1>4, <2>1, MessageType DEF CreateMeeting, MsgTypes, Addrs
  <2>5. AcceptType'
    BY <1>4, <2>2, <2>4 DEF CreateMeeting, AddMember, AcceptType
  <2>6. SendType'
    BY <1>4, <2>2 DEF CreateMeeting, AddMember, SendType, sending
  <2>7. ClientType'
    <3>1. crossed' \subseteq Conns
      BY <2>1, <2>2, PeerIpsTyped DEF AddMember, ClientType
    <3> QED
      BY <1>4, <3>1 DEF CreateMeeting, ClientType, clients, views
  <2> QED
    BY <1>4, <2>3, <2>5, <2>6, <2>7, Frames DEF CreateMeeting, pipes, clients
<1>5. CASE JoinMeeting
  <2>1. acFd \in FDs
    BY <1>5 DEF JoinMeeting, AcceptType
  <2>2. PICK ip \in PeerIps(acFd) : AddMember(ip)
    BY <1>5 DEF JoinMeeting
  <2>3. PoolType'
    BY <1>5, <2>2, AddMemberTyped DEF JoinMeeting, PoolType
  <2>4. AcceptType'
    BY <1>5, <2>2 DEF JoinMeeting, AddMember, AcceptType
  <2>5. SendType'
    BY <1>5, <2>2 DEF JoinMeeting, AddMember, SendType, sending
  <2>6. ClientType'
    <3>1. crossed' \subseteq Conns
      BY <2>1, <2>2, PeerIpsTyped DEF AddMember, ClientType
    <3> QED
      BY <1>5, <3>1 DEF JoinMeeting, ClientType, clients, views
  <2> QED
    BY <1>5, <2>3, <2>4, <2>5, <2>6, Frames DEF JoinMeeting, pipes, clients
<1>6. CASE RefuseJoin
  <2>1. acFd \in FDs
    BY <1>6 DEF RefuseJoin, AcceptType
  <2>2. PoolType'
    BY <1>6, <2>1 DEF RefuseJoin, Closed, PoolType, pool
  <2>3. AcceptType'
    BY <1>6 DEF RefuseJoin, AcceptType
  <2>4. ClientType'
    BY <1>6, HangupType DEF RefuseJoin
  <2> QED
    BY <1>6, <2>2, <2>3, <2>4, Frames DEF RefuseJoin
<1>7. CASE Announce
  <2>1. acFd \in FDs /\ fdToIp[acFd] \in Addrs
    BY <1>7 DEF Announce, AcceptType, PoolType
  <2>2. acMsg' \in Msg
    BY <1>7, <2>1, MessageType DEF Announce, MsgTypes
  <2>3. AcceptType'
    BY <1>7, <2>2 DEF Announce, AcceptType
  <2> QED
    BY <1>7, <2>3, Frames DEF Announce, pipes, clients
<1>8. CASE ListPartners
  <2> DEFINE list == {fdToIp[fd] : fd \in Scanned(status) \ {acFd}}
  <2>1. acFd \in FDs /\ list \in SUBSET Addrs
    BY <1>8 DEF ListPartners, AcceptType, PoolType, Scanned
  <2>2. Message("PARTNER_JOIN2", acFd, NoIp, list) \in Msg
    <3>1. "PARTNER_JOIN2" \in MsgTypes /\ NoIp \in Addrs
      BY DEF MsgTypes, Addrs
    <3>2. acFd \in FDs \cup {-1} /\ acFd # -1
      BY <2>1, RoomAssumption
    <3> HIDE DEF list
    <3> QED
      BY <2>1, <3>1, <3>2, MessageType
  <2>3. AcceptType'
    BY <1>8, <2>2 DEF ListPartners, AcceptType
  <2> QED
    BY <1>8, <2>3, Frames DEF ListPartners, pipes, clients
<1>9. CASE PushAccepted
  <2>1. AcceptType'
    BY <1>9 DEF PushAccepted, AcceptType
  <2>2. QueueType'
    BY <1>9 DEF PushAccepted, HasSpace, QueueType, AcceptType
  <2> QED
    BY <1>9, <2>1, <2>2, Frames DEF PushAccepted, pipes, clients
<1> QED
  BY <1>1, <1>2, <1>3, <1>4, <1>5, <1>6, <1>7, <1>8, <1>9 DEF AcceptFd

----------------------------------------------------------------------------
\* send_func and the environment

\* A step of a send_func.
LEMMA SendFuncTyped ==
  ASSUME TypeOK, NEW s \in Senders, SendFunc(s)
  PROVE  TypeOK'
<1> USE RoomAssumption DEF TypeOK
<1>1. CASE PopMsg(s)
  <2>1. Head(sendqueue) \in Msg /\ Tail(sendqueue) \in Seq(Msg)
    BY <1>1 DEF PopMsg, QueueType
  <2>2. QueueType'
    BY <1>1, <2>1 DEF PopMsg, QueueType
  <2>3. SendType'
    BY <1>1, <2>1, NoMsgAssumption DEF PopMsg, SendType
  <2> QED
    BY <1>1, <2>2, <2>3, Frames DEF PopMsg, pipes, clients
<1>2. CASE LockPool(s)
  <2>1. held[s] \in Msg
    BY <1>2 DEF LockPool, SendType
  <2>2. Targets(held[s]) \subseteq FDs
    BY <2>1 DEF Targets, PoolType, Scanned, Msg, MsgTypes
  <2>3. PoolType'
    BY <1>2 DEF LockPool, PoolType, pool
  <2>4. AcceptType'
    BY <1>2 DEF LockPool, Unlocked, AcceptType, accept
  <2>5. SendType'
    BY <1>2, <2>2 DEF LockPool, SendType
  <2> QED
    BY <1>2, <2>3, <2>4, <2>5, Frames DEF LockPool, pipes, clients
<1>3. CASE WriteTo(s)
  <2>1. held[s] \in Msg
    BY <1>3 DEF WriteTo, SendType
  <2>2. SendType'
    BY <1>3 DEF WriteTo, SendType
  <2>3. ClientType'
    <3>1. ASSUME NEW c \in Conns, Handle(c, held[s]), UNCHANGED history
          PROVE  ClientType'
      <4>1. held[s].ip \in Addrs /\ held[s].list \subseteq Addrs
        BY <2>1 DEF Msg
      <4>2. phase' \in [Conns -> {"new", "asked", "in", "gone"}]
        BY <3>1 DEF Handle, ClientType
      <4>3. partner' \in [Conns -> SUBSET Addrs]
        BY <3>1, <4>1 DEF Handle, ClientType
      <4>4. heard' \in [Conns -> SUBSET Addrs]
        BY <3>1, <4>1 DEF Handle, ClientType
      <4> QED
        BY <3>1, <4>2, <4>3, <4>4 DEF ClientType, history
    <3>2. CASE UNCHANGED <<phase, partner, heard>>
      BY <1>3, <3>2 DEF WriteTo, ClientType, history
    <3> QED
      BY <1>3, <3>1, <3>2 DEF WriteTo, PoolType
  <2> QED
    BY <1>3, <2>2, <2>3, Frames DEF WriteTo, pipes
<1>4. CASE UnlockPool(s)
  <2>1. PoolType'
    BY <1>4 DEF UnlockPool, PoolType, pool
  <2>2. AcceptType'
    BY <1>4 DEF UnlockPool, AcceptType, accept
  <2>3. SendType'
    BY <1>4 DEF UnlockPool, SendType
  <2> QED
    BY <1>4, <2>1, <2>2, <2>3, Frames DEF UnlockPool, pipes, clients
<1> QED
  BY <1>1, <1>2, <1>3, <1>4 DEF SendFunc

\* A step of the dispatcher or of a client.
LEMMA EnvironmentTyped ==
  ASSUME TypeOK, Environment
  PROVE  TypeOK'
<1> USE RoomAssumption DEF TypeOK
<1>1. ASSUME NEW c \in Conns, DispatchCreate(c) PROVE TypeOK'
  <2>0. [cmd |-> "C", conn |-> c] \in Command
    BY DEF Command
  <2>1. OutsideType'
    BY <1>1, <2>0 DEF DispatchCreate, OutsideType
  <2>2. ClientType'
    BY <1>1 DEF DispatchCreate, ClientType, views, history
  <2> QED
    BY <1>1, <2>1, <2>2, Frames DEF DispatchCreate
<1>2. ASSUME NEW c \in Conns, LookUpRoom(c) PROVE TypeOK'
  <2>1. ClientType'
    BY <1>2 DEF LookUpRoom, ClientType, views, history
  <2> QED
    BY <1>2, <2>1, Frames DEF LookUpRoom
<1>3. ASSUME NEW c \in Conns, DispatchJoin(c) PROVE TypeOK'
  <2>0. [cmd |-> "J", conn |-> c] \in Command
    BY DEF Command
  <2>1. OutsideType'
    BY <1>3, <2>0 DEF DispatchJoin, OutsideType
  <2>2. ClientType'
    BY <1>3 DEF DispatchJoin, ClientType, views, history
  <2> QED
    BY <1>3, <2>1, <2>2, Frames DEF DispatchJoin
<1>4. CASE ReadReport
  <2>1. Head(up) \in {"E", "Q"} /\ Tail(up) \in Seq({"E", "Q"})
    BY <1>4 DEF ReadReport, OutsideType
  <2>2. OutsideType'
    BY <1>4, <2>1 DEF ReadReport, OutsideType, clients
  <2> QED
    BY <1>4, <2>2, Frames DEF ReadReport, clients
<1>5. ASSUME NEW c \in Conns, NEW type \in DataTypes, SendData(c, type)
      PROVE  TypeOK'
  <2>1. plan' \in [Conns -> [leave : BOOLEAN, data : Nat]]
    <3>1. plan \in [Conns -> [leave : BOOLEAN, data : Nat]] /\ plan[c].data > 0
      BY <1>5 DEF SendData, OutsideType
    <3>2. plan[c].leave \in BOOLEAN /\ plan[c].data - 1 \in Nat
      BY <3>1
    <3>3. [plan[c] EXCEPT !.data = @ - 1] \in [leave : BOOLEAN, data : Nat]
      BY <3>1, <3>2
    <3>4. plan' = [plan EXCEPT ![c] = [plan[c] EXCEPT !.data = @ - 1]]
      BY <1>5, <3>1 DEF SendData
    <3> QED
      BY <3>1, <3>3, <3>4
  <2>2. OutsideType'
    BY <1>5, <2>1 DEF SendData, OutsideType, pipes
  <2> QED
    BY <1>5, <2>2, Frames DEF SendData
<1>6. ASSUME NEW c \in Conns, Leave(c) PROVE TypeOK'
  <2>1. ClientType'
    BY <1>6 DEF Leave, ClientType, views, history
  <2> QED
    BY <1>6, <2>1, Frames DEF Leave
<1> QED
  BY <1>1, <1>2, <1>3, <1>4, <1>5, <1>6 DEF Environment

\* The inductive step of the type invariant.
LEMMA NextTyped == TypeOK /\ [Next]_vars => TypeOK'
<1> SUFFICES ASSUME TypeOK, [Next]_vars PROVE TypeOK'
  OBVIOUS
<1>1. CASE UNCHANGED vars
  BY <1>1, Frames DEF vars, pipes, clients, TypeOK
<1>2. CASE Rest
  BY <1>2, <1>1 DEF Rest
<1> QED
  BY <1>1, <1>2, ProcessMainTyped, AcceptFdTyped, SendFuncTyped, EnvironmentTyped
  DEF Next, Room

\* In every reachable state each variable holds what its declaration allows,
\* every thread has the descriptor and the message it needs where it is, and
\* the holder of the lock is inside its critical section.
THEOREM TypeCorrect == Spec => []TypeOK
<1> QED
  BY InitTyped, NextTyped, PTL DEF Spec

----------------------------------------------------------------------------
\* maxfd.  Given the types it is inductive: only EnterPool lets a descriptor
\* beyond maxfd in, it then holds the lock, and gives it up in AddMember.

\* The inductive step, by what each action does to the pool.
LEMMA MaxfdCoversStep ==
  TypeOK /\ MaxfdCoversMembers /\ [Next]_vars => MaxfdCoversMembers'
<1> SUFFICES ASSUME TypeOK, MaxfdCoversMembers, [Next]_vars
             PROVE  MaxfdCoversMembers'
  OBVIOUS
<1> USE RoomAssumption
<1>1. CASE UNCHANGED <<fdset, status, maxfd, lock, acFd>>
  BY <1>1 DEF MaxfdCoversMembers
<1>2. CASE ClearRoom
  BY <1>2 DEF ClearRoom, EmptyPool, MaxfdCoversMembers
<1>3. CASE RemoveFd
  <2>1. pmFd \in Nat \ {0} /\ maxfd \in Nat /\ status \subseteq Nat /\ fdset \subseteq Nat
    BY <1>3 DEF RemoveFd, TypeOK, MainType, PoolType
  <2>2. lock # "accept_fd" /\ lock' = lock
    BY <1>3 DEF RemoveFd, Unlocked
  <2>3. fdset \subseteq 0..maxfd /\ status \subseteq 0..maxfd
    BY <2>2 DEF MaxfdCoversMembers
  <2>4. status' \subseteq 0..maxfd' /\ fdset' \subseteq 0..maxfd'
    BY <1>3, <2>1, <2>3 DEF RemoveFd, Unwatched, Lowered
  <2> QED
    BY <2>2, <2>4 DEF MaxfdCoversMembers
<1>4. CASE ReceiveFd
  <2>1. acAt = "read" /\ lock # "accept_fd"
    BY <1>4 DEF ReceiveFd, TypeOK, AcceptType
  <2> QED
    BY <1>4, <2>1 DEF ReceiveFd, MaxfdCoversMembers, pool
<1>5. CASE EnterPool
  BY <1>5 DEF EnterPool, Unlocked, MaxfdCoversMembers
<1>6. CASE CreateMeeting \/ JoinMeeting
  <2>1. fdset' = fdset /\ acFd \in Nat /\ maxfd \in Nat
    BY <1>6 DEF CreateMeeting, JoinMeeting, TypeOK, AcceptType, PoolType
  <2>0. PICK ip \in PeerIps(acFd) : AddMember(ip)
    BY <1>6 DEF CreateMeeting, JoinMeeting
  <2>2. status \subseteq 0..maxfd /\ fdset \subseteq 0..maxfd \cup {acFd}
    BY DEF MaxfdCoversMembers
  <2>3. status' \subseteq 0..maxfd' /\ fdset' \subseteq 0..maxfd'
    BY <2>0, <2>1, <2>2 DEF AddMember, Larger
  <2> QED
    BY <2>3 DEF MaxfdCoversMembers
<1>7. ASSUME NEW s \in Senders, LockPool(s) PROVE MaxfdCoversMembers'
  BY <1>7 DEF LockPool, Unlocked, MaxfdCoversMembers, pool, accept
<1>8. ASSUME NEW s \in Senders, UnlockPool(s) PROVE MaxfdCoversMembers'
  BY <1>8 DEF UnlockPool, MaxfdCoversMembers, pool, accept
<1>9. ASSUME NEW s \in Senders, SendFunc(s) PROVE MaxfdCoversMembers'
  BY <1>1, <1>7, <1>8, <1>9 DEF SendFunc, PopMsg, WriteTo, pool, accept
<1>10. CASE ProcessMain
  BY <1>1, <1>2, <1>3, <1>10
  DEF ProcessMain, Select, SelectFails, StartRead, ReadData, DropData, ReadClosed,
      PushRead, TestOwner, ReportEmpty, ReportQuit, CloseFd, pool, accept
<1>11. CASE AcceptFd
  BY <1>1, <1>4, <1>5, <1>6, <1>11
  DEF AcceptFd, ReceiveFails, RefuseJoin, Announce, ListPartners, PushAccepted,
      pool, accept
<1>12. CASE Environment
  BY <1>1, <1>12
  DEF Environment, DispatchCreate, LookUpRoom, DispatchJoin, ReadReport, SendData,
      Leave, pool, accept
<1>13. CASE Rest \/ UNCHANGED vars
  BY <1>1, <1>13 DEF Rest, vars, pool, accept
<1> QED
  BY <1>9, <1>10, <1>11, <1>12, <1>13 DEF Next, Room

\* No loop over the pool misses a member or a watched descriptor, although
\* maxfd goes up and down with single descriptors and outlives its meeting.
THEOREM MaxfdCovers == Spec => []MaxfdCoversMembers
<1>1. Init => MaxfdCoversMembers
  BY DEF Init, MaxfdCoversMembers
<1> QED
  BY <1>1, TypeCorrect, MaxfdCoversStep, PTL DEF Spec

----------------------------------------------------------------------------
\* Broadcasts.

\* A step that leaves the members, the lock and the senders alone leaves every
\* broadcast under way within its targets; so does one that ends with the lock
\* in no sender's hands.
LEMMA BroadcastFrame ==
  ASSUME SendsToMembers
  PROVE  /\ UNCHANGED <<status, maxfd, lock, held, todo>> => SendsToMembers'
         /\ lock' \notin Senders => SendsToMembers'
BY DEF SendsToMembers, Targets, Scanned

\* The inductive step: who changes status or maxfd has found the lock free.
LEMMA SendsToMembersStep ==
  TypeOK /\ SendsToMembers /\ [Next]_vars => SendsToMembers'
<1> SUFFICES ASSUME TypeOK, SendsToMembers, [Next]_vars
             PROVE  SendsToMembers'
  OBVIOUS
<1> USE RoomAssumption
<1>1. CASE UNCHANGED <<status, maxfd, lock, held, todo>>
  BY <1>1, BroadcastFrame
<1>2. CASE lock' \notin Senders
  BY <1>2, BroadcastFrame
<1>3. CASE ProcessMain
  <2>1. CASE ClearRoom \/ RemoveFd
    <3>1. lock' \notin Senders
      BY <2>1 DEF ClearRoom, RemoveFd, Unlocked
    <3> QED
      BY <3>1, <1>2
  <2> QED
    BY <1>1, <1>3, <2>1
    DEF ProcessMain, Select, SelectFails, StartRead, ReadData, DropData, ReadClosed,
        PushRead, TestOwner, ReportEmpty, ReportQuit, CloseFd, pool, sending
<1>4. CASE AcceptFd
  <2>1. CASE EnterPool \/ CreateMeeting \/ JoinMeeting
    <3>1. lock' \notin Senders
      BY <2>1 DEF EnterPool, CreateMeeting, JoinMeeting, AddMember
    <3> QED
      BY <3>1, <1>2
  <2> QED
    BY <1>1, <1>4, <2>1
    DEF AcceptFd, ReceiveFd, ReceiveFails, RefuseJoin, Announce, ListPartners,
        PushAccepted, pool, sending
<1>5. ASSUME NEW s \in Senders, SendFunc(s) PROVE SendsToMembers'
  <2>1. CASE PopMsg(s)
    <3>1. held[s] = NoMsg /\ lock # s
      BY <2>1 DEF PopMsg, TypeOK, SendType
    <3>2. ASSUME NEW r \in Senders, lock' = r
          PROVE  todo'[r] \subseteq Targets(held[r])'
      <4>1. r # s /\ lock = r /\ held'[r] = held[r] /\ todo'[r] = todo[r]
        BY <2>1, <3>1, <3>2 DEF PopMsg, pool, TypeOK, SendType
      <4>2. UNCHANGED <<status, maxfd>>
        BY <2>1 DEF PopMsg, pool
      <4> QED
        BY <4>1, <4>2 DEF SendsToMembers, Targets, Scanned
    <3> QED
      BY <3>2 DEF SendsToMembers, Targets, Scanned
  <2>2. CASE LockPool(s)
    <3>1. todo'[s] = Targets(held[s]) /\ held' = held /\ lock' = s
      BY <2>2 DEF LockPool, TypeOK, SendType
    <3>2. UNCHANGED <<status, maxfd>>
      BY <2>2 DEF LockPool, pool
    <3> QED
      BY <3>1, <3>2 DEF SendsToMembers, Targets, Scanned
  <2>3. CASE WriteTo(s)
    <3>1. todo'[s] \subseteq todo[s] /\ held' = held /\ lock' = s /\ lock = s
      BY <2>3 DEF WriteTo, TypeOK, SendType
    <3>2. UNCHANGED <<status, maxfd>>
      BY <2>3 DEF WriteTo, pool
    <3> QED
      BY <3>1, <3>2 DEF SendsToMembers, Targets, Scanned
  <2>4. CASE UnlockPool(s)
    BY <2>4, <1>2 DEF UnlockPool
  <2> QED
    BY <1>5, <2>1, <2>2, <2>3, <2>4 DEF SendFunc
<1>6. CASE Environment
  BY <1>1, <1>6
  DEF Environment, DispatchCreate, LookUpRoom, DispatchJoin, ReadReport, SendData,
      Leave, pool, sending
<1>7. CASE Rest \/ UNCHANGED vars
  BY <1>1, <1>7 DEF Rest, vars, pool, sending
<1> QED
  BY <1>3, <1>4, <1>5, <1>6, <1>7 DEF Next, Room

\* A broadcast goes to one membership: while a send thread writes to the
\* members one after the other, none of them comes or goes.
THEOREM BroadcastSafe == Spec => []SendsToMembers
<1>1. Init => SendsToMembers
  BY RoomAssumption DEF Init, SendsToMembers
<1> QED
  BY <1>1, TypeCorrect, SendsToMembersStep, PTL DEF Spec
=============================================================================
