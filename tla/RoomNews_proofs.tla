---------------------------- MODULE RoomNews_proofs ----------------------------
(***************************************************************************)
(* Everybody in a meeting hears of everybody else (NobodyMissing), for any *)
(* number of users, descriptors and send threads, wherever the users come  *)
(* from, any outcome of the unset bytes and any bound of the send queue;   *)
(* and who comes from an address of his own that the room can learn is     *)
(* never an exception to it (OnlyNamesakesCross).                          *)
(*                                                                         *)
(* The argument: for two people who are in the meeting, either the first   *)
(* has the other in his list, or accept_fd has still to announce the one   *)
(* or to list the other, or a message that says so is in accept_fd's hand, *)
(* in the send queue or in the hand of a send thread that has not come to  *)
(* him yet (NewsInv).  Only a PARTNER_EXIT with the address recorded for   *)
(* the other strikes his name off again, and as long as one is under way   *)
(* the other is crossed (ExitInv).  For that he needs a namesake: of who   *)
(* has none, his record is nobody else's (RecordInv), because whoever is   *)
(* recorded, or was, is past being let in (FreshInv).                      *)
(***************************************************************************)
EXTENDS RoomMeeting_proofs

\* Members are watched, and so is the descriptor accept_fd is counting in.
WatchedInv ==
  /\ status \subseteq fdset
  /\ acAt \in {"creating", "joining"} => acFd \in fdset

\* The room is through with letting the connection in, or with refusing it.
Done(c) ==
  /\ Passed(c)
  /\ \A i \in DOMAIN down : down[i].conn # c
  /\ acAt \in {"create", "creating", "join", "joining"} => files[acFd] # c

\* While the news is under way that somebody of his address has left, a member counts
\* as crossed.
ExitInv ==
  \A fd \in Present : files[fd] \notin crossed => ~Leaving(fdToIp[fd])

\* The message puts the address into the list of the one at that descriptor.
Tells(msg, fd, ip) ==
  \/ msg.type = "PARTNER_JOIN" /\ msg.target # fd /\ msg.ip = ip
  \/ msg.type = "PARTNER_JOIN2" /\ msg.target = fd /\ ip \in msg.list

\* accept_fd has still to put together what tells fd of the other.
ToBeTold(fd, other) ==
  \/ acAt = "announce" /\ acFd \in {fd, other}
  \/ acFd = fd /\ acAt = "list"
  \/ acFd = fd /\ acAt = "push" /\ acMsg.type = "PARTNER_JOIN"

\* A message that tells him is under way, and he is still to be written to.
OnItsWay(fd, ip) ==
  \/ acAt = "push" /\ Tells(acMsg, fd, ip)
  \/ \E i \in DOMAIN sendqueue : Tells(sendqueue[i], fd, ip)
  \/ \E s \in Senders :
       held[s] # NoMsg /\ Tells(held[s], fd, ip) /\ (lock = s => fd \in todo[s])

Informed(fd, other) ==
  \/ fdToIp[other] \in partner[files[fd]]
  \/ ToBeTold(fd, other)
  \/ OnItsWay(fd, fdToIp[other])

\* Of two people in the meeting, the first knows of the other or is going to.
NewsInv ==
  \A fd, other \in Present :
    fd # other /\ phase[files[fd]] # "gone" /\ files[other] \notin crossed
      => Informed(fd, other)

----------------------------------------------------------------------------
\* What is known of the room from the other proofs.
RoomInv ==
  TypeOK /\ MaxfdCoversMembers /\ CloseInv /\ PassedInv /\ OneMeeting /\ WatchedAreOpen

\* It is known in every reachable state.
LEMMA RoomHolds == Spec => []RoomInv
<1>1. TypeOK /\ MaxfdCoversMembers /\ CloseInv /\ PassedInv /\ OneMeeting
        /\ WatchedAreOpen => RoomInv
  BY DEF RoomInv
<1> QED
  BY <1>1, TypeCorrect, MaxfdCovers, TokensAndClose, PassedOnce, OneMeetingOnly,
     FirstMeetingWatches, PTL

\* The steps of the room one by one, and those that leave all of it alone.
LEMMA Cases ==
  ASSUME [Next]_vars
  PROVE  \/ ProcessMain \/ AcceptFd \/ Environment \/ UNCHANGED vars
         \/ \E s \in Senders : SendFunc(s)
BY DEF Next, Room, Rest

\* A step does not forget that a connection was passed to the room.
LEMMA PassedStays ==
  ASSUME TypeOK, [Next]_vars, NEW c \in Conns, Passed(c)
  PROVE  Passed(c)'
<1>1. CASE UNCHANGED phase
  BY <1>1 DEF Passed
<1>2. ASSUME NEW S, Hangup(S) PROVE Passed(c)'
  BY <1>2, HangupPassed
<1>3. CASE ProcessMain
  BY <1>1, <1>2, <1>3
  DEF ProcessMain, Select, SelectFails, StartRead, ReadData, DropData, ReadClosed, PushRead,
      TestOwner, ClearRoom, ReportEmpty, RemoveFd, ReportQuit, CloseFd, clients
<1>4. CASE AcceptFd
  BY <1>1, <1>2, <1>4
  DEF AcceptFd, ReceiveFd, ReceiveFails, EnterPool, CreateMeeting, JoinMeeting, RefuseJoin,
      Announce, ListPartners, PushAccepted, clients
<1>5. ASSUME NEW s \in Senders, SendFunc(s) PROVE Passed(c)'
  <2>1. ASSUME NEW d \in Conns, Handle(d, held[s]) PROVE Passed(c)'
    BY <2>1 DEF Handle, TypeOK, ClientType, Passed
  <2>2. WriteTo(s) => phase' = phase \/ \E d \in Conns : Handle(d, held[s])
    BY DEF WriteTo, TypeOK, PoolType
  <2> QED
    BY <1>1, <1>5, <2>1, <2>2 DEF SendFunc, PopMsg, LockPool, UnlockPool, clients
<1>6. CASE Environment
  <2>1. phase \in [Conns -> {"new", "asked", "in", "gone"}]
    BY DEF TypeOK, ClientType
  <2>2. \A d \in Conns : DispatchCreate(d) \/ LookUpRoom(d) \/ DispatchJoin(d) \/ Leave(d)
                           => Passed(c)'
    BY <2>1 DEF DispatchCreate, LookUpRoom, DispatchJoin, Leave, Passed
  <2> QED
    BY <1>1, <1>6, <2>2 DEF Environment, ReadReport, SendData, clients
<1>7. CASE UNCHANGED vars
  BY <1>1, <1>7 DEF vars, clients
<1> QED
  BY <1>3, <1>4, <1>5, <1>6, <1>7, Cases

\* Nor that a client has gone.
LEMMA GoneStays ==
  ASSUME TypeOK, [Next]_vars, NEW c \in Conns, phase[c] = "gone"
  PROVE  phase'[c] = "gone"
<1>1. CASE UNCHANGED phase
  BY <1>1
<1>2. ASSUME NEW S, Hangup(S) PROVE phase'[c] = "gone"
  BY <1>2 DEF Hangup
<1>3. CASE ProcessMain
  BY <1>1, <1>2, <1>3
  DEF ProcessMain, Select, SelectFails, StartRead, ReadData, DropData, ReadClosed, PushRead,
      TestOwner, ClearRoom, ReportEmpty, RemoveFd, ReportQuit, CloseFd, clients
<1>4. CASE AcceptFd
  BY <1>1, <1>2, <1>4
  DEF AcceptFd, ReceiveFd, ReceiveFails, EnterPool, CreateMeeting, JoinMeeting, RefuseJoin,
      Announce, ListPartners, PushAccepted, clients
<1>5. ASSUME NEW s \in Senders, SendFunc(s) PROVE phase'[c] = "gone"
  <2>1. ASSUME NEW d \in Conns, Handle(d, held[s]), phase[d] # "gone"
        PROVE  phase'[c] = "gone"
    BY <2>1 DEF Handle, TypeOK, ClientType
  <2>2. WriteTo(s) =>
          phase' = phase \/ \E d \in Conns : Handle(d, held[s]) /\ phase[d] # "gone"
    BY DEF WriteTo, TypeOK, PoolType
  <2> QED
    BY <1>1, <1>5, <2>1, <2>2 DEF SendFunc, PopMsg, LockPool, UnlockPool, clients
<1>6. CASE Environment
  <2>1. phase \in [Conns -> {"new", "asked", "in", "gone"}]
    BY DEF TypeOK, ClientType
  <2>2. \A d \in Conns : DispatchCreate(d) \/ LookUpRoom(d) \/ DispatchJoin(d) \/ Leave(d)
                           => phase'[c] = "gone"
    BY <2>1 DEF DispatchCreate, LookUpRoom, DispatchJoin, Leave
  <2> QED
    BY <1>1, <1>6, <2>2 DEF Environment, ReadReport, SendData, clients
<1>7. CASE UNCHANGED vars
  BY <1>1, <1>7 DEF vars, clients
<1> QED
  BY <1>3, <1>4, <1>5, <1>6, <1>7, Cases

----------------------------------------------------------------------------
\* Who is in the meeting.

\* The inductive step of WatchedInv: EnterPool lets in what AddMember counts.
LEMMA WatchedStep == TypeOK /\ WatchedInv /\ [Next]_vars => WatchedInv'
<1> SUFFICES ASSUME TypeOK, WatchedInv, [Next]_vars PROVE WatchedInv'
  OBVIOUS
<1>1. CASE UNCHANGED <<status, fdset, acAt, acFd>>
  BY <1>1 DEF WatchedInv
<1>2. CASE ClearRoom \/ RemoveFd
  <2>1. lock # "accept_fd" /\ UNCHANGED <<acAt, acFd>>
    BY <1>2, RoomAssumption DEF ClearRoom, RemoveFd, Unlocked, accept
  <2>2. acAt \notin {"creating", "joining"}
    BY <2>1 DEF TypeOK, AcceptType
  <2>3. status' \subseteq fdset'
    BY <1>2 DEF ClearRoom, RemoveFd, EmptyPool, Unwatched, WatchedInv
  <2> QED
    BY <2>1, <2>2, <2>3 DEF WatchedInv
<1>3. CASE ProcessMain
  BY <1>1, <1>2, <1>3
  DEF ProcessMain, Select, SelectFails, StartRead, ReadData, DropData, ReadClosed, PushRead,
      TestOwner, ReportEmpty, ReportQuit, CloseFd, pool, accept
<1>4. CASE AcceptFd
  <2>1. CASE EnterPool
    BY <2>1 DEF EnterPool, WatchedInv
  <2>2. CASE CreateMeeting \/ JoinMeeting
    BY <2>2 DEF CreateMeeting, JoinMeeting, AddMember, WatchedInv
  <2>3. CASE ReceiveFd \/ RefuseJoin \/ Announce \/ ListPartners \/ PushAccepted
    <3>1. UNCHANGED <<status, fdset>> /\ acAt' \notin {"creating", "joining"}
      BY <2>3 DEF ReceiveFd, RefuseJoin, Announce, ListPartners, PushAccepted, pool
    <3> QED
      BY <3>1 DEF WatchedInv
  <2> QED
    BY <1>1, <1>4, <2>1, <2>2, <2>3 DEF AcceptFd, ReceiveFails, pool, accept
<1>5. ASSUME NEW s \in Senders, SendFunc(s) PROVE WatchedInv'
  BY <1>1, <1>5 DEF SendFunc, PopMsg, LockPool, WriteTo, UnlockPool, pool, accept
<1>6. CASE Environment
  BY <1>1, <1>6
  DEF Environment, DispatchCreate, LookUpRoom, DispatchJoin, ReadReport, SendData, Leave,
      pool, accept
<1>7. CASE UNCHANGED vars
  BY <1>1, <1>7 DEF vars, pool, accept
<1> QED
  BY <1>3, <1>4, <1>5, <1>6, <1>7, Cases

\* Whoever is in the meeting after a step was in it before, with the same connection,
\* or is let in by the step; and nobody is left in it whom a new meeting does not start
\* with.
LEMMA PresentStep ==
  ASSUME RoomInv, WatchedInv, [Next]_vars, NEW fd \in Present'
  PROVE  /\ fd \in FDs /\ files'[fd] = files[fd] /\ files[fd] \in Conns
         /\ fd \in Present \/ (fd = acFd /\ (CreateMeeting \/ JoinMeeting))
         /\ CreateMeeting => fd = acFd
<1> USE DEF RoomInv
<1>1. files \in [FDs -> Conns \cup {NoConn}] /\ NoConn \notin Conns /\ status \subseteq FDs
        /\ fdset \subseteq FDs /\ meeting \in Nat /\ meetingOf \in [Conns -> Nat]
        /\ roomstatus \in {"ON", "CLOSE"}
  BY RoomAssumption DEF TypeOK, PoolType, ClientType
<1>2. fd \in status' /\ files'[fd] # NoConn /\ meetingOf'[files'[fd]] = meeting'
  BY DEF Present
<1>3. ASSUME UNCHANGED <<meeting, meetingOf>>, status' \subseteq status,
             \A g \in FDs : files'[g] \in {files[g], NoConn}
      PROVE  fd \in FDs /\ files'[fd] = files[fd] /\ files[fd] \in Conns /\ fd \in Present
  BY <1>1, <1>2, <1>3 DEF Present
<1>4. CASE \/ ProcessMain \/ Environment \/ UNCHANGED vars \/ \E s \in Senders : SendFunc(s)
  <2>1. UNCHANGED <<meeting, meetingOf>> /\ status' \subseteq status
          /\ \A g \in FDs : files'[g] \in {files[g], NoConn}
    BY <1>4, Shrinks
  <2>2. ~CreateMeeting
    BY <2>1, <1>1 DEF CreateMeeting
  <2> QED
    BY <1>3, <2>1, <2>2
<1>5. CASE AcceptFd
  <2>1. CASE UNCHANGED <<meeting, meetingOf, status, files>>
    <3>1. ~CreateMeeting
      BY <2>1, <1>1 DEF CreateMeeting
    <3> QED
      BY <1>1, <1>3, <2>1, <3>1
  <2>2. CASE RefuseJoin
    <3>1. UNCHANGED <<meeting, meetingOf, status>>
            /\ \A g \in FDs : files'[g] \in {files[g], NoConn}
      BY <1>1, <2>2 DEF RefuseJoin, Closed, pool, history
    <3>2. ~CreateMeeting
      BY <3>1, <1>1 DEF CreateMeeting
    <3> QED
      BY <1>3, <3>1, <3>2
  <2>3. CASE ReceiveFd
    <3>1. PICK g \in FDs, c \in Conns :
            /\ files[g] = NoConn /\ meetingOf[c] = 0
            /\ files' = [files EXCEPT ![g] = c]
            /\ UNCHANGED <<meeting, meetingOf, status>>
      BY <2>3, Received
    <3>2. \A other \in FDs : files'[other] = IF other = g THEN c ELSE files[other]
      BY <1>1, <3>1
    <3>3. ~CreateMeeting
      BY <3>1, <1>1 DEF CreateMeeting
    <3>4. fd # g
      <4>1. SUFFICES ASSUME fd = g PROVE FALSE
        OBVIOUS
      <4>2. meeting = 0 /\ g \in status
        BY <1>2, <3>1, <3>2, <4>1
      <4>3. roomstatus = "ON"
        BY <1>1, <4>2 DEF CloseInv
      <4>4. \A h \in fdset : files[h] # NoConn
        BY <4>2, <4>3 DEF WatchedAreOpen
      <4> QED
        BY <3>1, <4>2, <4>4 DEF WatchedInv
    <3> QED
      BY <1>1, <1>2, <3>1, <3>2, <3>3, <3>4 DEF Present
  <2>4. CASE CreateMeeting \/ JoinMeeting
    <3>1. /\ acFd \in FDs /\ files' = files /\ status' = status \cup {acFd}
          /\ \A c \in Conns :
               meetingOf'[c] = IF c \in Held(acFd) THEN meeting' ELSE meetingOf[c]
      BY <2>4, LetIn
    <3>2. fd \in FDs /\ files[fd] \in Conns /\ files'[fd] = files[fd]
      BY <1>1, <1>2, <3>1
    <3>3. ASSUME fd # acFd PROVE fd \in Present /\ ~CreateMeeting
      <4>1. files[fd] \notin Held(acFd) /\ fd \in status
        BY <1>1, <1>2, <3>1, <3>2, <3>3 DEF Held, PassedInv
      <4>2. meetingOf[files[fd]] = meeting' /\ meetingOf[files[fd]] <= meeting
        BY <1>2, <3>1, <3>2, <4>1 DEF PassedInv
      <4>3. ~CreateMeeting
        <5>1. CreateMeeting => meeting' = meeting + 1
          BY DEF CreateMeeting
        <5> QED
          BY <1>1, <4>2, <5>1
      <4>4. meeting' = meeting
        BY <2>4, <4>3 DEF JoinMeeting
      <4> QED
        BY <1>1, <3>2, <4>1, <4>2, <4>3, <4>4 DEF Present
    <3> QED
      BY <2>4, <3>2, <3>3
  <2> QED
    BY <1>5, <2>1, <2>2, <2>3, <2>4, Grows
<1> QED
  BY <1>4, <1>5, Cases

----------------------------------------------------------------------------
\* Addresses: whose they are.

\* An address is not the one that stands for none.
LEMMA AddressOf ==
  /\ \A c \in Conns : IpOf[c] \in Ips /\ IpOf[c] \in Addrs /\ IpOf[c] # NoIp
BY RoomAssumption DEF Addrs

\* A connection the room is through with is not dealt with again.
LEMMA DoneStays ==
  ASSUME TypeOK, PassedInv, [Next]_vars, NEW c \in Conns, Done(c)
  PROVE  Done(c)'
<1>1. Passed(c)'
  BY PassedStays DEF Done
<1>2. /\ c # NoConn /\ files \in [FDs -> Conns \cup {NoConn}]
      /\ acAt # "read" => acFd \in FDs
  BY RoomAssumption DEF TypeOK, PoolType, AcceptType
<1>3. ASSUME down' = down \/ \E d \in Conns, com \in {"C", "J"} :
                               d # c /\ down' = Append(down, [cmd |-> com, conn |-> d]),
             \/ UNCHANGED <<acAt, acFd>>
             \/ acAt' \notin {"create", "creating", "join", "joining"},
             \A fd \in FDs : files'[fd] \in {files[fd], NoConn}
      PROVE  Done(c)'
  <2>1. \A i \in DOMAIN down' : down'[i].conn # c
    <3>1. CASE down' = down
      BY <3>1 DEF Done
    <3>2. ASSUME NEW d \in Conns, NEW com \in {"C", "J"}, d # c,
                 down' = Append(down, [cmd |-> com, conn |-> d])
          PROVE  \A i \in DOMAIN down' : down'[i].conn # c
      <4>1. [cmd |-> com, conn |-> d] \in Command
        BY DEF Command
      <4>2. /\ DOMAIN down' = DOMAIN down \cup {Len(down) + 1}
            /\ down'[Len(down) + 1] = [cmd |-> com, conn |-> d]
            /\ \A i \in DOMAIN down : down'[i] = down[i]
        BY <3>2, <4>1, PipeTypes, AppendFacts
      <4> QED
        BY <3>2, <4>2 DEF Done
    <3> QED
      BY <1>3, <3>1, <3>2
  <2>2. acAt' \in {"create", "creating", "join", "joining"} => files'[acFd'] # c
    BY <1>2, <1>3 DEF Done
  <2> QED
    BY <1>1, <2>1, <2>2 DEF Done
<1>4. ASSUME UNCHANGED <<down, acAt, acFd, files>> PROVE Done(c)'
  BY <1>3, <1>4
<1>5. CASE ProcessMain
  <2>1. UNCHANGED <<down, acAt, acFd>>
    BY <1>5 DEF ProcessMain, Select, SelectFails, StartRead, ReadData, DropData, ReadClosed,
       PushRead, TestOwner, ClearRoom, ReportEmpty, RemoveFd, ReportQuit, CloseFd, pipes,
       accept
  <2>2. \A fd \in FDs : files'[fd] \in {files[fd], NoConn}
    BY <1>5, Shrinks
  <2> QED
    BY <1>3, <2>1, <2>2
<1>6. CASE AcceptFd
  <2>1. CASE ReceiveFd
    <3>1. PICK fd \in FDs : /\ acFd' = fd /\ files' = [files EXCEPT ![fd] = Head(down).conn]
      BY <2>1 DEF ReceiveFd
    <3>2. down # << >> /\ down' = Tail(down)
      BY <2>1 DEF ReceiveFd
    <3>3. /\ 1 \in DOMAIN down /\ Head(down) = down[1]
          /\ \A i \in DOMAIN Tail(down) :
               i + 1 \in DOMAIN down /\ Tail(down)[i] = down[i + 1]
      BY <3>2, PipeTypes, TailFacts
    <3>4. files'[acFd'] # c
      BY <1>2, <3>1, <3>3 DEF Done
    <3>5. \A i \in DOMAIN down' : down'[i].conn # c
      BY <3>2, <3>3 DEF Done
    <3> QED
      BY <1>1, <3>4, <3>5 DEF Done
  <2>2. CASE EnterPool
    <3>1. /\ UNCHANGED <<down, files, acFd>> /\ acAt \in {"create", "join"}
      BY <2>2 DEF EnterPool, pipes
    <3> QED
      BY <1>1, <3>1 DEF Done
  <2>3. CASE RefuseJoin
    <3>1. /\ UNCHANGED down /\ acAt' = "read"
          /\ \A fd \in FDs : files'[fd] \in {files[fd], NoConn}
      BY <1>2, <2>3 DEF RefuseJoin, Closed, pipes
    <3> QED
      BY <1>3, <3>1
  <2>4. CASE CreateMeeting \/ JoinMeeting \/ Announce \/ ListPartners \/ PushAccepted
    <3>1. /\ UNCHANGED <<down, files>> /\ acAt' \in {"push", "announce", "list", "read"}
      BY <2>4 DEF CreateMeeting, JoinMeeting, Announce, ListPartners, PushAccepted, pipes
    <3> QED
      BY <1>3, <3>1
  <2> QED
    BY <1>4, <1>6, <2>1, <2>2, <2>3, <2>4 DEF AcceptFd, ReceiveFails, pipes, accept
<1>7. ASSUME NEW s \in Senders, SendFunc(s) PROVE Done(c)'
  BY <1>4, <1>7 DEF SendFunc, PopMsg, LockPool, WriteTo, UnlockPool, pipes, accept
<1>8. CASE Environment
  <2>1. UNCHANGED <<acAt, acFd, files>>
    BY <1>8 DEF Environment, ReadReport, DispatchCreate, LookUpRoom, DispatchJoin, SendData,
       Leave, accept
  <2>2. down' = down \/ \E d \in Conns : DispatchCreate(d) \/ DispatchJoin(d)
    BY <1>8 DEF Environment, ReadReport, LookUpRoom, SendData, Leave, pipes
  <2>3. ASSUME NEW d \in Conns, DispatchCreate(d) \/ DispatchJoin(d)
        PROVE  d # c /\ \E com \in {"C", "J"} :
                          down' = Append(down, [cmd |-> com, conn |-> d])
    BY <2>3 DEF DispatchCreate, DispatchJoin, Done, Passed
  <2> QED
    BY <1>3, <2>1, <2>2, <2>3
<1>9. CASE UNCHANGED vars
  BY <1>4, <1>9 DEF vars, pipes, accept
<1> QED
  BY <1>5, <1>6, <1>7, <1>8, <1>9, Cases

\* What a step makes of the pool's records: they stay, they are erased together, or
\* the one of a newcomer is written.
LEMMA RecordsStep ==
  ASSUME TypeOK, [Next]_vars
  PROVE  \/ fdToIp' = fdToIp
         \/ ClearRoom /\ status' = {} /\ \A fd \in FDs : fdToIp'[fd] = NoIp
         \/ /\ CreateMeeting \/ JoinMeeting
            /\ acFd \in FDs /\ files' = files /\ acAt' \in {"push", "announce"}
            /\ \E ip \in PeerIps(acFd) :
                 /\ fdToIp' = [fdToIp EXCEPT ![acFd] = ip]
                 /\ crossed' = crossed \cup (IF Leaving(ip) THEN Held(acFd) ELSE {})
<1>1. CASE ClearRoom
  BY <1>1 DEF ClearRoom, EmptyPool
<1>2. CASE ProcessMain
  BY <1>1, <1>2
  DEF ProcessMain, Select, SelectFails, StartRead, ReadData, DropData, ReadClosed, PushRead,
      TestOwner, ReportEmpty, RemoveFd, ReportQuit, CloseFd, pool
<1>3. CASE CreateMeeting \/ JoinMeeting
  <2>1. acAt' \in {"push", "announce"}
    BY <1>3 DEF CreateMeeting, JoinMeeting
  <2> QED
    BY <1>3, <2>1, LetIn
<1>4. CASE AcceptFd
  BY <1>3, <1>4
  DEF AcceptFd, ReceiveFd, ReceiveFails, EnterPool, RefuseJoin, Announce, ListPartners,
      PushAccepted, pool
<1>5. ASSUME NEW s \in Senders, SendFunc(s) PROVE fdToIp' = fdToIp
  BY <1>5 DEF SendFunc, PopMsg, LockPool, WriteTo, UnlockPool, pool
<1>6. CASE Environment
  BY <1>6
  DEF Environment, DispatchCreate, LookUpRoom, DispatchJoin, ReadReport, SendData, Leave,
      pool
<1>7. CASE UNCHANGED vars
  BY <1>7 DEF vars, pool
<1> QED
  BY <1>2, <1>4, <1>5, <1>6, <1>7, Cases

\* What a step makes of the send queue: a message goes in, one comes out, or it is
\* emptied.
LEMMA QueueKept ==
  ASSUME NEW msg \in Msg, sendqueue \in Seq(Msg), sendqueue' = Append(sendqueue, msg)
  PROVE  /\ \A i \in DOMAIN sendqueue :
              i \in DOMAIN sendqueue' /\ sendqueue'[i] = sendqueue[i]
         /\ \A i \in DOMAIN sendqueue' :
              sendqueue'[i] = msg \/ \E j \in DOMAIN sendqueue : sendqueue'[i] = sendqueue[j]
         /\ \E i \in DOMAIN sendqueue' : sendqueue'[i] = msg
<1>1. /\ DOMAIN sendqueue' = DOMAIN sendqueue \cup {Len(sendqueue) + 1}
      /\ sendqueue'[Len(sendqueue) + 1] = msg
      /\ \A i \in DOMAIN sendqueue : sendqueue'[i] = sendqueue[i]
  BY AppendFacts
<1> QED
  BY <1>1

\* Taking the first message out of the queue.
LEMMA QueuePopped ==
  ASSUME sendqueue \in Seq(Msg), sendqueue # << >>, sendqueue' = Tail(sendqueue)
  PROVE  /\ \A i \in DOMAIN sendqueue' :
              \E j \in DOMAIN sendqueue : sendqueue'[i] = sendqueue[j]
         /\ \A j \in DOMAIN sendqueue :
              \/ sendqueue[j] = Head(sendqueue)
              \/ \E i \in DOMAIN sendqueue' : sendqueue'[i] = sendqueue[j]
         /\ \E j \in DOMAIN sendqueue : Head(sendqueue) = sendqueue[j]
         /\ Head(sendqueue) \in Msg
<1>1. /\ \A i \in DOMAIN Tail(sendqueue) : i + 1 \in DOMAIN sendqueue
                                       /\ Tail(sendqueue)[i] = sendqueue[i + 1]
      /\ 1 \in DOMAIN sendqueue /\ Head(sendqueue) = sendqueue[1]
  BY TailFacts
<1>2. \A j \in DOMAIN sendqueue : j # 1 => j - 1 \in DOMAIN Tail(sendqueue)
                                          /\ Tail(sendqueue)[j - 1] = sendqueue[j]
  OBVIOUS
<1>3. sendqueue[1] \in Msg
  BY <1>1
<1> QED
  BY <1>1, <1>2, <1>3

\* That somebody has left is said of the one whose address is recorded for the
\* descriptor that is being removed, and of nobody else.
LEMMA LeavingStep ==
  ASSUME TypeOK, [Next]_vars, NEW ip, Leaving(ip)'
  PROVE  Leaving(ip) \/ (RemoveFd /\ fdToIp[pmFd] = ip /\ pmFd \in FDs)
<1> USE DEF Leaving
<1>1. CASE UNCHANGED <<pmAt, pmMsg, acAt, acMsg, sendqueue, held>>
  BY <1>1
<1>2. CASE ProcessMain
  <2>1. UNCHANGED <<acAt, acMsg, held>>
    BY <1>2 DEF ProcessMain, Select, SelectFails, StartRead, ReadData, DropData, ReadClosed,
       PushRead, TestOwner, ClearRoom, ReportEmpty, RemoveFd, ReportQuit, CloseFd, accept,
       sending
  <2>2. CASE ReadData
    <3>1. /\ UNCHANGED sendqueue /\ pmMsg'.type = Head(input[pmConn])
          /\ input[pmConn] \in Seq(DataTypes) /\ input[pmConn] # << >>
      BY <2>2 DEF ReadData, Message, TypeOK, OutsideType, MainType
    <3>2. pmMsg'.type # "PARTNER_EXIT"
      <4>1. Head(input[pmConn]) \in DataTypes
        BY <3>1
      <4> QED
        BY <3>1, <4>1, RoomAssumption
    <3> QED
      BY <2>1, <3>1, <3>2 DEF IsExit
  <2>3. CASE RemoveFd
    <3>1. /\ UNCHANGED sendqueue /\ pmMsg'.ip = fdToIp[pmFd] /\ pmFd \in FDs
      BY <2>3 DEF RemoveFd, Message, TypeOK, MainType
    <3> QED
      BY <2>1, <2>3, <3>1 DEF IsExit
  <2>4. CASE PushRead
    <3>1. pmMsg \in Msg /\ sendqueue' = Append(sendqueue, pmMsg) /\ sendqueue \in Seq(Msg)
            /\ pmAt = "push" /\ pmAt' = "scan"
      BY <2>4 DEF PushRead, TypeOK, MainType, QueueType
    <3>2. \A i \in DOMAIN sendqueue' : sendqueue'[i] = pmMsg \/ \E j \in DOMAIN sendqueue :
                                                             sendqueue'[i] = sendqueue[j]
      BY <3>1, QueueKept
    <3> QED
      BY <2>1, <3>1, <3>2
  <2>5. CASE ClearRoom
    BY <2>1, <2>5 DEF ClearRoom
  <2>6. CASE ReportQuit \/ CloseFd
    BY <2>1, <2>6 DEF ReportQuit, CloseFd
  <2>7. CASE \/ Select \/ SelectFails \/ StartRead \/ DropData \/ ReadClosed \/ TestOwner
             \/ ReportEmpty
    <3>1. /\ UNCHANGED sendqueue
          /\ pmAt' \in {"reportQ", "close", "push"} => UNCHANGED <<pmAt, pmMsg>>
      BY <2>7 DEF Select, SelectFails, StartRead, DropData, ReadClosed, TestOwner,
         ReportEmpty, main
    <3> QED
      BY <2>1, <3>1
  <2> QED
    BY <1>2, <2>2, <2>3, <2>4, <2>5, <2>6, <2>7 DEF ProcessMain
<1>3. CASE AcceptFd
  <2>1. UNCHANGED <<pmAt, pmMsg, held>>
    BY <1>3 DEF AcceptFd, ReceiveFd, ReceiveFails, EnterPool, CreateMeeting, JoinMeeting,
       RefuseJoin, Announce, ListPartners, PushAccepted, main, sending
  <2>2. CASE PushAccepted
    <3>1. acMsg \in Msg /\ sendqueue' = Append(sendqueue, acMsg) /\ sendqueue \in Seq(Msg)
            /\ acAt = "push" /\ acAt' # "push"
      BY <2>2 DEF PushAccepted, TypeOK, AcceptType, QueueType
    <3>2. \A i \in DOMAIN sendqueue' : sendqueue'[i] = acMsg \/ \E j \in DOMAIN sendqueue :
                                                             sendqueue'[i] = sendqueue[j]
      BY <3>1, QueueKept
    <3> QED
      BY <2>1, <3>1, <3>2
  <2>3. CASE CreateMeeting \/ Announce \/ ListPartners
    <3>1. UNCHANGED sendqueue /\ acMsg'.type # "PARTNER_EXIT"
      BY <2>3 DEF CreateMeeting, Announce, ListPartners, Message
    <3> QED
      BY <2>1, <3>1 DEF IsExit
  <2>4. CASE ReceiveFd \/ ReceiveFails \/ EnterPool \/ JoinMeeting \/ RefuseJoin
    <3>1. UNCHANGED <<sendqueue, acMsg>> /\ (acAt' = "push" => acAt = "push")
      BY <2>4 DEF ReceiveFd, ReceiveFails, EnterPool, JoinMeeting, RefuseJoin, accept
    <3> QED
      BY <2>1, <3>1
  <2> QED
    BY <1>3, <2>2, <2>3, <2>4 DEF AcceptFd
<1>4. ASSUME NEW s \in Senders, SendFunc(s) PROVE Leaving(ip)
  <2>1. UNCHANGED <<pmAt, pmMsg, acAt, acMsg>>
    BY <1>4 DEF SendFunc, PopMsg, LockPool, WriteTo, UnlockPool, main, accept
  <2>2. held \in [Senders -> Msg \cup {NoMsg}] /\ sendqueue \in Seq(Msg) /\ NoMsg \notin Msg
    BY NoMsgAssumption DEF TypeOK, SendType, QueueType
  <2>3. CASE PopMsg(s)
    <3>1. /\ held' = [held EXCEPT ![s] = Head(sendqueue)] /\ sendqueue # << >>
          /\ sendqueue' = Tail(sendqueue)
      BY <2>3 DEF PopMsg
    <3>2. /\ \A i \in DOMAIN sendqueue' :
               \E j \in DOMAIN sendqueue : sendqueue'[i] = sendqueue[j]
          /\ \E j \in DOMAIN sendqueue : Head(sendqueue) = sendqueue[j]
      BY <2>2, <3>1, QueuePopped
    <3>3. \A r \in Senders : held'[r] = IF r = s THEN Head(sendqueue) ELSE held[r]
      BY <2>2, <3>1
    <3> QED
      BY <2>1, <3>2, <3>3
  <2>4. CASE LockPool(s) \/ WriteTo(s)
    BY <2>1, <2>4 DEF LockPool, WriteTo
  <2>5. CASE UnlockPool(s)
    <3>1. UNCHANGED sendqueue /\ held' = [held EXCEPT ![s] = NoMsg]
      BY <2>5 DEF UnlockPool
    <3>2. \A r \in Senders : held'[r] = IF r = s THEN NoMsg ELSE held[r]
      BY <2>2, <3>1
    <3> QED
      BY <2>1, <3>1, <3>2
  <2> QED
    BY <1>4, <2>3, <2>4, <2>5 DEF SendFunc
<1>5. CASE Environment
  BY <1>1, <1>5
  DEF Environment, DispatchCreate, LookUpRoom, DispatchJoin, ReadReport, SendData, Leave,
      main, accept, sending
<1>6. CASE UNCHANGED vars
  BY <1>1, <1>6 DEF vars, main, accept, sending
<1> QED
  BY <1>2, <1>3, <1>4, <1>5, <1>6, Cases

\* Who counts as crossed: somebody who is let in, or one of the namesakes of who is
\* removed; and it is not taken back.
LEMMA CrossedStep ==
  ASSUME TypeOK, [Next]_vars
  PROVE  \/ crossed' = crossed
         \/ RemoveFd /\ crossed' = crossed \cup {files[g] : g \in Namesakes(pmFd)}
         \/ /\ CreateMeeting \/ JoinMeeting
            /\ \E ip \in PeerIps(acFd) :
                 /\ fdToIp' = [fdToIp EXCEPT ![acFd] = ip]
                 /\ crossed' = crossed \cup (IF Leaving(ip) THEN Held(acFd) ELSE {})
<1>1. CASE RemoveFd
  BY <1>1 DEF RemoveFd
<1>2. CASE ProcessMain
  BY <1>1, <1>2
  DEF ProcessMain, Select, SelectFails, StartRead, ReadData, DropData, ReadClosed, PushRead,
      TestOwner, ClearRoom, ReportEmpty, ReportQuit, CloseFd, history
<1>3. CASE CreateMeeting \/ JoinMeeting
  BY <1>3, LetIn
<1>4. CASE AcceptFd
  BY <1>3, <1>4
  DEF AcceptFd, ReceiveFd, ReceiveFails, EnterPool, RefuseJoin, Announce, ListPartners,
      PushAccepted, history
<1>5. ASSUME NEW s \in Senders, SendFunc(s) PROVE crossed' = crossed
  BY <1>5 DEF SendFunc, PopMsg, LockPool, WriteTo, UnlockPool, history
<1>6. CASE Environment
  BY <1>6
  DEF Environment, DispatchCreate, LookUpRoom, DispatchJoin, ReadReport, SendData, Leave,
      history
<1>7. CASE UNCHANGED vars
  BY <1>7 DEF vars, history
<1> QED
  BY <1>2, <1>4, <1>5, <1>6, <1>7, Cases

\* Once crossed, always crossed.
LEMMA CrossedStays ==
  ASSUME TypeOK, [Next]_vars
  PROVE  crossed \subseteq crossed'
BY CrossedStep

\* The inductive step of ExitInv.
LEMMA ExitStep == RoomInv /\ WatchedInv /\ ExitInv /\ [Next]_vars => ExitInv'
<1> SUFFICES ASSUME RoomInv, WatchedInv, ExitInv, [Next]_vars PROVE ExitInv'
  OBVIOUS
<1>1. SUFFICES ASSUME NEW fd \in Present', files'[fd] \notin crossed',
                      NEW ip, ip = fdToIp'[fd], Leaving(ip)'
               PROVE  FALSE
  BY DEF ExitInv, Leaving
<1>2. /\ fd \in FDs /\ files'[fd] = files[fd] /\ files[fd] \in Conns
      /\ fd \in Present \/ (fd = acFd /\ (CreateMeeting \/ JoinMeeting))
  BY PresentStep
<1>3. TypeOK /\ NoConn \notin Conns /\ fdToIp \in [FDs -> Addrs]
  BY RoomAssumption DEF RoomInv, TypeOK, PoolType
<1>4. files[fd] \notin crossed
  BY <1>1, <1>2, <1>3, CrossedStays
<1>5. Leaving(ip) \/ (RemoveFd /\ fdToIp[pmFd] = ip /\ pmFd \in FDs)
  BY <1>1, <1>3, LeavingStep
<1>6. CASE fd = acFd /\ (CreateMeeting \/ JoinMeeting)
  <2>1. PICK new \in PeerIps(acFd) :
          /\ fdToIp' = [fdToIp EXCEPT ![acFd] = new]
          /\ crossed' = crossed \cup (IF Leaving(new) THEN Held(acFd) ELSE {})
    BY <1>3, <1>6, LetIn
  <2>2. new = ip
    BY <1>1, <1>2, <1>3, <1>6, <2>1
  <2>3. ~Leaving(ip)
    BY <1>1, <1>2, <1>3, <1>6, <2>1, <2>2 DEF Held
  <2>4. ~RemoveFd
    <3>1. pmAt' = pmAt
      BY <1>6 DEF CreateMeeting, JoinMeeting, main
    <3> QED
      BY <3>1 DEF RemoveFd
  <2> QED
    BY <1>5, <2>3, <2>4
<1>7. CASE fd \in Present /\ ~(fd = acFd /\ (CreateMeeting \/ JoinMeeting))
  <2>1. fdToIp[fd] = ip
    <3>1. status' # {}
      BY DEF Present
    <3> QED
      BY <1>1, <1>2, <1>3, <1>7, <3>1, RecordsStep
  <2>2. ~Leaving(ip)
    BY <1>4, <1>7, <2>1 DEF ExitInv
  <2>3. RemoveFd /\ fdToIp[pmFd] = ip
    BY <1>5, <2>2
  <2>4. fd \in status' /\ fd # pmFd
    BY <2>3 DEF RemoveFd, Present
  <2>5. fd \in Namesakes(pmFd)
    BY <1>7, <2>1, <2>3, <2>4 DEF Namesakes
  <2>6. files[fd] \in crossed'
    BY <2>3, <2>5 DEF RemoveFd
  <2> QED
    BY <1>1, <1>2, <2>6
<1> QED
  BY <1>2, <1>6, <1>7

----------------------------------------------------------------------------
\* The news of each other.

\* A step that takes nothing out of the send queue and leaves the send threads and
\* what accept_fd has to say alone takes no news away.
LEMMA InformedFrame ==
  ASSUME NEW fd, NEW other, Informed(fd, other),
         files'[fd] = files[fd], files'[other] = files[other],
         UNCHANGED <<partner, held, todo>>,
         \A s \in Senders : lock' = s => lock = s,
         \A i \in DOMAIN sendqueue :
           i \in DOMAIN sendqueue' /\ sendqueue'[i] = sendqueue[i],
         fdToIp'[other] = fdToIp[other],
         UNCHANGED <<acAt, acFd, acMsg>> \/ acAt \notin {"announce", "list", "push"}
  PROVE  Informed(fd, other)'
<1>1. PICK ip : ip = fdToIp[other]
  OBVIOUS
<1>2. ToBeTold(fd, other) => ToBeTold(fd, other)'
  BY DEF ToBeTold
<1>3. OnItsWay(fd, ip) => OnItsWay(fd, ip)'
  BY DEF OnItsWay
<1>4. ip \in partner[files[fd]] => ip \in partner'[files'[fd]]
  OBVIOUS
<1>5. \/ ip \in partner'[files'[fd]] \/ ToBeTold(fd, other)' \/ OnItsWay(fd, ip)'
        => Informed(fd, other)'
  BY <1>1 DEF Informed, OnItsWay
<1> QED
  BY <1>1, <1>2, <1>3, <1>4, <1>5 DEF Informed

\* accept_fd puts the news together, for those who were in and for the one who came.
LEMMA InformedAccept ==
  ASSUME RoomInv, Announce \/ ListPartners \/ PushAccepted,
         NEW fd \in Present, NEW other \in Present, fd # other, Informed(fd, other)
  PROVE  Informed(fd, other)'
<1>0. PICK ip : ip = fdToIp[other]
  OBVIOUS
<1>1. /\ fd \in FDs /\ other \in FDs /\ other \in status
      /\ sendqueue \in Seq(Msg) /\ fdToIp \in [FDs -> Addrs] /\ maxfd \in Nat
      /\ status \subseteq 0..maxfd
  BY DEF RoomInv, TypeOK, PoolType, QueueType, Present, MaxfdCoversMembers
<1>2. UNCHANGED <<files, fdToIp, partner, held, todo, lock, acFd>>
  BY DEF Announce, ListPartners, PushAccepted, views, sending, pool
<1>3. fdToIp[other] = ip
  BY <1>0
<1>4. ASSUME OnItsWay(fd, ip)' PROVE Informed(fd, other)'
  BY <1>0, <1>2, <1>4 DEF Informed, OnItsWay
<1>5. ASSUME ToBeTold(fd, other)' PROVE Informed(fd, other)'
  BY <1>5 DEF Informed, ToBeTold
<1>6. CASE ip \in partner[files[fd]]
  BY <1>0, <1>2, <1>6 DEF Informed
<1>7. CASE Announce
  <2>1. UNCHANGED sendqueue /\ acAt = "announce" /\ acAt' = "push"
          /\ acMsg' = Message("PARTNER_JOIN", acFd, fdToIp[acFd], {})
    BY <1>7 DEF Announce
  <2>2. CASE acFd = fd
    <3>1. ToBeTold(fd, other)'
      BY <1>2, <2>1, <2>2 DEF ToBeTold, Message
    <3> QED
      BY <1>5, <3>1
  <2>3. CASE acFd = other
    <3>1. Tells(acMsg', fd, ip)
      BY <1>3, <2>1, <2>3 DEF Tells, Message
    <3>2. OnItsWay(fd, ip)'
      BY <2>1, <3>1 DEF OnItsWay, Tells
    <3> QED
      BY <1>4, <3>2
  <2>4. CASE acFd \notin {fd, other}
    <3>1. ~ToBeTold(fd, other)
      BY <2>1, <2>4 DEF ToBeTold
    <3>2. OnItsWay(fd, ip) => OnItsWay(fd, ip)'
      BY <1>2, <2>1 DEF OnItsWay
    <3> QED
      BY <1>0, <1>4, <1>6, <3>1, <3>2 DEF Informed
  <2> QED
    BY <2>2, <2>3, <2>4
<1>8. CASE ListPartners
  <2>1. UNCHANGED sendqueue /\ acAt = "list" /\ acAt' = "push"
          /\ acMsg' = Message("PARTNER_JOIN2", acFd, NoIp,
                              {fdToIp[g] : g \in Scanned(status) \ {acFd}})
    BY <1>8 DEF ListPartners
  <2>2. CASE acFd = fd
    <3>1. other \in Scanned(status) \ {acFd}
      BY <1>1, <2>2 DEF Scanned
    <3>2. Tells(acMsg', fd, ip)
      BY <1>3, <2>1, <2>2, <3>1 DEF Tells, Message
    <3>3. OnItsWay(fd, ip)'
      BY <2>1, <3>2 DEF OnItsWay, Tells
    <3> QED
      BY <1>4, <3>3
  <2>3. CASE acFd # fd
    <3>1. ~ToBeTold(fd, other)
      BY <2>1, <2>3 DEF ToBeTold
    <3>2. OnItsWay(fd, ip) => OnItsWay(fd, ip)'
      BY <1>2, <2>1 DEF OnItsWay
    <3> QED
      BY <1>0, <1>4, <1>6, <3>1, <3>2 DEF Informed
  <2> QED
    BY <2>2, <2>3
<1>9. CASE PushAccepted
  <2>1. /\ acAt = "push" /\ UNCHANGED acMsg /\ sendqueue' = Append(sendqueue, acMsg)
        /\ acAt' = IF acMsg.type = "PARTNER_JOIN" THEN "list" ELSE "read"
    BY <1>9 DEF PushAccepted
  <2>2. acMsg \in Msg
    BY <2>1 DEF RoomInv, TypeOK, AcceptType
  <2>3. /\ \A i \in DOMAIN sendqueue :
             i \in DOMAIN sendqueue' /\ sendqueue'[i] = sendqueue[i]
        /\ \E i \in DOMAIN sendqueue' : sendqueue'[i] = acMsg
    BY <1>1, <2>1, <2>2, QueueKept
  <2>4. ToBeTold(fd, other) => ToBeTold(fd, other)'
    BY <1>2, <2>1 DEF ToBeTold
  <2>5. OnItsWay(fd, ip) => OnItsWay(fd, ip)'
    BY <1>2, <2>1, <2>3 DEF OnItsWay, Tells
  <2> QED
    BY <1>0, <1>4, <1>5, <1>6, <2>4, <2>5 DEF Informed
<1> QED
  BY <1>7, <1>8, <1>9

\* A send thread carries the news to the one it is for.
LEMMA InformedSend ==
  ASSUME RoomInv, ExitInv, NEW s \in Senders, SendFunc(s),
         NEW fd \in Present, NEW other \in Present, fd # other, Informed(fd, other),
         phase[files[fd]] # "gone", files[other] \notin crossed
  PROVE  Informed(fd, other)'
<1>0. PICK ip : ip = fdToIp[other]
  OBVIOUS
<1>1. /\ fd \in FDs /\ fd \in status /\ files[fd] \in Conns /\ fd <= maxfd
      /\ files \in [FDs -> Conns \cup {NoConn}] /\ sendqueue \in Seq(Msg)
      /\ held \in [Senders -> Msg \cup {NoMsg}] /\ todo \in [Senders -> SUBSET FDs]
      /\ partner \in [Conns -> SUBSET Addrs] /\ NoMsg \notin Msg
      /\ maxfd \in Nat /\ status \subseteq 0..maxfd /\ NoConn \notin Conns
      /\ (lock \in Senders => held[lock] # NoMsg)
  BY RoomAssumption, NoMsgAssumption
  DEF RoomInv, TypeOK, PoolType, QueueType, SendType, ClientType, Present,
      MaxfdCoversMembers
<1>2. UNCHANGED <<files, fdToIp, acAt, acFd, acMsg>>
  BY DEF SendFunc, PopMsg, LockPool, WriteTo, UnlockPool, accept, pool
<1>3. ~Leaving(ip)
  BY <1>0 DEF ExitInv
<1>4. ToBeTold(fd, other) => ToBeTold(fd, other)'
  BY <1>2 DEF ToBeTold
<1>5. /\ ip \in partner[files[fd]] \/ ToBeTold(fd, other) \/ OnItsWay(fd, ip)
      /\ ip \in partner'[files[fd]] \/ ToBeTold(fd, other)' \/ OnItsWay(fd, ip)'
           => Informed(fd, other)'
  BY <1>0, <1>2 DEF Informed, OnItsWay
<1>6. CASE PopMsg(s)
  <2>1. /\ held[s] = NoMsg /\ sendqueue # << >>
        /\ held' = [held EXCEPT ![s] = Head(sendqueue)]
        /\ sendqueue' = Tail(sendqueue) /\ UNCHANGED <<partner, todo, lock>>
    BY <1>6 DEF PopMsg, views
  <2>2. /\ \A j \in DOMAIN sendqueue :
             \/ sendqueue[j] = Head(sendqueue)
             \/ \E i \in DOMAIN sendqueue' : sendqueue'[i] = sendqueue[j]
        /\ Head(sendqueue) \in Msg
    BY <1>1, <2>1, QueuePopped
  <2>3. lock # s
    BY <1>1, <2>1
  <2>4. \A r \in Senders : held'[r] = IF r = s THEN Head(sendqueue) ELSE held[r]
    BY <1>1, <2>1
  <2>5. ASSUME NEW j \in DOMAIN sendqueue, Tells(sendqueue[j], fd, ip)
        PROVE  OnItsWay(fd, ip)'
    <3>1. CASE sendqueue[j] = Head(sendqueue)
      <4>1. /\ held'[s] # NoMsg /\ held'[s] = sendqueue[j] /\ lock' # s
        BY <1>1, <2>1, <2>2, <2>3, <2>4, <3>1
      <4> QED
        BY <2>5, <4>1 DEF OnItsWay
    <3>2. CASE \E i \in DOMAIN sendqueue' : sendqueue'[i] = sendqueue[j]
      BY <2>5, <3>2 DEF OnItsWay
    <3> QED
      BY <2>2, <3>1, <3>2
  <2>6. OnItsWay(fd, ip) => OnItsWay(fd, ip)'
    <3>1. ASSUME NEW r \in Senders, held[r] # NoMsg, Tells(held[r], fd, ip),
                 lock = r => fd \in todo[r]
          PROVE  OnItsWay(fd, ip)'
      <4>1. r # s /\ held'[r] = held[r] /\ UNCHANGED <<todo, lock>>
        BY <2>1, <2>4, <3>1
      <4> QED
        BY <3>1, <4>1 DEF OnItsWay
    <3>2. acAt = "push" /\ Tells(acMsg, fd, ip) => OnItsWay(fd, ip)'
      BY <1>2 DEF OnItsWay
    <3> QED
      BY <2>5, <3>1, <3>2 DEF OnItsWay
  <2> QED
    BY <1>4, <1>5, <2>1, <2>6
<1>7. CASE LockPool(s)
  <2>1. /\ lock = Free /\ lock' = s /\ todo' = [todo EXCEPT ![s] = Targets(held[s])]
        /\ UNCHANGED <<held, partner, sendqueue>>
    BY <1>7 DEF LockPool, Unlocked, views
  <2>2. Tells(held[s], fd, ip) => fd \in Targets(held[s])
    BY <1>1 DEF Tells, Targets, Scanned
  <2>3. todo'[s] = Targets(held[s])
    BY <1>1, <2>1
  <2>4. OnItsWay(fd, ip) => OnItsWay(fd, ip)'
    <3>1. ASSUME NEW r \in Senders, held[r] # NoMsg, Tells(held[r], fd, ip)
          PROVE  lock' = r => fd \in todo'[r]
      BY <2>1, <2>2, <2>3, <3>1
    <3> QED
      BY <1>2, <2>1, <3>1 DEF OnItsWay
  <2> QED
    BY <1>4, <1>5, <2>1, <2>4
<1>8. CASE WriteTo(s)
  <2>1. PICK w \in FDs :
          /\ lock = s /\ w \in todo[s]
          /\ todo' = [todo EXCEPT ![s] = @ \ {w}]
          /\ \/ /\ files[w] # NoConn /\ phase[files[w]] # "gone"
                /\ Handle(files[w], held[s])
             \/ /\ files[w] # NoConn => phase[files[w]] = "gone"
                /\ UNCHANGED partner
          /\ UNCHANGED <<held, sendqueue, lock>>
    BY <1>8 DEF WriteTo, IsLowest
  <2>2. held[s] # NoMsg /\ held[s] \in Msg
    BY <1>1, <2>1
  <2>3. ~IsExit(held[s], ip)
    BY <1>3, <2>2 DEF Leaving
  <2>4. /\ \A r \in Senders : todo'[r] = IF r = s THEN todo[s] \ {w} ELSE todo[r]
    BY <1>1, <2>1
  <2>5. \/ partner'[files[fd]] = partner[files[fd]]
        \/ files[w] = files[fd] /\ Handle(files[w], held[s])
    BY <1>1, <2>1 DEF Handle
  <2>6. ip \in partner[files[fd]] => ip \in partner'[files[fd]]
    <3>1. CASE partner'[files[fd]] = partner[files[fd]]
      BY <3>1
    <3>2. CASE files[w] = files[fd] /\ Handle(files[w], held[s])
      BY <1>1, <2>3, <3>2 DEF Handle, IsExit
    <3> QED
      BY <2>5, <3>1, <3>2
  <2>7. CASE w = fd /\ Tells(held[s], fd, ip)
    <3>1. Handle(files[fd], held[s])
      BY <1>1, <2>1, <2>7
    <3>2. ip \in partner'[files[fd]]
      BY <1>1, <2>7, <3>1 DEF Handle, Tells
    <3> QED
      BY <1>5, <3>2
  <2>8. CASE ~(w = fd /\ Tells(held[s], fd, ip))
    <3>1. OnItsWay(fd, ip) => OnItsWay(fd, ip)'
      <4>1. ASSUME NEW r \in Senders, held[r] # NoMsg, Tells(held[r], fd, ip),
                   lock = r => fd \in todo[r]
            PROVE  lock' = r => fd \in todo'[r]
        BY <2>1, <2>4, <2>8, <4>1
      <4> QED
        BY <1>2, <2>1, <4>1 DEF OnItsWay
    <3> QED
      BY <1>4, <1>5, <2>6, <3>1
  <2> QED
    BY <2>7, <2>8
<1>9. CASE UnlockPool(s)
  <2>1. /\ lock = s /\ todo[s] = {} /\ lock' = Free /\ held' = [held EXCEPT ![s] = NoMsg]
        /\ UNCHANGED <<todo, partner, sendqueue>> /\ Free \notin Senders
    BY <1>9, RoomAssumption DEF UnlockPool, views
  <2>2. \A r \in Senders : held'[r] = IF r = s THEN NoMsg ELSE held[r]
    BY <1>1, <2>1
  <2>3. OnItsWay(fd, ip) => OnItsWay(fd, ip)'
    <3>1. ASSUME NEW r \in Senders, held[r] # NoMsg, Tells(held[r], fd, ip),
                 lock = r => fd \in todo[r]
          PROVE  OnItsWay(fd, ip)'
      <4>1. r # s /\ held'[r] = held[r] /\ lock' # r
        BY <2>1, <2>2, <3>1
      <4> QED
        BY <3>1, <4>1 DEF OnItsWay
    <3>2. acAt = "push" /\ Tells(acMsg, fd, ip) => OnItsWay(fd, ip)'
      BY <1>2 DEF OnItsWay
    <3>3. (\E i \in DOMAIN sendqueue : Tells(sendqueue[i], fd, ip)) => OnItsWay(fd, ip)'
      BY <2>1 DEF OnItsWay
    <3> QED
      BY <3>1, <3>2, <3>3 DEF OnItsWay
  <2> QED
    BY <1>4, <1>5, <2>1, <2>3
<1> QED
  BY <1>6, <1>7, <1>8, <1>9 DEF SendFunc

\* The inductive step of NewsInv.
LEMMA NewsStep ==
  RoomInv /\ WatchedInv /\ ExitInv /\ NewsInv /\ [Next]_vars => NewsInv'
<1> SUFFICES ASSUME RoomInv, WatchedInv, ExitInv, NewsInv, [Next]_vars
             PROVE  NewsInv'
  OBVIOUS
<1>1. SUFFICES ASSUME NEW fd \in Present', NEW other \in Present', fd # other,
                      phase'[files'[fd]] # "gone", files'[other] \notin crossed'
               PROVE  Informed(fd, other)'
  BY DEF NewsInv
<1>2. TypeOK
  BY DEF RoomInv
<1>3. /\ fd \in FDs /\ files'[fd] = files[fd] /\ files[fd] \in Conns
      /\ fd \in Present \/ (fd = acFd /\ (CreateMeeting \/ JoinMeeting))
      /\ CreateMeeting => fd = acFd
  BY PresentStep
<1>4. /\ other \in FDs /\ files'[other] = files[other] /\ files[other] \in Conns
      /\ other \in Present \/ (other = acFd /\ (CreateMeeting \/ JoinMeeting))
      /\ CreateMeeting => other = acFd
  BY PresentStep
<1>5. CASE JoinMeeting /\ acFd \in {fd, other}
  <2>1. acAt' = "announce" /\ acFd' = acFd
    BY <1>5 DEF JoinMeeting
  <2> QED
    BY <1>5, <2>1 DEF Informed, ToBeTold
<1>6. CASE ~(JoinMeeting /\ acFd \in {fd, other})
  <2>1. fd \in Present /\ other \in Present /\ ~CreateMeeting
    BY <1>1, <1>3, <1>4, <1>6
  <2>2. phase[files[fd]] # "gone" /\ files[other] \notin crossed
    BY <1>1, <1>2, <1>3, <1>4, GoneStays, CrossedStays
  <2>3. Informed(fd, other)
    BY <1>1, <2>1, <2>2 DEF NewsInv
  <2>4. fdToIp'[other] = fdToIp[other]
    <3>1. status' # {}
      BY <1>1 DEF Present
    <3>2. fdToIp \in [FDs -> Addrs]
      BY <1>2 DEF TypeOK, PoolType
    <3> QED
      BY <1>2, <1>4, <1>6, <2>1, <3>1, <3>2, RecordsStep
  <2>5. sendqueue \in Seq(Msg)
    BY <1>2 DEF TypeOK, QueueType
  <2>6. ASSUME UNCHANGED <<partner, held, todo>>, lock' \in {lock, Free, "accept_fd"},
               UNCHANGED <<acAt, acFd, acMsg>> \/ acAt \notin {"announce", "list", "push"},
               \/ sendqueue' = sendqueue
               \/ \E msg \in Msg : sendqueue' = Append(sendqueue, msg)
        PROVE  Informed(fd, other)'
    <3>1. \A i \in DOMAIN sendqueue :
            i \in DOMAIN sendqueue' /\ sendqueue'[i] = sendqueue[i]
      BY <2>5, <2>6, QueueKept
    <3>2. \A s \in Senders : lock' = s => lock = s
      BY <2>6, RoomAssumption
    <3> QED
      BY <1>3, <1>4, <2>3, <2>6, <2>4, <3>1, <3>2, InformedFrame
  <2>7. CASE ProcessMain
    <3>1. CASE ClearRoom
      BY <3>1 DEF ClearRoom, EmptyPool, Present
    <3>2. UNCHANGED <<partner, held, todo, lock, acAt, acFd, acMsg>>
      BY <2>7 DEF ProcessMain, Select, SelectFails, StartRead, ReadData, DropData, ReadClosed,
         PushRead, TestOwner, ClearRoom, ReportEmpty, RemoveFd, ReportQuit, CloseFd, accept,
         sending, views
    <3>3. ~ClearRoom => sendqueue' = sendqueue
                        \/ (sendqueue' = Append(sendqueue, pmMsg) /\ pmMsg \in Msg)
      BY <1>2, <2>7 DEF ProcessMain, Select, SelectFails, StartRead, ReadData, DropData,
         ReadClosed, PushRead, TestOwner, ReportEmpty, RemoveFd, ReportQuit, CloseFd, TypeOK,
         MainType
    <3> QED
      BY <2>6, <3>1, <3>2, <3>3
  <2>8. CASE AcceptFd
    <3>1. CASE Announce \/ ListPartners \/ PushAccepted
      BY <1>1, <2>1, <2>3, <3>1, InformedAccept
    <3>2. CASE \/ ReceiveFd \/ ReceiveFails \/ EnterPool \/ CreateMeeting \/ JoinMeeting
               \/ RefuseJoin
      <4>1. /\ UNCHANGED <<partner, held, todo, sendqueue>>
            /\ lock' \in {lock, Free, "accept_fd"}
            /\ acAt \notin {"announce", "list", "push"}
        BY <3>2 DEF ReceiveFd, ReceiveFails, EnterPool, CreateMeeting, JoinMeeting, RefuseJoin,
           AddMember, views, sending
      <4> QED
        BY <2>6, <4>1
    <3> QED
      BY <2>8, <3>1, <3>2 DEF AcceptFd
  <2>9. ASSUME NEW s \in Senders, SendFunc(s) PROVE Informed(fd, other)'
    BY <1>1, <2>1, <2>2, <2>3, <2>9, InformedSend
  <2>10. CASE Environment \/ UNCHANGED vars
    <3>1. UNCHANGED <<partner, held, todo, lock, acAt, acFd, acMsg, sendqueue>>
      BY <2>10 DEF Environment, DispatchCreate, LookUpRoom, DispatchJoin, ReadReport, SendData,
         Leave, vars, accept, sending, views
    <3> QED
      BY <2>6, <3>1
  <2> QED
    BY <2>7, <2>8, <2>9, <2>10, Cases
<1> QED
  BY <1>5, <1>6

\* When the room has nothing left to do, nothing is left to tell (accept_fd, fdclose and
\* send_func of room.cpp): whoever is in a meeting has been told of everybody else who
\* is, under the address recorded for him, whatever came and went in between; but for who
\* was in while somebody of his address was on his way out.
THEOREM NobodyIsMissing == Spec => []NobodyMissing
<1> DEFINE Inv == WatchedInv /\ ExitInv /\ NewsInv
<1>1. Init => Inv
  <2> SUFFICES ASSUME Init PROVE Inv
    OBVIOUS
  <2>1. status = {} /\ acAt = "read"
    BY DEF Init
  <2>2. WatchedInv
    BY <2>1 DEF WatchedInv
  <2>3. Present = {}
    BY <2>1 DEF Present
  <2> QED
    BY <2>2, <2>3 DEF ExitInv, NewsInv
<1>2. RoomInv /\ Inv /\ [Next]_vars => Inv'
  <2>1. RoomInv => TypeOK
    BY DEF RoomInv
  <2> QED
    BY <2>1, WatchedStep, ExitStep, NewsStep
<1>3. Inv => NobodyMissing
  <2> SUFFICES ASSUME Inv, Quiescent, NEW fd \in Present, NEW other \in Present,
                      fd # other, phase[files[fd]] # "gone", files[other] \notin crossed
               PROVE  fdToIp[other] \in partner[files[fd]]
    BY DEF NobodyMissing
  <2>1. Informed(fd, other)
    BY DEF NewsInv
  <2>2. acAt = "read" /\ sendqueue = << >> /\ \A s \in Senders : held[s] = NoMsg
    BY DEF Quiescent
  <2> QED
    BY <2>1, <2>2 DEF Informed, ToBeTold, OnItsWay
<1> HIDE DEF Inv
<1>4. Spec => []Inv
  BY <1>1, <1>2, RoomHolds, PTL DEF Spec
<1> QED
  BY <1>3, <1>4, PTL

----------------------------------------------------------------------------
\* Who is excepted.

\* Nobody else comes from the address of this connection.
Alone(c) == \A d \in Conns : IpOf[d] = IpOf[c] => d = c

OnRecord(ip) == \E fd \in FDs : fdToIp[fd] = ip

\* The address of who has no namesake is recorded, and said to have left, only after his
\* connection was dealt with: a newcomer has no double in the pool's records.
FreshInv ==
  \A c \in Conns : Alone(c) /\ (OnRecord(IpOf[c]) \/ Leaving(IpOf[c])) => Done(c)

\* Whoever is in the meeting has been dealt with, and is recorded under his own address
\* if it could be learned.
SeatedInv ==
  \A fd \in Present :
    Done(files[fd]) /\ fdToIp[fd] \in {IpOf[files[fd]], BadIp}

\* The address of a member who has no namesake is recorded for nobody else.
RecordInv ==
  \A fd \in Present, g \in FDs :
    Alone(files[fd]) /\ fdToIp[g] = IpOf[files[fd]] => g = fd

\* Who is crossed has been dealt with, and has a namesake or no known address.
CrossInv ==
  \A c \in crossed :
    Done(c) /\ \A fd \in Present : files[fd] = c /\ Alone(c) => fdToIp[fd] = BadIp

\* Only a namesake, or an address that could not be learned, makes a member crossed.
OnlyNamesakesCross ==
  \A fd \in Present :
    files[fd] \in crossed =>
      \/ fdToIp[fd] = BadIp
      \/ \E d \in Conns \ {files[fd]} : IpOf[d] = IpOf[files[fd]]

\* Who is let in is through with it.
LEMMA LetInDone ==
  ASSUME RoomInv, [Next]_vars, CreateMeeting \/ JoinMeeting,
         NEW c \in Conns, files[acFd] = c
  PROVE  ~Done(c) /\ Done(c)'
<1> USE DEF RoomInv
<1>1. /\ acFd \in FDs /\ UNCHANGED <<files, acFd, down>>
      /\ acAt \in {"creating", "joining"} /\ acAt' \in {"push", "announce"}
  BY DEF CreateMeeting, JoinMeeting, pipes, TypeOK, AcceptType
<1>2. Open(c)
  BY <1>1 DEF Open
<1>3. Passed(c) /\ \A i \in DOMAIN down : down[i].conn # c
  BY <1>2 DEF PassedInv
<1>4. Passed(c)'
  BY <1>3, PassedStays
<1> QED
  BY <1>1, <1>3, <1>4 DEF Done

\* The inductive step of FreshInv.
LEMMA FreshStep == RoomInv /\ FreshInv /\ [Next]_vars => FreshInv'
<1> SUFFICES ASSUME RoomInv, FreshInv, [Next]_vars PROVE FreshInv'
  OBVIOUS
<1> SUFFICES ASSUME NEW c \in Conns, Alone(c), OnRecord(IpOf[c])' \/ Leaving(IpOf[c])'
             PROVE  Done(c)'
  BY DEF FreshInv, OnRecord, Leaving, Alone
<1>0. TypeOK /\ PassedInv
  BY DEF RoomInv
<1>1. CASE OnRecord(IpOf[c]) \/ Leaving(IpOf[c])
  BY <1>0, <1>1, DoneStays DEF FreshInv
<1>2. CASE Leaving(IpOf[c])'
  <2>1. Leaving(IpOf[c]) \/ (RemoveFd /\ fdToIp[pmFd] = IpOf[c] /\ pmFd \in FDs)
    BY <1>0, <1>2, LeavingStep
  <2> QED
    BY <1>1, <2>1 DEF OnRecord
<1>3. CASE OnRecord(IpOf[c])' /\ ~OnRecord(IpOf[c])
  <2>1. PICK fd \in FDs : fdToIp'[fd] = IpOf[c] /\ fdToIp[fd] # IpOf[c]
    BY <1>3 DEF OnRecord
  <2>2. CreateMeeting \/ JoinMeeting
    BY <1>0, <2>1, RecordsStep, AddressOf
  <2>3. PICK ip \in PeerIps(acFd) : fdToIp' = [fdToIp EXCEPT ![acFd] = ip]
    BY <1>0, <2>2, LetIn
  <2>4. fdToIp \in [FDs -> Addrs] /\ files \in [FDs -> Conns \cup {NoConn}] /\ acFd \in FDs
    BY <1>0, <2>2, LetIn DEF TypeOK, PoolType
  <2>5. fd = acFd /\ ip = IpOf[c]
    BY <2>1, <2>3, <2>4
  <2>6. files[acFd] \in Conns /\ IpOf[files[acFd]] = IpOf[c]
    BY <2>4, <2>5, AddressOf, RoomAssumption DEF PeerIps
  <2>7. files[acFd] = c
    BY <2>6 DEF Alone
  <2> QED
    BY <2>2, <2>7, LetInDone
<1> QED
  BY <1>1, <1>2, <1>3

\* The inductive step of SeatedInv.
LEMMA SeatedStep == RoomInv /\ WatchedInv /\ SeatedInv /\ [Next]_vars => SeatedInv'
<1> SUFFICES ASSUME RoomInv, WatchedInv, SeatedInv, [Next]_vars PROVE SeatedInv'
  OBVIOUS
<1>1. SUFFICES ASSUME NEW fd \in Present', NEW c \in Conns, c = files'[fd]
               PROVE  Done(c)' /\ fdToIp'[fd] \in {IpOf[c], BadIp}
  <2>1. ASSUME NEW fd \in Present'
        PROVE  Done(files[fd])' /\ fdToIp'[fd] \in {IpOf[files'[fd]], BadIp}
    <3>1. PICK c \in Conns : c = files'[fd]
      BY PresentStep
    <3>2. Done(c)' /\ fdToIp'[fd] \in {IpOf[c], BadIp}
      BY <1>1, <3>1
    <3> QED
      BY <3>1, <3>2 DEF Done, Passed
  <2> QED
    BY <2>1 DEF SeatedInv
<1>2. /\ fd \in FDs /\ files[fd] = c
      /\ fd \in Present \/ (fd = acFd /\ (CreateMeeting \/ JoinMeeting))
  BY <1>1, PresentStep
<1>3. TypeOK /\ PassedInv /\ fdToIp \in [FDs -> Addrs] /\ NoConn \notin Conns
  BY RoomAssumption DEF RoomInv, TypeOK, PoolType
<1>4. CASE fd = acFd /\ (CreateMeeting \/ JoinMeeting)
  <2>1. Done(c)'
    BY <1>2, <1>4, LetInDone
  <2>2. PICK ip \in PeerIps(acFd) : fdToIp' = [fdToIp EXCEPT ![acFd] = ip]
    BY <1>3, <1>4, LetIn
  <2>3. ip \in {IpOf[c], BadIp} /\ fdToIp'[fd] = ip
    BY <1>2, <1>3, <1>4, <2>2 DEF PeerIps
  <2> QED
    BY <2>1, <2>3
<1>5. CASE fd \in Present /\ ~(fd = acFd /\ (CreateMeeting \/ JoinMeeting))
  <2>1. fdToIp'[fd] = fdToIp[fd]
    <3>1. status' # {}
      BY DEF Present
    <3> QED
      BY <1>2, <1>3, <1>5, <3>1, RecordsStep
  <2>2. Done(c)'
    BY <1>2, <1>3, <1>5, DoneStays DEF SeatedInv
  <2> QED
    BY <1>2, <1>5, <2>1, <2>2 DEF SeatedInv
<1> QED
  BY <1>2, <1>4, <1>5

\* The inductive step of RecordInv.
LEMMA RecordStep ==
  RoomInv /\ WatchedInv /\ FreshInv /\ RecordInv /\ [Next]_vars => RecordInv'
<1> SUFFICES ASSUME RoomInv, WatchedInv, FreshInv, RecordInv, [Next]_vars
             PROVE  RecordInv'
  OBVIOUS
<1>1. SUFFICES ASSUME NEW fd \in Present', NEW g \in FDs, Alone(files'[fd]),
                      fdToIp'[g] = IpOf[files'[fd]]
               PROVE  g = fd
  BY DEF RecordInv, Alone
<1>2. /\ fd \in FDs /\ files'[fd] = files[fd] /\ files[fd] \in Conns
      /\ fd \in Present \/ (fd = acFd /\ (CreateMeeting \/ JoinMeeting))
  BY PresentStep
<1>3. TypeOK /\ PassedInv
  BY DEF RoomInv
<1>4. /\ fdToIp \in [FDs -> Addrs] /\ files \in [FDs -> Conns \cup {NoConn}]
      /\ NoConn \notin Conns /\ IpOf[files[fd]] # BadIp /\ status' # {}
  BY <1>2, <1>3, RoomAssumption DEF TypeOK, PoolType, Present
<1>5. CASE ~(CreateMeeting \/ JoinMeeting)
  <2>1. fdToIp' = fdToIp
    BY <1>3, <1>4, <1>5, RecordsStep
  <2> QED
    BY <1>1, <1>2, <1>5, <2>1 DEF RecordInv
<1>6. CASE CreateMeeting \/ JoinMeeting
  <2>1. acFd \in FDs
    BY <1>3, <1>6, LetIn
  <2>2. PICK ip \in PeerIps(acFd) : fdToIp' = [fdToIp EXCEPT ![acFd] = ip]
    BY <1>3, <1>6, LetIn
  <2>3. fdToIp'[g] = IF g = acFd THEN ip ELSE fdToIp[g]
    BY <1>4, <2>1, <2>2
  <2>4. CASE fd = acFd
    <3>1. ~Done(files[fd])
      BY <1>2, <1>6, <2>4, LetInDone
    <3>2. fdToIp[g] # IpOf[files[fd]]
      BY <1>1, <1>2, <3>1 DEF FreshInv, OnRecord
    <3> QED
      BY <1>1, <1>2, <2>3, <2>4, <3>2
  <2>5. CASE fd # acFd
    <3>1. fd \in Present
      BY <1>2, <2>5
    <3>2. CASE g = acFd
      <4>1. ip = IpOf[files[fd]]
        BY <1>1, <1>2, <2>3, <3>2
      <4>2. files[acFd] \in Conns /\ IpOf[files[acFd]] = IpOf[files[fd]]
        BY <1>4, <2>1, <4>1 DEF PeerIps
      <4>3. files[acFd] = files[fd]
        BY <1>1, <1>2, <4>2 DEF Alone
      <4> QED
        BY <1>2, <1>3, <1>4, <2>1, <2>5, <4>3 DEF PassedInv
    <3>3. CASE g # acFd
      BY <1>1, <1>2, <2>3, <3>1, <3>3 DEF RecordInv
    <3> QED
      BY <3>2, <3>3
  <2> QED
    BY <2>4, <2>5
<1> QED
  BY <1>5, <1>6

\* The inductive step of CrossInv.
LEMMA CrossStep ==
  /\ RoomInv /\ WatchedInv /\ FreshInv /\ SeatedInv /\ RecordInv /\ CrossInv
  /\ [Next]_vars
  => CrossInv'
<1> SUFFICES ASSUME RoomInv, WatchedInv, FreshInv, SeatedInv, RecordInv, CrossInv,
                    [Next]_vars
             PROVE  CrossInv'
  OBVIOUS
<1>1. SUFFICES ASSUME NEW c \in crossed'
               PROVE  /\ Done(c)'
                      /\ \A fd \in Present' :
                           files'[fd] = c /\ Alone(c) => fdToIp'[fd] = BadIp
  BY DEF CrossInv, Done, Passed, Present
<1>2. TypeOK /\ PassedInv
  BY DEF RoomInv
<1>3. /\ fdToIp \in [FDs -> Addrs] /\ files \in [FDs -> Conns \cup {NoConn}]
      /\ NoConn \notin Conns /\ crossed \subseteq Conns
      /\ \A fd \in Present : fd \in FDs /\ files[fd] \in Conns
  BY <1>2, RoomAssumption DEF TypeOK, PoolType, ClientType, Present
<1>4. \A fd \in Present' :
        /\ fd \in FDs /\ files'[fd] = files[fd] /\ files[fd] \in Conns /\ status' # {}
        /\ fd \in Present \/ (fd = acFd /\ (CreateMeeting \/ JoinMeeting))
  BY PresentStep DEF Present
<1>5. CASE c \in crossed
  <2>1. Done(c) /\ Done(c)'
    BY <1>2, <1>3, <1>5, DoneStays DEF CrossInv
  <2>2. ASSUME NEW fd \in Present', files'[fd] = c, Alone(c) PROVE fdToIp'[fd] = BadIp
    <3>1. ~(fd = acFd /\ (CreateMeeting \/ JoinMeeting))
      BY <1>4, <2>1, <2>2, LetInDone
    <3>2. fdToIp'[fd] = fdToIp[fd]
      BY <1>2, <1>3, <1>4, <2>2, <3>1, RecordsStep
    <3> QED
      BY <1>4, <1>5, <2>2, <3>1, <3>2 DEF CrossInv
  <2> QED
    BY <2>1, <2>2
<1>6. CASE RemoveFd /\ c \notin crossed
  <2>1. PICK g \in Present : /\ g # pmFd /\ fdToIp[g] = fdToIp[pmFd] /\ c = files[g]
                             /\ pmFd \in FDs
    BY <1>1, <1>2, <1>6 DEF RemoveFd, Namesakes, TypeOK, MainType
  <2>2. Done(c)'
    BY <1>2, <1>3, <2>1, DoneStays DEF SeatedInv
  <2>3. ASSUME NEW fd \in Present', files'[fd] = c, Alone(c) PROVE fdToIp'[fd] = BadIp
    <3>1. fdToIp' = fdToIp
      BY <1>6 DEF RemoveFd
    <3>2. fd = g
      BY <1>2, <1>3, <1>4, <2>1, <2>3 DEF PassedInv
    <3>3. fdToIp[pmFd] # IpOf[c]
      BY <2>1, <2>3 DEF RecordInv
    <3> QED
      BY <2>1, <3>1, <3>2, <3>3 DEF SeatedInv
  <2> QED
    BY <2>2, <2>3
<1>7. CASE (CreateMeeting \/ JoinMeeting) /\ c \notin crossed
  <2>1. acFd \in FDs
    BY <1>2, <1>7, LetIn
  <2>2. PICK ip \in PeerIps(acFd) :
          /\ fdToIp' = [fdToIp EXCEPT ![acFd] = ip]
          /\ crossed' = crossed \cup (IF Leaving(ip) THEN Held(acFd) ELSE {})
    BY <1>2, <1>7, LetIn
  <2>3. Leaving(ip) /\ c = files[acFd] /\ c \in Conns
    BY <1>1, <1>3, <1>7, <2>1, <2>2 DEF Held
  <2>4. ~Done(c) /\ Done(c)'
    BY <1>7, <2>3, LetInDone
  <2>5. ASSUME NEW fd \in Present', files'[fd] = c, Alone(c) PROVE fdToIp'[fd] = BadIp
    <3>1. fd = acFd
      BY <1>2, <1>3, <1>4, <2>1, <2>3, <2>5 DEF PassedInv
    <3>2. ip # IpOf[c]
      BY <2>3, <2>4, <2>5 DEF FreshInv
    <3>3. ip = BadIp
      BY <2>3, <3>2 DEF PeerIps
    <3> QED
      BY <1>3, <2>1, <2>2, <3>1, <3>3
  <2> QED
    BY <2>4, <2>5
<1> QED
  BY <1>1, <1>2, <1>5, <1>6, <1>7, CrossedStep

\* Nobody is left out of a list without a reason (accept_fd and fdclose of room.cpp): of
\* the members NobodyMissing excepts, each has an address the room could not learn or one
\* somebody else comes from too.
THEOREM OnlyNamesakesAreMissed == Spec => []OnlyNamesakesCross
<1> DEFINE Inv == WatchedInv /\ FreshInv /\ SeatedInv /\ RecordInv /\ CrossInv
<1>1. Init => Inv
  <2> SUFFICES ASSUME Init PROVE Inv
    OBVIOUS
  <2>1. /\ status = {} /\ acAt = "read" /\ pmAt = "scan" /\ sendqueue = << >>
        /\ \A fd \in FDs : fdToIp[fd] = NoIp
        /\ \A s \in Senders : held[s] = NoMsg
        /\ crossed = {}
    BY DEF Init
  <2>2. WatchedInv
    BY <2>1 DEF WatchedInv
  <2>3. Present = {}
    BY <2>1 DEF Present
  <2>4. FreshInv
    BY <2>1, AddressOf DEF FreshInv, OnRecord, Leaving
  <2> QED
    BY <2>1, <2>2, <2>3, <2>4 DEF SeatedInv, RecordInv, CrossInv
<1>2. RoomInv /\ Inv /\ [Next]_vars => Inv'
  <2>1. RoomInv => TypeOK
    BY DEF RoomInv
  <2> QED
    BY <2>1, WatchedStep, FreshStep, SeatedStep, RecordStep, CrossStep
<1>3. RoomInv /\ Inv => OnlyNamesakesCross
  <2> SUFFICES ASSUME RoomInv, Inv, NEW fd \in Present, files[fd] \in crossed,
                      fdToIp[fd] # BadIp
               PROVE  \E d \in Conns \ {files[fd]} : IpOf[d] = IpOf[files[fd]]
    BY DEF OnlyNamesakesCross
  <2>1. ~Alone(files[fd])
    BY DEF CrossInv
  <2> QED
    BY <2>1 DEF Alone
<1> HIDE DEF Inv
<1>4. Spec => []Inv
  BY <1>1, <1>2, RoomHolds, PTL DEF Spec
<1> QED
  BY <1>3, <1>4, RoomHolds, PTL
=============================================================================
