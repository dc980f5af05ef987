-------------------------- MODULE RoomMeeting_proofs --------------------------
(***************************************************************************)
(* A room is a meeting (module Meeting), for any number of users,          *)
(* descriptors and send threads, and any outcome of the unset bytes.       *)
(*                                                                         *)
(* The argument: at any time one thing at most stands for the room being   *)
(* free or given away (child_status, a 'C' on its way, the meeting itself, *)
(* an 'E' on its way), which TokenInv and CloseInv say; and a connection   *)
(* is in one place (PassedInv).                                            *)
(***************************************************************************)
EXTENDS RoomProcess_proofs

\* A meeting is on.
On == meeting > 0 /\ roomstatus = "ON"

\* A 'C' is between the dispatcher and CreateMeeting.
Given ==
  acAt \in {"create", "creating"} \/ \E i \in DOMAIN down : down[i].cmd = "C"

\* An 'E' is between clear_room and the dispatcher.
Reported == pmAt = "reportE" \/ \E i \in DOMAIN up : up[i] = "E"

\* One token at most.
TokenInv ==
  /\ child_status = 0 => ~Given /\ ~Reported /\ ~On
  /\ Given => ~Reported /\ ~On
  /\ \A i, j \in DOMAIN down : down[i].cmd = "C" /\ down[j].cmd = "C" => i = j
  /\ acAt \in {"create", "creating"} => \A i \in DOMAIN down : down[i].cmd # "C"
  /\ \A i, j \in DOMAIN up : up[i] = "E" /\ up[j] = "E" => i = j
  /\ pmAt = "reportE" => \A i \in DOMAIN up : up[i] # "E"
  /\ Reported => roomstatus = "CLOSE"

\* A closed room is empty, and stays so until it is created again.
CloseInv ==
  /\ roomstatus = "CLOSE" => /\ status = {} /\ owner = 0 /\ meeting > 0
                             /\ fdset = {} \/ acAt = "creating"
  /\ acAt = "joining" => roomstatus = "ON"
  /\ owner # 0 => On
  /\ pmAt = "clear" => owner # 0

----------------------------------------------------------------------------
\* What taking from a queue leaves of it.
LEMMA TailFacts ==
  ASSUME NEW S, NEW s \in Seq(S), s # << >>
  PROVE  /\ \A i \in DOMAIN Tail(s) : /\ i \in Nat /\ i + 1 \in DOMAIN s /\ i + 1 # 1
                                      /\ Tail(s)[i] = s[i + 1]
         /\ 1 \in DOMAIN s /\ Head(s) = s[1]
OBVIOUS

\* What appending to a queue makes of it.
LEMMA AppendFacts ==
  ASSUME NEW S, NEW s \in Seq(S), NEW e \in S
  PROVE  /\ DOMAIN Append(s, e) = DOMAIN s \cup {Len(s) + 1}
         /\ Len(s) + 1 \notin DOMAIN s
         /\ Append(s, e)[Len(s) + 1] = e
         /\ \A i \in DOMAIN s : Append(s, e)[i] = s[i]
OBVIOUS

\* The pipe's types.
LEMMA PipeTypes ==
  TypeOK => /\ up \in Seq({"E", "Q"}) /\ down \in Seq(Command) /\ child_status \in {0, 1}
            /\ meeting \in Nat
BY DEF TypeOK, OutsideType, ClientType

\* A step that makes no token.
LEMMA TokenFrame ==
  ASSUME TokenInv, UNCHANGED <<child_status, down, up, roomstatus, meeting>>,
         acAt' \in {"create", "creating"} => acAt \in {"create", "creating"},
         pmAt' = "reportE" => pmAt = "reportE"
  PROVE  TokenInv'
BY DEF TokenInv, Given, Reported, On

\* clear_room and its report.
LEMMA TokenClear ==
  ASSUME TypeOK, TokenInv, CloseInv, ClearRoom \/ ReportEmpty \/ ReportQuit
  PROVE  TokenInv'
<1>1. CASE ClearRoom
  <2>1. On /\ pmAt = "clear"
    BY <1>1 DEF ClearRoom, CloseInv
  <2>2. child_status # 0 /\ ~Given /\ ~Reported
    BY <2>1 DEF TokenInv, On
  <2>3. /\ UNCHANGED <<child_status, down, up, acAt>> /\ roomstatus' = "CLOSE"
        /\ pmAt' = "reportE"
    BY <1>1 DEF ClearRoom, pipes, accept
  <2> QED
    BY <2>2, <2>3 DEF TokenInv, Given, Reported, On
<1>2. CASE ReportEmpty
  <2>1. /\ UNCHANGED <<child_status, down, roomstatus, meeting, acAt>>
        /\ pmAt = "reportE" /\ pmAt' = "scan" /\ up' = Append(up, "E")
    BY <1>2 DEF ReportEmpty, pool, accept, history
  <2>2. /\ DOMAIN up' = DOMAIN up \cup {Len(up) + 1}
        /\ up'[Len(up) + 1] = "E" /\ \A i \in DOMAIN up : up'[i] = up[i]
    BY <2>1, PipeTypes, AppendFacts
  <2>3. \A i \in DOMAIN up : up[i] # "E"
    BY <2>1 DEF TokenInv
  <2>4. \A i, j \in DOMAIN up' : up'[i] = "E" /\ up'[j] = "E" => i = j
    BY <2>2, <2>3
  <2>5. Reported
    BY <2>1 DEF Reported
  <2> QED
    BY <2>1, <2>4, <2>5 DEF TokenInv, Given, Reported, On
<1>3. CASE ReportQuit
  <2>1. /\ UNCHANGED <<child_status, down, roomstatus, meeting, acAt>>
        /\ pmAt' # "reportE" /\ pmAt # "reportE" /\ up' = Append(up, "Q")
    BY <1>3 DEF ReportQuit, pool, accept, history
  <2>2. /\ DOMAIN up' = DOMAIN up \cup {Len(up) + 1}
        /\ up'[Len(up) + 1] = "Q" /\ \A i \in DOMAIN up : up'[i] = up[i]
    BY <2>1, PipeTypes, AppendFacts
  <2>3. \A i \in DOMAIN up' : up'[i] = "E" => i \in DOMAIN up /\ up[i] = "E"
    BY <2>2
  <2> QED
    BY <2>1, <2>3 DEF TokenInv, Given, Reported, On
<1> QED
  BY <1>1, <1>2, <1>3

\* The dispatcher reads a report, or gives the room away.
LEMMA TokenDispatch ==
  ASSUME TypeOK, TokenInv,
         ReadReport \/ \E c \in Conns : DispatchCreate(c) \/ DispatchJoin(c)
  PROVE  TokenInv'
<1>1. CASE ReadReport
  <2>1. /\ UNCHANGED <<down, roomstatus, meeting, acAt, pmAt>>
        /\ up # << >> /\ up' = Tail(up)
        /\ child_status' = IF Head(up) = "E" THEN 0 ELSE child_status
    BY <1>1 DEF ReadReport, pool, main, accept, history
  <2>2. /\ \A i \in DOMAIN up' : i \in Nat /\ i + 1 \in DOMAIN up /\ i + 1 # 1
                                 /\ up'[i] = up[i + 1]
        /\ 1 \in DOMAIN up /\ Head(up) = up[1]
    BY <2>1, PipeTypes, TailFacts
  <2>3. \A i, j \in DOMAIN up' : up'[i] = "E" /\ up'[j] = "E" => i = j
    <3> TAKE i, j \in DOMAIN up'
    <3>1. up'[i] = "E" /\ up'[j] = "E" => i + 1 = j + 1
      BY <2>2 DEF TokenInv
    <3> QED
      BY <2>2, <3>1
  <2>4. Reported' => Reported
    BY <2>1, <2>2 DEF Reported
  <2>5. pmAt' = "reportE" => \A i \in DOMAIN up' : up'[i] # "E"
    BY <2>1, <2>2 DEF TokenInv
  <2>6. ASSUME Head(up) = "E" PROVE Reported /\ ~Reported'
    <3>1. Reported /\ pmAt # "reportE"
      BY <2>2, <2>6 DEF Reported, TokenInv
    <3>2. \A i \in DOMAIN up' : up'[i] # "E"
      BY <2>2, <2>6 DEF TokenInv
    <3> QED
      BY <2>1, <3>1, <3>2 DEF Reported
  <2>7. child_status' = 0 => ~Given /\ ~Reported' /\ ~On
    BY <2>1, <2>4, <2>6 DEF TokenInv, On
  <2> QED
    BY <2>1, <2>3, <2>4, <2>5, <2>7 DEF TokenInv, Given, On
<1>2. ASSUME NEW c \in Conns, DispatchCreate(c) PROVE TokenInv'
  <2>1. /\ UNCHANGED <<up, roomstatus, meeting, acAt, pmAt>>
        /\ child_status = 0 /\ child_status' = 1
        /\ down' = Append(down, [cmd |-> "C", conn |-> c])
    BY <1>2 DEF DispatchCreate, pool, main, accept, history
  <2>2. ~Given /\ ~Reported /\ ~On
    BY <2>1 DEF TokenInv
  <2>3. [cmd |-> "C", conn |-> c] \in Command
    BY DEF Command
  <2>4. /\ DOMAIN down' = DOMAIN down \cup {Len(down) + 1}
        /\ \A i \in DOMAIN down : down'[i] = down[i]
    BY <2>1, <2>3, PipeTypes, AppendFacts
  <2>5. \A i, j \in DOMAIN down' : down'[i].cmd = "C" /\ down'[j].cmd = "C" => i = j
    BY <2>2, <2>4 DEF Given
  <2> QED
    BY <2>1, <2>2, <2>5 DEF TokenInv, Given, Reported, On
<1>3. ASSUME NEW c \in Conns, DispatchJoin(c) PROVE TokenInv'
  <2>1. /\ UNCHANGED <<up, roomstatus, meeting, acAt, pmAt, child_status>>
        /\ down' = Append(down, [cmd |-> "J", conn |-> c])
    BY <1>3 DEF DispatchJoin, pool, main, accept, history
  <2>2. [cmd |-> "J", conn |-> c] \in Command
    BY DEF Command
  <2>3. /\ DOMAIN down' = DOMAIN down \cup {Len(down) + 1}
        /\ down'[Len(down) + 1].cmd = "J" /\ \A i \in DOMAIN down : down'[i] = down[i]
    BY <2>1, <2>2, PipeTypes, AppendFacts
  <2>4. \A i \in DOMAIN down' : down'[i].cmd = "C" => i \in DOMAIN down /\ down[i].cmd = "C"
    BY <2>3
  <2> QED
    BY <2>1, <2>4 DEF TokenInv, Given, Reported, On
<1> QED
  BY <1>1, <1>2, <1>3

\* accept_fd takes a command, or creates the meeting.
LEMMA TokenAccept ==
  ASSUME TypeOK, TokenInv, ReceiveFd \/ CreateMeeting
  PROVE  TokenInv'
<1>1. CASE ReceiveFd
  <2>1. /\ UNCHANGED <<child_status, up, roomstatus, meeting, pmAt>>
        /\ acAt = "read" /\ down # << >> /\ down' = Tail(down)
        /\ acAt' \in {"create", "creating"} => Head(down).cmd = "C"
    BY <1>1 DEF ReceiveFd, pool, main, history
  <2>2. /\ \A i \in DOMAIN down' : i \in Nat /\ i + 1 \in DOMAIN down /\ i + 1 # 1
                                   /\ down'[i] = down[i + 1]
        /\ 1 \in DOMAIN down /\ Head(down) = down[1]
    BY <2>1, PipeTypes, TailFacts
  <2>3. \A i, j \in DOMAIN down' : down'[i].cmd = "C" /\ down'[j].cmd = "C" => i = j
    <3> TAKE i, j \in DOMAIN down'
    <3>1. down'[i].cmd = "C" /\ down'[j].cmd = "C" => i + 1 = j + 1
      BY <2>2 DEF TokenInv
    <3> QED
      BY <2>2, <3>1
  <2>4. Head(down).cmd = "C" => \A i \in DOMAIN down' : down'[i].cmd # "C"
    BY <2>2 DEF TokenInv
  <2>5. Given' => Given
    BY <2>1, <2>2 DEF Given
  <2> QED
    BY <2>1, <2>3, <2>4, <2>5 DEF TokenInv, Reported, On
<1>2. CASE CreateMeeting
  <2>1. /\ UNCHANGED <<child_status, up, down, pmAt>>
        /\ acAt = "creating" /\ acAt' = "push"
    BY <1>2 DEF CreateMeeting, main, pipes
  <2>2. Given /\ \A i \in DOMAIN down : down[i].cmd # "C"
    BY <2>1 DEF Given, TokenInv
  <2>3. ~Reported /\ child_status # 0 /\ ~Reported'
    BY <2>1, <2>2 DEF TokenInv, Reported
  <2>4. ~Given'
    BY <2>1, <2>2 DEF Given
  <2> QED
    BY <2>1, <2>2, <2>3, <2>4 DEF TokenInv, Reported
<1> QED
  BY <1>1, <1>2

\* The inductive step of TokenInv.
LEMMA TokenStep == TypeOK /\ TokenInv /\ CloseInv /\ [Next]_vars => TokenInv'
<1> SUFFICES ASSUME TypeOK, TokenInv, CloseInv, [Next]_vars PROVE TokenInv'
  OBVIOUS
<1>1. CASE UNCHANGED <<child_status, down, up, roomstatus, meeting, acAt, pmAt>>
  BY <1>1, TokenFrame
<1>2. CASE ProcessMain
  <2>1. CASE ClearRoom \/ ReportEmpty \/ ReportQuit
    BY <2>1, TokenClear
  <2>2. CASE Select \/ SelectFails \/ StartRead \/ ReadData \/ DropData \/ ReadClosed
    <3>1. UNCHANGED <<child_status, down, up, roomstatus, meeting, acAt>>
      BY <2>2 DEF Select, SelectFails, StartRead, ReadData, DropData, ReadClosed, pool,
                  accept, main, pipes, history
    <3>2. pmAt' = "reportE" => pmAt = "reportE"
      BY <2>2 DEF Select, SelectFails, StartRead, ReadData, DropData, ReadClosed, main
    <3> QED
      BY <3>1, <3>2, TokenFrame
  <2>3. CASE PushRead \/ TestOwner \/ RemoveFd \/ CloseFd
    <3>1. UNCHANGED <<child_status, down, up, roomstatus, meeting, acAt>>
      BY <2>3 DEF PushRead, TestOwner, RemoveFd, CloseFd, pool, accept, pipes, history
    <3>2. pmAt' = "reportE" => pmAt = "reportE"
      BY <2>3 DEF PushRead, TestOwner, RemoveFd, CloseFd
    <3> QED
      BY <3>1, <3>2, TokenFrame
  <2> QED
    BY <1>2, <2>1, <2>2, <2>3 DEF ProcessMain
<1>3. CASE AcceptFd
  <2>1. CASE ReceiveFd \/ CreateMeeting
    BY <2>1, TokenAccept
  <2>2. CASE ReceiveFails \/ EnterPool \/ JoinMeeting \/ RefuseJoin \/ Announce
               \/ ListPartners \/ PushAccepted
    <3>1. UNCHANGED <<child_status, down, up, roomstatus, meeting, pmAt>>
      BY <2>2 DEF ReceiveFails, EnterPool, JoinMeeting, RefuseJoin, Announce, ListPartners,
                  PushAccepted, pool, main, pipes, history
    <3>2. acAt' \in {"create", "creating"} => acAt \in {"create", "creating"}
      BY <2>2 DEF ReceiveFails, EnterPool, JoinMeeting, RefuseJoin, Announce, ListPartners,
                  PushAccepted, accept
    <3> QED
      BY <3>1, <3>2, TokenFrame
  <2> QED
    BY <1>3, <2>1, <2>2 DEF AcceptFd
<1>4. ASSUME NEW s \in Senders, SendFunc(s) PROVE TokenInv'
  BY <1>1, <1>4
  DEF SendFunc, PopMsg, LockPool, WriteTo, UnlockPool, pool, main, accept, pipes, history
<1>5. CASE Environment
  <2>1. CASE ReadReport \/ \E c \in Conns : DispatchCreate(c) \/ DispatchJoin(c)
    BY <2>1, TokenDispatch
  <2>2. ASSUME NEW c \in Conns, LookUpRoom(c) \/ Leave(c) PROVE TokenInv'
    BY <1>1, <2>2 DEF LookUpRoom, Leave, pool, main, accept, pipes, history
  <2>3. ASSUME NEW c \in Conns, NEW type \in DataTypes, SendData(c, type) PROVE TokenInv'
    BY <1>1, <2>3 DEF SendData, pool, main, accept, pipes, history
  <2> QED
    BY <1>5, <2>1, <2>2, <2>3 DEF Environment
<1>6. CASE Rest \/ UNCHANGED vars
  BY <1>1, <1>6 DEF Rest, vars, pool, main, accept, pipes, history
<1> QED
  BY <1>2, <1>3, <1>4, <1>5, <1>6 DEF Next, Room

----------------------------------------------------------------------------
\* A closed room.

\* A step that leaves the pool alone.
LEMMA CloseFrame ==
  ASSUME CloseInv, UNCHANGED <<roomstatus, status, owner, meeting, fdset>>,
         acAt = "creating" => acAt' = "creating",
         acAt' = "joining" => acAt = "joining",
         pmAt' = "clear" => pmAt = "clear"
  PROVE  CloseInv'
BY DEF CloseInv, On

\* The main thread: fdclose compares the owner, and clears for nobody else.
LEMMA CloseMain ==
  ASSUME TypeOK, CloseInv, ProcessMain
  PROVE  CloseInv'
<1>1. CASE Select \/ SelectFails \/ StartRead \/ ReadData \/ DropData \/ ReadClosed
  <2>1. UNCHANGED <<roomstatus, status, owner, meeting, fdset, acAt>>
    BY <1>1 DEF Select, SelectFails, StartRead, ReadData, DropData, ReadClosed, pool,
                accept, history
  <2>2. pmAt' = "clear" => pmAt = "clear"
    BY <1>1 DEF Select, SelectFails, StartRead, ReadData, DropData, ReadClosed, main
  <2> QED
    BY <2>1, <2>2, CloseFrame
<1>2. CASE PushRead \/ ReportEmpty \/ ReportQuit \/ CloseFd
  <2>1. UNCHANGED <<roomstatus, status, owner, meeting, fdset, acAt>>
    BY <1>2 DEF PushRead, ReportEmpty, ReportQuit, CloseFd, pool, accept, history
  <2>2. pmAt' = "clear" => pmAt = "clear"
    BY <1>2 DEF PushRead, ReportEmpty, ReportQuit, CloseFd
  <2> QED
    BY <2>1, <2>2, CloseFrame
<1>3. CASE TestOwner
  <2>1. UNCHANGED <<roomstatus, status, owner, meeting, fdset, acAt>>
    BY <1>3 DEF TestOwner, pool, accept, history
  <2>2. pmFd \in FDs /\ pmFd # 0
    BY <1>3, RoomAssumption DEF TestOwner, TypeOK, MainType
  <2>3. pmAt' = "clear" => owner # 0
    BY <1>3, <2>2 DEF TestOwner, IsOwner
  <2> QED
    BY <2>1, <2>3 DEF CloseInv, On
<1>4. CASE ClearRoom
  <2>1. /\ roomstatus' = "CLOSE" /\ status' = {} /\ owner' = 0 /\ fdset' = {}
        /\ UNCHANGED <<meeting, acAt>> /\ pmAt' = "reportE"
    BY <1>4 DEF ClearRoom, EmptyPool, accept, history
  <2>2. owner # 0 /\ lock # "accept_fd"
    BY <1>4, RoomAssumption DEF ClearRoom, Unlocked, CloseInv
  <2>3. meeting > 0 /\ acAt # "joining"
    BY <2>2 DEF CloseInv, On, TypeOK, AcceptType
  <2> QED
    BY <2>1, <2>3 DEF CloseInv
<1>5. CASE RemoveFd
  <2>1. /\ UNCHANGED <<roomstatus, owner, meeting, acAt>> /\ pmAt' # "clear"
        /\ status' \subseteq status /\ fdset' \subseteq fdset
    BY <1>5 DEF RemoveFd, Unwatched, accept, history
  <2> QED
    BY <2>1 DEF CloseInv, On
<1> QED
  BY <1>1, <1>2, <1>3, <1>4, <1>5 DEF ProcessMain

\* accept_fd: only a 'C' opens the room.
LEMMA CloseAccept ==
  ASSUME TypeOK, CloseInv, AcceptFd
  PROVE  CloseInv'
<1>1. CASE ReceiveFd \/ ReceiveFails \/ RefuseJoin \/ Announce \/ ListPartners
             \/ PushAccepted
  <2>1. UNCHANGED <<roomstatus, status, owner, meeting, fdset, pmAt>>
    BY <1>1 DEF ReceiveFd, ReceiveFails, RefuseJoin, Announce, ListPartners, PushAccepted,
                pool, main, history
  <2>2. (acAt = "creating" => acAt' = "creating") /\ (acAt' = "joining" => acAt = "joining")
    BY <1>1 DEF ReceiveFd, ReceiveFails, RefuseJoin, Announce, ListPartners, PushAccepted,
                accept
  <2> QED
    BY <2>1, <2>2, CloseFrame
<1>2. CASE EnterPool
  <2>1. UNCHANGED <<roomstatus, status, owner, meeting, pmAt>>
    BY <1>2 DEF EnterPool, main, history
  <2>2. \/ acAt' = "creating"
        \/ acAt' = "joining" /\ roomstatus = "ON"
    BY <1>2 DEF EnterPool, Admits, TypeOK, PoolType
  <2> QED
    BY <2>1, <2>2 DEF CloseInv, On
<1>3. CASE CreateMeeting
  <2>1. roomstatus' = "ON" /\ meeting' = meeting + 1 /\ acAt' = "push" /\ pmAt' = pmAt
    BY <1>3 DEF CreateMeeting, main
  <2>2. owner' = acFd /\ acFd # 0
    BY <1>3, RoomAssumption DEF CreateMeeting, TypeOK, AcceptType
  <2>3. meeting' > 0
    BY <2>1, PipeTypes
  <2> QED
    BY <2>1, <2>2, <2>3 DEF CloseInv, On
<1>4. CASE JoinMeeting
  <2>1. UNCHANGED <<roomstatus, owner, meeting, pmAt>> /\ acAt = "joining"
        /\ acAt' = "announce"
    BY <1>4 DEF JoinMeeting, main
  <2> QED
    BY <2>1 DEF CloseInv, On
<1> QED
  BY <1>1, <1>2, <1>3, <1>4 DEF AcceptFd

\* The inductive step of CloseInv.
LEMMA CloseStep == TypeOK /\ CloseInv /\ [Next]_vars => CloseInv'
<1> SUFFICES ASSUME TypeOK, CloseInv, [Next]_vars PROVE CloseInv'
  OBVIOUS
<1>1. CASE UNCHANGED <<roomstatus, status, owner, meeting, fdset, acAt, pmAt>>
  BY <1>1, CloseFrame
<1>2. CASE ProcessMain
  BY <1>2, CloseMain
<1>3. CASE AcceptFd
  BY <1>3, CloseAccept
<1>4. ASSUME NEW s \in Senders, SendFunc(s) PROVE CloseInv'
  BY <1>1, <1>4
  DEF SendFunc, PopMsg, LockPool, WriteTo, UnlockPool, pool, main, accept, history
<1>5. CASE Environment
  BY <1>1, <1>5
  DEF Environment, ReadReport, DispatchCreate, LookUpRoom, DispatchJoin, SendData, Leave,
      pool, main, accept, history
<1>6. CASE Rest \/ UNCHANGED vars
  BY <1>1, <1>6 DEF Rest, vars, pool, main, accept, history
<1> QED
  BY <1>2, <1>3, <1>4, <1>5, <1>6 DEF Next, Room

\* The two together, and what they say of a room that was reported empty.
LEMMA TokensAndClose == Spec => [](TypeOK /\ TokenInv /\ CloseInv)
<1>1. Init => TokenInv
  BY DEF Init, TokenInv, Given, Reported, On
<1>2. Init => CloseInv
  BY DEF Init, CloseInv, On
<1> QED
  BY <1>1, <1>2, TypeCorrect, TokenStep, CloseStep, PTL DEF Spec

\* When the room has been reported empty, and until the dispatcher has read that, the
\* pool is empty and stays empty: a 'J' that comes late is refused, and no 'C' comes.
THEOREM ReportedIsEmpty == Spec => []EmptyWhenReported
<1>1. ASSUME TypeOK, TokenInv, CloseInv PROVE EmptyWhenReported
  <2>1. SUFFICES ASSUME Reported
                 PROVE  roomstatus = "CLOSE" /\ status = {} /\ fdset = {} /\ owner = 0
    BY DEF EmptyWhenReported, Reported
  <2>2. roomstatus = "CLOSE" /\ ~Given
    BY <1>1, <2>1 DEF TokenInv
  <2> QED
    BY <1>1, <2>2 DEF CloseInv, Given
<1> QED
  BY <1>1, TokensAndClose, PTL

----------------------------------------------------------------------------
\* Where a connection is.

\* The dispatcher has passed it to the room, or is about to.
Passed(c) == phase[c] \in {"in", "gone"} \/ (c \in Creators /\ phase[c] = "asked")

Open(c) == \E fd \in FDs : files[fd] = c

\* A connection is passed to the room once: it is in the pipe or at one descriptor,
\* and not in a meeting before it has got there.
PassedInv ==
  /\ \A i, j \in DOMAIN down : down[i].conn = down[j].conn => i = j
  /\ \A i \in DOMAIN down, c \in Conns :
       down[i].conn = c => Passed(c) /\ ~Open(c) /\ meetingOf[c] = 0
  /\ \A c \in Conns : ~Passed(c) => ~Open(c) /\ meetingOf[c] = 0
  /\ \A fd, other \in FDs : files[fd] = files[other] /\ files[fd] # NoConn => fd = other
  /\ \A c \in Conns : meetingOf[c] <= meeting

\* What is in the pipe is a connection.
LEMMA DownConns == TypeOK => \A i \in DOMAIN down : down[i].conn \in Conns
<1> SUFFICES ASSUME TypeOK, NEW i \in DOMAIN down PROVE down[i].conn \in Conns
  OBVIOUS
<1>1. down[i] \in Command
  BY PipeTypes
<1> QED
  BY <1>1 DEF Command

\* A step that passes nothing on and lets nobody in.
LEMMA PassedFrame ==
  ASSUME TypeOK, PassedInv, UNCHANGED <<down, meeting, meetingOf>>,
         \A fd \in FDs : files'[fd] \in {files[fd], NoConn},
         \A c \in Conns : Passed(c) => Passed(c)'
  PROVE  PassedInv'
<1>1. \A c \in Conns : Open(c)' => Open(c)
  BY RoomAssumption DEF Open
<1>3. \A i \in DOMAIN down', c \in Conns :
        down'[i].conn = c => Passed(c)' /\ ~Open(c)' /\ meetingOf'[c] = 0
  BY <1>1 DEF PassedInv
<1>4. \A fd, other \in FDs :
        files'[fd] = files'[other] /\ files'[fd] # NoConn => fd = other
  BY DEF PassedInv
<1>5. \A c \in Conns : ~Passed(c)' => ~Open(c)' /\ meetingOf'[c] = 0
  BY <1>1 DEF PassedInv
<1>6. \A i, j \in DOMAIN down' : down'[i].conn = down'[j].conn => i = j
  BY DEF PassedInv
<1>7. \A c \in Conns : meetingOf'[c] <= meeting'
  BY DEF PassedInv
<1> QED
  BY <1>3, <1>4, <1>5, <1>6, <1>7 DEF PassedInv

\* Who is hung up on had been passed to the room, or is now.
LEMMA HangupPassed ==
  ASSUME NEW S, Hangup(S)
  PROVE  \A c \in Conns : Passed(c) => Passed(c)'
BY DEF Hangup, Passed

\* The main thread.
LEMMA PassedMain ==
  ASSUME TypeOK, PassedInv, ProcessMain
  PROVE  PassedInv'
<1>1. UNCHANGED <<down, meeting, meetingOf>>
  BY DEF ProcessMain, Select, SelectFails, StartRead, ReadData, DropData, ReadClosed,
         PushRead, TestOwner, ClearRoom, ReportEmpty, RemoveFd, ReportQuit, CloseFd, pipes,
         history
<1>2. \A fd \in FDs : files'[fd] \in {files[fd], NoConn}
  <2>1. CASE files' = files
    BY <2>1
  <2>2. CASE ClearRoom
    BY <2>2 DEF ClearRoom
  <2>3. CASE CloseFd
    BY <2>3 DEF CloseFd, Closed, TypeOK, PoolType
  <2> QED
    BY <2>1, <2>2, <2>3
    DEF ProcessMain, Select, SelectFails, StartRead, ReadData, DropData, ReadClosed,
        PushRead, TestOwner, ReportEmpty, RemoveFd, ReportQuit
<1>3. \A c \in Conns : Passed(c) => Passed(c)'
  <2>1. CASE phase' = phase
    BY <2>1 DEF Passed
  <2>2. CASE ReadData \/ DropData \/ ClearRoom \/ CloseFd
    BY <2>2, HangupPassed DEF ReadData, DropData, ClearRoom, CloseFd
  <2> QED
    BY <2>1, <2>2
    DEF ProcessMain, Select, SelectFails, StartRead, ReadClosed, PushRead, TestOwner,
        ReportEmpty, RemoveFd, ReportQuit, clients
<1> QED
  BY <1>1, <1>2, <1>3, PassedFrame

\* accept_fd installs the first of the pipe, and lets in who is installed.
LEMMA PassedAccept ==
  ASSUME TypeOK, PassedInv, AcceptFd
  PROVE  PassedInv'
<1>1. CASE ReceiveFails \/ EnterPool \/ Announce \/ ListPartners \/ PushAccepted
  <2>1. UNCHANGED <<down, meeting, meetingOf, files, phase>>
    BY <1>1 DEF ReceiveFails, EnterPool, Announce, ListPartners, PushAccepted, pipes,
                history, clients
  <2> QED
    BY <2>1, PassedFrame DEF Passed
<1>2. CASE RefuseJoin
  <2>1. UNCHANGED <<down, meeting, meetingOf>>
    BY <1>2 DEF RefuseJoin, pipes, history
  <2>2. \A fd \in FDs : files'[fd] \in {files[fd], NoConn}
    BY <1>2 DEF RefuseJoin, Closed, TypeOK, PoolType
  <2>3. \A c \in Conns : Passed(c) => Passed(c)'
    BY <1>2, HangupPassed DEF RefuseJoin
  <2> QED
    BY <2>1, <2>2, <2>3, PassedFrame
<1>3. CASE ReceiveFd
  <2>1. PICK fd \in FDs :
          IsLowest(fd, FreeFDs) /\ files' = [files EXCEPT ![fd] = Head(down).conn]
    BY <1>3 DEF ReceiveFd
  <2>2. /\ down # << >> /\ down' = Tail(down)
        /\ UNCHANGED <<phase, meeting, meetingOf>>
    BY <1>3 DEF ReceiveFd, clients, history
  <2>3. /\ \A i \in DOMAIN down' : i \in Nat /\ i + 1 \in DOMAIN down /\ i + 1 # 1
                                   /\ down'[i] = down[i + 1]
        /\ 1 \in DOMAIN down /\ Head(down) = down[1]
    BY <2>2, PipeTypes, TailFacts
  <2> DEFINE new == down[1].conn
  <2>4. new \in Conns /\ Passed(new) /\ ~Open(new)
    BY <2>3, DownConns DEF PassedInv
  <2>5. files' = [files EXCEPT ![fd] = new]
    BY <2>1, <2>3
  <2> HIDE DEF new
  <2>6. \A other \in FDs : files'[other] = IF other = fd THEN new ELSE files[other]
    BY <2>5 DEF TypeOK, PoolType
  <2>7. \A i, j \in DOMAIN down' : down'[i].conn = down'[j].conn => i = j
    <3> TAKE i, j \in DOMAIN down'
    <3>1. down'[i].conn = down'[j].conn => i + 1 = j + 1
      BY <2>3 DEF PassedInv
    <3> QED
      BY <2>3, <3>1
  <2>8. \A i \in DOMAIN down' : down'[i].conn # new
    BY <2>3 DEF PassedInv, new
  <2>9. \A c \in Conns : Open(c)' => Open(c) \/ c = new
    BY <2>6 DEF Open
  <2>10. \A i \in DOMAIN down', c \in Conns :
           down'[i].conn = c => Passed(c) /\ ~Open(c) /\ meetingOf[c] = 0
    BY <2>3 DEF PassedInv
  <2>11. \A c : Passed(c)' <=> Passed(c)
    BY <2>2 DEF Passed
  <2>12. \A i \in DOMAIN down', c \in Conns :
           down'[i].conn = c => Passed(c)' /\ ~Open(c)' /\ meetingOf'[c] = 0
    BY <2>2, <2>8, <2>9, <2>10, <2>11
  <2>13. \A c \in Conns : ~Passed(c)' => ~Open(c)' /\ meetingOf'[c] = 0
    BY <2>2, <2>4, <2>9, <2>11 DEF PassedInv
  <2>14. \A one, other \in FDs :
           files'[one] = files'[other] /\ files'[one] # NoConn => one = other
    BY <2>4, <2>6 DEF PassedInv, Open
  <2>15. \A c \in Conns : meetingOf'[c] <= meeting'
    BY <2>2 DEF PassedInv
  <2> QED
    BY <2>7, <2>12, <2>13, <2>14, <2>15 DEF PassedInv
<1>4. CASE CreateMeeting \/ JoinMeeting
  <2>1. /\ UNCHANGED <<down, files, phase>>
        /\ \A c \in Conns : meetingOf'[c] # meetingOf[c] => Open(c) /\ meetingOf'[c] = meeting'
        /\ meeting' \in {meeting, meeting + 1}
    <3>1. acFd \in FDs
      BY <1>4 DEF CreateMeeting, JoinMeeting, TypeOK, AcceptType
    <3>2. \A c \in Held(acFd) : Open(c)
      BY <3>1 DEF Held, Open
    <3>3. /\ meetingOf' = [c \in Conns |-> IF c \in Held(acFd) THEN meeting' ELSE meetingOf[c]]
          /\ meeting' \in {meeting, meeting + 1}
      BY <1>4 DEF CreateMeeting, JoinMeeting
    <3>4. UNCHANGED <<down, files, phase>>
      BY <1>4 DEF CreateMeeting, JoinMeeting, pipes, clients
    <3> QED
      BY <3>2, <3>3, <3>4
  <2>2. \A c : (Passed(c)' <=> Passed(c)) /\ (Open(c)' <=> Open(c))
    BY <2>1 DEF Passed, Open
  <2>3. \A i \in DOMAIN down', c \in Conns :
          down'[i].conn = c => Passed(c)' /\ ~Open(c)' /\ meetingOf'[c] = 0
    BY <2>1, <2>2 DEF PassedInv
  <2>4. \A c \in Conns : ~Passed(c)' => ~Open(c)' /\ meetingOf'[c] = 0
    BY <2>1, <2>2 DEF PassedInv
  <2>5. \A c \in Conns : meetingOf'[c] <= meeting'
    <3>1. meeting \in Nat /\ \A c \in Conns : meetingOf[c] \in Nat /\ meetingOf[c] <= meeting
      BY DEF TypeOK, ClientType, PassedInv
    <3> QED
      BY <2>1, <3>1
  <2> QED
    BY <2>1, <2>3, <2>4, <2>5 DEF PassedInv
<1> QED
  BY <1>1, <1>2, <1>3, <1>4 DEF AcceptFd

\* The dispatcher passes on what it has not passed on before.
LEMMA PassedDispatch ==
  ASSUME TypeOK, PassedInv, NEW c \in Conns, NEW cmd \in {"C", "J"},
         ~Passed(c), Passed(c)', down' = Append(down, [cmd |-> cmd, conn |-> c]),
         \A d \in Conns : Passed(d) => Passed(d)',
         UNCHANGED <<files, meeting, meetingOf>>
  PROVE  PassedInv'
<1>1. [cmd |-> cmd, conn |-> c] \in Command
  BY DEF Command
<1>2. /\ DOMAIN down' = DOMAIN down \cup {Len(down) + 1}
      /\ Len(down) + 1 \notin DOMAIN down
      /\ down'[Len(down) + 1] = [cmd |-> cmd, conn |-> c]
      /\ \A i \in DOMAIN down : down'[i] = down[i]
  BY <1>1, PipeTypes, AppendFacts
<1>3. down'[Len(down) + 1].conn = c
  BY <1>2
<1>4. ~Open(c) /\ meetingOf[c] = 0
  BY DEF PassedInv
<1>5. \A i \in DOMAIN down : down[i].conn # c
  BY DEF PassedInv
<1>6. \A d : Open(d)' <=> Open(d)
  BY DEF Open
<1>7. \A i \in DOMAIN down', d \in Conns :
        down'[i].conn = d => Passed(d)' /\ ~Open(d)' /\ meetingOf'[d] = 0
  <2> TAKE i \in DOMAIN down', d \in Conns
  <2>1. CASE i \in DOMAIN down
    BY <1>2, <1>6, <2>1 DEF PassedInv
  <2>2. CASE i = Len(down) + 1
    BY <1>3, <1>4, <1>6, <2>2
  <2> QED
    BY <1>2, <2>1, <2>2
<1>8. \A i, j \in DOMAIN down' : down'[i].conn = down'[j].conn => i = j
  <2>1. \A i \in DOMAIN down : down'[i].conn # c
    BY <1>2, <1>5
  <2> QED
    BY <1>2, <1>3, <2>1 DEF PassedInv
<1>9. \A d \in Conns : ~Passed(d)' => ~Open(d)' /\ meetingOf'[d] = 0
  BY <1>6 DEF PassedInv
<1> QED
  BY <1>7, <1>8, <1>9 DEF PassedInv

\* The dispatcher and the clients.
LEMMA PassedEnvironment ==
  ASSUME TypeOK, PassedInv, Environment
  PROVE  PassedInv'
<1>1. phase \in [Conns -> {"new", "asked", "in", "gone"}]
  BY DEF TypeOK, ClientType
<1>2. CASE ReadReport
  <2>1. UNCHANGED <<down, meeting, meetingOf, files, phase>>
    BY <1>2 DEF ReadReport, history, clients
  <2> QED
    BY <2>1, PassedFrame DEF Passed
<1>3. ASSUME NEW c \in Conns, DispatchCreate(c) PROVE PassedInv'
  <2>1. /\ c \in Creators /\ phase[c] = "new" /\ phase' = [phase EXCEPT ![c] = "asked"]
        /\ down' = Append(down, [cmd |-> "C", conn |-> c])
        /\ UNCHANGED <<files, meeting, meetingOf>>
    BY <1>3 DEF DispatchCreate, history
  <2>2. ~Passed(c) /\ Passed(c)' /\ \A d \in Conns : Passed(d) => Passed(d)'
    BY <1>1, <2>1 DEF Passed
  <2> QED
    BY <2>1, <2>2, PassedDispatch
<1>4. ASSUME NEW c \in Conns, DispatchJoin(c) PROVE PassedInv'
  <2>1. /\ c \notin Creators /\ phase[c] = "asked" /\ phase' = [phase EXCEPT ![c] = "in"]
        /\ down' = Append(down, [cmd |-> "J", conn |-> c])
        /\ UNCHANGED <<files, meeting, meetingOf>>
    BY <1>4 DEF DispatchJoin, history
  <2>2. ~Passed(c) /\ Passed(c)' /\ \A d \in Conns : Passed(d) => Passed(d)'
    BY <1>1, <2>1 DEF Passed
  <2> QED
    BY <2>1, <2>2, PassedDispatch
<1>5. ASSUME NEW c \in Conns, LookUpRoom(c) \/ Leave(c) PROVE PassedInv'
  <2>1. UNCHANGED <<down, meeting, meetingOf, files>>
    BY <1>5 DEF LookUpRoom, Leave, pipes, history
  <2>2. \A d \in Conns : Passed(d) => Passed(d)'
    BY <1>1, <1>5 DEF LookUpRoom, Leave, Passed
  <2> QED
    BY <2>1, <2>2, PassedFrame
<1>6. ASSUME NEW c \in Conns, NEW type \in DataTypes, SendData(c, type) PROVE PassedInv'
  <2>1. UNCHANGED <<down, meeting, meetingOf, files, phase>>
    BY <1>6 DEF SendData, pipes, history
  <2> QED
    BY <2>1, PassedFrame DEF Passed
<1> QED
  BY <1>2, <1>3, <1>4, <1>5, <1>6 DEF Environment

\* The inductive step of PassedInv.
LEMMA PassedStep == TypeOK /\ PassedInv /\ [Next]_vars => PassedInv'
<1> SUFFICES ASSUME TypeOK, PassedInv, [Next]_vars PROVE PassedInv'
  OBVIOUS
<1>1. CASE UNCHANGED <<down, meeting, meetingOf, files, phase>>
  BY <1>1, PassedFrame DEF Passed
<1>2. ASSUME NEW s \in Senders, SendFunc(s) PROVE PassedInv'
  <2>1. CASE WriteTo(s)
    <3>1. UNCHANGED <<down, meeting, meetingOf, files>>
      BY <2>1 DEF WriteTo, pipes, history
    <3>2. \A c \in Conns : Passed(c) => Passed(c)'
      <4>1. phase' = phase \/ \E c \in Conns : Handle(c, held[s])
        BY <2>1 DEF WriteTo, TypeOK, PoolType
      <4>2. ASSUME NEW c \in Conns, Handle(c, held[s])
            PROVE  \A d \in Conns : phase'[d] \in {"in", phase[d]}
        BY <4>2 DEF Handle, TypeOK, ClientType
      <4> QED
        BY <4>1, <4>2 DEF Passed
    <3> QED
      BY <3>1, <3>2, PassedFrame
  <2> QED
    BY <1>1, <1>2, <2>1
    DEF SendFunc, PopMsg, LockPool, UnlockPool, pipes, history, clients
<1>3. CASE Rest \/ UNCHANGED vars
  BY <1>1, <1>3 DEF Rest, vars, pipes, history, clients
<1> QED
  BY <1>2, <1>3, PassedMain, PassedAccept, PassedEnvironment DEF Next, Room

\* A connection is in one place, in every reachable state.
LEMMA PassedOnce == Spec => []PassedInv
<1>1. Init => PassedInv
  <2> SUFFICES ASSUME Init PROVE PassedInv
    OBVIOUS
  <2>1. down = << >> /\ meeting = 0 /\ \A c \in Conns : meetingOf[c] = 0 /\ ~Open(c)
    BY RoomAssumption DEF Init, Open
  <2>2. \A fd \in FDs : files[fd] = NoConn
    BY DEF Init
  <2> QED
    BY <2>1, <2>2 DEF PassedInv
<1> QED
  BY <1>1, TypeCorrect, PassedStep, PTL DEF Spec

----------------------------------------------------------------------------
\* Who is in the pool is there for the meeting that is on.

\* A step that lets nobody in and opens nothing.
LEMMA OneMeetingFrame ==
  ASSUME OneMeeting, UNCHANGED <<meeting, meetingOf>>, status' \subseteq status,
         status \subseteq FDs, \A fd \in FDs : files'[fd] \in {files[fd], NoConn}
  PROVE  OneMeeting'
BY DEF OneMeeting

\* What a step of the main thread, of a send thread or of the environment leaves of
\* the pool: nobody is let in, and no address is recorded for who stays.
LEMMA Shrinks ==
  ASSUME TypeOK, \/ ProcessMain \/ Environment \/ Rest \/ UNCHANGED vars
                 \/ \E s \in Senders : SendFunc(s)
  PROVE  /\ UNCHANGED <<meeting, meetingOf>> /\ status' \subseteq status
         /\ \A fd \in FDs : files'[fd] \in {files[fd], NoConn}
         /\ \/ status' = {} /\ \A fd \in FDs : fdToIp'[fd] = NoIp
            \/ fdToIp' = fdToIp
<1>1. CASE ClearRoom
  BY <1>1 DEF ClearRoom, EmptyPool, history
<1>2. CASE RemoveFd
  BY <1>2 DEF RemoveFd, history
<1>3. CASE CloseFd
  BY <1>3 DEF CloseFd, Closed, history, pool, TypeOK, PoolType
<1>4. CASE UNCHANGED <<meeting, meetingOf, status, files, fdToIp>>
  BY <1>4
<1> QED
  BY <1>1, <1>2, <1>3, <1>4
  DEF ProcessMain, Select, SelectFails, StartRead, ReadData, DropData, ReadClosed, PushRead,
      TestOwner, ReportEmpty, ReportQuit, Environment, ReadReport, DispatchCreate,
      LookUpRoom, DispatchJoin, SendData, Leave, Rest, vars, SendFunc, PopMsg, LockPool,
      WriteTo, UnlockPool, pool, history

\* What accept_fd does to the pool.
LEMMA Grows ==
  ASSUME AcceptFd
  PROVE  \/ UNCHANGED <<meeting, meetingOf, status, files, fdToIp, roomstatus>>
         \/ ReceiveFd \/ RefuseJoin \/ CreateMeeting \/ JoinMeeting
BY DEF AcceptFd, ReceiveFails, EnterPool, Announce, ListPartners, PushAccepted, pool, history

\* A descriptor that is installed is new, and so is its connection.
LEMMA Received ==
  ASSUME TypeOK, PassedInv, ReceiveFd
  PROVE  \E fd \in FDs : \E c \in Conns :
           /\ files[fd] = NoConn /\ meetingOf[c] = 0 /\ ~Open(c)
           /\ files' = [files EXCEPT ![fd] = c]
           /\ UNCHANGED <<meeting, meetingOf, status, fdToIp, roomstatus>>
<1>1. PICK fd \in FDs :
        IsLowest(fd, FreeFDs) /\ files' = [files EXCEPT ![fd] = Head(down).conn]
  BY DEF ReceiveFd
<1>2. down # << >>
  BY DEF ReceiveFd
<1>3. 1 \in DOMAIN down /\ Head(down) = down[1]
  BY <1>2, PipeTypes, TailFacts
<1>4. down[1].conn \in Conns
  BY <1>3, DownConns
<1>5. meetingOf[down[1].conn] = 0 /\ ~Open(down[1].conn)
  BY <1>3, <1>4 DEF PassedInv
<1>6. files[fd] = NoConn
  BY <1>1 DEF IsLowest, FreeFDs
<1> QED
  BY <1>1, <1>3, <1>4, <1>5, <1>6 DEF ReceiveFd, pool, history

\* Who is let in, and into which meeting.
LEMMA LetIn ==
  ASSUME TypeOK, CreateMeeting \/ JoinMeeting
  PROVE  /\ acFd \in FDs /\ files' = files /\ status' = status \cup {acFd}
         /\ meetingOf' =
              [c \in Conns |-> IF c \in Held(acFd) THEN meeting' ELSE meetingOf[c]]
         /\ \E ip \in PeerIps(acFd) :
              /\ fdToIp' = [fdToIp EXCEPT ![acFd] = ip]
              /\ crossed' = crossed \cup (IF Leaving(ip) THEN Held(acFd) ELSE {})
<1>1. acFd \in FDs
  BY DEF CreateMeeting, JoinMeeting, TypeOK, AcceptType
<1>2. files' = files
  BY DEF CreateMeeting, JoinMeeting
<1>3. meetingOf' = [c \in Conns |-> IF c \in Held(acFd) THEN meeting' ELSE meetingOf[c]]
  BY DEF CreateMeeting, JoinMeeting
<1>4. PICK ip \in PeerIps(acFd) : AddMember(ip)
  BY DEF CreateMeeting, JoinMeeting
<1> QED
  BY <1>1, <1>2, <1>3, <1>4 DEF AddMember, Recorded

\* The inductive step of OneMeeting.
LEMMA OneMeetingStep ==
  TypeOK /\ TokenInv /\ CloseInv /\ PassedInv /\ OneMeeting /\ [Next]_vars => OneMeeting'
<1> SUFFICES ASSUME TypeOK, TokenInv, CloseInv, PassedInv, OneMeeting, [Next]_vars
             PROVE  OneMeeting'
  OBVIOUS
<1>1. status \subseteq FDs /\ files \in [FDs -> Conns \cup {NoConn}] /\ NoConn \notin Conns
  BY RoomAssumption DEF TypeOK, PoolType
<1>2. ASSUME \/ ProcessMain \/ Environment \/ Rest \/ UNCHANGED vars
             \/ \E s \in Senders : SendFunc(s)
      PROVE  OneMeeting'
  BY <1>1, <1>2, Shrinks, OneMeetingFrame
<1>3. CASE AcceptFd
  <2>1. CASE UNCHANGED <<meeting, meetingOf, status, files, fdToIp>>
    BY <2>1 DEF OneMeeting
  <2>2. CASE ReceiveFd
    <3>1. PICK fd \in FDs, c \in Conns :
            /\ files[fd] = NoConn /\ meetingOf[c] = 0
            /\ files' = [files EXCEPT ![fd] = c] /\ UNCHANGED <<meeting, meetingOf, status>>
      BY <2>2, Received
    <3>2. \A other \in FDs : files'[other] = IF other = fd THEN c ELSE files[other]
      BY <1>1, <3>1
    <3> QED
      BY <1>1, <3>1, <3>2 DEF OneMeeting
  <2>3. CASE RefuseJoin
    <3>1. UNCHANGED <<meeting, meetingOf, status>>
            /\ \A fd \in FDs : files'[fd] \in {files[fd], NoConn}
      BY <1>1, <2>3 DEF RefuseJoin, Closed, pool, history
    <3> QED
      BY <1>1, <3>1, OneMeetingFrame
  <2>4. CASE CreateMeeting
    <3>1. Given /\ meeting \in Nat /\ roomstatus \in {"ON", "CLOSE"}
      BY <2>4, PipeTypes DEF CreateMeeting, Given, TypeOK, PoolType
    <3>2. meeting = 0 \/ status = {}
      BY <3>1 DEF TokenInv, CloseInv, On
    <3>3. \A c \in Conns : meetingOf[c] \in Nat /\ meetingOf[c] <= meeting
      BY DEF TypeOK, ClientType, PassedInv
    <3>4. /\ files' = files /\ status' = status \cup {acFd} /\ acFd \in FDs
          /\ \A c \in Conns :
               meetingOf'[c] = IF c \in Held(acFd) THEN meeting' ELSE meetingOf[c]
      BY <2>4, LetIn
    <3>5. ASSUME NEW fd \in status', files'[fd] # NoConn
          PROVE  meetingOf'[files'[fd]] \in {0, meeting'}
      <4>1. files[fd] \in Conns
        BY <1>1, <3>4, <3>5
      <4>2. CASE fd = acFd
        BY <1>1, <3>4, <4>1, <4>2 DEF Held
      <4>3. CASE fd # acFd
        <5>1. meeting = 0
          BY <3>2, <3>4, <4>3
        <5> QED
          BY <3>3, <3>4, <4>1, <5>1
      <4> QED
        BY <4>2, <4>3
    <3> QED
      BY <3>5 DEF OneMeeting
  <2>5. CASE JoinMeeting
    <3>1. /\ files' = files /\ status' = status \cup {acFd} /\ acFd \in FDs
          /\ \A c \in Conns :
               meetingOf'[c] = IF c \in Held(acFd) THEN meeting ELSE meetingOf[c]
          /\ meeting' = meeting
      <4>1. meeting' = meeting
        BY <2>5 DEF JoinMeeting
      <4> QED
        BY <2>5, <4>1, LetIn
    <3>2. ASSUME NEW fd \in status', files'[fd] # NoConn
          PROVE  meetingOf'[files'[fd]] \in {0, meeting'}
      <4>1. files[fd] \in Conns /\ files'[fd] = files[fd]
        BY <1>1, <3>1, <3>2
      <4>2. CASE fd = acFd
        BY <1>1, <3>1, <4>1, <4>2 DEF Held
      <4>3. CASE fd # acFd
        <5>1. fd \in status /\ files[fd] # NoConn
          BY <1>1, <3>1, <3>2, <4>1, <4>3
        <5>2. meetingOf[files[fd]] \in {0, meeting}
          BY <5>1 DEF OneMeeting
        <5> QED
          BY <3>1, <4>1, <5>2
      <4> QED
        BY <4>2, <4>3
    <3> QED
      BY <3>2 DEF OneMeeting
  <2> QED
    BY <1>3, <2>1, <2>2, <2>3, <2>4, <2>5, Grows
<1> QED
  BY <1>2, <1>3 DEF Next, Room

\* Nobody of one meeting is in the pool of the next.
THEOREM OneMeetingOnly == Spec => []OneMeeting
<1>1. Init => OneMeeting
  BY DEF Init, OneMeeting
<1> QED
  BY <1>1, TokensAndClose, PassedOnce, OneMeetingStep, PTL DEF Spec

----------------------------------------------------------------------------
\* Who is in the meeting.

\* Who is let in is in it, whoever was in it stays, and nobody else comes.
LEMMA AdmittedGrows ==
  ASSUME TypeOK, PassedInv, CreateMeeting \/ JoinMeeting, NEW fd \in Admitted'
  PROVE  /\ fd \in FDs /\ files'[fd] = files[fd] /\ files[fd] \in Conns
         /\ fd # acFd => fd \in Admitted /\ JoinMeeting
<1>1. files \in [FDs -> Conns \cup {NoConn}] /\ NoConn \notin Conns /\ status \subseteq FDs
  BY RoomAssumption DEF TypeOK, PoolType
<1>2. /\ acFd \in FDs /\ files' = files /\ status' = status \cup {acFd}
      /\ \A c \in Conns :
           meetingOf'[c] = IF c \in Held(acFd) THEN meeting' ELSE meetingOf[c]
  BY LetIn
<1>3. /\ fd \in FDs /\ fd \in status' /\ files[fd] \in Conns
      /\ meeting' > 0 /\ meetingOf'[files[fd]] = meeting'
  BY <1>1, <1>2 DEF Admitted
<1>4. ASSUME fd # acFd PROVE fd \in Admitted /\ JoinMeeting
  <2>1. files[fd] \notin Held(acFd) /\ fd \in status
    BY <1>1, <1>2, <1>3, <1>4 DEF Held, PassedInv
  <2>2. meetingOf[files[fd]] = meeting' /\ meetingOf[files[fd]] <= meeting
    BY <1>2, <1>3, <2>1 DEF PassedInv
  <2>3. ~CreateMeeting
    <3>1. CreateMeeting => meeting' = meeting + 1
      BY DEF CreateMeeting
    <3> QED
      BY <2>2, <3>1, PipeTypes
  <2>4. meeting' = meeting
    BY <2>3 DEF JoinMeeting
  <2> QED
    BY <1>1, <1>3, <2>1, <2>2, <2>3, <2>4 DEF Admitted
<1> QED
  BY <1>2, <1>3, <1>4

\* Receiving a descriptor changes nothing for who is in the meeting.
LEMMA AdmittedReceived ==
  ASSUME TypeOK, PassedInv, ReceiveFd
  PROVE  /\ Admitted' = Admitted /\ UNCHANGED <<meeting, roomstatus, fdToIp>>
         /\ \A fd \in Admitted : files'[fd] = files[fd]
<1>1. PICK fd \in FDs, c \in Conns :
        /\ files[fd] = NoConn /\ meetingOf[c] = 0
        /\ files' = [files EXCEPT ![fd] = c]
        /\ UNCHANGED <<meeting, meetingOf, status, fdToIp, roomstatus>>
  BY Received
<1>2. \A other \in FDs : files'[other] = IF other = fd THEN c ELSE files[other]
  BY <1>1 DEF TypeOK, PoolType
<1>3. status \subseteq FDs /\ c # NoConn
  BY RoomAssumption DEF TypeOK, PoolType
<1>4. fd \notin Admitted /\ fd \notin Admitted'
  BY <1>1, <1>2 DEF Admitted
<1> QED
  BY <1>1, <1>2, <1>3, <1>4 DEF Admitted

\* A step that lets nobody in.
LEMMA AdmittedShrinks ==
  ASSUME UNCHANGED <<meeting, meetingOf>>, status' \subseteq status, status \subseteq FDs,
         \A fd \in FDs : files'[fd] \in {files[fd], NoConn}, NEW fd \in Admitted'
  PROVE  fd \in Admitted /\ files'[fd] = files[fd]
BY DEF Admitted

Unused == \A fd \in FDs : fdToIp[fd] = NoIp

\* A room has no address on record when it is given away.  The first time it is nobody's
\* and nothing is in the pipe; and nothing is in front of its first 'C'.
UnusedInv ==
  /\ roomstatus = "CLOSE" => Unused
  /\ meeting = 0 =>
       /\ child_status = 0 =>
            /\ down = << >> /\ acAt = "read" /\ Unused
            /\ \A c \in Conns \ Creators : phase[c] # "asked"
       /\ \A i \in DOMAIN down : down[i].cmd = "C" => i = 1 /\ acAt = "read" /\ Unused
       /\ acAt \in {"create", "creating"} => Unused

\* A step that neither records an address nor touches the pipe.
LEMMA UnusedFrame ==
  ASSUME UnusedInv, UNCHANGED <<fdToIp, roomstatus, meeting, child_status, down>>,
         acAt' = acAt \/ (acAt # "read" /\ acAt' \notin {"create", "creating"}),
         \A c \in Conns \ Creators : phase'[c] = "asked" => phase[c] = "asked"
  PROVE  UnusedInv'
BY DEF UnusedInv, Unused

\* The dispatcher passes a connection on, or reads a report.
LEMMA UnusedDispatch ==
  ASSUME TypeOK, TokenInv, CloseInv, UnusedInv,
         ReadReport \/ \E c \in Conns : DispatchCreate(c) \/ LookUpRoom(c) \/ DispatchJoin(c)
  PROVE  UnusedInv'
<1>1. /\ UNCHANGED <<fdToIp, roomstatus, meeting, acAt>>
      /\ phase \in [Conns -> {"new", "asked", "in", "gone"}]
  BY DEF ReadReport, DispatchCreate, LookUpRoom, DispatchJoin, pool, accept, history, TypeOK,
         ClientType
<1>2. CASE ReadReport
  <2>1. /\ UNCHANGED <<down, phase>> /\ up # << >>
        /\ child_status' = IF Head(up) = "E" THEN 0 ELSE child_status
    BY <1>2 DEF ReadReport, clients
  <2>2. CASE Head(up) = "E"
    <3>1. Reported
      BY <2>1, <2>2, PipeTypes, TailFacts DEF Reported
    <3>2. meeting > 0
      BY <3>1 DEF TokenInv, CloseInv
    <3> QED
      BY <1>1, <2>1, <3>2, PipeTypes DEF UnusedInv, Unused
  <2>3. CASE Head(up) # "E"
    BY <1>1, <2>1, <2>3, UnusedFrame
  <2> QED
    BY <2>2, <2>3
<1>3. ASSUME NEW c \in Conns, DispatchCreate(c) PROVE UnusedInv'
  <2>1. /\ child_status = 0 /\ child_status' = 1
        /\ down' = Append(down, [cmd |-> "C", conn |-> c])
    BY <1>3 DEF DispatchCreate
  <2>2. ASSUME meeting = 0 PROVE DOMAIN down' = {1} /\ acAt = "read" /\ Unused
    <3>1. down = << >> /\ acAt = "read" /\ Unused
      BY <2>1, <2>2 DEF UnusedInv
    <3> QED
      BY <2>1, <3>1
  <2> QED
    BY <1>1, <2>1, <2>2 DEF UnusedInv, Unused
<1>4. ASSUME NEW c \in Conns, LookUpRoom(c) PROVE UnusedInv'
  <2>1. child_status = 1 /\ UNCHANGED <<child_status, down>>
    BY <1>4 DEF LookUpRoom, pipes
  <2> QED
    BY <1>1, <2>1 DEF UnusedInv, Unused
<1>5. ASSUME NEW c \in Conns, DispatchJoin(c) PROVE UnusedInv'
  <2>1. /\ c \in Conns \ Creators /\ phase[c] = "asked"
        /\ down' = Append(down, [cmd |-> "J", conn |-> c])
        /\ phase' = [phase EXCEPT ![c] = "in"] /\ UNCHANGED child_status
    BY <1>5 DEF DispatchJoin
  <2>2. [cmd |-> "J", conn |-> c] \in Command
    BY DEF Command
  <2>3. /\ DOMAIN down' = DOMAIN down \cup {Len(down) + 1}
        /\ down'[Len(down) + 1] = [cmd |-> "J", conn |-> c]
        /\ \A i \in DOMAIN down : down'[i] = down[i]
    BY <2>1, <2>2, PipeTypes, AppendFacts
  <2>4. \A i \in DOMAIN down' : down'[i].cmd = "C" => i \in DOMAIN down /\ down[i].cmd = "C"
    BY <2>3
  <2> QED
    BY <1>1, <2>1, <2>4 DEF UnusedInv, Unused
<1> QED
  BY <1>2, <1>3, <1>4, <1>5

\* accept_fd takes what is in the pipe in its order.
LEMMA UnusedAccept ==
  ASSUME TypeOK, CloseInv, UnusedInv, AcceptFd
  PROVE  UnusedInv'
<1>1. CASE ReceiveFd
  <2>1. /\ acAt = "read" /\ down # << >> /\ down' = Tail(down)
        /\ UNCHANGED <<fdToIp, roomstatus, meeting, child_status, phase>>
        /\ acAt' \in {"create", "creating"} => Head(down).cmd = "C"
    BY <1>1 DEF ReceiveFd, pool, history, clients
  <2>2. /\ \A i \in DOMAIN Tail(down) : /\ i \in Nat /\ i + 1 \in DOMAIN down /\ i + 1 # 1
                                         /\ Tail(down)[i] = down[i + 1]
        /\ 1 \in DOMAIN down /\ Head(down) = down[1]
    BY <2>1, PipeTypes, TailFacts
  <2>3. ASSUME meeting = 0
        PROVE  /\ child_status # 0 /\ \A i \in DOMAIN down' : down'[i].cmd # "C"
               /\ acAt' \in {"create", "creating"} => Unused
    BY <2>1, <2>2, <2>3 DEF UnusedInv
  <2> QED
    BY <2>1, <2>3 DEF UnusedInv, Unused
<1>2. CASE EnterPool
  <2>1. /\ UNCHANGED <<fdToIp, roomstatus, meeting, child_status, down, phase>>
        /\ acAt \in {"create", "join"} /\ (acAt' = "creating" => acAt = "create")
        /\ acAt' \in {"creating", "joining"}
    BY <1>2 DEF EnterPool, history, pipes, clients
  <2> QED
    BY <2>1 DEF UnusedInv, Unused
<1>3. CASE CreateMeeting
  <2>1. meeting' = meeting + 1 /\ roomstatus' = "ON"
    BY <1>3 DEF CreateMeeting
  <2> QED
    BY <2>1, PipeTypes DEF UnusedInv
<1>4. CASE JoinMeeting
  <2>1. /\ acAt = "joining" /\ acAt' = "announce"
        /\ UNCHANGED <<roomstatus, meeting, child_status, down, phase>>
    BY <1>4 DEF JoinMeeting, pipes, clients
  <2>2. roomstatus = "ON"
    BY <2>1 DEF CloseInv
  <2> QED
    BY <2>1, <2>2 DEF UnusedInv
<1>5. CASE RefuseJoin
  <2>1. /\ acAt = "join" /\ acAt' = "read"
        /\ UNCHANGED <<fdToIp, roomstatus, meeting, child_status, down>>
        /\ \A c \in Conns : phase'[c] \in {phase[c], "gone"}
    BY <1>5 DEF RefuseJoin, Hangup, pool, history, pipes
  <2> QED
    BY <2>1, UnusedFrame
<1>6. CASE Announce \/ ListPartners \/ PushAccepted
  <2>1. /\ acAt # "read" /\ acAt' \in {"push", "list", "read"}
        /\ UNCHANGED <<fdToIp, roomstatus, meeting, child_status, down, phase>>
    BY <1>6 DEF Announce, ListPartners, PushAccepted, pool, history, pipes, clients
  <2> QED
    BY <2>1, UnusedFrame
<1>7. CASE ReceiveFails
  BY <1>7, UnusedFrame DEF ReceiveFails, pool, history, pipes, clients, accept
<1> QED
  BY <1>1, <1>2, <1>3, <1>4, <1>5, <1>6, <1>7 DEF AcceptFd

\* The inductive step of UnusedInv.
LEMMA UnusedStep ==
  TypeOK /\ TokenInv /\ CloseInv /\ UnusedInv /\ [Next]_vars => UnusedInv'
<1> SUFFICES ASSUME TypeOK, TokenInv, CloseInv, UnusedInv, [Next]_vars PROVE UnusedInv'
  OBVIOUS
<1>1. ASSUME NEW S, Hangup(S)
      PROVE  \A c \in Conns \ Creators : phase'[c] = "asked" => phase[c] = "asked"
  BY <1>1 DEF Hangup
<1>2. CASE UNCHANGED <<fdToIp, roomstatus, meeting, child_status, down, acAt, phase>>
  BY <1>2, UnusedFrame
<1>3. CASE ClearRoom
  <2>1. On
    BY <1>3 DEF ClearRoom, CloseInv
  <2>2. /\ UNCHANGED <<meeting, child_status, down, acAt>>
        /\ \A fd \in FDs : fdToIp'[fd] = NoIp
    BY <1>3 DEF ClearRoom, EmptyPool, history, pipes, accept
  <2> QED
    BY <2>1, <2>2 DEF UnusedInv, Unused, On
<1>4. CASE ProcessMain
  <2>1. CASE ReadData \/ DropData \/ CloseFd
    <3>1. /\ UNCHANGED <<fdToIp, roomstatus, meeting, child_status, down, acAt>>
          /\ \E S : Hangup(S)
      BY <2>1 DEF ReadData, DropData, CloseFd, pool, history, pipes, accept
    <3> QED
      BY <1>1, <3>1, UnusedFrame
  <2> QED
    BY <1>2, <1>3, <1>4, <2>1
    DEF ProcessMain, Select, SelectFails, StartRead, ReadClosed, PushRead, TestOwner,
        ReportEmpty, RemoveFd, ReportQuit, pool, history, pipes, accept, clients
<1>5. ASSUME NEW s \in Senders, SendFunc(s) PROVE UnusedInv'
  <2>1. CASE WriteTo(s)
    <3>1. UNCHANGED <<fdToIp, roomstatus, meeting, child_status, down, acAt>>
      BY <2>1 DEF WriteTo, pool, history, pipes, accept
    <3>2. \A c \in Conns : phase'[c] = "asked" => phase[c] = "asked"
      <4>1. phase' = phase \/ \E c \in Conns : Handle(c, held[s])
        BY <2>1 DEF WriteTo, TypeOK, PoolType
      <4>2. ASSUME NEW c \in Conns, Handle(c, held[s])
            PROVE  \A d \in Conns : phase'[d] \in {"in", phase[d]}
        BY <4>2 DEF Handle, TypeOK, ClientType
      <4> QED
        BY <4>1, <4>2
    <3> QED
      BY <3>1, <3>2, UnusedFrame
  <2> QED
    BY <1>2, <1>5, <2>1
    DEF SendFunc, PopMsg, LockPool, UnlockPool, pool, history, pipes, accept, clients
<1>6. CASE Environment
  <2>1. ASSUME NEW c \in Conns, Leave(c) PROVE UnusedInv'
    <3>1. UNCHANGED <<fdToIp, roomstatus, meeting, child_status, down, acAt>>
      BY <2>1 DEF Leave, pool, history, pipes, accept
    <3>2. \A d \in Conns : phase'[d] = "asked" => phase[d] = "asked"
      BY <2>1 DEF Leave, TypeOK, ClientType
    <3> QED
      BY <3>1, <3>2, UnusedFrame
  <2>2. ASSUME NEW c \in Conns, NEW type \in DataTypes, SendData(c, type) PROVE UnusedInv'
    BY <1>2, <2>2 DEF SendData, pool, history, pipes, accept
  <2> QED
    BY <1>6, <2>1, <2>2, UnusedDispatch DEF Environment
<1>7. CASE Rest \/ UNCHANGED vars
  BY <1>2, <1>7 DEF Rest, vars, pool, history, pipes, accept, clients
<1> QED
  BY <1>4, <1>5, <1>6, <1>7, UnusedAccept DEF Next, Room

\* The address is that of somebody let into the meeting that is on.
OfMeeting(ip) == \E c \in Conns : meetingOf[c] = meeting /\ ip = IpOf[c]

\* Who is let in is recorded under his own address if it can be learned, and no record is
\* left of an earlier meeting.
NameInv ==
  /\ \A fd \in Admitted : fdToIp[fd] \in {IpOf[files[fd]], BadIp}
  /\ \A fd \in FDs : fdToIp[fd] \in {NoIp, BadIp} \/ OfMeeting(fdToIp[fd])

\* A step that lets nobody in and records nothing.
LEMMA NameFrame ==
  ASSUME NameInv, UNCHANGED <<meeting, meetingOf, fdToIp>>,
         \A fd \in Admitted' : fd \in Admitted /\ files'[fd] = files[fd]
  PROVE  NameInv'
BY DEF NameInv, OfMeeting

\* The inductive step of NameInv.
LEMMA NameStep ==
  TypeOK /\ TokenInv /\ PassedInv /\ UnusedInv /\ NameInv /\ [Next]_vars => NameInv'
<1> SUFFICES ASSUME TypeOK, TokenInv, PassedInv, UnusedInv, NameInv, [Next]_vars
             PROVE  NameInv'
  OBVIOUS
<1>1. status \subseteq FDs /\ files \in [FDs -> Conns \cup {NoConn}] /\ NoConn \notin Conns
        /\ fdToIp \in [FDs -> Addrs] /\ roomstatus \in {"ON", "CLOSE"}
  BY RoomAssumption DEF TypeOK, PoolType
<1>2. ASSUME \/ ProcessMain \/ Environment \/ Rest \/ UNCHANGED vars
             \/ \E s \in Senders : SendFunc(s)
      PROVE  NameInv'
  <2>1. /\ UNCHANGED <<meeting, meetingOf>> /\ status' \subseteq status
        /\ \A fd \in FDs : files'[fd] \in {files[fd], NoConn}
        /\ (status' = {} /\ \A fd \in FDs : fdToIp'[fd] = NoIp) \/ fdToIp' = fdToIp
    BY <1>2, Shrinks
  <2>2. \A fd \in Admitted' : fd \in Admitted /\ files'[fd] = files[fd]
    BY <1>1, <2>1, AdmittedShrinks
  <2>3. status' = {} => Admitted' = {}
    BY DEF Admitted
  <2> QED
    BY <2>1, <2>2, <2>3, NameFrame DEF NameInv
<1>3. CASE AcceptFd
  <2>1. CASE UNCHANGED <<meeting, meetingOf, status, files, fdToIp, roomstatus>>
    BY <2>1, NameFrame DEF Admitted
  <2>2. CASE ReceiveFd
    <3>1. UNCHANGED <<meeting, meetingOf, fdToIp>>
      BY <2>2 DEF ReceiveFd, pool, history
    <3>2. Admitted' = Admitted /\ \A fd \in Admitted : files'[fd] = files[fd]
      BY <2>2, AdmittedReceived
    <3> QED
      BY <3>1, <3>2, NameFrame
  <2>3. CASE RefuseJoin
    <3>1. UNCHANGED <<meeting, meetingOf, status, fdToIp>>
            /\ \A fd \in FDs : files'[fd] \in {files[fd], NoConn}
      BY <1>1, <2>3 DEF RefuseJoin, Closed, pool, history
    <3>2. \A fd \in Admitted' : fd \in Admitted /\ files'[fd] = files[fd]
      BY <1>1, <3>1, AdmittedShrinks
    <3> QED
      BY <3>1, <3>2, NameFrame
  <2>4. CASE CreateMeeting \/ JoinMeeting
    <3>1. /\ acFd \in FDs /\ files' = files
          /\ \A c \in Conns :
               meetingOf'[c] = IF c \in Held(acFd) THEN meeting' ELSE meetingOf[c]
      BY <2>4, LetIn
    <3>2. PICK ip \in PeerIps(acFd) : fdToIp' = [fdToIp EXCEPT ![acFd] = ip]
      BY <2>4, LetIn
    <3>3. \A fd \in FDs : fdToIp'[fd] = IF fd = acFd THEN ip ELSE fdToIp[fd]
      BY <1>1, <3>1, <3>2
    <3>4. ip = BadIp \/ (files[acFd] \in Conns /\ ip = IpOf[files[acFd]])
      BY <1>1, <3>1 DEF PeerIps
    <3>5. ASSUME NEW fd \in Admitted' PROVE fdToIp'[fd] \in {IpOf[files'[fd]], BadIp}
      <4>1. /\ fd \in FDs /\ files'[fd] = files[fd] /\ files[fd] \in Conns
            /\ fd # acFd => fd \in Admitted
        BY <2>4, <3>5, AdmittedGrows
      <4> QED
        BY <3>3, <3>4, <4>1 DEF NameInv
    <3>6. ASSUME NEW fd \in FDs
          PROVE  fdToIp'[fd] \in {NoIp, BadIp} \/ OfMeeting(fdToIp[fd])'
      <4>1. CASE fd = acFd
        <5>1. ASSUME files[acFd] \in Conns PROVE meetingOf'[files[acFd]] = meeting'
          BY <1>1, <3>1, <5>1 DEF Held
        <5> QED
          BY <3>3, <3>4, <4>1, <5>1 DEF OfMeeting
      <4>2. CASE fd # acFd /\ CreateMeeting
        <5>1. Given
          BY <4>2 DEF CreateMeeting, Given
        <5>2. meeting = 0 \/ roomstatus = "CLOSE"
          BY <1>1, <5>1, PipeTypes DEF TokenInv, On
        <5>3. Unused
          BY <4>2, <5>2 DEF UnusedInv, CreateMeeting
        <5> QED
          BY <3>3, <4>2, <5>3 DEF Unused
      <4>3. CASE fd # acFd /\ JoinMeeting
        <5>1. meeting' = meeting /\ fdToIp'[fd] = fdToIp[fd]
          BY <3>3, <4>3 DEF JoinMeeting
        <5>2. \A c \in Conns : meetingOf[c] = meeting => meetingOf'[c] = meeting'
          BY <3>1, <5>1
        <5> QED
          BY <5>1, <5>2 DEF NameInv, OfMeeting
      <4> QED
        BY <2>4, <4>1, <4>2, <4>3
    <3> QED
      BY <3>5, <3>6 DEF NameInv
  <2> QED
    BY <1>3, <2>1, <2>2, <2>3, <2>4, Grows
<1> QED
  BY <1>2, <1>3 DEF Next, Room

\* What the main thread reads (room.cpp:99-150) goes out under the address of who said it,
\* or under an unknown one, from the moment accept_fd is through with him.  In the window
\* between FD_SET and the store of his address, and on a read through a descriptor that
\* changed hands, it may go out under none or under that of somebody of the same meeting,
\* and in no case under one that is left of an earlier meeting.
THEOREM SpeakersAreNamed == Spec => SpeakerIsNamed
<1>1. Init => UnusedInv /\ NameInv
  BY DEF Init, UnusedInv, Unused, NameInv, Admitted
<1>2. Spec => [](TypeOK /\ TokenInv /\ CloseInv /\ PassedInv /\ UnusedInv /\ NameInv)
  BY <1>1, TokensAndClose, PassedOnce, UnusedStep, NameStep, PTL DEF Spec
<1>3. TypeOK /\ NameInv /\ [Next]_vars =>
        [ReadData /\ pmMsg'.type # "CLOSE_CAMERA" =>
           \/ pmMsg'.ip \in {IpOf[pmConn], BadIp}
           \/ /\ ~(pmFd \in Admitted /\ files[pmFd] = pmConn)
              /\ \/ pmMsg'.ip = NoIp
                 \/ \E c \in Conns : meetingOf[c] = meeting /\ pmMsg'.ip = IpOf[c]]_vars
  <2> SUFFICES ASSUME TypeOK, NameInv, ReadData, pmMsg'.type # "CLOSE_CAMERA"
               PROVE  \/ pmMsg'.ip \in {IpOf[pmConn], BadIp}
                      \/ /\ ~(pmFd \in Admitted /\ files[pmFd] = pmConn)
                         /\ \/ pmMsg'.ip = NoIp
                            \/ \E c \in Conns : meetingOf[c] = meeting /\ pmMsg'.ip = IpOf[c]
    OBVIOUS
  <2>1. pmFd \in FDs
    BY DEF ReadData, TypeOK, MainType
  <2>2. pmMsg'.type = Head(input[pmConn])
    BY DEF ReadData, Message
  <2>3. pmMsg'.ip = fdToIp[pmFd]
    BY <2>2 DEF ReadData, Message
  <2> QED
    BY <2>1, <2>3 DEF NameInv, OfMeeting
<1> QED
  BY <1>2, <1>3, PTL DEF Spec, SpeakerIsNamed

----------------------------------------------------------------------------
\* The room implements the meeting.

Members == {files[fd] : fd \in Admitted}

\* One person leaves, or nobody that counted.
LEMMA OneLeaves ==
  ASSUME TypeOK, PassedInv, NEW one, UNCHANGED <<meeting, roomstatus>>,
         Admitted' = Admitted \ {one},
         \A fd \in Admitted' : files'[fd] = files[fd]
  PROVE  \/ UNCHANGED <<On, Members>>
         \/ \E p \in Conns : p \in Members /\ Members' = Members \ {p} /\ UNCHANGED On
<1>1. \A fd \in Admitted : fd \in FDs /\ files[fd] \in Conns /\ files[fd] # NoConn
  BY RoomAssumption DEF Admitted, TypeOK, PoolType
<1>2. UNCHANGED On
  BY DEF On
<1>3. Members' = {files[fd] : fd \in Admitted \ {one}}
  BY DEF Members
<1>4. CASE one \notin Admitted
  BY <1>2, <1>3, <1>4 DEF Members
<1>5. CASE one \in Admitted
  <2>1. \A fd \in Admitted : files[fd] = files[one] => fd = one
    BY <1>1, <1>5 DEF PassedInv
  <2>2. files[one] \in Members /\ Members' = Members \ {files[one]}
    BY <1>3, <1>5, <2>1 DEF Members
  <2> QED
    BY <1>1, <1>2, <1>5, <2>2
<1> QED
  BY <1>4, <1>5

\* Every step of the room is a step of the meeting, or leaves it alone.
LEMMA RoomSteps ==
  ASSUME TypeOK, TokenInv, CloseInv, PassedInv, [Next]_vars
  PROVE  \/ UNCHANGED <<On, Members>>
         \/ /\ ~On /\ Members = {} /\ On'
            /\ Members' = {} \/ \E p \in Conns : Members' = {p}
         \/ On /\ ~On' /\ Members' = {}
         \/ \E p \in Conns : p \in Members /\ Members' = Members \ {p} /\ UNCHANGED On
         \/ \E p \in Conns : /\ On /\ p \notin Members /\ Members' = Members \cup {p}
                            /\ UNCHANGED On
<1>1. status \subseteq FDs /\ files \in [FDs -> Conns \cup {NoConn}] /\ NoConn \notin Conns
  BY RoomAssumption DEF TypeOK, PoolType
<1>2. CASE UNCHANGED <<meeting, meetingOf, status, files, fdToIp, roomstatus>>
  <2>1. Admitted' = Admitted
    BY <1>2 DEF Admitted
  <2>2. UNCHANGED On /\ UNCHANGED Members
    BY <1>2, <2>1 DEF On, Members
  <2> QED
    BY <2>2
<1>3. CASE ClearRoom
  <2>1. On
    BY <1>3 DEF ClearRoom, CloseInv
  <2>2. roomstatus' = "CLOSE" /\ status' = {}
    BY <1>3 DEF ClearRoom, EmptyPool
  <2>3. ~On' /\ Members' = {}
    BY <2>2 DEF On, Members, Admitted
  <2> QED
    BY <2>1, <2>3
<1>4. CASE RemoveFd
  <2>1. UNCHANGED <<meeting, meetingOf, files, roomstatus>> /\ status' = status \ {pmFd}
    BY <1>4 DEF RemoveFd, history
  <2>2. Admitted' = Admitted \ {pmFd}
    BY <2>1 DEF Admitted
  <2> QED
    BY <2>1, <2>2, OneLeaves
<1>5. ASSUME NEW one \in FDs, UNCHANGED <<meeting, meetingOf, status, roomstatus>>,
             files' = Closed(one)
      PROVE  \/ UNCHANGED <<On, Members>>
             \/ \E p \in Conns : p \in Members /\ Members' = Members \ {p} /\ UNCHANGED On
  <2>1. \A fd \in FDs : files'[fd] = IF fd = one THEN NoConn ELSE files[fd]
    BY <1>1, <1>5 DEF Closed
  <2>2. Admitted' = Admitted \ {one} /\ \A fd \in Admitted' : files'[fd] = files[fd]
    BY <1>1, <1>5, <2>1 DEF Admitted
  <2> QED
    BY <1>5, <2>2, OneLeaves
<1>6. CASE CloseFd
  <2>1. /\ pmFd \in FDs /\ UNCHANGED <<meeting, meetingOf, status, roomstatus>>
        /\ files' = Closed(pmFd)
    BY <1>6 DEF CloseFd, pool, history, TypeOK, MainType
  <2> QED
    BY <1>5, <2>1
<1>7. CASE RefuseJoin
  <2>1. /\ acFd \in FDs /\ UNCHANGED <<meeting, meetingOf, status, roomstatus>>
        /\ files' = Closed(acFd)
    BY <1>7 DEF RefuseJoin, pool, history, TypeOK, AcceptType
  <2> QED
    BY <1>5, <2>1
<1>8. CASE ReceiveFd
  <2>1. /\ Admitted' = Admitted /\ UNCHANGED <<meeting, roomstatus>>
        /\ \A fd \in Admitted : files'[fd] = files[fd]
    BY <1>8, AdmittedReceived
  <2>2. UNCHANGED On /\ UNCHANGED Members
    BY <2>1 DEF On, Members
  <2> QED
    BY <2>2
<1>9. CASE CreateMeeting
  <2>1. Given /\ roomstatus \in {"ON", "CLOSE"} /\ meeting \in Nat
    BY <1>9, PipeTypes DEF CreateMeeting, Given, TypeOK, PoolType
  <2>2. ~On
    BY <2>1 DEF TokenInv
  <2>3. Members = {}
    BY <2>1, <2>2 DEF On, Members, Admitted, CloseInv
  <2>4. meeting' = meeting + 1 /\ roomstatus' = "ON"
    BY <1>9 DEF CreateMeeting
  <2>5. On'
    BY <2>1, <2>4 DEF On
  <2>6. ~JoinMeeting
    BY <1>9 DEF CreateMeeting, JoinMeeting
  <2>7. \A fd \in Admitted' : fd = acFd /\ files'[fd] = files[acFd] /\ files[acFd] \in Conns
    BY <1>9, <2>6, AdmittedGrows
  <2>8. Members' = {} \/ (files[acFd] \in Conns /\ Members' = {files[acFd]})
    BY <2>7 DEF Members
  <2> QED
    BY <2>2, <2>3, <2>5, <2>8
<1>10. CASE JoinMeeting
  <2>1. /\ acFd \in FDs /\ files' = files /\ status' = status \cup {acFd}
        /\ \A c \in Conns :
             meetingOf'[c] = IF c \in Held(acFd) THEN meeting' ELSE meetingOf[c]
    BY <1>10, LetIn
  <2>2. UNCHANGED <<meeting, roomstatus>> /\ roomstatus = "ON"
    BY <1>10 DEF JoinMeeting, CloseInv
  <2>3. \A fd \in Admitted : fd \in Admitted'
    BY <1>1, <2>1, <2>2 DEF Admitted
  <2>4. \A fd \in Admitted' : fd \in Admitted \/ fd = acFd
    BY <1>10, AdmittedGrows
  <2>5. UNCHANGED On
    BY <2>2 DEF On
  <2>6. CASE acFd \in Admitted'
    <3>1. On /\ files[acFd] \in Conns
      BY <1>1, <2>1, <2>2, <2>6 DEF Admitted, On
    <3>2. Members' = Members \cup {files[acFd]}
      BY <2>1, <2>3, <2>4, <2>6 DEF Members
    <3>3. CASE files[acFd] \in Members
      BY <2>5, <3>2, <3>3
    <3>4. CASE files[acFd] \notin Members
      BY <2>5, <3>1, <3>2, <3>4
    <3> QED
      BY <3>3, <3>4
  <2>7. CASE acFd \notin Admitted'
    <3>1. Members' = Members
      BY <2>1, <2>3, <2>4, <2>7 DEF Members
    <3> QED
      BY <2>5, <3>1
  <2> QED
    BY <2>6, <2>7
<1>11. CASE ProcessMain
  BY <1>2, <1>3, <1>4, <1>6, <1>11
  DEF ProcessMain, Select, SelectFails, StartRead, ReadData, DropData, ReadClosed, PushRead,
      TestOwner, ReportEmpty, ReportQuit, pool, history
<1>12. CASE AcceptFd
  BY <1>2, <1>7, <1>8, <1>9, <1>10, <1>12, Grows
<1>13. CASE Environment \/ Rest \/ UNCHANGED vars \/ \E s \in Senders : SendFunc(s)
  BY <1>2, <1>13
  DEF Environment, ReadReport, DispatchCreate, LookUpRoom, DispatchJoin, SendData, Leave,
      Rest, vars, SendFunc, PopMsg, LockPool, WriteTo, UnlockPool, pool, history
<1> QED
  BY <1>11, <1>12, <1>13 DEF Next, Room

\* A room behaves as a meeting: whatever the threads do, people join one that is on,
\* leave it one by one, are put out at its end together, and the next one starts from
\* an empty room.
THEOREM RoomImplementsMeeting == Spec => IsAMeeting
<1>1. Init => PublicMeeting!Init
  BY DEF Init, PublicMeeting!Init, Admitted
<1>2. TypeOK /\ TokenInv /\ CloseInv /\ PassedInv /\ [Next]_vars
        => [PublicMeeting!Next]_<<meeting > 0 /\ roomstatus = "ON",
                                  {files[fd] : fd \in Admitted}>>
  <2> SUFFICES ASSUME TypeOK, TokenInv, CloseInv, PassedInv, [Next]_vars
               PROVE  [PublicMeeting!Next]_<<meeting > 0 /\ roomstatus = "ON",
                                             {files[fd] : fd \in Admitted}>>
    OBVIOUS
  <2> QED
    BY RoomSteps
    DEF On, Members, PublicMeeting!Next, PublicMeeting!Start, PublicMeeting!End,
        PublicMeeting!Join, PublicMeeting!Leave
<1> QED
  BY <1>1, <1>2, TokensAndClose, PassedOnce, PTL DEF Spec, IsAMeeting, PublicMeeting!Spec

----------------------------------------------------------------------------
\* In the first meeting a descriptor is watched, or about to be, only while it is
\* open: the main thread takes it out of fdset before it closes it.
FirstInv ==
  /\ pmAt # "scan" => pmFd \notin rset
  /\ meeting <= 1 /\ roomstatus = "ON" =>
       /\ \A fd \in fdset : files[fd] # NoConn
       /\ rset \subseteq fdset
       /\ pmAt \in {"reading", "closing", "clear", "remove"} => pmFd \in fdset
       /\ pmAt \in {"reportQ", "close"} => files[pmFd] # NoConn /\ pmFd \notin fdset
       /\ acAt \in {"create", "creating", "join", "joining"} => files[acFd] # NoConn
       /\ acAt \in {"create", "join"} => acFd \notin fdset
       /\ acAt \in {"create", "creating", "join", "joining"}
            /\ pmAt \in {"reportQ", "close"} => acFd # pmFd

\* A room once closed comes back for its second meeting, not for its first.
LEMMA FirstBefore ==
  ASSUME TypeOK, CloseInv, [Next]_vars, meeting' <= 1, roomstatus' = "ON"
  PROVE  meeting <= 1 /\ roomstatus = "ON"
<1>1. CASE UNCHANGED <<meeting, roomstatus>>
  BY <1>1
<1>2. CASE CreateMeeting
  <2>1. meeting \in Nat /\ meeting' = meeting + 1 /\ roomstatus \in {"ON", "CLOSE"}
    BY <1>2 DEF CreateMeeting, TypeOK, PoolType, ClientType
  <2>2. roomstatus = "CLOSE" => meeting > 0
    BY DEF CloseInv
  <2> QED
    BY <2>1, <2>2
<1>3. CASE ProcessMain
  BY <1>1, <1>3 DEF ProcessMain, Select, SelectFails, StartRead, ReadData, DropData,
                    ReadClosed, PushRead, TestOwner, ClearRoom, ReportEmpty, RemoveFd,
                    ReportQuit, CloseFd, pool, history
<1>4. CASE AcceptFd
  BY <1>1, <1>2, <1>4 DEF AcceptFd, ReceiveFd, ReceiveFails, EnterPool, JoinMeeting,
                          RefuseJoin, Announce, ListPartners, PushAccepted, pool, history
<1>5. ASSUME NEW s \in Senders, SendFunc(s) PROVE UNCHANGED <<meeting, roomstatus>>
  BY <1>5 DEF SendFunc, PopMsg, LockPool, WriteTo, UnlockPool, pool, history
<1>6. CASE Environment
  BY <1>1, <1>6 DEF Environment, ReadReport, DispatchCreate, LookUpRoom, DispatchJoin,
                    Leave, SendData, pool, history
<1>7. CASE Rest \/ UNCHANGED vars
  BY <1>1, <1>7 DEF Rest, vars, pool, history
<1> QED
  BY <1>1, <1>3, <1>4, <1>5, <1>6, <1>7 DEF Next, Room

\* A step of the others.
LEMMA FirstFrame ==
  ASSUME FirstInv, meeting <= 1, roomstatus = "ON",
         UNCHANGED <<files, fdset, acAt, acFd, main>>
  PROVE  FirstInv'
BY DEF FirstInv, main

\* The main thread.
LEMMA FirstMain ==
  ASSUME TypeOK, FirstInv, ProcessMain, meeting <= 1, roomstatus = "ON", roomstatus' = "ON"
  PROVE  FirstInv'
<1>1. CASE Select
  <2>1. /\ UNCHANGED <<files, fdset, acAt, acFd, pmAt, pmFd>> /\ pmAt = "scan"
        /\ rset' \subseteq fdset
    BY <1>1 DEF Select, Readable, Scanned, pool, accept
  <2> QED
    BY <2>1 DEF FirstInv
<1>2. CASE SelectFails
  BY <1>2, FirstFrame DEF SelectFails, pool, accept
<1>3. CASE StartRead
  <2>1. /\ UNCHANGED <<files, fdset, acAt, acFd>> /\ pmAt' = "reading" /\ pmFd' \in rset
        /\ rset' = rset \ {pmFd'}
    BY <1>3 DEF StartRead, IsLowest, Scanned, pool, accept
  <2> QED
    BY <2>1 DEF FirstInv
<1>4. CASE ReadData \/ DropData \/ ReadClosed
  <2>1. /\ UNCHANGED <<files, fdset, acAt, acFd, pmFd, rset>> /\ pmAt = "reading"
        /\ pmAt' \in {"push", "scan", "closing"}
    BY <1>4 DEF ReadData, DropData, ReadClosed, pool, accept
  <2> QED
    BY <2>1 DEF FirstInv
<1>5. CASE PushRead \/ ReportEmpty
  <2>1. UNCHANGED <<files, fdset, acAt, acFd, pmFd, rset>> /\ pmAt' = "scan"
    BY <1>5 DEF PushRead, ReportEmpty, pool, accept
  <2> QED
    BY <2>1 DEF FirstInv
<1>6. CASE TestOwner
  <2>1. /\ UNCHANGED <<files, fdset, acAt, acFd, pmFd, rset>> /\ pmAt = "closing"
        /\ pmAt' \in {"clear", "remove"}
    BY <1>6 DEF TestOwner, pool, accept
  <2> QED
    BY <2>1 DEF FirstInv
<1>7. CASE ClearRoom
  BY <1>7 DEF ClearRoom
<1>8. CASE RemoveFd
  <2>1. /\ UNCHANGED <<files, acAt, acFd, pmFd, rset>> /\ fdset' = fdset \ {pmFd}
        /\ pmAt = "remove" /\ pmAt' = "reportQ" /\ lock # "accept_fd"
    BY <1>8, RoomAssumption DEF RemoveFd, Unwatched, accept, Unlocked
  <2>2. acAt \notin {"creating", "joining"}
    BY <2>1 DEF TypeOK, AcceptType
  <2>3. pmFd \notin rset /\ pmFd \in fdset
    BY <2>1 DEF FirstInv
  <2> QED
    BY <2>1, <2>2, <2>3 DEF FirstInv
<1>9. CASE ReportQuit
  <2>1. /\ UNCHANGED <<files, fdset, acAt, acFd, pmFd, rset>> /\ pmAt = "reportQ"
        /\ pmAt' = "close"
    BY <1>9 DEF ReportQuit, pool, accept
  <2> QED
    BY <2>1 DEF FirstInv
<1>10. CASE CloseFd
  <2>1. /\ UNCHANGED <<fdset, acAt, acFd, pmFd, rset>> /\ pmAt = "close" /\ pmAt' = "push"
        /\ files' = [files EXCEPT ![pmFd] = NoConn]
    BY <1>10 DEF CloseFd, Closed, pool, accept
  <2>2. /\ files \in [FDs -> Conns \cup {NoConn}] /\ fdset \subseteq FDs
        /\ acAt # "read" => acFd \in FDs
    BY DEF TypeOK, PoolType, AcceptType
  <2>3. \A fd \in FDs : fd # pmFd => files'[fd] = files[fd]
    BY <2>1, <2>2
  <2>4. pmFd \notin fdset /\ pmFd \notin rset
    BY <2>1 DEF FirstInv
  <2>5. \A fd \in fdset' : files'[fd] # NoConn
    BY <2>1, <2>2, <2>3, <2>4 DEF FirstInv
  <2>6. acAt' \in {"create", "creating", "join", "joining"} => files'[acFd'] # NoConn
    BY <2>1, <2>2, <2>3 DEF FirstInv
  <2> QED
    BY <2>1, <2>4, <2>5, <2>6 DEF FirstInv
<1> QED
  BY <1>1, <1>2, <1>3, <1>4, <1>5, <1>6, <1>7, <1>8, <1>9, <1>10 DEF ProcessMain

\* accept_fd: a descriptor is installed where none is open.
LEMMA FirstAccept ==
  ASSUME TypeOK, FirstInv, AcceptFd, meeting <= 1, roomstatus = "ON"
  PROVE  FirstInv'
<1>1. CASE ReceiveFd
  <2>1. /\ UNCHANGED <<fdset, main>> /\ acAt' \in {"create", "join", "read"}
        /\ acFd' \in FDs /\ files[acFd'] = NoConn
        /\ files' = [files EXCEPT ![acFd'] = Head(down).conn] /\ down # << >>
    BY <1>1 DEF ReceiveFd, IsLowest, FreeFDs, pool
  <2>2. /\ files \in [FDs -> Conns \cup {NoConn}] /\ fdset \subseteq FDs
        /\ pmAt # "scan" => pmFd \in FDs
    BY DEF TypeOK, PoolType, MainType
  <2>3. Head(down).conn \in Conns
    <3>1. Head(down) \in Command
      BY <2>1, PipeTypes
    <3> QED
      BY <3>1 DEF Command
  <2>4. files'[acFd'] # NoConn /\ \A fd \in FDs : fd # acFd' => files'[fd] = files[fd]
    BY <2>1, <2>2, <2>3, RoomAssumption
  <2>5. \A fd \in fdset : files[fd] # NoConn
    BY DEF FirstInv
  <2>6. acFd' \notin fdset /\ \A fd \in fdset : files'[fd] # NoConn
    BY <2>1, <2>2, <2>4, <2>5
  <2>7. pmAt \in {"reportQ", "close"} => /\ files'[pmFd] # NoConn /\ pmFd \notin fdset
                                         /\ acFd' # pmFd
    BY <2>1, <2>2, <2>4 DEF FirstInv
  <2>8. UNCHANGED <<pmAt, pmFd, rset>>
    BY <2>1 DEF main
  <2> QED
    BY <2>1, <2>4, <2>6, <2>7, <2>8 DEF FirstInv
<1>2. CASE EnterPool
  <2>1. /\ UNCHANGED <<files, acFd, pmAt, pmFd, rset>> /\ fdset' = fdset \cup {acFd}
        /\ acAt \in {"create", "join"} /\ acAt' \in {"creating", "joining"}
    BY <1>2 DEF EnterPool, main
  <2> QED
    BY <2>1 DEF FirstInv
<1>3. CASE RefuseJoin
  BY <1>3 DEF RefuseJoin, Admits
<1>4. CASE ReceiveFails
  BY <1>4, FirstFrame DEF ReceiveFails, pool, accept
<1>5. CASE CreateMeeting \/ JoinMeeting \/ Announce \/ ListPartners \/ PushAccepted
  <2>1. /\ UNCHANGED <<files, fdset, acFd, pmAt, pmFd, rset>>
        /\ acAt' \in {"push", "announce", "list", "read"}
    BY <1>5 DEF CreateMeeting, JoinMeeting, Announce, ListPartners, PushAccepted, pool, main
  <2> QED
    BY <2>1 DEF FirstInv
<1> QED
  BY <1>1, <1>2, <1>3, <1>4, <1>5 DEF AcceptFd

\* The inductive step of FirstInv.
LEMMA FirstStep == TypeOK /\ CloseInv /\ FirstInv /\ [Next]_vars => FirstInv'
<1> SUFFICES ASSUME TypeOK, CloseInv, FirstInv, [Next]_vars PROVE FirstInv'
  OBVIOUS
<1>1. pmAt' # "scan" => pmFd' \notin rset'
  <2>1. CASE UNCHANGED main
    BY <2>1 DEF main, FirstInv
  <2>2. CASE ProcessMain
    BY <2>2 DEF FirstInv, ProcessMain, Select, SelectFails, StartRead, ReadData, DropData,
                ReadClosed, PushRead, TestOwner, ClearRoom, ReportEmpty, RemoveFd,
                ReportQuit, CloseFd, main
  <2>3. ~ProcessMain => UNCHANGED main
    BY DEF Next, Room, Environment, AcceptFd, SendFunc, Rest, vars, main, ReceiveFd,
           ReceiveFails, EnterPool, CreateMeeting, JoinMeeting, RefuseJoin, Announce,
           ListPartners, PushAccepted, PopMsg, LockPool, WriteTo, UnlockPool, ReadReport,
           DispatchCreate, LookUpRoom, DispatchJoin, Leave, SendData
  <2> QED
    BY <2>1, <2>2, <2>3
<1>2. CASE ~(meeting' <= 1 /\ roomstatus' = "ON")
  BY <1>1, <1>2 DEF FirstInv
<1>3. CASE meeting' <= 1 /\ roomstatus' = "ON"
  <2>1. meeting <= 1 /\ roomstatus = "ON"
    BY <1>3, FirstBefore
  <2>2. CASE ProcessMain
    BY <1>3, <2>1, <2>2, FirstMain
  <2>3. CASE AcceptFd
    BY <2>1, <2>3, FirstAccept
  <2>4. ASSUME NEW s \in Senders, SendFunc(s) PROVE FirstInv'
    BY <2>1, <2>4, FirstFrame
    DEF SendFunc, PopMsg, LockPool, WriteTo, UnlockPool, pool, accept
  <2>5. CASE Environment
    BY <2>1, <2>5, FirstFrame DEF Environment, ReadReport, DispatchCreate, LookUpRoom,
       DispatchJoin, Leave, SendData, pool, accept
  <2>6. CASE Rest \/ UNCHANGED vars
    BY <2>1, <2>6, FirstFrame DEF Rest, vars, pool, accept
  <2> QED
    BY <2>2, <2>3, <2>4, <2>5, <2>6 DEF Next, Room
<1> QED
  BY <1>2, <1>3

\* In the first meeting of a room, whatever the members do, select() is never
\* given a closed descriptor (the main loop, fdclose and accept_fd of room.cpp).
THEOREM FirstMeetingWatches == Spec => []WatchedAreOpen
<1>1. Init => FirstInv
  BY DEF Init, FirstInv
<1>2. FirstInv => WatchedAreOpen
  BY DEF FirstInv, WatchedAreOpen
<1>3. Spec => []FirstInv
  BY <1>1, FirstStep, TokensAndClose, PTL DEF Spec
<1> QED
  BY <1>2, <1>3, PTL

=============================================================================
