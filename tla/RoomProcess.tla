----------------------------- MODULE RoomProcess -----------------------------
(***************************************************************************)
(* One room process (room.cpp): the main thread that reads the members     *)
(* (process_main, fdclose), the thread that takes over the connections the *)
(* dispatcher passes down (accept_fd) and the threads that send            *)
(* (send_func), over the pool of members and the send queue they share.    *)
(*                                                                         *)
(* What is kept is the order of the steps and what each of them touches:   *)
(* which of them hold user_pool->lock, which read the pool without it, and *)
(* that a descriptor is a number the kernel hands out again once it is     *)
(* closed.  A message is a record; its payload is left out.  The queue     *)
(* blocks as module SendQueue shows it does.  A message a client sends     *)
(* arrives whole, and a write to a client ends sooner or later.            *)
(*                                                                         *)
(* The dispatcher and the clients are the environment: the dispatcher      *)
(* sends 'C' only to a room it holds for empty, and 'J' after a look at    *)
(* the room's status that may be out of date when the command is written.  *)
(***************************************************************************)
EXTENDS Integers, Sequences, FiniteSets

CONSTANTS Conns,      \* the connections, each passed to the room at most once
          Creators,   \* those whose user asked to create a meeting
          FDs,        \* descriptors the process can still open
          Senders,    \* the send_func threads
          Ips,        \* addresses of the users
          IpOf,       \* the address each connection comes from
          DataTypes,  \* what members broadcast
          Plans,      \* what the users may do: who leaves, how much each one says
          MaxSize,    \* MAXSIZE of the send queue
          Stray,      \* may what the code leaves unset (bytes of `int c' and `int
                      \* tail', `addrlen') hold anything, or does it happen to fit?
          BadIp,      \* what getpeerip answers when it cannot learn the address
          NoConn, NoIp, NoMsg, Free

ASSUME RoomAssumption ==
  /\ Creators \subseteq Conns
  /\ Plans \subseteq [Conns -> [leave : BOOLEAN, data : Nat]]
  /\ FDs \subseteq Nat \ {0}
  /\ IpOf \in [Conns -> Ips]
  /\ DataTypes \subseteq {"TEXT_RECV", "AUDIO_RECV", "IMG_RECV", "CLOSE_CAMERA"}
  /\ MaxSize \in Nat \ {0}
  /\ Stray \in BOOLEAN
  /\ NoConn \notin Conns /\ NoIp \notin Ips /\ BadIp \notin Ips \cup {NoIp}
  /\ Free \notin Senders /\ Free # "accept_fd" /\ "accept_fd" \notin Senders

MsgTypes == DataTypes \cup {"CREATE_MEETING_RESPONSE", "PARTNER_JOIN",
                            "PARTNER_JOIN2", "PARTNER_EXIT"}

Addrs == Ips \cup {NoIp, BadIp}

\* Only PARTNER_EXIT spares nobody: its targetfd is -1.
Msg == {msg \in [type : MsgTypes, target : FDs \cup {-1},
                 ip : Addrs, list : SUBSET Addrs] :
          msg.target = -1 => msg.type = "PARTNER_EXIT"}

ASSUME NoMsgAssumption == NoMsg \notin Msg

Command == [cmd : {"C", "J"}, conn : Conns]

VARIABLES
  files,                              \* the process's descriptor table
  fdset, status, owner, num, maxfd,   \* the pool; status is the set of fds ON
  fdToIp, roomstatus, lock,
  sendqueue,
  pmAt, pmFd, pmConn, rset, pmMsg,    \* process_main
  acAt, acFd, acMsg,                  \* accept_fd
  held, todo,                         \* each send_func: its message, fds left
  running,                            \* FALSE once the process called err_quit
  down, up, child_status,             \* the pipe's two directions; dispatcher
  phase, input, plan,                 \* the clients, what they sent and may still do
  partner, heard,                     \* what a client makes of what it is sent
  meeting, meetingOf,                 \* history: which meeting is on, whose is whose,
  crossed                             \* whose address was said to leave while in it

pool    == <<fdset, status, owner, num, maxfd, fdToIp, roomstatus>>
main    == <<pmAt, pmFd, pmConn, rset, pmMsg>>
accept  == <<acAt, acFd, acMsg>>
sending == <<held, todo>>
pipes   == <<down, up, child_status>>
clients == <<phase, input, plan>>
views   == <<partner, heard>>
history == <<meeting, meetingOf, crossed>>

vars == <<files, pool, lock, sendqueue, main, accept, sending, running,
          pipes, clients, views, history>>

----------------------------------------------------------------------------
IsLowest(fd, S) == fd \in S /\ \A other \in S : fd <= other

Larger(a, b) == IF a > b THEN a ELSE b      \* the macro MAX

\* fds 0..maxfd of a set: what every loop of the process runs over.
Scanned(S) == {fd \in S : fd <= maxfd}

FreeFDs == {fd \in FDs : files[fd] = NoConn}

Message(type, target, ip, list) ==
  [type |-> type, target |-> target, ip |-> ip, list |-> list]

\* A client whose connection the room gives up is out of the meeting.
Hangup(S) == phase' = [c \in Conns |-> IF c \in S THEN "gone" ELSE phase[c]]

Held(fd) == {files[fd]} \ {NoConn}

ClosedLate(fd) == files                        \* faulty: never closes

Closed(fd) == [files EXCEPT ![fd] = NoConn]

UnlockedAlways == TRUE                         \* faulty: no mutual exclusion

Unlocked == lock = Free

HasSpaceOneMore == Len(sendqueue) <= MaxSize   \* faulty: off by one

HasSpace == Len(sendqueue) < MaxSize

\* A descriptor closed under a thread that is inside read() keeps the
\* connection up until that read returns.
InRead == IF pmAt = "reading" THEN {pmConn} ELSE {}

Dangling == IF files[pmFd] = pmConn THEN {} ELSE {pmConn}

\* getpeerip: a descriptor closed in the meantime has no peer, nor has a connection its
\* client has reset; and `addrlen', not set, may say that there is no room for an address.
PeerIps(fd) ==
  IF files[fd] = NoConn THEN {BadIp}
  ELSE {IpOf[files[fd]]} \cup (IF Stray \/ phase[files[fd]] = "gone" THEN {BadIp} ELSE {})

\* Those who were let in and have not left: a descriptor closed under its owner names
\* nobody, and whoever is given it next is not in the meeting on its account.
Present ==
  {fd \in status : files[fd] # NoConn /\ meetingOf[files[fd]] = meeting}

IsExit(msg, ip) == msg.type = "PARTNER_EXIT" /\ msg.ip = ip

\* The news that the one with this address has left is not through yet.
Leaving(ip) ==
  \/ pmAt \in {"reportQ", "close", "push"} /\ IsExit(pmMsg, ip)
  \/ acAt = "push" /\ IsExit(acMsg, ip)
  \/ \E i \in DOMAIN sendqueue : IsExit(sendqueue[i], ip)
  \/ \E s \in Senders : held[s] # NoMsg /\ IsExit(held[s], ip)

\* Others in the meeting who are recorded under the address of the one being removed.
Namesakes(fd) == {g \in Present \ {fd} : fdToIp[g] = fdToIp[fd]}

Init ==
  /\ files = [fd \in FDs |-> NoConn]
  /\ fdset = {} /\ status = {} /\ owner = 0 /\ num = 0 /\ maxfd = 0
  /\ fdToIp = [fd \in FDs |-> NoIp]
  /\ roomstatus = "ON" /\ lock = Free /\ sendqueue = << >>
  /\ pmAt = "scan" /\ pmFd = 0 /\ pmConn = NoConn /\ rset = {} /\ pmMsg = NoMsg
  /\ acAt = "read" /\ acFd = 0 /\ acMsg = NoMsg
  /\ held = [s \in Senders |-> NoMsg] /\ todo = [s \in Senders |-> {}]
  /\ running = TRUE
  /\ down = << >> /\ up = << >> /\ child_status = 0
  /\ phase = [c \in Conns |-> "new"]
  /\ input = [c \in Conns |-> << >>]
  /\ plan \in Plans
  /\ partner = [c \in Conns |-> {}] /\ heard = [c \in Conns |-> {}]
  /\ meeting = 0 /\ meetingOf = [c \in Conns |-> 0] /\ crossed = {}

----------------------------------------------------------------------------
\* process_main: the select loop and the scan of its result.

\* What read() on a connection would return at once: data or end of file.
Ready(c) == input[c] # << >> \/ phase[c] = "gone"

BadFds == {fd \in Scanned(fdset) : files[fd] = NoConn}

Readable == {fd \in Scanned(fdset) \ BadFds : Ready(files[fd])}

Select ==
  /\ pmAt = "scan" /\ Scanned(rset) = {}
  /\ BadFds = {} /\ Readable # {}
  /\ rset' = Readable
  /\ UNCHANGED <<files, pool, lock, sendqueue, pmAt, pmFd, pmConn, pmMsg,
                 accept, sending, running, pipes, clients, views, history>>

\* select() fails with EBADF and the wrapper ends the process.
SelectFails ==
  /\ pmAt = "scan" /\ Scanned(rset) = {}
  /\ BadFds # {}
  /\ running' = FALSE
  /\ UNCHANGED <<files, pool, lock, sendqueue, main, accept, sending,
                 pipes, clients, views, history>>

\* Readn enters read() on whatever the descriptor names by now; once inside,
\* it stays with that connection.
StartRead ==
  /\ pmAt = "scan"
  /\ \E fd \in FDs :
       /\ IsLowest(fd, Scanned(rset))
       /\ pmFd' = fd /\ pmConn' = files[fd] /\ rset' = rset \ {fd}
  /\ pmAt' = "reading"
  /\ UNCHANGED <<files, pool, lock, sendqueue, pmMsg, accept, sending,
                 running, pipes, clients, views, history>>

\* The address is looked up in the pool, without the lock, by descriptor;
\* CLOSE_CAMERA alone keeps the one the client wrote.
ReadData ==
  /\ pmAt = "reading" /\ pmConn # NoConn /\ input[pmConn] # << >>
  /\ LET type == Head(input[pmConn])
         ip   == IF type = "CLOSE_CAMERA" THEN IpOf[pmConn] ELSE fdToIp[pmFd]
     IN  pmMsg' = Message(type, pmFd, ip, {})
  /\ input' = [input EXCEPT ![pmConn] = Tail(@)]
  /\ Hangup(Dangling)
  /\ pmAt' = "push"
  /\ UNCHANGED <<files, pool, lock, sendqueue, pmFd, pmConn, rset, accept,
                 sending, running, pipes, plan, views, history>>

\* `int tail' gets one byte read into it and is compared as a whole.
DropData ==
  /\ Stray
  /\ pmAt = "reading" /\ pmConn # NoConn /\ input[pmConn] # << >>
  /\ Head(input[pmConn]) # "CLOSE_CAMERA"
  /\ input' = [input EXCEPT ![pmConn] = Tail(@)]
  /\ Hangup(Dangling)
  /\ pmAt' = "scan"
  /\ UNCHANGED <<files, pool, lock, sendqueue, pmFd, pmConn, rset, pmMsg, accept,
                 sending, running, pipes, plan, views, history>>

ReadClosed ==
  /\ pmAt = "reading"
  /\ pmConn # NoConn => input[pmConn] = << >> /\ phase[pmConn] = "gone"
  /\ pmAt' = "closing"
  /\ UNCHANGED <<files, pool, lock, sendqueue, pmFd, pmConn, rset, pmMsg, accept,
                 sending, running, pipes, clients, views, history>>

PushRead ==
  /\ pmAt = "push" /\ HasSpace
  /\ sendqueue' = Append(sendqueue, pmMsg)
  /\ pmAt' = "scan"
  /\ UNCHANGED <<files, pool, lock, pmFd, pmConn, rset, pmMsg, accept, sending,
                 running, pipes, clients, views, history>>

----------------------------------------------------------------------------
\* fdclose

IsOwnerNever(fd) == FALSE                      \* faulty: the owner is a member

IsOwner(fd) == owner = fd

\* The owner is compared without the lock.
TestOwner ==
  /\ pmAt = "closing"
  /\ pmAt' = IF IsOwner(pmFd) THEN "clear" ELSE "remove"
  /\ UNCHANGED <<files, pool, lock, sendqueue, pmFd, pmConn, rset, pmMsg, accept,
                 sending, running, pipes, clients, views, history>>

EmptyPool ==
  /\ status' = {} /\ num' = 0 /\ owner' = 0 /\ fdset' = {}
  /\ fdToIp' = [fd \in FDs |-> NoIp]

\* clear_room: every member is hung up, and maxfd stays what it is.
ClearRoom ==
  /\ pmAt = "clear" /\ Unlocked
  /\ roomstatus' = "CLOSE"
  /\ LET members == Scanned(status)
     IN  /\ files' = [fd \in FDs |-> IF fd \in members THEN NoConn ELSE files[fd]]
         /\ Hangup(UNION {Held(fd) : fd \in members})
  /\ EmptyPool
  /\ sendqueue' = << >>
  /\ pmAt' = "reportE"
  /\ UNCHANGED <<maxfd, lock, pmFd, pmConn, rset, pmMsg, accept, sending, running,
                 pipes, input, plan, views, history>>

ReportEmpty ==
  /\ pmAt = "reportE"
  /\ up' = Append(up, "E")
  /\ pmAt' = "scan"
  /\ UNCHANGED <<files, pool, lock, sendqueue, pmFd, pmConn, rset, pmMsg, accept,
                 sending, running, down, child_status, clients, views, history>>

LoweredAlways(fd) == maxfd - 1                 \* faulty: whichever fd it was

Lowered(fd) == IF fd = maxfd THEN maxfd - 1 ELSE maxfd

UnwatchedNot(fd) == fdset                      \* faulty: FD_CLR is missing

Unwatched(fd) == fdset \ {fd}

RemoveFd ==
  /\ pmAt = "remove" /\ Unlocked
  /\ pmMsg' = Message("PARTNER_EXIT", -1, fdToIp[pmFd], {})
  /\ fdset' = Unwatched(pmFd) /\ status' = status \ {pmFd}
  /\ num' = num - 1
  /\ maxfd' = Lowered(pmFd)
  /\ pmAt' = "reportQ"
  /\ crossed' = crossed \cup {files[g] : g \in Namesakes(pmFd)}
  /\ UNCHANGED <<files, owner, fdToIp, roomstatus, lock, sendqueue, pmFd, pmConn, rset,
                 accept, sending, running, pipes, clients, views, meeting, meetingOf>>

ReportQuit ==
  /\ pmAt = "reportQ"
  /\ up' = Append(up, "Q")
  /\ pmAt' = "close"
  /\ UNCHANGED <<files, pool, lock, sendqueue, pmFd, pmConn, rset, pmMsg, accept,
                 sending, running, down, child_status, clients, views, history>>

\* Close(fd) hangs up whatever the descriptor names by now.
CloseFd ==
  /\ pmAt = "close"
  /\ files' = Closed(pmFd)
  /\ Hangup(Held(pmFd))
  /\ pmAt' = "push"
  /\ UNCHANGED <<pool, lock, sendqueue, pmFd, pmConn, rset, pmMsg, accept,
                 sending, running, pipes, input, plan, views, history>>

ProcessMain ==
  \/ Select \/ SelectFails \/ StartRead \/ ReadData \/ DropData \/ ReadClosed
  \/ PushRead \/ TestOwner \/ ClearRoom \/ ReportEmpty \/ RemoveFd \/ ReportQuit
  \/ CloseFd

----------------------------------------------------------------------------
\* accept_fd

\* read_fd: the kernel installs the connection at the lowest free descriptor.
ReceiveFd ==
  /\ acAt = "read" /\ down # << >>
  /\ \E fd \in FDs :
       /\ IsLowest(fd, FreeFDs)
       /\ acFd' = fd /\ files' = [files EXCEPT ![fd] = Head(down).conn]
  /\ down' = Tail(down)
  /\ \/ acAt' = IF Head(down).cmd = "C" THEN "create" ELSE "join"
     \/ Stray /\ acAt' = "read"       \* `int c' is neither 'C' nor 'J'
  /\ UNCHANGED <<pool, lock, sendqueue, main, acMsg, sending, running, up,
                 child_status, clients, views, history>>

\* No descriptor left to install: "no descriptor from read_fd".
ReceiveFails ==
  /\ acAt = "read" /\ down # << >> /\ FreeFDs = {}
  /\ running' = FALSE
  /\ UNCHANGED <<files, pool, lock, sendqueue, main, accept, sending,
                 pipes, clients, views, history>>

AdmitsAll == TRUE                              \* faulty: the status is not tested

Admits == roomstatus # "CLOSE"

\* The first store of the critical section, which select() may see before
\* the others.
EnterPool ==
  /\ \/ acAt = "create" /\ acAt' = "creating"
     \/ acAt = "join" /\ Admits /\ acAt' = "joining"
  /\ Unlocked /\ lock' = "accept_fd"
  /\ fdset' = fdset \cup {acFd}
  /\ UNCHANGED <<files, status, owner, num, maxfd, fdToIp, roomstatus, sendqueue,
                 main, acFd, acMsg, sending, running, pipes, clients, views, history>>

\* faulty: insert(), which leaves what is there
RecordedOnce(ip) == IF fdToIp[acFd] = NoIp THEN ip ELSE fdToIp[acFd]

Recorded(ip) == ip

\* The rest of the critical section, common to both commands; ip is getpeerip's answer.
AddMember(ip) ==
  /\ fdToIp' = [fdToIp EXCEPT ![acFd] = Recorded(ip)]
  /\ num' = num + 1
  /\ status' = status \cup {acFd}
  /\ maxfd' = Larger(maxfd, acFd)
  /\ lock' = Free
  /\ crossed' = crossed \cup (IF Leaving(ip) THEN Held(acFd) ELSE {})

CreateMeeting ==
  /\ acAt = "creating"
  /\ \E ip \in PeerIps(acFd) : AddMember(ip)
  /\ owner' = acFd /\ roomstatus' = "ON"
  /\ acMsg' = Message("CREATE_MEETING_RESPONSE", acFd, NoIp, {})
  /\ acAt' = "push"
  /\ meeting' = meeting + 1
  /\ meetingOf' = [c \in Conns |-> IF c \in Held(acFd) THEN meeting' ELSE meetingOf[c]]
  /\ UNCHANGED <<files, fdset, sendqueue, main, acFd, sending, running, pipes,
                 clients, views>>

JoinMeeting ==
  /\ acAt = "joining"
  /\ \E ip \in PeerIps(acFd) : AddMember(ip)
  /\ acAt' = "announce"
  /\ meetingOf' = [c \in Conns |-> IF c \in Held(acFd) THEN meeting ELSE meetingOf[c]]
  /\ UNCHANGED <<files, fdset, owner, roomstatus, sendqueue, main, acFd, acMsg,
                 sending, running, pipes, clients, views, meeting>>

\* The owner closed the meeting before the command was read.
RefuseJoin ==
  /\ acAt = "join" /\ Unlocked /\ ~Admits
  /\ files' = Closed(acFd)
  /\ Hangup(Held(acFd) \ InRead)
  /\ acAt' = "read"
  /\ UNCHANGED <<pool, lock, sendqueue, main, acFd, acMsg, sending, running,
                 pipes, input, plan, views, history>>

\* Both announcements are put together without the lock.
Announce ==
  /\ acAt = "announce"
  /\ acMsg' = Message("PARTNER_JOIN", acFd, fdToIp[acFd], {})
  /\ acAt' = "push"
  /\ UNCHANGED <<files, pool, lock, sendqueue, main, acFd, sending, running,
                 pipes, clients, views, history>>

ListPartners ==
  /\ acAt = "list"
  /\ acMsg' = Message("PARTNER_JOIN2", acFd, NoIp,
                      {fdToIp[fd] : fd \in Scanned(status) \ {acFd}})
  /\ acAt' = "push"
  /\ UNCHANGED <<files, pool, lock, sendqueue, main, acFd, sending, running,
                 pipes, clients, views, history>>

\* faulty: the one who joins is not told of the others
PushAcceptedOnce ==
  /\ acAt = "push" /\ HasSpace
  /\ sendqueue' = Append(sendqueue, acMsg)
  /\ acAt' = "read"
  /\ UNCHANGED <<files, pool, lock, main, acFd, acMsg, sending, running,
                 pipes, clients, views, history>>

PushAccepted ==
  /\ acAt = "push" /\ HasSpace
  /\ sendqueue' = Append(sendqueue, acMsg)
  /\ acAt' = IF acMsg.type = "PARTNER_JOIN" THEN "list" ELSE "read"
  /\ UNCHANGED <<files, pool, lock, main, acFd, acMsg, sending, running,
                 pipes, clients, views, history>>

AcceptFd ==
  \/ ReceiveFd \/ ReceiveFails \/ EnterPool \/ CreateMeeting \/ JoinMeeting
  \/ RefuseJoin \/ Announce \/ ListPartners \/ PushAccepted

----------------------------------------------------------------------------
\* send_func: a message is popped before the lock is taken.

PopMsg(s) ==
  /\ held[s] = NoMsg /\ sendqueue # << >>
  /\ held' = [held EXCEPT ![s] = Head(sendqueue)]
  /\ sendqueue' = Tail(sendqueue)
  /\ UNCHANGED <<files, pool, lock, main, accept, todo, running, pipes, clients,
                 views, history>>

\* faulty: the last descriptor is left out
TargetsShort(msg) ==
  CASE msg.type = "CREATE_MEETING_RESPONSE" -> {msg.target}
    [] msg.type = "PARTNER_JOIN2" -> Scanned(status) \cap {msg.target}
    [] OTHER -> Scanned(status) \ {msg.target, maxfd}

Targets(msg) ==
  CASE msg.type = "CREATE_MEETING_RESPONSE" -> {msg.target}
    [] msg.type = "PARTNER_JOIN2" -> Scanned(status) \cap {msg.target}
    [] OTHER -> Scanned(status) \ {msg.target}

LockPool(s) ==
  /\ held[s] # NoMsg /\ Unlocked
  /\ lock' = s
  /\ todo' = [todo EXCEPT ![s] = Targets(held[s])]
  /\ UNCHANGED <<files, pool, sendqueue, main, accept, held, running, pipes,
                 clients, views, history>>

\* What the client does with a message that reaches it (Widget::datasolve).
Handle(c, msg) ==
  /\ phase' = [phase EXCEPT ![c] =
                 IF msg.type = "CREATE_MEETING_RESPONSE" THEN "in" ELSE @]
  /\ partner' = [partner EXCEPT ![c] =
       CASE msg.type \in {"PARTNER_JOIN", "IMG_RECV"} -> @ \cup {msg.ip}
         [] msg.type = "PARTNER_JOIN2" -> @ \cup msg.list
         [] msg.type = "PARTNER_EXIT" -> @ \ {msg.ip}
         [] OTHER -> @]
  /\ heard' = [heard EXCEPT ![c] =
                 IF msg.type \in DataTypes THEN @ \cup {msg.ip} ELSE @]

\* writen to one member; a write to a closed descriptor or to a client that
\* has gone fails and is passed over.
WriteTo(s) ==
  /\ lock = s
  /\ \E fd \in FDs :
       /\ IsLowest(fd, todo[s])
       /\ todo' = [todo EXCEPT ![s] = @ \ {fd}]
       /\ \/ /\ files[fd] # NoConn /\ phase[files[fd]] # "gone"
             /\ Handle(files[fd], held[s])
          \/ /\ files[fd] # NoConn => phase[files[fd]] = "gone"
             /\ UNCHANGED <<phase, partner, heard>>
  /\ UNCHANGED <<files, pool, lock, sendqueue, main, accept, held, running, pipes,
                 input, plan, history>>

UnlockPool(s) ==
  /\ lock = s /\ todo[s] = {}
  /\ lock' = Free
  /\ held' = [held EXCEPT ![s] = NoMsg]
  /\ UNCHANGED <<files, pool, sendqueue, main, accept, todo, running, pipes,
                 clients, views, history>>

SendFunc(s) == PopMsg(s) \/ LockPool(s) \/ WriteTo(s) \/ UnlockPool(s)

----------------------------------------------------------------------------
\* The environment: the dispatcher (main.cpp, userdeal.cpp) and the clients.

DispatchCreate(c) ==
  /\ c \in Creators /\ phase[c] = "new" /\ child_status = 0
  /\ child_status' = 1
  /\ down' = Append(down, [cmd |-> "C", conn |-> c])
  /\ phase' = [phase EXCEPT ![c] = "asked"]
  /\ UNCHANGED <<files, pool, lock, sendqueue, main, accept, sending, running,
                 up, input, plan, views, history>>

LookUpRoom(c) ==
  /\ c \notin Creators /\ phase[c] = "new" /\ child_status = 1
  /\ phase' = [phase EXCEPT ![c] = "asked"]
  /\ UNCHANGED <<files, pool, lock, sendqueue, main, accept, sending, running,
                 pipes, input, plan, views, history>>

DispatchJoin(c) ==
  /\ c \notin Creators /\ phase[c] = "asked"
  /\ down' = Append(down, [cmd |-> "J", conn |-> c])
  /\ phase' = [phase EXCEPT ![c] = "in"]
  /\ UNCHANGED <<files, pool, lock, sendqueue, main, accept, sending, running,
                 up, child_status, input, plan, views, history>>

ReadReport ==
  /\ up # << >>
  /\ up' = Tail(up)
  /\ child_status' = IF Head(up) = "E" THEN 0 ELSE child_status
  /\ UNCHANGED <<files, pool, lock, sendqueue, main, accept, sending, running,
                 down, clients, views, history>>

SendData(c, type) ==
  /\ phase[c] = "in" /\ plan[c].data > 0
  /\ plan' = [plan EXCEPT ![c].data = @ - 1]
  /\ input' = [input EXCEPT ![c] = Append(@, type)]
  /\ UNCHANGED <<files, pool, lock, sendqueue, main, accept, sending, running,
                 pipes, phase, views, history>>

Leave(c) ==
  /\ plan[c].leave
  /\ phase[c] = "in" \/ (phase[c] = "asked" /\ c \in Creators)
  /\ phase' = [phase EXCEPT ![c] = "gone"]
  /\ UNCHANGED <<files, pool, lock, sendqueue, main, accept, sending, running,
                 pipes, input, plan, views, history>>

Environment ==
  \/ ReadReport
  \/ \E c \in Conns :
       \/ DispatchCreate(c) \/ LookUpRoom(c) \/ DispatchJoin(c) \/ Leave(c)
       \/ \E type \in DataTypes : SendData(c, type)

----------------------------------------------------------------------------
\* Inside the read of a member who says nothing.
MainBlocked == pmAt = "reading" /\ pmConn # NoConn /\ ~Ready(pmConn)

\* Nothing the room was given is left undone.
Quiescent ==
  /\ \/ pmAt = "scan" /\ Scanned(rset) = {} /\ Readable = {} /\ BadFds = {}
     \/ MainBlocked
  /\ acAt = "read" /\ down = << >> /\ up = << >>
  /\ sendqueue = << >> /\ \A s \in Senders : held[s] = NoMsg

Rest == (Quiescent \/ ~running) /\ UNCHANGED vars

Room == running /\ (ProcessMain \/ AcceptFd \/ \E s \in Senders : SendFunc(s))

Next == Room \/ (running /\ Environment) \/ Rest

Spec == Init /\ [][Next]_vars

\* Every thread of the room and of the dispatcher that can run does; the
\* clients need not do anything.
Fairness ==
  /\ WF_vars(running /\ ProcessMain)
  /\ WF_vars(running /\ AcceptFd)
  /\ \A s \in Senders : WF_vars(running /\ SendFunc(s))
  /\ WF_vars(running /\ ReadReport)
  /\ \A c \in Conns : WF_vars(running /\ DispatchJoin(c))

LiveSpec == Spec /\ Fairness

----------------------------------------------------------------------------
PoolType ==
  /\ files \in [FDs -> Conns \cup {NoConn}]
  /\ fdset \subseteq FDs /\ status \subseteq FDs
  /\ owner \in FDs \cup {0} /\ num \in Int /\ maxfd \in Nat
  /\ fdToIp \in [FDs -> Addrs]
  /\ roomstatus \in {"ON", "CLOSE"}
  /\ lock \in Senders \cup {Free, "accept_fd"}

QueueType == sendqueue \in Seq(Msg) /\ Len(sendqueue) <= MaxSize

MainType ==
  /\ pmAt \in {"scan", "reading", "push", "closing", "clear", "reportE",
               "remove", "reportQ", "close"}
  /\ pmFd \in FDs \cup {0} /\ (pmAt # "scan" => pmFd \in FDs)
  /\ pmConn \in Conns \cup {NoConn} /\ rset \subseteq FDs
  /\ pmMsg \in Msg \cup {NoMsg}
  /\ pmAt \in {"push", "reportQ", "close"} => pmMsg \in Msg

AcceptType ==
  /\ acAt \in {"read", "create", "creating", "join", "joining", "announce",
               "list", "push"}
  /\ acFd \in FDs \cup {0} /\ (acAt # "read" => acFd \in FDs)
  /\ acMsg \in Msg \cup {NoMsg} /\ (acAt = "push" => acMsg \in Msg)
  /\ lock = "accept_fd" <=> acAt \in {"creating", "joining"}

SendType ==
  /\ held \in [Senders -> Msg \cup {NoMsg}]
  /\ todo \in [Senders -> SUBSET FDs]
  /\ lock \in Senders => held[lock] # NoMsg

OutsideType ==
  /\ running \in BOOLEAN
  /\ down \in Seq(Command)
  /\ up \in Seq({"E", "Q"}) /\ child_status \in {0, 1}
  /\ input \in [Conns -> Seq(DataTypes)]
  /\ plan \in [Conns -> [leave : BOOLEAN, data : Nat]]

ClientType ==
  /\ phase \in [Conns -> {"new", "asked", "in", "gone"}]
  /\ partner \in [Conns -> SUBSET Addrs] /\ heard \in [Conns -> SUBSET Addrs]
  /\ meeting \in Nat /\ meetingOf \in [Conns -> Nat] /\ crossed \subseteq Conns

\* Every thread is at a known place, with the descriptor and the message it
\* needs there, and the one that holds the lock is where it may hold it.
TypeOK ==
  /\ PoolType /\ QueueType /\ MainType /\ AcceptType
  /\ SendType /\ OutsideType /\ ClientType

----------------------------------------------------------------------------
\* What every thread may rely on.

\* maxfd bounds every loop over the pool (select, clear_room, the sends), yet
\* it is lowered by one descriptor at a time, never by clear_room, and read
\* without the lock.  No member and no watched descriptor lies beyond it,
\* except the one accept_fd is about to count in.
MaxfdCoversMembers ==
  /\ status \subseteq 0..maxfd
  /\ fdset \subseteq 0..maxfd \cup (IF lock = "accept_fd" THEN {acFd} ELSE {})

\* A broadcast takes many writes.  Until it is through, nobody is added to the
\* pool or taken from it: what is left to do stays within the current members.
SendsToMembers ==
  \A s \in Senders : lock = s => todo[s] \subseteq Targets(held[s])

\* The dispatcher gives the room away on an 'E'.  From the moment process_main
\* is about to write it until the dispatcher has read it, no late 'J' gets a
\* member into the room.
EmptyWhenReported ==
  pmAt = "reportE" \/ "E" \in {up[i] : i \in DOMAIN up} =>
    roomstatus = "CLOSE" /\ status = {} /\ fdset = {} /\ owner = 0

\* Everybody who was let into the pool is there for the meeting that is on, also
\* after the room was emptied and given to the next user who creates one.
OneMeeting ==
  \A fd \in status : files[fd] # NoConn => meetingOf[files[fd]] \in {0, meeting}

\* Whenever the room has nothing left to do, each member who is still there has been
\* told of every other member under the address recorded for him: PARTNER_JOIN to those
\* who were in, PARTNER_JOIN2 to the one who came, and no PARTNER_EXIT of somebody else
\* in between.  But for one case: a member may be missing when somebody of the same
\* address was on his way out while he was in (a user who comes back at once, two whose
\* address is unknown), for his name is struck off by the other's PARTNER_EXIT.
NobodyMissing ==
  Quiescent =>
    \A fd, other \in Present :
      fd # other /\ phase[files[fd]] # "gone" /\ files[other] \notin crossed
        => fdToIp[other] \in partner[files[fd]]

\* Whose descriptor has been closed under him is out of the meeting, although
\* counted; who is given that descriptor next is not in it before he is let in.
Admitted ==
  {fd \in status : files[fd] # NoConn /\ meeting > 0 /\ meetingOf[files[fd]] = meeting}

\* The room behaves as a meeting (module Meeting).
PublicMeeting ==
  INSTANCE Meeting WITH People <- Conns,
                        on <- meeting > 0 /\ roomstatus = "ON",
                        members <- {files[fd] : fd \in Admitted}

IsAMeeting == PublicMeeting!Spec

\* In the first meeting of a room select() never fails on a descriptor closed
\* under it: a number is out of fdset before it is closed and may come back for
\* somebody else only after that.  (After a clear_room it may: the main thread
\* goes on closing descriptors through its old result.)
WatchedAreOpen ==
  meeting <= 1 /\ roomstatus = "ON" => \A fd \in fdset : files[fd] # NoConn

\* What somebody says goes out under the address recorded for his descriptor, a number
\* others had before him and whose entry is not erased when one of them leaves.  From the
\* end of accept_fd's critical section on, that address is his own or unknown.  What he
\* says between FD_SET and the store, or is read through a descriptor that has changed
\* hands, may go out under another's: but of somebody of this meeting, never of an
\* earlier one.
SpeakerIsNamed ==
  [][ReadData /\ pmMsg'.type # "CLOSE_CAMERA" =>
       \/ pmMsg'.ip \in {IpOf[pmConn], BadIp}
       \/ /\ ~(pmFd \in Admitted /\ files[pmFd] = pmConn)
          /\ \/ pmMsg'.ip = NoIp
             \/ \E c \in Conns : meetingOf[c] = meeting /\ pmMsg'.ip = IpOf[c]]_vars

\* An owner who hangs up ends the meeting, once he is recorded and fdclose has
\* not been reached for him, unless process_main is kept inside a read.
EndsWithOwner ==
  \A c \in Creators :
    (/\ phase[c] = "gone" /\ owner \in status /\ files[owner] = c
     /\ pmAt \in {"scan", "reading"})
      ~> (roomstatus = "CLOSE" \/ MainBlocked \/ ~running)

\* A user in the room who has gone is noticed and no descriptor stays open for
\* him, unless process_main is kept inside the read of another one who says
\* nothing.
GoneAreDropped ==
  \A c \in Conns :
    (phase[c] = "gone" /\ \E fd \in fdset : files[fd] = c)
      ~> (MainBlocked \/ ~running \/ \A fd \in FDs : files[fd] # c)

Speakers == {c \in Conns : \E p \in Plans : p[c].data > 0}

\* A text in the send queue reaches everybody, the owner too, who is in the room then
\* and does not sit at the descriptor it was read from, unless he goes or the process
\* ends.
TextReachesMembers ==
  \A c \in Speakers : \A d \in Conns \ {c} :
    (\E i \in DOMAIN sendqueue : \E fd \in status :
       /\ sendqueue[i].type = "TEXT_RECV" /\ sendqueue[i].ip = IpOf[c]
       /\ files[fd] = d /\ fd # sendqueue[i].target)
      ~> (IpOf[c] \in heard[d] \/ phase[d] = "gone" \/ ~running)

\* "used to record the room's users" (widget.h:56): once the room has nothing
\* left to do, a client's list names members only.
NoGhosts ==
  Quiescent =>
    \A fd \in status : files[fd] # NoConn
      => partner[files[fd]]
           \subseteq {fdToIp[other] : other \in {g \in status : files[g] # NoConn}}

\* A text goes to the people of the meeting it was written in (README.md:19
\* of the client).
TextStaysInMeeting ==
  \A c \in Conns : \A ip \in heard[c] \cap Ips :
    \E d \in Conns : IpOf[d] = ip /\ meetingOf[d] = meetingOf[c]
=============================================================================
