------------------------------ MODULE Dispatcher ------------------------------
(***************************************************************************)
(* The parent process: the worker threads that serve the users before they *)
(* are in a meeting (thread_main, dowithuser of userdeal.cpp) and the main *)
(* thread that reads the rooms' reports (main.cpp), over the table of      *)
(* rooms they share (struct Room of unpthread.h).                          *)
(*                                                                         *)
(* What is kept is which steps hold room->lock and which read the table    *)
(* without it, the order in which the table, the pipe to the room and the  *)
(* connection to the user are written, and that a worker stays with its    *)
(* user until the connection is passed on or closed.  A request or an      *)
(* answer is read or written as a whole; those in a wrong format, which    *)
(* are skipped, are left out.                                              *)
(*                                                                         *)
(* A room process is here what module Meeting says of it: it takes the     *)
(* connections in the order they were passed, refuses a 'J' while its      *)
(* meeting is over, and reports 'Q' for every member who leaves and 'E'    *)
(* for the owner.  Three things it does besides, as module RoomProcess     *)
(* shows: it takes a command for nothing if the bytes beside it are not    *)
(* zero; it takes an owner for a member who is gone before he is recorded; *)
(* and after an 'E' it closes some of the descriptors of those it has put  *)
(* out once more, late, because process_main goes on through a result of   *)
(* select() that names them, whoever has been given them since.            *)
(***************************************************************************)
EXTENDS Integers, Sequences, FiniteSets

CONSTANTS Users,       \* who use the service, one connection each at a time
          Threads,     \* the worker threads
          nprocesses,  \* the number of rooms
          MaxTotal,    \* members a room is declared full at (1024)
          MaxVisits,   \* how often one user connects, at most
          Stray,       \* may the unset bytes of accept_fd's `int c' hold anything?
          NoUser, Free, Main

ASSUME DispatcherAssumption ==
  /\ IsFiniteSet(Users) /\ IsFiniteSet(Threads)
  /\ nprocesses \in Nat \ {0} /\ MaxTotal \in Nat \ {0} /\ MaxVisits \in Nat
  /\ Stray \in BOOLEAN /\ NoUser \notin Users
  /\ Free \notin Threads /\ Main \notin Threads /\ Free # Main

Rooms == 1..nprocesses

VARIABLES
  navail, child_status, total,  \* struct Room and its Process entries
  lock,                         \* room->lock
  at, user, room,               \* each worker: where, with whom, for which room
  mainAt,                       \* the main thread, and the room it serves
  running,                      \* FALSE once a signal or err_quit ended it
  down, up,                     \* the pipe to and from each room
  roomstatus, on,               \* each room's status, and is its meeting on?
  owner, members,               \* who is in it
  stale,                        \* its late closings still to come, at most
  dropped,                      \* history: rooms whose 'C' was taken for nothing
  where, left, visits           \* users: place, who hung up, connections made

table   == <<navail, child_status, total>>
workers == <<at, user, room>>
pipes   == <<down, up>>
rooms   == <<roomstatus, on, owner, members, stale, dropped>>
users   == <<where, left, visits>>

vars == <<table, lock, workers, mainAt, running, pipes, rooms, users>>

----------------------------------------------------------------------------
IsLowest(r, S) == r \in S /\ \A other \in S : r <= other

UnlockedAlways == TRUE                          \* faulty: no mutual exclusion

Unlocked == lock = Free

Vacant == {r \in Rooms : child_status[r] = 0}

Goes(t, place) == at' = [at EXCEPT ![t] = place]

\* The connections of S are closed on the server's side.
GoHome(S) ==
  /\ where' = [u \in Users |-> IF u \in S THEN "home" ELSE where[u]]
  /\ left' = left \ S

Init ==
  /\ navail = nprocesses
  /\ child_status = [r \in Rooms |-> 0] /\ total = [r \in Rooms |-> 0]
  /\ lock = Free
  /\ at = [t \in Threads |-> "accept"]
  /\ user = [t \in Threads |-> NoUser] /\ room = [t \in Threads |-> 0]
  /\ mainAt = 0 /\ running = TRUE
  /\ down = [r \in Rooms |-> << >>] /\ up = [r \in Rooms |-> << >>]
  /\ roomstatus = [r \in Rooms |-> "ON"] /\ on = [r \in Rooms |-> FALSE]
  /\ owner = [r \in Rooms |-> NoUser] /\ members = [r \in Rooms |-> {}]
  /\ stale = [r \in Rooms |-> 0] /\ dropped = {}
  /\ where = [u \in Users |-> "home"] /\ left = {}
  /\ visits = [u \in Users |-> 0]

----------------------------------------------------------------------------
\* thread_main and the reading loop of dowithuser.

Accept(t, u) ==
  /\ at[t] = "accept" /\ where[u] = "knocking"
  /\ Goes(t, "read")
  /\ user' = [user EXCEPT ![t] = u]
  /\ where' = [where EXCEPT ![u] = "served"]
  /\ UNCHANGED <<table, lock, room, mainAt, running, pipes, rooms, left, visits>>

\* The user asks to create a meeting, or to join the one of room r.
ReadCreate(t) ==
  /\ at[t] = "read" /\ user[t] \notin left
  /\ Goes(t, "create")
  /\ UNCHANGED <<table, lock, user, room, mainAt, running, pipes, rooms, users>>

ReadJoin(t, r) ==
  /\ at[t] = "read" /\ user[t] \notin left
  /\ Goes(t, "join")
  /\ room' = [room EXCEPT ![t] = r]
  /\ UNCHANGED <<table, lock, user, mainAt, running, pipes, rooms, users>>

ReadClosed(t) ==
  /\ at[t] = "read" /\ user[t] \in left
  /\ Goes(t, "accept")
  /\ GoHome({user[t]})
  /\ user' = [user EXCEPT ![t] = NoUser]
  /\ UNCHANGED <<table, lock, room, mainAt, running, pipes, rooms, visits>>

----------------------------------------------------------------------------
\* writetofd: the answer reaches a user who is there.  To one who has hung up
\* it is lost, or its SIGPIPE, which only the rooms ignore, ends the process.
Answer(u) ==
  running' \in IF u \in left THEN {TRUE, FALSE} ELSE {TRUE}

\* CREATE_MEETING.  navail is read without the lock.
TestAvail(t) ==
  /\ at[t] = "create"
  /\ Goes(t, IF navail <= 0 THEN "answerNoRoom" ELSE "lockCreate")
  /\ UNCHANGED <<table, lock, user, room, mainAt, running, pipes, rooms, users>>

\* Answered with the lock held if the scan found none.
AnswerNoRoom(t) ==
  /\ at[t] = "answerNoRoom"
  /\ Answer(user[t])
  /\ Goes(t, "read")
  /\ lock' = IF lock = t THEN Free ELSE lock
  /\ UNCHANGED <<table, user, room, mainAt, pipes, rooms, where, left, visits>>

\* faulty: tries again instead of giving an answer
FindNoneRetries(t) ==
  /\ at[t] = "lockCreate" /\ Unlocked /\ Vacant = {}
  /\ UNCHANGED vars

FindNone(t) ==
  /\ at[t] = "lockCreate" /\ Unlocked /\ lock' = t
  /\ Vacant = {}
  /\ Goes(t, "answerNoRoom")
  /\ UNCHANGED <<table, user, room, mainAt, running, pipes, rooms, users>>

PassOn(t, r, cmd) ==
  /\ down' = [down EXCEPT ![r] = Append(@, [cmd |-> cmd, user |-> user[t]])]
  /\ where' = [where EXCEPT ![user[t]] = "passed"]

\* The connection is passed to the room before the table says so.  A user who
\* has hung up is passed on all the same; the room finds out.
PassCreate(t) ==
  /\ at[t] = "lockCreate" /\ Unlocked /\ lock' = t
  /\ \E r \in Rooms :
       /\ IsLowest(r, Vacant)
       /\ room' = [room EXCEPT ![t] = r]
       /\ PassOn(t, r, "C")
  /\ Goes(t, "occupy")
  /\ UNCHANGED <<table, user, mainAt, running, up, rooms, left, visits>>

\* faulty: does not mark the room
OccupyNot(t) ==
  /\ at[t] = "occupy"
  /\ Goes(t, "countCreate")
  /\ UNCHANGED <<table, lock, user, room, mainAt, running, pipes, rooms, users>>

Occupy(t) ==
  /\ at[t] = "occupy"
  /\ child_status' = [child_status EXCEPT ![room[t]] = 1]
  /\ Goes(t, "countCreate")
  /\ UNCHANGED <<navail, total, lock, user, room, mainAt, running, pipes, rooms,
                 users>>

CountCreate(t) ==
  /\ at[t] = "countCreate"
  /\ navail' = navail - 1
  /\ total' = [total EXCEPT ![room[t]] = @ + 1]
  /\ lock' = Free
  /\ Goes(t, "accept")
  /\ user' = [user EXCEPT ![t] = NoUser]
  /\ UNCHANGED <<child_status, room, mainAt, running, pipes, rooms, users>>

----------------------------------------------------------------------------
\* JOIN_MEETING.  The room is looked up, and its total read, without the lock.

LookUp(t) ==
  /\ at[t] = "join"
  /\ Goes(t, IF child_status[room[t]] = 1 THEN "testFull" ELSE "answerNone")
  /\ UNCHANGED <<table, lock, user, room, mainAt, running, pipes, rooms, users>>

AnswerNone(t) ==
  /\ at[t] = "answerNone"
  /\ Answer(user[t])
  /\ Goes(t, "read")
  /\ UNCHANGED <<table, lock, user, room, mainAt, pipes, rooms, where, left, visits>>

HasSeatOneMore(r) == total[r] <= MaxTotal      \* faulty: off by one

HasSeat(r) == total[r] < MaxTotal

TestFull(t) ==
  /\ at[t] = "testFull"
  /\ Goes(t, IF HasSeat(room[t]) THEN "lockJoin" ELSE "answerFull")
  /\ UNCHANGED <<table, lock, user, room, mainAt, running, pipes, rooms, users>>

AnswerFull(t) ==
  /\ at[t] = "answerFull"
  /\ Answer(user[t])
  /\ Goes(t, "read")
  /\ UNCHANGED <<table, lock, user, room, mainAt, pipes, rooms, where, left, visits>>

PassJoin(t) ==
  /\ at[t] = "lockJoin" /\ Unlocked /\ lock' = t
  /\ PassOn(t, room[t], "J")
  /\ Goes(t, "answerJoin")
  /\ UNCHANGED <<table, user, room, mainAt, running, up, rooms, left, visits>>

\* The answer goes out after the room may have taken the connection over.
AnswerJoin(t) ==
  /\ at[t] = "answerJoin"
  /\ Answer(user[t])
  /\ Goes(t, "countJoin")
  /\ UNCHANGED <<table, lock, user, room, mainAt, pipes, rooms, where, left, visits>>

\* faulty: the member is not counted
CountJoinNot(t) ==
  /\ at[t] = "countJoin"
  /\ lock' = Free
  /\ Goes(t, "accept")
  /\ user' = [user EXCEPT ![t] = NoUser]
  /\ UNCHANGED <<table, room, mainAt, running, pipes, rooms, users>>

CountJoin(t) ==
  /\ at[t] = "countJoin"
  /\ total' = [total EXCEPT ![room[t]] = @ + 1]
  /\ lock' = Free
  /\ Goes(t, "accept")
  /\ user' = [user EXCEPT ![t] = NoUser]
  /\ UNCHANGED <<navail, child_status, room, mainAt, running, pipes, rooms, users>>

\* write_fd fails: the request goes without an answer.
PassFails(t) ==
  /\ \/ at[t] = "lockCreate" /\ Vacant # {}
     \/ at[t] = "lockJoin"
  /\ Unlocked
  /\ Goes(t, "read")
  /\ UNCHANGED <<table, lock, user, room, mainAt, running, pipes, rooms, users>>

Worker(t) ==
  \/ \E u \in Users : Accept(t, u)
  \/ ReadCreate(t) \/ ReadClosed(t) \/ \E r \in Rooms : ReadJoin(t, r)
  \/ TestAvail(t) \/ FindNone(t) \/ AnswerNoRoom(t)
  \/ PassCreate(t) \/ Occupy(t) \/ CountCreate(t)
  \/ LookUp(t) \/ AnswerNone(t) \/ TestFull(t) \/ AnswerFull(t)
  \/ PassJoin(t) \/ AnswerJoin(t) \/ CountJoin(t) \/ PassFails(t)

----------------------------------------------------------------------------
\* main: the reports of the rooms.

Report(r, rc) == up[r] # << >> /\ Head(up[r]) = rc /\ up' = [up EXCEPT ![r] = Tail(@)]

\* faulty: the room is counted but not marked
FreeRoomNot(r) ==
  /\ mainAt = 0 /\ Unlocked /\ lock' = Main
  /\ Report(r, "E")
  /\ mainAt' = r
  /\ UNCHANGED <<table, workers, running, down, rooms, users>>

\* 'E', "room empty": the room is free again.  total is left as it is.
FreeRoom(r) ==
  /\ mainAt = 0 /\ Unlocked /\ lock' = Main
  /\ Report(r, "E")
  /\ child_status' = [child_status EXCEPT ![r] = 0]
  /\ mainAt' = r
  /\ UNCHANGED <<navail, total, workers, running, down, rooms, users>>

\* faulty: the room is not counted
CountRoomNot ==
  /\ mainAt # 0
  /\ lock' = Free /\ mainAt' = 0
  /\ UNCHANGED <<table, workers, running, pipes, rooms, users>>

CountRoom ==
  /\ mainAt # 0
  /\ navail' = navail + 1
  /\ lock' = Free /\ mainAt' = 0
  /\ UNCHANGED <<child_status, total, workers, running, pipes, rooms, users>>

\* 'Q', "partner quit"
CountQuit(r) ==
  /\ mainAt = 0 /\ Unlocked
  /\ Report(r, "Q")
  /\ total' = [total EXCEPT ![r] = @ - 1]
  /\ UNCHANGED <<navail, child_status, lock, workers, mainAt, running, down, rooms,
                 users>>

\* A room's process has ended (module RoomProcess shows how it may): main reads
\* the end of its pipe and quits.
LoseRoom ==
  /\ running' = FALSE
  /\ UNCHANGED <<table, lock, workers, mainAt, pipes, rooms, users>>

MainThread == CountRoom \/ \E r \in Rooms : FreeRoom(r) \/ CountQuit(r)

----------------------------------------------------------------------------
\* The rooms, as the dispatcher sees them.

Take(r, cmd) ==
  /\ down[r] # << >> /\ Head(down[r]).cmd = cmd
  /\ down' = [down EXCEPT ![r] = Tail(@)]

Enter(r, u) ==
  /\ members' = [members EXCEPT ![r] = @ \cup {u}]
  /\ where' = [where EXCEPT ![u] = "in"]

TakeCreate(r) ==
  /\ Take(r, "C")
  /\ LET u == Head(down[r]).user
     IN  /\ Enter(r, u)
         /\ owner' = [owner EXCEPT ![r] = u]
  /\ on' = [on EXCEPT ![r] = TRUE] /\ roomstatus' = [roomstatus EXCEPT ![r] = "ON"]
  /\ UNCHANGED <<table, lock, workers, mainAt, running, up, stale, dropped, left, visits>>

\* The owner is gone, or a late closing hits his descriptor, between FD_SET and the store
\* of the owner: he leaves as a member, and his meeting goes on without him.
MissOwner(r) ==
  /\ Take(r, "C")
  /\ \/ Head(down[r]).user \in left /\ UNCHANGED stale
     \/ stale[r] > 0 /\ stale' = [stale EXCEPT ![r] = @ - 1]
  /\ up' = [up EXCEPT ![r] = Append(@, "Q")]
  /\ GoHome({Head(down[r]).user})
  /\ on' = [on EXCEPT ![r] = TRUE] /\ roomstatus' = [roomstatus EXCEPT ![r] = "ON"]
  /\ UNCHANGED <<table, lock, workers, mainAt, running, owner, members, dropped, visits>>

\* Who is given the descriptor of such an owner is taken for him.
TakeJoin(r) ==
  /\ roomstatus[r] # "CLOSE" /\ Take(r, "J")
  /\ LET u == Head(down[r]).user
     IN  /\ Enter(r, u)
         /\ \/ UNCHANGED owner
            \/ on[r] /\ owner[r] = NoUser /\ owner' = [owner EXCEPT ![r] = u]
  /\ UNCHANGED <<table, lock, workers, mainAt, running, up, roomstatus, on, stale, dropped,
                 left, visits>>

Refuse(r) ==
  /\ roomstatus[r] = "CLOSE" /\ Take(r, "J")
  /\ GoHome({Head(down[r]).user})
  /\ UNCHANGED <<table, lock, workers, mainAt, running, up, rooms, visits>>

\* The command is neither 'C' nor 'J' to the room, which keeps the connection and never
\* reads it.
Drop(r) ==
  /\ Stray
  /\ \/ Take(r, "C") /\ dropped' = dropped \cup {r}
     \/ Take(r, "J") /\ UNCHANGED dropped
  /\ where' = [where EXCEPT ![Head(down[r]).user] = "lost"]
  /\ UNCHANGED <<table, lock, workers, mainAt, running, up, roomstatus, on, owner, members,
                 stale, left, visits>>

Quit(r, u) ==
  /\ u \in members[r] \cap left /\ u # owner[r]
  /\ up' = [up EXCEPT ![r] = Append(@, "Q")]
  /\ members' = [members EXCEPT ![r] = @ \ {u}]
  /\ GoHome({u})
  /\ UNCHANGED <<table, lock, workers, mainAt, running, down, roomstatus, on, owner, stale,
                 dropped, visits>>

\* clear_room and its report; `old' is how many late closings are left of earlier ones.
ClearRoom(r, old) ==
  /\ up' = [up EXCEPT ![r] = Append(@, "E")]
  /\ members' = [members EXCEPT ![r] = {}]
  /\ \E late \in 0..Cardinality(members[r]) - 1 : stale' = [stale EXCEPT ![r] = old + late]
  /\ GoHome(members[r])
  /\ on' = [on EXCEPT ![r] = FALSE] /\ roomstatus' = [roomstatus EXCEPT ![r] = "CLOSE"]
  /\ owner' = [owner EXCEPT ![r] = NoUser]
  /\ UNCHANGED <<table, lock, workers, mainAt, running, down, dropped, visits>>

End(r) ==
  /\ on[r] /\ owner[r] \in left
  /\ ClearRoom(r, stale[r])

\* The read of a descriptor closed by clear_room fails.  By the time it is closed again it
\* may be the owner's of the next meeting, another member's or nobody's.
EndLate(r) ==
  /\ on[r] /\ owner[r] # NoUser /\ stale[r] > 0
  /\ ClearRoom(r, stale[r] - 1)

QuitLate(r) ==
  /\ stale[r] > 0 /\ stale' = [stale EXCEPT ![r] = @ - 1]
  /\ up' = [up EXCEPT ![r] = Append(@, "Q")]
  /\ \E S \in {{}} \cup {{u} : u \in members[r] \ {owner[r]}} :
       members' = [members EXCEPT ![r] = @ \ S] /\ GoHome(S)
  /\ UNCHANGED <<table, lock, workers, mainAt, running, down, roomstatus, on, owner,
                 dropped, visits>>

Room(r) ==
  \/ TakeCreate(r) \/ MissOwner(r) \/ TakeJoin(r) \/ Refuse(r) \/ Drop(r)
  \/ End(r) \/ EndLate(r) \/ QuitLate(r)
  \/ \E u \in Users : Quit(r, u)

----------------------------------------------------------------------------
\* The users.

Connect(u) ==
  /\ where[u] = "home" /\ visits[u] < MaxVisits
  /\ where' = [where EXCEPT ![u] = "knocking"]
  /\ visits' = [visits EXCEPT ![u] = @ + 1]
  /\ UNCHANGED <<table, lock, workers, mainAt, running, pipes, rooms, left>>

HangUp(u) ==
  /\ where[u] # "home" /\ u \notin left
  /\ left' = left \cup {u}
  /\ UNCHANGED <<table, lock, workers, mainAt, running, pipes, rooms, where, visits>>

User(u) == Connect(u) \/ HangUp(u)

----------------------------------------------------------------------------
\* The service may rest when every user is at home for good, but for those whom a room
\* keeps and never reads, or when it ended.
Rest ==
  /\ \/ ~running
     \/ \A u \in Users : \/ where[u] = "home" /\ visits[u] = MaxVisits
                         \/ where[u] = "lost" /\ u \in left
  /\ UNCHANGED vars

Step ==
  \/ \E t \in Threads : Worker(t)
  \/ MainThread \/ LoseRoom
  \/ \E r \in Rooms : Room(r)
  \/ \E u \in Users : User(u)

Next == (running /\ Step) \/ Rest

Spec == Init /\ [][Next]_vars

\* What a worker does once it has read a request.
Serves(t) == at[t] \notin {"accept", "read"} /\ Worker(t)

\* The threads and the rooms run; a mutex asked for again and again is had
\* some day.  The users need not do anything.
Fairness ==
  /\ \A t \in Threads : SF_vars(running /\ Serves(t))
  /\ SF_vars(running /\ MainThread)
  /\ \A r \in Rooms : WF_vars(running /\ Room(r))

LiveSpec == Spec /\ Fairness

----------------------------------------------------------------------------
Command == [cmd : {"C", "J"}, user : Users]

Places == {"accept", "read", "create", "lockCreate", "answerNoRoom", "occupy",
           "countCreate", "join", "testFull", "answerNone", "answerFull", "lockJoin",
           "answerJoin", "countJoin"}

Critical == {"occupy", "countCreate", "answerJoin", "countJoin"}

TableType ==
  /\ navail \in Int
  /\ child_status \in [Rooms -> {0, 1}] /\ total \in [Rooms -> Int]

WorkersType ==
  /\ at \in [Threads -> Places] /\ user \in [Threads -> Users \cup {NoUser}]
  /\ room \in [Threads -> Rooms \cup {0}]
  /\ \A t \in Threads :
       /\ at[t] # "accept" => user[t] \in Users
       /\ at[t] \in Critical \cup {"join", "testFull", "answerFull", "lockJoin"}
            => room[t] \in Rooms

\* A worker is between its lock and its unlock exactly when it holds the lock;
\* only the answer that there is no room is given with and without it.
LockType ==
  /\ lock \in Threads \cup {Free, Main}
  /\ mainAt \in Rooms \cup {0} /\ (lock = Main <=> mainAt # 0)
  /\ \A t \in Threads :
       /\ at[t] \in Critical => lock = t
       /\ lock = t => at[t] \in Critical \cup {"answerNoRoom"}

RoomsType ==
  /\ down \in [Rooms -> Seq(Command)] /\ up \in [Rooms -> Seq({"E", "Q"})]
  /\ roomstatus \in [Rooms -> {"ON", "CLOSE"}] /\ dropped \subseteq Rooms
  /\ on \in [Rooms -> BOOLEAN] /\ owner \in [Rooms -> Users \cup {NoUser}]
  /\ members \in [Rooms -> SUBSET Users] /\ stale \in [Rooms -> Nat]

UsersType ==
  /\ running \in BOOLEAN
  /\ where \in [Users -> {"home", "knocking", "served", "passed", "in", "lost"}]
  /\ left \subseteq Users /\ visits \in [Users -> Nat]

\* Every variable is of its type, a worker has the user and the room it needs
\* where it is, and the holder of the lock is inside its critical section.
TypeOK == TableType /\ WorkersType /\ LockType /\ RoomsType /\ UsersType

Marked(r) ==
  child_status[r] = 0 /\ ~ \E t \in Threads : at[t] = "occupy" /\ room[t] = r

Called(r) == \E i \in DOMAIN down[r] : down[r][i].cmd = "C"

Ended(r) == \E i \in DOMAIN up[r] : up[r][i] = "E"

CalledOnce(r) ==
  \A i, j \in DOMAIN down[r] : down[r][i].cmd = "C" /\ down[r][j].cmd = "C" => i = j

EndedOnce(r) == \A i, j \in DOMAIN up[r] : up[r][i] = "E" /\ up[r][j] = "E" => i = j

Grant(r) ==
  /\ Marked(r) \/ Called(r) \/ on[r] \/ Ended(r) \/ r \in dropped
  /\ r \in dropped => ~Marked(r) /\ ~Called(r) /\ ~on[r] /\ ~Ended(r)
  /\ Marked(r) => ~Called(r) /\ ~on[r] /\ ~Ended(r)
  /\ Called(r) => ~on[r] /\ ~Ended(r)
  /\ on[r] => ~Ended(r)
  /\ CalledOnce(r) /\ EndedOnce(r)

\* A room is given to one meeting at a time, and to the next one only after
\* the end of the last was reported: exactly one of these holds of it.  It is
\* marked vacant; its 'C' is under way; its meeting is on; its 'E' is under way;
\* or its 'C' was taken for nothing, and it is lost for good.
OneGrant == \A r \in Rooms : Grant(r)

\* navail says how many rooms are vacant, whenever nobody is in the middle of
\* updating it.
NavailCounts == lock = Free => navail = Cardinality(Vacant)

\* The workers who have passed a user to r and not counted him yet.
Counting(r) ==
  {t \in Threads :
     room[t] = r /\ at[t] \in {"occupy", "countCreate", "answerJoin", "countJoin"}}

\* total never falls behind: it counts every member, every connection on its
\* way to the room and every departure not yet reported, the late ones too.
TotalCovers ==
  \A r \in Rooms :
    Cardinality(members[r]) + Len(down[r]) + stale[r]
      + Cardinality({i \in DOMAIN up[r] : up[r][i] = "Q"})
      <= total[r] + Cardinality(Counting(r))

\* The test against MaxTotal and the count are far apart.  All the same, a room
\* is overbooked by no more than the other workers under way.
Overbooked ==
  \A r \in Rooms :
    Cardinality(members[r]) <= MaxTotal + Cardinality(Threads) - 1

\* What each room the dispatcher hands out is to the users: a meeting as module
\* Meeting has it.  A connection that is closed, opened again and passed on elsewhere,
\* while the worker that passed it on last still has it in its variables, is in one
\* room at a time.
RoomMeeting(r) ==
  INSTANCE Meeting WITH People <- Users, on <- on[r],
                        members <- IF on[r] THEN members[r] ELSE {}

\* A worker that has read a request comes free for the next one, whoever else wants the
\* lock.  (It says nothing of the answer: none is given when write_fd fails.)
WorkersComeBack ==
  \A t \in Threads : at[t] \notin {"accept", "read"}
                      ~> (at[t] \in {"accept", "read"} \/ ~running)

\* A room whose recorded owner has left can be had again.
RoomsComeBack ==
  \A r \in Rooms : (on[r] /\ owner[r] \in left) ~> (child_status[r] = 0 \/ ~running)

\* A meeting is on in r, and nothing that bears on its total is under way.
Settled(r) ==
  on[r] /\ up[r] = << >> /\ stale[r] = 0 /\ Counting(r) = {} /\ mainAt # r

\* "the members are at capacity, cannot join" (widget.cpp:480) is what a user is told who
\* is refused a seat: with nothing left to report or to count, the room does have MaxTotal
\* members.
FullMeansFull ==
  [][\A t \in Threads :
       TestFull(t) /\ ~HasSeat(room[t]) /\ Settled(room[t])
         => Cardinality(members[room[t]]) + Len(down[room[t]]) >= MaxTotal]_vars
=============================================================================
