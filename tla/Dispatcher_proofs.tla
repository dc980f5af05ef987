-------------------------- MODULE Dispatcher_proofs --------------------------
(***************************************************************************)
(* Theorems about the dispatcher for any number of users, workers and      *)
(* rooms: its type invariant with the discipline of room->lock, that a     *)
(* room is given to one meeting at a time, that navail counts the vacant   *)
(* rooms, and that each room is a meeting to the users.                    *)
(***************************************************************************)
EXTENDS Dispatcher, FiniteSetTheorems, TLAPS

\* What a step leaves alone keeps its type.
LEMMA Frames ==
  /\ TableType /\ UNCHANGED table => TableType'
  /\ WorkersType /\ UNCHANGED workers => WorkersType'
  /\ LockType /\ UNCHANGED <<lock, mainAt, at>> => LockType'
  /\ RoomsType /\ UNCHANGED <<pipes, rooms>> => RoomsType'
  /\ UsersType /\ UNCHANGED <<running, users>> => UsersType'
BY DEF TableType, WorkersType, LockType, RoomsType, UsersType,
       table, workers, pipes, rooms, users

\* The service starts with every table, thread and pipe at rest.
LEMMA InitTyped == Init => TypeOK
<1> SUFFICES ASSUME Init PROVE TypeOK
  OBVIOUS
<1> USE DispatcherAssumption
<1>1. TableType
  BY DEF Init, TableType
<1>2. WorkersType
  BY DEF Init, WorkersType, Places, Critical
<1>3. LockType
  BY DEF Init, LockType, Critical
<1>4. RoomsType
  BY DEF Init, RoomsType
<1>5. UsersType
  BY DEF Init, UsersType
<1> QED
  BY <1>1, <1>2, <1>3, <1>4, <1>5 DEF TypeOK

----------------------------------------------------------------------------
\* The workers

\* A worker that goes to a place where it needs no lock.
LEMMA GoesUnlocked ==
  ASSUME LockType, NEW t \in Threads, NEW place, Goes(t, place),
         WorkersType, at[t] \notin Critical, lock # t, place \notin Critical,
         UNCHANGED <<lock, mainAt>>
  PROVE  LockType'
BY DEF LockType, Goes, WorkersType

\* One that takes the lock on its way.
LEMMA GoesLocking ==
  ASSUME LockType, NEW t \in Threads, NEW place \in Critical \cup {"answerNoRoom"},
         Goes(t, place), WorkersType, Unlocked, lock' = t, UNCHANGED mainAt
  PROVE  LockType'
BY DispatcherAssumption DEF LockType, Goes, WorkersType, Unlocked

\* One that keeps it.
LEMMA GoesLocked ==
  ASSUME LockType, NEW t \in Threads, NEW place \in Critical, Goes(t, place),
         WorkersType, at[t] \in Critical, UNCHANGED <<lock, mainAt>>
  PROVE  LockType'
BY DEF LockType, Goes, WorkersType

\* One that gives it up.
LEMMA GoesUnlocking ==
  ASSUME LockType, NEW t \in Threads, NEW place, Goes(t, place), place \notin Critical,
         WorkersType, lock = t, lock' = Free, UNCHANGED mainAt
  PROVE  LockType'
BY DispatcherAssumption DEF LockType, Goes, WorkersType

\* A worker without the lock is not inside its critical section, one inside
\* it has the lock.
LEMMA Holder ==
  ASSUME LockType, NEW t \in Threads
  PROVE  /\ at[t] \in Critical => lock = t
         /\ at[t] \notin Critical \cup {"answerNoRoom"} => lock # t
BY DEF LockType

\* A worker that moves on with its user, to a place whose room is known.
LEMMA WorkerMoves ==
  ASSUME WorkersType, NEW t \in Threads, NEW place \in Places, Goes(t, place),
         UNCHANGED <<user, room>>, at[t] # "accept",
         place \in Critical \cup {"join", "testFull", "answerFull", "lockJoin"}
           => room[t] \in Rooms
  PROVE  WorkersType'
BY DEF WorkersType, Goes

\* A worker that is done with its user.
LEMMA WorkerDone ==
  ASSUME WorkersType, NEW t \in Threads, Goes(t, "accept"), UNCHANGED room,
         user' = [user EXCEPT ![t] = NoUser]
  PROVE  WorkersType'
BY DEF WorkersType, Goes, Places, Critical

\* An answer ends the process at worst.
LEMMA AnswerTyped ==
  ASSUME UsersType, NEW u, Answer(u), UNCHANGED users
  PROVE  UsersType'
BY DEF UsersType, Answer, users

\* A connection that is passed on joins the end of a pipe.
LEMMA PassOnTyped ==
  ASSUME RoomsType, UsersType, NEW t \in Threads, user[t] \in Users, NEW r \in Rooms,
         NEW cmd \in {"C", "J"}, PassOn(t, r, cmd),
         UNCHANGED <<up, rooms, running, left, visits>>
  PROVE  RoomsType' /\ UsersType'
<1>1. [cmd |-> cmd, user |-> user[t]] \in Command
  BY DEF Command
<1>2. down' \in [Rooms -> Seq(Command)]
  BY <1>1 DEF PassOn, RoomsType
<1>3. where' \in [Users -> {"home", "knocking", "served", "passed", "in", "lost"}]
  BY DEF PassOn, UsersType
<1> QED
  BY <1>2, <1>3 DEF RoomsType, UsersType, rooms

\* A worker, whatever it does next.
LEMMA WorkerTyped ==
  ASSUME TypeOK, NEW t \in Threads, Worker(t)
  PROVE  TypeOK'
<1> USE DEF TypeOK
<1>1. ASSUME NEW u \in Users, Accept(t, u) PROVE TypeOK'
  <2>1. WorkersType'
    BY <1>1 DEF Accept, Goes, WorkersType, Places, Critical
  <2>2. LockType'
    BY <1>1, Holder, GoesUnlocked DEF Accept, Critical
  <2>3. UsersType'
    BY <1>1 DEF Accept, UsersType
  <2> QED
    BY <1>1, <2>1, <2>2, <2>3, Frames DEF Accept
<1>2. CASE ReadCreate(t)
  <2>1. WorkersType'
    BY <1>2, WorkerMoves DEF ReadCreate, Places, Critical
  <2>2. LockType'
    BY <1>2, Holder, GoesUnlocked DEF ReadCreate, Critical
  <2> QED
    BY <1>2, <2>1, <2>2, Frames DEF ReadCreate
<1>3. CASE ReadClosed(t)
  <2>1. WorkersType'
    BY <1>3, WorkerDone DEF ReadClosed
  <2>2. LockType'
    BY <1>3, Holder, GoesUnlocked DEF ReadClosed, Critical
  <2>3. UsersType'
    BY <1>3 DEF ReadClosed, GoHome, UsersType
  <2> QED
    BY <1>3, <2>1, <2>2, <2>3, Frames DEF ReadClosed
<1>4. ASSUME NEW r \in Rooms, ReadJoin(t, r) PROVE TypeOK'
  <2>1. WorkersType'
    BY <1>4 DEF ReadJoin, Goes, WorkersType, Places, Critical
  <2>2. LockType'
    BY <1>4, Holder, GoesUnlocked DEF ReadJoin, Critical
  <2> QED
    BY <1>4, <2>1, <2>2, Frames DEF ReadJoin
<1>5. CASE TestAvail(t)
  <2> DEFINE place == IF navail <= 0 THEN "answerNoRoom" ELSE "lockCreate"
  <2>1. WorkersType'
    BY <1>5, WorkerMoves DEF TestAvail, Places, Critical
  <2>2. LockType'
    BY <1>5, Holder, GoesUnlocked DEF TestAvail, Critical
  <2> QED
    BY <1>5, <2>1, <2>2, Frames DEF TestAvail
<1>6. CASE FindNone(t)
  <2>1. WorkersType'
    BY <1>6, WorkerMoves DEF FindNone, Places, Critical
  <2>2. LockType'
    BY <1>6, GoesLocking DEF FindNone
  <2> QED
    BY <1>6, <2>1, <2>2, Frames DEF FindNone
<1>7. CASE AnswerNoRoom(t)
  <2>1. WorkersType'
    BY <1>7, WorkerMoves DEF AnswerNoRoom, Places, Critical
  <2>2. LockType'
    <3>1. CASE lock = t
      BY <1>7, <3>1, GoesUnlocking DEF AnswerNoRoom, Critical
    <3>2. CASE lock # t
      BY <1>7, <3>2, GoesUnlocked DEF AnswerNoRoom, Critical
    <3> QED
      BY <3>1, <3>2
  <2>3. UsersType'
    BY <1>7, AnswerTyped DEF AnswerNoRoom, users
  <2> QED
    BY <1>7, <2>1, <2>2, <2>3, Frames DEF AnswerNoRoom
<1>8. CASE PassCreate(t)
  <2>1. PICK r \in Rooms : room' = [room EXCEPT ![t] = r] /\ PassOn(t, r, "C")
    BY <1>8 DEF PassCreate
  <2>2. user[t] \in Users
    BY <1>8 DEF PassCreate, WorkersType
  <2>3. WorkersType'
    BY <1>8, <2>1 DEF PassCreate, Goes, WorkersType, Places, Critical
  <2>4. LockType'
    BY <1>8, GoesLocking DEF PassCreate, Critical
  <2>5. RoomsType' /\ UsersType'
    BY <1>8, <2>1, <2>2, PassOnTyped DEF PassCreate
  <2> QED
    BY <1>8, <2>3, <2>4, <2>5, Frames DEF PassCreate
<1>9. CASE Occupy(t)
  <2>1. room[t] \in Rooms
    BY <1>9 DEF Occupy, WorkersType, Critical
  <2>2. TableType'
    BY <1>9, <2>1 DEF Occupy, TableType
  <2>3. WorkersType'
    BY <1>9, <2>1, WorkerMoves DEF Occupy, Places
  <2>4. LockType'
    BY <1>9, GoesLocked DEF Occupy, Critical
  <2> QED
    BY <1>9, <2>2, <2>3, <2>4, Frames DEF Occupy
<1>10. CASE CountCreate(t)
  <2>1. room[t] \in Rooms /\ lock = t
    BY <1>10, Holder DEF CountCreate, WorkersType, Critical
  <2>2. TableType'
    BY <1>10, <2>1 DEF CountCreate, TableType
  <2>3. WorkersType'
    BY <1>10, WorkerDone DEF CountCreate
  <2>4. LockType'
    BY <1>10, <2>1, GoesUnlocking DEF CountCreate, Critical
  <2> QED
    BY <1>10, <2>2, <2>3, <2>4, Frames DEF CountCreate
<1>11. CASE LookUp(t)
  <2>1. WorkersType'
    <3>1. room[t] \in Rooms
      BY <1>11 DEF LookUp, WorkersType
    <3> QED
      BY <1>11, <3>1, WorkerMoves DEF LookUp, Places
  <2>2. LockType'
    BY <1>11, Holder, GoesUnlocked DEF LookUp, Critical
  <2> QED
    BY <1>11, <2>1, <2>2, Frames DEF LookUp
<1>12. CASE AnswerNone(t)
  <2>1. WorkersType'
    BY <1>12, WorkerMoves DEF AnswerNone, Places, Critical
  <2>2. LockType'
    BY <1>12, Holder, GoesUnlocked DEF AnswerNone, Critical
  <2>3. UsersType'
    BY <1>12, AnswerTyped DEF AnswerNone, users
  <2> QED
    BY <1>12, <2>1, <2>2, <2>3, Frames DEF AnswerNone
<1>13. CASE TestFull(t)
  <2>1. WorkersType'
    <3>1. room[t] \in Rooms
      BY <1>13 DEF TestFull, WorkersType
    <3> QED
      BY <1>13, <3>1, WorkerMoves DEF TestFull, Places
  <2>2. LockType'
    BY <1>13, Holder, GoesUnlocked DEF TestFull, Critical
  <2> QED
    BY <1>13, <2>1, <2>2, Frames DEF TestFull
<1>14. CASE AnswerFull(t)
  <2>1. WorkersType'
    BY <1>14, WorkerMoves DEF AnswerFull, Places, Critical
  <2>2. LockType'
    BY <1>14, Holder, GoesUnlocked DEF AnswerFull, Critical
  <2>3. UsersType'
    BY <1>14, AnswerTyped DEF AnswerFull, users
  <2> QED
    BY <1>14, <2>1, <2>2, <2>3, Frames DEF AnswerFull
<1>15. CASE PassJoin(t)
  <2>1. user[t] \in Users /\ room[t] \in Rooms
    BY <1>15 DEF PassJoin, WorkersType
  <2>2. WorkersType'
    BY <1>15, <2>1, WorkerMoves DEF PassJoin, Places
  <2>3. LockType'
    BY <1>15, GoesLocking DEF PassJoin, Critical
  <2>4. RoomsType' /\ UsersType'
    BY <1>15, <2>1, PassOnTyped DEF PassJoin
  <2> QED
    BY <1>15, <2>2, <2>3, <2>4, Frames DEF PassJoin
<1>16. CASE AnswerJoin(t)
  <2>1. WorkersType'
    <3>1. room[t] \in Rooms
      BY <1>16 DEF AnswerJoin, WorkersType, Critical
    <3> QED
      BY <1>16, <3>1, WorkerMoves DEF AnswerJoin, Places
  <2>2. LockType'
    BY <1>16, GoesLocked DEF AnswerJoin, Critical
  <2>3. UsersType'
    BY <1>16, AnswerTyped DEF AnswerJoin, users
  <2> QED
    BY <1>16, <2>1, <2>2, <2>3, Frames DEF AnswerJoin
<1>17. CASE CountJoin(t)
  <2>1. room[t] \in Rooms /\ lock = t
    BY <1>17, Holder DEF CountJoin, WorkersType, Critical
  <2>2. TableType'
    BY <1>17, <2>1 DEF CountJoin, TableType
  <2>3. WorkersType'
    BY <1>17, WorkerDone DEF CountJoin
  <2>4. LockType'
    BY <1>17, <2>1, GoesUnlocking DEF CountJoin, Critical
  <2> QED
    BY <1>17, <2>2, <2>3, <2>4, Frames DEF CountJoin
<1>18. CASE PassFails(t)
  <2>1. WorkersType'
    BY <1>18, WorkerMoves DEF PassFails, Places, Critical
  <2>2. LockType'
    BY <1>18, Holder, GoesUnlocked DEF PassFails, Critical
  <2> QED
    BY <1>18, <2>1, <2>2, Frames DEF PassFails
<1> QED
  BY <1>1, <1>2, <1>3, <1>4, <1>5, <1>6, <1>7, <1>8, <1>9, <1>10, <1>11, <1>12,
     <1>13, <1>14, <1>15, <1>16, <1>17, <1>18 DEF Worker

----------------------------------------------------------------------------
\* The main thread, the rooms and the users

\* The main thread: a report is taken off, the table is set right.
LEMMA MainThreadTyped ==
  ASSUME TypeOK, MainThread
  PROVE  TypeOK'
<1> USE DispatcherAssumption DEF TypeOK
<1>1. CASE CountRoom
  <2>1. TableType'
    BY <1>1 DEF CountRoom, TableType
  <2>2. LockType'
    BY <1>1 DEF CountRoom, LockType, workers, Rooms
  <2> QED
    BY <1>1, <2>1, <2>2, Frames DEF CountRoom, rooms, pipes
<1>2. ASSUME NEW r \in Rooms, FreeRoom(r) PROVE TypeOK'
  <2>1. TableType'
    BY <1>2 DEF FreeRoom, TableType
  <2>2. LockType'
    <3>1. r # 0 /\ at' = at
      BY <1>2 DEF FreeRoom, Rooms, workers
    <3> QED
      BY <1>2, <3>1 DEF FreeRoom, LockType, Unlocked
  <2>3. RoomsType'
    BY <1>2 DEF FreeRoom, Report, RoomsType, rooms
  <2> QED
    BY <1>2, <2>1, <2>2, <2>3, Frames DEF FreeRoom
<1>3. ASSUME NEW r \in Rooms, CountQuit(r) PROVE TypeOK'
  <2>1. TableType'
    BY <1>3 DEF CountQuit, TableType
  <2>2. RoomsType'
    BY <1>3 DEF CountQuit, Report, RoomsType, rooms
  <2> QED
    BY <1>3, <2>1, <2>2, Frames DEF CountQuit, workers
<1> QED
  BY <1>1, <1>2, <1>3 DEF MainThread

\* A command taken from a pipe was for one of the users, and leaves the others.
LEMMA TakeTyped ==
  ASSUME RoomsType, NEW r \in Rooms, NEW cmd, Take(r, cmd)
  PROVE  Head(down[r]).user \in Users /\ down' \in [Rooms -> Seq(Command)]
<1>1. down[r] \in Seq(Command) /\ down[r] # << >>
  BY DEF RoomsType, Take
<1>2. Head(down[r]) \in Command /\ Tail(down[r]) \in Seq(Command)
  BY <1>1
<1>3. Head(down[r]).user \in Users
  BY <1>2 DEF Command
<1> QED
  BY <1>2, <1>3 DEF RoomsType, Take

\* Connections that are closed leave their users at home.
LEMMA GoHomeTyped ==
  ASSUME UsersType, NEW S, GoHome(S), UNCHANGED <<running, visits>>
  PROVE  UsersType'
BY DEF UsersType, GoHome

\* A room that is cleared: what may still be closed late is some number.
LEMMA ClearRoomTyped ==
  ASSUME TypeOK, NEW r \in Rooms, NEW old \in Nat, ClearRoom(r, old)
  PROVE  TypeOK'
<1> USE DEF TypeOK
<1> DEFINE size == Cardinality(members[r])
<1>1. size \in Nat
  <2>1. members[r] \subseteq Users
    BY DEF RoomsType
  <2>2. IsFiniteSet(members[r])
    BY <2>1, FS_Subset, DispatcherAssumption
  <2> QED
    BY <2>2, FS_CardinalityType
<1>2. stale' \in [Rooms -> Nat]
  <2>1. PICK late \in 0..size - 1 : stale' = [stale EXCEPT ![r] = old + late]
    BY DEF ClearRoom
  <2> QED
    BY <1>1, <2>1 DEF RoomsType
<1>3. RoomsType'
  BY <1>2 DEF ClearRoom, RoomsType
<1>4. UsersType'
  BY GoHomeTyped DEF ClearRoom
<1> QED
  BY <1>3, <1>4, Frames DEF ClearRoom, workers

\* A room: a command is taken off its pipe, or a report put on it.
LEMMA RoomTyped ==
  ASSUME TypeOK, NEW r \in Rooms, Room(r)
  PROVE  TypeOK'
<1> USE DEF TypeOK
<1>1. CASE TakeCreate(r)
  <2>1. Head(down[r]).user \in Users /\ down' \in [Rooms -> Seq(Command)]
    BY <1>1, TakeTyped DEF TakeCreate
  <2>2. RoomsType'
    BY <1>1, <2>1 DEF TakeCreate, Enter, RoomsType
  <2>3. UsersType'
    BY <1>1, <2>1 DEF TakeCreate, Enter, UsersType
  <2> QED
    BY <1>1, <2>2, <2>3, Frames DEF TakeCreate, workers
<1>2. CASE TakeJoin(r)
  <2>1. Head(down[r]).user \in Users /\ down' \in [Rooms -> Seq(Command)]
    BY <1>2, TakeTyped DEF TakeJoin
  <2>2. RoomsType'
    BY <1>2, <2>1 DEF TakeJoin, Enter, RoomsType
  <2>3. UsersType'
    BY <1>2, <2>1 DEF TakeJoin, Enter, UsersType
  <2> QED
    BY <1>2, <2>2, <2>3, Frames DEF TakeJoin, workers
<1>3. CASE Refuse(r)
  <2>1. RoomsType'
    BY <1>3, TakeTyped DEF Refuse, RoomsType, rooms
  <2>2. UsersType'
    BY <1>3, GoHomeTyped DEF Refuse
  <2> QED
    BY <1>3, <2>1, <2>2, Frames DEF Refuse, workers
<1>4. CASE MissOwner(r)
  <2>1. Head(down[r]).user \in Users /\ down' \in [Rooms -> Seq(Command)]
    BY <1>4, TakeTyped DEF MissOwner
  <2>2. stale' \in [Rooms -> Nat]
    <3>1. stale' = stale \/ (stale[r] > 0 /\ stale' = [stale EXCEPT ![r] = @ - 1])
      BY <1>4 DEF MissOwner
    <3> QED
      BY <3>1 DEF RoomsType
  <2>3. RoomsType'
    <3>1. up' \in [Rooms -> Seq({"E", "Q"})] /\ on' \in [Rooms -> BOOLEAN]
            /\ roomstatus' \in [Rooms -> {"ON", "CLOSE"}]
      BY <1>4 DEF MissOwner, RoomsType
    <3>2. UNCHANGED <<owner, members, dropped>>
      BY <1>4 DEF MissOwner
    <3> QED
      BY <2>1, <2>2, <3>1, <3>2 DEF RoomsType
  <2>4. UsersType'
    BY <1>4, GoHomeTyped DEF MissOwner
  <2> QED
    BY <1>4, <2>3, <2>4, Frames DEF MissOwner, workers
<1>5. CASE Drop(r)
  <2>1. PICK cmd : Take(r, cmd) /\ dropped' \in {dropped, dropped \cup {r}}
    BY <1>5 DEF Drop
  <2>2. Head(down[r]).user \in Users /\ down' \in [Rooms -> Seq(Command)]
    BY <2>1, TakeTyped
  <2>3. RoomsType'
    BY <1>5, <2>1, <2>2 DEF Drop, RoomsType
  <2>4. UsersType'
    BY <1>5, <2>2 DEF Drop, UsersType
  <2> QED
    BY <1>5, <2>3, <2>4, Frames DEF Drop, workers
<1>6. CASE End(r)
  BY <1>6, ClearRoomTyped DEF End, RoomsType
<1>7. CASE EndLate(r)
  <2>1. stale[r] - 1 \in Nat
    BY <1>7 DEF EndLate, RoomsType
  <2> QED
    BY <1>7, <2>1, ClearRoomTyped DEF EndLate
<1>8. ASSUME NEW u \in Users, Quit(r, u) PROVE TypeOK'
  <2>1. RoomsType'
    BY <1>8 DEF Quit, RoomsType
  <2>2. UsersType'
    BY <1>8, GoHomeTyped DEF Quit
  <2> QED
    BY <1>8, <2>1, <2>2, Frames DEF Quit, workers
<1>9. CASE QuitLate(r)
  <2>1. PICK S : members' = [members EXCEPT ![r] = @ \ S] /\ GoHome(S)
    BY <1>9 DEF QuitLate
  <2>2. RoomsType'
    BY <1>9, <2>1 DEF QuitLate, RoomsType
  <2>3. UsersType'
    BY <1>9, <2>1, GoHomeTyped DEF QuitLate
  <2> QED
    BY <1>9, <2>2, <2>3, Frames DEF QuitLate, workers
<1> QED
  BY <1>1, <1>2, <1>3, <1>4, <1>5, <1>6, <1>7, <1>8, <1>9 DEF Room

\* A user connects or hangs up.
LEMMA UserTyped ==
  ASSUME TypeOK, NEW u \in Users, User(u)
  PROVE  TypeOK'
<1>1. CASE Connect(u)
  <2>1. UsersType'
    BY <1>1 DEF Connect, UsersType, TypeOK
  <2> QED
    BY <1>1, <2>1, Frames DEF Connect, TypeOK, workers
<1>2. CASE HangUp(u)
  <2>1. UsersType'
    BY <1>2 DEF HangUp, UsersType, TypeOK
  <2> QED
    BY <1>2, <2>1, Frames DEF HangUp, TypeOK, workers
<1> QED
  BY <1>1, <1>2 DEF User

\* The inductive step of the type invariant.
LEMMA NextTyped == TypeOK /\ [Next]_vars => TypeOK'
<1> SUFFICES ASSUME TypeOK, [Next]_vars PROVE TypeOK'
  OBVIOUS
<1>1. CASE UNCHANGED vars
  BY <1>1, Frames DEF vars, TypeOK, workers
<1>2. CASE LoseRoom
  <2>1. UsersType'
    BY <1>2 DEF LoseRoom, UsersType, users, TypeOK
  <2> QED
    BY <1>2, <2>1, Frames DEF LoseRoom, TypeOK, workers
<1>3. CASE Step
  BY <1>2, <1>3, WorkerTyped, MainThreadTyped, RoomTyped, UserTyped DEF Step
<1> QED
  BY <1>1, <1>3 DEF Next, Rest

\* The type invariant, and with it the discipline of room->lock: whoever is
\* between the lock and the unlock of userdeal.cpp or main.cpp holds it.
THEOREM TypeCorrect == Spec => []TypeOK
BY InitTyped, NextTyped, PTL DEF Spec

----------------------------------------------------------------------------
\* A room is given to one meeting at a time

\* Indices of a nonempty sequence and of its tail.
LEMMA HeadAndTail ==
  ASSUME NEW T, NEW s \in Seq(T), s # << >>
  PROVE  /\ Len(s) \in Nat \ {0} /\ DOMAIN s = 1..Len(s) /\ s[1] = Head(s)
         /\ DOMAIN Tail(s) = 1..Len(s) - 1
         /\ \A i \in 1..Len(s) - 1 : i + 1 \in 1..Len(s) /\ Tail(s)[i] = s[i + 1]
         /\ \A i \in 1..Len(s) : i # 1 => /\ i - 1 \in 1..Len(s) - 1
                                         /\ s[i] = Tail(s)[i - 1]
<1>1. Len(s) \in Nat \ {0} /\ DOMAIN s = 1..Len(s)
  OBVIOUS
<1>2. s[1] = Head(s)
  OBVIOUS
<1>3. Tail(s) \in Seq(T) /\ Len(Tail(s)) = Len(s) - 1
  OBVIOUS
<1>4. DOMAIN Tail(s) = 1..Len(s) - 1
  BY <1>3
<1>5. \A i \in 1..Len(s) - 1 : i + 1 \in 1..Len(s) /\ Tail(s)[i] = s[i + 1]
  BY <1>1
<1>6. ASSUME NEW i \in 1..Len(s), i # 1
      PROVE  i - 1 \in 1..Len(s) - 1 /\ s[i] = Tail(s)[i - 1]
  <2>1. i - 1 \in 1..Len(s) - 1 /\ (i - 1) + 1 = i
    BY <1>1, <1>6
  <2> QED
    BY <2>1, <1>5
<1> QED
  BY <1>1, <1>2, <1>4, <1>5, <1>6

\* What a command put into a pipe changes about the 'C's under way.
LEMMA DownGrows ==
  ASSUME RoomsType, NEW r \in Rooms, NEW cmd \in {"C", "J"}, NEW u \in Users,
         down' = [down EXCEPT ![r] = Append(@, [cmd |-> cmd, user |-> u])]
  PROVE  /\ \A q \in Rooms \ {r} : (Called(q)' <=> Called(q)) /\ (CalledOnce(q)' <=> CalledOnce(q))
         /\ cmd # "C" => (Called(r)' <=> Called(r))
         /\ cmd = "C" => Called(r)'
         /\ CalledOnce(r) /\ (cmd = "C" => ~Called(r)) => CalledOnce(r)'
<1> DEFINE command == [cmd |-> cmd, user |-> u]
<1>1. command \in Command /\ command.cmd = cmd
  BY DEF Command
<1>2. down[r] \in Seq(Command) /\ down'[r] = Append(down[r], command)
  BY DEF RoomsType
<1>3. /\ DOMAIN down[r] = 1..Len(down[r]) /\ Len(down[r]) \in Nat
      /\ DOMAIN down'[r] = 1..Len(down[r]) + 1
      /\ \A i \in 1..Len(down[r]) : down'[r][i] = down[r][i]
      /\ down'[r][Len(down[r]) + 1] = command
  <2> HIDE DEF command
  <2> QED
    BY <1>1, <1>2
<1>4. \A q \in Rooms \ {r} : down'[q] = down[q]
  BY DEF RoomsType
<1>5. \A i \in 1..Len(down[r]) + 1 : i \in 1..Len(down[r]) \/ i = Len(down[r]) + 1
  BY <1>3
<1> HIDE DEF command
<1> QED
  BY <1>1, <1>3, <1>4, <1>5 DEF Called, CalledOnce

\* What taking the first command changes.
LEMMA DownShrinks ==
  ASSUME RoomsType, NEW r \in Rooms, NEW cmd, Take(r, cmd)
  PROVE  /\ \A q \in Rooms \ {r} : (Called(q)' <=> Called(q)) /\ (CalledOnce(q)' <=> CalledOnce(q))
         /\ cmd # "C" => (Called(r)' <=> Called(r))
         /\ cmd = "C" => Called(r) /\ (CalledOnce(r) => ~Called(r)')
         /\ CalledOnce(r) => CalledOnce(r)'
<1>1. down[r] \in Seq(Command) /\ down[r] # << >> /\ down'[r] = Tail(down[r])
  BY DEF RoomsType, Take
<1>2. /\ Len(down[r]) \in Nat \ {0} /\ DOMAIN down[r] = 1..Len(down[r])
      /\ DOMAIN down'[r] = 1..Len(down[r]) - 1
      /\ \A i \in 1..Len(down[r]) - 1 : /\ i + 1 \in 1..Len(down[r])
                                       /\ down'[r][i] = down[r][i + 1]
      /\ \A i \in 1..Len(down[r]) : i # 1 => /\ i - 1 \in 1..Len(down[r]) - 1
                                            /\ down[r][i] = down'[r][i - 1]
      /\ down[r][1].cmd = cmd
  <2>1. Head(down[r]).cmd = cmd
    BY DEF Take
  <2>2. /\ Len(down[r]) \in Nat \ {0} /\ DOMAIN down[r] = 1..Len(down[r])
        /\ down[r][1] = Head(down[r]) /\ DOMAIN Tail(down[r]) = 1..Len(down[r]) - 1
        /\ \A i \in 1..Len(down[r]) - 1 : /\ i + 1 \in 1..Len(down[r])
                                         /\ Tail(down[r])[i] = down[r][i + 1]
        /\ \A i \in 1..Len(down[r]) : i # 1 => /\ i - 1 \in 1..Len(down[r]) - 1
                                              /\ down[r][i] = Tail(down[r])[i - 1]
    BY <1>1, HeadAndTail, Zenon
  <2> QED
    BY <1>1, <2>1, <2>2
<1>3. \A q \in Rooms \ {r} : down'[q] = down[q]
  BY DEF RoomsType, Take
<1>4. \A q \in Rooms \ {r} : (Called(q)' <=> Called(q)) /\ (CalledOnce(q)' <=> CalledOnce(q))
  BY <1>3 DEF Called, CalledOnce
<1>5. Called(r)' => \E i \in 1..Len(down[r]) : i # 1 /\ down[r][i].cmd = "C"
  <2>1. ASSUME NEW i \in 1..Len(down[r]) - 1 PROVE i + 1 # 1
    BY <1>2
  <2> QED
    BY <1>2, <2>1 DEF Called
<1>6. cmd # "C" /\ Called(r) => Called(r)'
  BY <1>2 DEF Called
<1>7. cmd = "C" => Called(r) /\ (CalledOnce(r) => ~Called(r)')
  <2>1. 1 \in 1..Len(down[r])
    BY <1>2
  <2> QED
    BY <1>2, <1>5, <2>1 DEF Called, CalledOnce
<1>8. ASSUME CalledOnce(r) PROVE CalledOnce(r)'
  <2> SUFFICES ASSUME NEW i \in 1..Len(down[r]) - 1, NEW j \in 1..Len(down[r]) - 1,
                      down'[r][i].cmd = "C", down'[r][j].cmd = "C"
               PROVE  i = j
    BY <1>2 DEF CalledOnce
  <2>1. down[r][i + 1].cmd = "C" /\ down[r][j + 1].cmd = "C"
    BY <1>2
  <2>2. i + 1 = j + 1
    BY <1>2, <1>8, <2>1 DEF CalledOnce
  <2> QED
    BY <1>2, <2>2
<1> QED
  BY <1>2, <1>4, <1>5, <1>6, <1>7, <1>8 DEF Called

\* The same for the reports.
LEMMA UpGrows ==
  ASSUME RoomsType, NEW r \in Rooms, NEW rc \in {"E", "Q"},
         up' = [up EXCEPT ![r] = Append(@, rc)]
  PROVE  /\ \A q \in Rooms \ {r} : (Ended(q)' <=> Ended(q)) /\ (EndedOnce(q)' <=> EndedOnce(q))
         /\ rc # "E" => (Ended(r)' <=> Ended(r))
         /\ rc = "E" => Ended(r)'
         /\ EndedOnce(r) /\ (rc = "E" => ~Ended(r)) => EndedOnce(r)'
<1>1. up[r] \in Seq({"E", "Q"}) /\ up'[r] = Append(up[r], rc)
  BY DEF RoomsType
<1>2. /\ DOMAIN up[r] = 1..Len(up[r]) /\ Len(up[r]) \in Nat
      /\ DOMAIN up'[r] = 1..Len(up[r]) + 1
      /\ \A i \in 1..Len(up[r]) : up'[r][i] = up[r][i]
      /\ up'[r][Len(up[r]) + 1] = rc
  BY <1>1
<1>3. \A q \in Rooms \ {r} : up'[q] = up[q]
  BY DEF RoomsType
<1>4. \A i \in 1..Len(up[r]) + 1 : i \in 1..Len(up[r]) \/ i = Len(up[r]) + 1
  BY <1>2
<1> QED
  BY <1>2, <1>3, <1>4 DEF Ended, EndedOnce

\* What the main thread's reading of a report does to the ends under way.
LEMMA UpShrinks ==
  ASSUME RoomsType, NEW r \in Rooms, NEW rc, Report(r, rc)
  PROVE  /\ \A q \in Rooms \ {r} : (Ended(q)' <=> Ended(q)) /\ (EndedOnce(q)' <=> EndedOnce(q))
         /\ rc # "E" => (Ended(r)' <=> Ended(r))
         /\ rc = "E" => Ended(r) /\ (EndedOnce(r) => ~Ended(r)')
         /\ EndedOnce(r) => EndedOnce(r)'
<1>1. up[r] \in Seq({"E", "Q"}) /\ up[r] # << >> /\ up'[r] = Tail(up[r])
  BY DEF RoomsType, Report
<1>2. /\ Len(up[r]) \in Nat \ {0} /\ DOMAIN up[r] = 1..Len(up[r])
      /\ DOMAIN up'[r] = 1..Len(up[r]) - 1
      /\ \A i \in 1..Len(up[r]) - 1 : /\ i + 1 \in 1..Len(up[r])
                                       /\ up'[r][i] = up[r][i + 1]
      /\ \A i \in 1..Len(up[r]) : i # 1 => /\ i - 1 \in 1..Len(up[r]) - 1
                                            /\ up[r][i] = up'[r][i - 1]
      /\ up[r][1] = rc
  <2>1. Head(up[r]) = rc
    BY DEF Report
  <2>2. /\ Len(up[r]) \in Nat \ {0} /\ DOMAIN up[r] = 1..Len(up[r])
        /\ up[r][1] = Head(up[r]) /\ DOMAIN Tail(up[r]) = 1..Len(up[r]) - 1
        /\ \A i \in 1..Len(up[r]) - 1 : /\ i + 1 \in 1..Len(up[r])
                                         /\ Tail(up[r])[i] = up[r][i + 1]
        /\ \A i \in 1..Len(up[r]) : i # 1 => /\ i - 1 \in 1..Len(up[r]) - 1
                                              /\ up[r][i] = Tail(up[r])[i - 1]
    BY <1>1, HeadAndTail, Zenon
  <2> QED
    BY <1>1, <2>1, <2>2
<1>3. \A q \in Rooms \ {r} : up'[q] = up[q]
  BY DEF RoomsType, Report
<1>4. \A q \in Rooms \ {r} : (Ended(q)' <=> Ended(q)) /\ (EndedOnce(q)' <=> EndedOnce(q))
  BY <1>3 DEF Ended, EndedOnce
<1>5. Ended(r)' => \E i \in 1..Len(up[r]) : i # 1 /\ up[r][i] = "E"
  <2>1. ASSUME NEW i \in 1..Len(up[r]) - 1 PROVE i + 1 # 1
    BY <1>2
  <2> QED
    BY <1>2, <2>1 DEF Ended
<1>6. rc # "E" /\ Ended(r) => Ended(r)'
  BY <1>2 DEF Ended
<1>7. rc = "E" => Ended(r) /\ (EndedOnce(r) => ~Ended(r)')
  <2>1. 1 \in 1..Len(up[r])
    BY <1>2
  <2> QED
    BY <1>2, <1>5, <2>1 DEF Ended, EndedOnce
<1>8. ASSUME EndedOnce(r) PROVE EndedOnce(r)'
  <2>1. ASSUME NEW i \in 1..Len(up[r]) - 1, NEW j \in 1..Len(up[r]) - 1, i + 1 = j + 1
        PROVE  i = j
    BY <1>2, <2>1
  <2> QED
    BY <1>2, <1>8, <2>1 DEF EndedOnce
<1> QED
  BY <1>2, <1>4, <1>5, <1>6, <1>7, <1>8 DEF Ended

\* The places of the 'C's and 'E's are told from down and up alone, a room's
\* mark from child_status and the workers at "occupy".
LEMMA PipesKept ==
  ASSUME NEW q \in Rooms
  PROVE  /\ UNCHANGED down => (Called(q)' <=> Called(q)) /\ (CalledOnce(q)' <=> CalledOnce(q))
         /\ UNCHANGED up => (Ended(q)' <=> Ended(q)) /\ (EndedOnce(q)' <=> EndedOnce(q))
BY DEF Called, CalledOnce, Ended, EndedOnce

\* No worker comes to "occupy", leaves it, or changes its room there.
OccupyKept ==
  \A t \in Threads : /\ at'[t] = "occupy" <=> at[t] = "occupy"
                     /\ at[t] = "occupy" => room'[t] = room[t]

\* Such a step leaves every room's mark as it was.
LEMMA MarkedKept ==
  ASSUME OccupyKept, UNCHANGED child_status, NEW q \in Rooms
  PROVE  Marked(q)' <=> Marked(q)
BY DEF OccupyKept, Marked

\* A room whose five signs are as they were has one grant as before.
LEMMA GrantKept ==
  ASSUME NEW q \in Rooms, Grant(q), on'[q] = on[q], q \in dropped' <=> q \in dropped,
         Marked(q)' <=> Marked(q),
         Called(q)' <=> Called(q), CalledOnce(q)', Ended(q)' <=> Ended(q), EndedOnce(q)'
  PROVE  Grant(q)'
BY DEF Grant

\* Most of what a worker does is of no concern to the rooms.
LEMMA WorkerQuiet ==
  ASSUME TypeOK, NEW t \in Threads, Worker(t), ~PassCreate(t), ~Occupy(t)
  PROVE  /\ OccupyKept /\ UNCHANGED <<child_status, up, on, dropped>>
         /\ \/ UNCHANGED down
            \/ \E u \in Users : down' = [down EXCEPT ![room[t]] =
                                         Append(@, [cmd |-> "J", user |-> u])]
<1>1. /\ at \in [Threads -> Places] /\ room \in [Threads -> Rooms \cup {0}]
      /\ at[t] = "lockJoin" => user[t] \in Users
  BY DEF TypeOK, WorkersType
<1> DEFINE Quiet == OccupyKept /\ UNCHANGED <<child_status, up, on, dropped>>
<1>2. ASSUME NEW u \in Users, Accept(t, u) PROVE Quiet /\ UNCHANGED down
  BY <1>1, <1>2 DEF Accept, Goes, OccupyKept, table, pipes, rooms
<1>3. ASSUME NEW r \in Rooms, ReadJoin(t, r) PROVE Quiet /\ UNCHANGED down
  BY <1>1, <1>3 DEF ReadJoin, Goes, OccupyKept, table, pipes, rooms
<1>4. CASE ReadCreate(t) \/ ReadClosed(t) \/ TestAvail(t)
  BY <1>1, <1>4 DEF ReadCreate, ReadClosed, TestAvail, Goes, OccupyKept, table, pipes, rooms
<1>5. CASE FindNone(t) \/ AnswerNoRoom(t) \/ CountCreate(t)
  BY <1>1, <1>5 DEF FindNone, AnswerNoRoom, CountCreate, Goes, OccupyKept, table, pipes,
                    rooms
<1>6. CASE LookUp(t) \/ AnswerNone(t) \/ TestFull(t) \/ AnswerFull(t)
  BY <1>1, <1>6 DEF LookUp, AnswerNone, TestFull, AnswerFull, Goes, OccupyKept, table,
                    pipes, rooms
<1>7. CASE PassJoin(t)
  BY <1>1, <1>7 DEF PassJoin, PassOn, Goes, OccupyKept, table, rooms
<1>8. CASE AnswerJoin(t) \/ CountJoin(t) \/ PassFails(t)
  BY <1>1, <1>8 DEF AnswerJoin, CountJoin, PassFails, Goes, OccupyKept, table, pipes, rooms
<1> QED
  BY <1>2, <1>3, <1>4, <1>5, <1>6, <1>7, <1>8 DEF Worker

\* Only PassCreate and Occupy move a grant: from "vacant" to "called".
LEMMA WorkerGrants ==
  ASSUME TypeOK, OneGrant, NEW t \in Threads, Worker(t)
  PROVE  OneGrant'
<1> SUFFICES ASSUME NEW q \in Rooms PROVE Grant(q)'
  BY DEF OneGrant
<1> USE DEF TypeOK
<1>1. Grant(q) /\ CalledOnce(q) /\ EndedOnce(q)
  BY DEF OneGrant, Grant
<1>2. CASE ~PassCreate(t) /\ ~Occupy(t)
  <2>1. /\ OccupyKept /\ UNCHANGED <<child_status, up, on, dropped>>
        /\ \/ UNCHANGED down
           \/ \E u \in Users : down' = [down EXCEPT ![room[t]] =
                                        Append(@, [cmd |-> "J", user |-> u])]
    BY <1>2, WorkerQuiet
  <2>2. (Called(q)' <=> Called(q)) /\ CalledOnce(q)'
    <3>1. CASE UNCHANGED down
      BY <3>1, <1>1, PipesKept
    <3>2. ASSUME NEW u \in Users,
                 down' = [down EXCEPT ![room[t]] = Append(@, [cmd |-> "J", user |-> u])]
          PROVE  (Called(q)' <=> Called(q)) /\ CalledOnce(q)'
      <4>1. CASE room[t] \in Rooms
        BY <4>1, <3>2, <1>1, DownGrows
      <4>2. CASE room[t] \notin Rooms
        <5>1. down' = down
          BY <4>2, <3>2 DEF RoomsType
        <5> QED
          BY <5>1, <1>1, PipesKept
      <4> QED
        BY <4>1, <4>2
    <3> QED
      BY <2>1, <3>1, <3>2
  <2>3. (Ended(q)' <=> Ended(q)) /\ EndedOnce(q)'
    BY <2>1, <1>1, PipesKept
  <2>4. Marked(q)' <=> Marked(q)
    BY <2>1, MarkedKept
  <2> QED
    BY <1>1, <2>1, <2>2, <2>3, <2>4, GrantKept
<1>3. CASE PassCreate(t)
  <2>1. PICK r \in Rooms : /\ IsLowest(r, Vacant) /\ room' = [room EXCEPT ![t] = r]
                           /\ PassOn(t, r, "C")
    BY <1>3 DEF PassCreate
  <2>2. /\ at' = [at EXCEPT ![t] = "occupy"] /\ user[t] \in Users
        /\ UNCHANGED <<child_status, up, on, dropped>>
    BY <1>3 DEF PassCreate, Goes, WorkersType, table, rooms
  <2>3. \A other \in Threads : at[other] # "occupy"
    BY <1>3, DispatcherAssumption DEF PassCreate, Unlocked, LockType, Critical
  <2>4. down' = [down EXCEPT ![r] = Append(@, [cmd |-> "C", user |-> user[t]])]
    BY <2>1 DEF PassOn
  <2>5. (Ended(q)' <=> Ended(q)) /\ EndedOnce(q)'
    BY <2>2, <1>1, PipesKept
  <2>6. CASE q = r
    <3>1. Marked(q)
      BY <2>1, <2>3, <2>6 DEF Marked, IsLowest, Vacant
    <3>2. ~Marked(q)'
      BY <2>1, <2>2, <2>6 DEF Marked, WorkersType
    <3>3. Called(q)' /\ CalledOnce(q)'
      BY <1>1, <2>2, <2>4, <2>6, <3>1, DownGrows DEF Grant
    <3> QED
      BY <1>1, <2>2, <2>5, <3>1, <3>2, <3>3 DEF Grant
  <2>7. CASE q # r
    <3>1. Marked(q)' <=> Marked(q)
      BY <2>1, <2>2, <2>3, <2>7 DEF Marked, WorkersType
    <3>2. (Called(q)' <=> Called(q)) /\ CalledOnce(q)'
      BY <1>1, <2>2, <2>4, <2>7, DownGrows
    <3> QED
      BY <1>1, <2>2, <2>5, <3>1, <3>2, GrantKept
  <2> QED
    BY <2>6, <2>7
<1>4. CASE Occupy(t)
  <2>1. /\ at[t] = "occupy" /\ at' = [at EXCEPT ![t] = "countCreate"]
        /\ room[t] \in Rooms
        /\ child_status' = [child_status EXCEPT ![room[t]] = 1]
        /\ UNCHANGED <<room, down, up, on, dropped>>
    BY <1>4 DEF Occupy, Goes, WorkersType, Critical, pipes, rooms
  <2>2. /\ (Called(q)' <=> Called(q)) /\ CalledOnce(q)'
        /\ (Ended(q)' <=> Ended(q)) /\ EndedOnce(q)'
    BY <2>1, <1>1, PipesKept
  <2>3. Marked(q)' <=> Marked(q)
    <3>1. CASE q = room[t]
      <4>1. ~Marked(q)
        BY <2>1, <3>1 DEF Marked
      <4>2. child_status'[q] = 1
        BY <2>1, <3>1 DEF TableType
      <4> QED
        BY <4>1, <4>2 DEF Marked
    <3>2. CASE q # room[t]
      <4>1. child_status'[q] = child_status[q]
        BY <2>1, <3>2 DEF TableType
      <4>2. \A other \in Threads :
              (at'[other] = "occupy" /\ room'[other] = q)
                <=> (at[other] = "occupy" /\ room[other] = q)
        BY <2>1, <3>2 DEF WorkersType
      <4> QED
        BY <4>1, <4>2 DEF Marked
    <3> QED
      BY <3>1, <3>2
  <2> QED
    BY <1>1, <2>1, <2>2, <2>3, GrantKept
<1> QED
  BY <1>2, <1>3, <1>4

\* FreeRoom takes the one 'E' and marks the room vacant.
LEMMA MainGrants ==
  ASSUME TypeOK, OneGrant, MainThread
  PROVE  OneGrant'
<1> SUFFICES ASSUME NEW q \in Rooms PROVE Grant(q)'
  BY DEF OneGrant
<1> USE DEF TypeOK
<1>1. Grant(q) /\ CalledOnce(q) /\ EndedOnce(q)
  BY DEF OneGrant, Grant
<1>2. OccupyKept
  <2>1. UNCHANGED workers
    BY DEF MainThread, CountRoom, FreeRoom, CountQuit
  <2> QED
    BY <2>1 DEF OccupyKept, workers
<1>3. UNCHANGED <<down, on, dropped>>
  BY DEF MainThread, CountRoom, FreeRoom, CountQuit, pipes, rooms
<1>4. (Called(q)' <=> Called(q)) /\ CalledOnce(q)'
  BY <1>1, <1>3, PipesKept
<1>5. CASE CountRoom
  <2>1. UNCHANGED <<child_status, up>>
    BY <1>5 DEF CountRoom, pipes
  <2>2. Marked(q)' <=> Marked(q)
    BY <1>2, <2>1, MarkedKept
  <2>3. (Ended(q)' <=> Ended(q)) /\ EndedOnce(q)'
    BY <1>1, <2>1, PipesKept
  <2> QED
    BY <1>1, <1>3, <1>4, <2>2, <2>3, GrantKept
<1>6. ASSUME NEW r \in Rooms, FreeRoom(r) PROVE Grant(q)'
  <2>1. Report(r, "E") /\ child_status' = [child_status EXCEPT ![r] = 0]
    BY <1>6 DEF FreeRoom
  <2>2. CASE q = r
    <3>1. Ended(q) /\ ~Ended(q)' /\ EndedOnce(q)'
      BY <1>1, <2>1, <2>2, UpShrinks
    <3>2. \A t \in Threads : at[t] # "occupy"
      BY <1>6, DispatcherAssumption DEF FreeRoom, Unlocked, LockType, Critical
    <3>3. Marked(q)'
      BY <1>2, <2>1, <2>2, <3>2 DEF Marked, OccupyKept, TableType
    <3> QED
      BY <1>1, <1>3, <1>4, <3>1, <3>3 DEF Grant
  <2>3. CASE q # r
    <3>1. (Ended(q)' <=> Ended(q)) /\ EndedOnce(q)'
      BY <1>1, <2>1, <2>3, UpShrinks
    <3>2. Marked(q)' <=> Marked(q)
      BY <1>2, <2>1, <2>3 DEF Marked, OccupyKept, TableType
    <3> QED
      BY <1>1, <1>3, <1>4, <3>1, <3>2, GrantKept
  <2> QED
    BY <2>2, <2>3
<1>7. ASSUME NEW r \in Rooms, CountQuit(r) PROVE Grant(q)'
  <2>1. Report(r, "Q") /\ UNCHANGED child_status
    BY <1>7 DEF CountQuit
  <2>2. (Ended(q)' <=> Ended(q)) /\ EndedOnce(q)'
    BY <1>1, <2>1, UpShrinks
  <2>3. Marked(q)' <=> Marked(q)
    BY <1>2, <2>1, MarkedKept
  <2> QED
    BY <1>1, <1>3, <1>4, <2>2, <2>3, GrantKept
<1> QED
  BY <1>5, <1>6, <1>7 DEF MainThread

\* A 'C' becomes a meeting or is taken for nothing, a meeting becomes an 'E'.
LEMMA RoomGrants ==
  ASSUME TypeOK, OneGrant, NEW r \in Rooms, Room(r)
  PROVE  OneGrant'
<1> SUFFICES ASSUME NEW q \in Rooms PROVE Grant(q)'
  BY DEF OneGrant
<1> USE DEF TypeOK
<1>1. Grant(q) /\ CalledOnce(q) /\ EndedOnce(q)
  BY DEF OneGrant, Grant
<1>2. OccupyKept /\ UNCHANGED child_status
  <2>1. UNCHANGED <<table, workers>>
    BY DEF Room, TakeCreate, MissOwner, TakeJoin, Refuse, Drop, End, EndLate, ClearRoom,
           QuitLate, Quit
  <2> QED
    BY <2>1 DEF OccupyKept, table, workers
<1>3. Marked(q)' <=> Marked(q)
  BY <1>2, MarkedKept
<1>4. CASE TakeCreate(r) \/ MissOwner(r)
  <2>1. /\ Take(r, "C") /\ on' = [on EXCEPT ![r] = TRUE] /\ UNCHANGED dropped
        /\ UNCHANGED up \/ up' = [up EXCEPT ![r] = Append(@, "Q")]
    BY <1>4 DEF TakeCreate, MissOwner
  <2>2. (Ended(q)' <=> Ended(q)) /\ EndedOnce(q)'
    BY <1>1, <2>1, PipesKept, UpGrows
  <2>3. CASE q = r
    <3>1. Called(q) /\ ~Called(q)' /\ CalledOnce(q)'
      BY <1>1, <2>1, <2>3, DownShrinks
    <3>2. on'[q]
      BY <2>1, <2>3 DEF RoomsType
    <3> QED
      BY <1>1, <1>3, <2>1, <2>2, <3>1, <3>2 DEF Grant
  <2>4. CASE q # r
    <3>1. (Called(q)' <=> Called(q)) /\ CalledOnce(q)'
      BY <1>1, <2>1, <2>4, DownShrinks
    <3>2. on'[q] = on[q]
      BY <2>1, <2>4 DEF RoomsType
    <3> QED
      BY <1>1, <1>3, <2>1, <2>2, <3>1, <3>2, GrantKept
  <2> QED
    BY <2>3, <2>4
<1>5. ASSUME Take(r, "J"), UNCHANGED <<on, up, dropped>> PROVE Grant(q)'
  <2>1. (Ended(q)' <=> Ended(q)) /\ EndedOnce(q)'
    BY <1>1, <1>5, PipesKept
  <2>2. (Called(q)' <=> Called(q)) /\ CalledOnce(q)'
    BY <1>1, <1>5, DownShrinks
  <2> QED
    BY <1>1, <1>3, <1>5, <2>1, <2>2, GrantKept
<1>6. CASE TakeJoin(r) \/ Refuse(r)
  BY <1>5, <1>6 DEF TakeJoin, Refuse, rooms
<1>7. CASE Drop(r)
  <2>1. CASE Take(r, "J") /\ UNCHANGED dropped
    BY <1>5, <1>7, <2>1 DEF Drop
  <2>2. CASE Take(r, "C") /\ dropped' = dropped \cup {r}
    <3>1. UNCHANGED <<on, up>>
      BY <1>7 DEF Drop
    <3>2. (Ended(q)' <=> Ended(q)) /\ EndedOnce(q)'
      BY <1>1, <3>1, PipesKept
    <3>3. CASE q = r
      <4>1. Called(q) /\ ~Called(q)' /\ CalledOnce(q)'
        BY <1>1, <2>2, <3>3, DownShrinks
      <4>2. q \in dropped'
        BY <2>2, <3>3
      <4> QED
        BY <1>1, <1>3, <3>1, <3>2, <4>1, <4>2 DEF Grant
    <3>4. CASE q # r
      <4>1. (Called(q)' <=> Called(q)) /\ CalledOnce(q)'
        BY <1>1, <2>2, <3>4, DownShrinks
      <4>2. q \in dropped' <=> q \in dropped
        BY <2>2, <3>4
      <4> QED
        BY <1>1, <1>3, <3>1, <3>2, <4>1, <4>2, GrantKept
    <3> QED
      BY <3>3, <3>4
  <2> QED
    BY <1>7, <2>1, <2>2 DEF Drop
<1>8. CASE End(r) \/ EndLate(r)
  <2>1. /\ on[r] /\ on' = [on EXCEPT ![r] = FALSE] /\ UNCHANGED <<down, dropped>>
        /\ up' = [up EXCEPT ![r] = Append(@, "E")]
    BY <1>8 DEF End, EndLate, ClearRoom
  <2>2. (Called(q)' <=> Called(q)) /\ CalledOnce(q)'
    BY <1>1, <2>1, PipesKept
  <2>3. CASE q = r
    <3>1. Ended(q)' /\ EndedOnce(q)'
      BY <1>1, <2>1, <2>3, UpGrows DEF Grant
    <3>2. ~on'[q]
      BY <2>1, <2>3 DEF RoomsType
    <3> QED
      BY <1>1, <1>3, <2>1, <2>2, <2>3, <3>1, <3>2 DEF Grant
  <2>4. CASE q # r
    <3>1. (Ended(q)' <=> Ended(q)) /\ EndedOnce(q)'
      BY <1>1, <2>1, <2>4, UpGrows
    <3>2. on'[q] = on[q]
      BY <2>1, <2>4 DEF RoomsType
    <3> QED
      BY <1>1, <1>3, <2>1, <2>2, <3>1, <3>2, GrantKept
  <2> QED
    BY <2>3, <2>4
<1>9. CASE QuitLate(r) \/ \E u \in Users : Quit(r, u)
  <2>1. up' = [up EXCEPT ![r] = Append(@, "Q")] /\ UNCHANGED <<on, down, dropped>>
    BY <1>9 DEF QuitLate, Quit
  <2>2. (Called(q)' <=> Called(q)) /\ CalledOnce(q)'
    BY <1>1, <2>1, PipesKept
  <2>3. (Ended(q)' <=> Ended(q)) /\ EndedOnce(q)'
    BY <1>1, <2>1, UpGrows
  <2> QED
    BY <1>1, <1>3, <2>1, <2>2, <2>3, GrantKept
<1> QED
  BY <1>4, <1>6, <1>7, <1>8, <1>9 DEF Room

\* The inductive step of OneGrant.
LEMMA GrantsStep == TypeOK /\ OneGrant /\ [Next]_vars => OneGrant'
<1> SUFFICES ASSUME TypeOK, OneGrant, [Next]_vars PROVE OneGrant'
  OBVIOUS
<1>1. CASE UNCHANGED <<child_status, at, room, down, up, on, dropped>>
  BY <1>1 DEF OneGrant, Grant, Marked, Called, CalledOnce, Ended, EndedOnce
<1>2. CASE UNCHANGED vars
  BY <1>1, <1>2 DEF vars, table, workers, pipes, rooms
<1>3. CASE LoseRoom
  BY <1>1, <1>3 DEF LoseRoom, table, workers, pipes, rooms
<1>4. ASSUME NEW u \in Users, User(u) PROVE OneGrant'
  BY <1>1, <1>4 DEF User, Connect, HangUp, table, workers, pipes, rooms
<1>5. CASE Step
  BY <1>3, <1>4, <1>5, WorkerGrants, MainGrants, RoomGrants DEF Step
<1> QED
  BY <1>2, <1>5 DEF Next, Rest

\* A room is never given away twice: at every moment it is vacant, called for,
\* in use, reported empty or lost, and only one of these.
THEOREM GrantsAreExclusive == Spec => []OneGrant
<1>1. Init => OneGrant
  BY DEF Init, OneGrant, Grant, Marked, Called, CalledOnce, Ended, EndedOnce
<1> QED
  BY <1>1, TypeCorrect, GrantsStep, PTL DEF Spec

----------------------------------------------------------------------------
\* navail counts the vacant rooms

\* What the holder of room->lock may rely on: where it is tells by how much
\* navail is off, and the room it is about to mark is vacant.
NavailInv ==
  /\ \A t \in Threads : at[t] = "countCreate" => navail = Cardinality(Vacant) + 1
  /\ \A t \in Threads : at[t] = "occupy" => child_status[room[t]] = 0
  /\ mainAt # 0 => navail = Cardinality(Vacant) - 1
  /\ mainAt = 0 /\ (\A t \in Threads : at[t] # "countCreate")
       => navail = Cardinality(Vacant)

\* Steps that leave the table alone and do not bring a worker to "occupy" or to
\* "countCreate", or take it away from there.
LEMMA NavailKept ==
  ASSUME NavailInv, OccupyKept, UNCHANGED <<navail, child_status, mainAt>>,
         \A t \in Threads : at'[t] = "countCreate" <=> at[t] = "countCreate"
  PROVE  NavailInv'
<1>1. Vacant' = Vacant
  BY DEF Vacant
<1> QED
  BY <1>1 DEF NavailInv, OccupyKept

\* Adding a room to the vacant ones or taking one away changes the count by 1.
LEMMA VacantCounts ==
  /\ IsFiniteSet(Vacant)
  /\ Cardinality(Vacant) \in Nat
  /\ \A r \in Rooms \ Vacant : Cardinality(Vacant \cup {r}) = Cardinality(Vacant) + 1
  /\ \A r \in Vacant : Cardinality(Vacant \ {r}) = Cardinality(Vacant) - 1
<1>1. IsFiniteSet(Rooms)
  <2>1. 1 \in Int /\ nprocesses \in Int
    BY DispatcherAssumption
  <2> QED
    BY <2>1, FS_Interval DEF Rooms
<1>2. Vacant \subseteq Rooms
  BY DEF Vacant
<1>3. IsFiniteSet(Vacant)
  BY <1>1, <1>2, FS_Subset
<1> QED
  BY <1>3, FS_CardinalityType, FS_AddElement, FS_RemoveElement

\* A worker: Occupy takes a vacant room away, CountCreate lowers navail.
LEMMA WorkerNavail ==
  ASSUME TypeOK, NavailInv, NEW t \in Threads, Worker(t)
  PROVE  NavailInv'
<1> USE DEF TypeOK
<1>1. /\ at \in [Threads -> Places] /\ room \in [Threads -> Rooms \cup {0}]
      /\ navail \in Int /\ Cardinality(Vacant) \in Nat
  BY VacantCounts DEF WorkersType, TableType
<1> DEFINE Quiet ==
      /\ \A other \in Threads : at'[other] = "countCreate" <=> at[other] = "countCreate"
      /\ UNCHANGED <<navail, child_status, mainAt>>
<1>2. ASSUME NEW u \in Users, Accept(t, u) PROVE Quiet
  BY <1>1, <1>2 DEF Accept, Goes, table
<1>3. ASSUME NEW r \in Rooms, ReadJoin(t, r) PROVE Quiet
  BY <1>1, <1>3 DEF ReadJoin, Goes, table
<1>4. ASSUME ReadCreate(t) \/ ReadClosed(t) \/ TestAvail(t) \/ FindNone(t) \/ AnswerNoRoom(t) PROVE Quiet
  BY <1>1, <1>4 DEF ReadCreate, ReadClosed, TestAvail, FindNone, AnswerNoRoom, Goes, table
<1>5. ASSUME LookUp(t) \/ AnswerNone(t) \/ TestFull(t) \/ AnswerFull(t) PROVE Quiet
  BY <1>1, <1>5 DEF LookUp, AnswerNone, TestFull, AnswerFull, Goes, table
<1>6. ASSUME PassJoin(t) \/ AnswerJoin(t) \/ CountJoin(t) \/ PassFails(t) PROVE Quiet
  BY <1>1, <1>6 DEF PassJoin, AnswerJoin, CountJoin, PassFails, Goes, table
<1>7. CASE PassCreate(t)
  <2>1. PICK r \in Vacant : room' = [room EXCEPT ![t] = r]
    BY <1>7 DEF PassCreate, IsLowest, Vacant
  <2>2. /\ at' = [at EXCEPT ![t] = "occupy"] /\ at[t] = "lockCreate"
        /\ UNCHANGED <<navail, child_status, mainAt>>
    BY <1>7 DEF PassCreate, Goes, table
  <2>3. Vacant' = Vacant /\ child_status[r] = 0
    BY <2>2 DEF Vacant
  <2> QED
    BY <1>1, <2>1, <2>2, <2>3 DEF NavailInv
<1>8. CASE Occupy(t)
  <2>1. /\ at[t] = "occupy" /\ at' = [at EXCEPT ![t] = "countCreate"]
        /\ room[t] \in Rooms
        /\ child_status' = [child_status EXCEPT ![room[t]] = 1]
        /\ UNCHANGED <<navail, room, mainAt>>
    BY <1>8 DEF Occupy, Goes, WorkersType, Critical
  <2>2. /\ mainAt = 0
        /\ \A other \in Threads : other = t \/ at[other] \notin {"occupy", "countCreate"}
    BY <2>1, DispatcherAssumption DEF LockType, Critical
  <2>3. room[t] \in Vacant /\ navail = Cardinality(Vacant)
    BY <2>1, <2>2 DEF NavailInv, Vacant
  <2>4. Vacant' = Vacant \ {room[t]}
    BY <2>1 DEF Vacant, TableType
  <2>5. Cardinality(Vacant \ {room[t]}) = Cardinality(Vacant) - 1
    BY <2>3, VacantCounts
  <2>6. navail' = Cardinality(Vacant') + 1
    BY <1>1, <2>1, <2>3, <2>4, <2>5
  <2> QED
    BY <1>1, <2>1, <2>2, <2>6 DEF NavailInv
<1>9. CASE CountCreate(t)
  <2>1. /\ at[t] = "countCreate" /\ at' = [at EXCEPT ![t] = "accept"]
        /\ navail' = navail - 1 /\ UNCHANGED <<child_status, room, mainAt>>
    BY <1>9 DEF CountCreate, Goes
  <2>2. /\ mainAt = 0
        /\ \A other \in Threads : other = t \/ at[other] \notin {"occupy", "countCreate"}
    BY <2>1, DispatcherAssumption DEF LockType, Critical
  <2>3. Vacant' = Vacant /\ navail = Cardinality(Vacant) + 1
    BY <2>1 DEF NavailInv, Vacant
  <2>4. navail' = Cardinality(Vacant')
    BY <1>1, <2>1, <2>3
  <2> QED
    BY <1>1, <2>1, <2>2, <2>4 DEF NavailInv
<1>10. ASSUME ~PassCreate(t), ~Occupy(t), Quiet PROVE NavailInv'
  BY <1>10, WorkerQuiet, NavailKept
<1> QED
  BY <1>2, <1>3, <1>4, <1>5, <1>6, <1>7, <1>8, <1>9, <1>10 DEF Worker

\* The main thread: FreeRoom adds a vacant room, CountRoom raises navail.
LEMMA MainNavail ==
  ASSUME TypeOK, OneGrant, NavailInv, MainThread
  PROVE  NavailInv'
<1> USE DEF TypeOK
<1>1. navail \in Int /\ Cardinality(Vacant) \in Nat
  BY VacantCounts DEF TableType
<1>2. UNCHANGED <<at, room>>
  BY DEF MainThread, CountRoom, FreeRoom, CountQuit, workers
<1>3. CASE CountRoom
  <2>1. mainAt # 0 /\ mainAt' = 0 /\ navail' = navail + 1 /\ UNCHANGED child_status
    BY <1>3 DEF CountRoom
  <2>2. \A t \in Threads : at[t] \notin {"occupy", "countCreate"}
    BY <2>1, DispatcherAssumption DEF LockType, Critical
  <2>3. Vacant' = Vacant /\ navail = Cardinality(Vacant) - 1
    BY <2>1 DEF NavailInv, Vacant
  <2>4. navail' = Cardinality(Vacant')
    BY <1>1, <2>1, <2>3
  <2> QED
    BY <1>2, <2>1, <2>2, <2>4 DEF NavailInv
<1>4. ASSUME NEW r \in Rooms, FreeRoom(r) PROVE NavailInv'
  <2>1. /\ mainAt = 0 /\ mainAt' = r /\ r # 0 /\ Report(r, "E") /\ UNCHANGED navail
        /\ child_status' = [child_status EXCEPT ![r] = 0]
    BY <1>4 DEF FreeRoom, Rooms
  <2>2. \A t \in Threads : at[t] \notin {"occupy", "countCreate"}
    BY <1>4, DispatcherAssumption DEF FreeRoom, Unlocked, LockType, Critical
  <2>3. r \in Rooms \ Vacant
    <3>1. Ended(r)
      BY <2>1, UpShrinks
    <3>2. ~Marked(r)
      BY <3>1 DEF OneGrant, Grant
    <3> QED
      BY <2>2, <3>2 DEF Marked, Vacant
  <2>4. Vacant' = Vacant \cup {r}
    BY <2>1 DEF Vacant, TableType
  <2>5. Cardinality(Vacant \cup {r}) = Cardinality(Vacant) + 1
    BY <2>3, VacantCounts
  <2>6. navail = Cardinality(Vacant)
    BY <2>1, <2>2 DEF NavailInv
  <2>7. navail' = Cardinality(Vacant') - 1
    BY <1>1, <2>1, <2>4, <2>5, <2>6
  <2> QED
    BY <1>2, <2>1, <2>2, <2>7 DEF NavailInv
<1>5. ASSUME NEW r \in Rooms, CountQuit(r) PROVE NavailInv'
  <2>1. UNCHANGED <<navail, child_status, mainAt>>
    BY <1>5 DEF CountQuit
  <2> QED
    BY <1>2, <2>1, NavailKept DEF OccupyKept
<1> QED
  BY <1>3, <1>4, <1>5 DEF MainThread

\* The inductive step of NavailInv.
LEMMA NavailStep == TypeOK /\ OneGrant /\ NavailInv /\ [Next]_vars => NavailInv'
<1> SUFFICES ASSUME TypeOK, OneGrant, NavailInv, [Next]_vars PROVE NavailInv'
  OBVIOUS
<1>1. CASE UNCHANGED <<table, workers, mainAt>>
  BY <1>1, NavailKept DEF OccupyKept, table, workers
<1>2. CASE UNCHANGED vars
  BY <1>1, <1>2 DEF vars
<1>3. CASE LoseRoom
  BY <1>1, <1>3 DEF LoseRoom
<1>4. ASSUME NEW u \in Users, User(u) PROVE NavailInv'
  BY <1>1, <1>4 DEF User, Connect, HangUp
<1>5. ASSUME NEW r \in Rooms, Room(r) PROVE NavailInv'
  BY <1>1, <1>5 DEF Room, TakeCreate, MissOwner, TakeJoin, Refuse, Drop, End, EndLate,
                    ClearRoom, QuitLate, Quit
<1>6. CASE Step
  BY <1>3, <1>4, <1>5, <1>6, WorkerNavail, MainNavail DEF Step
<1> QED
  BY <1>2, <1>6 DEF Next, Rest

\* Whenever room->lock is free, navail is the number of vacant rooms, although
\* it and child_status are written at different moments by different threads.
THEOREM NavailCorrect == Spec => []NavailCounts
<1>1. Init => NavailInv
  <2> SUFFICES ASSUME Init PROVE NavailInv
    OBVIOUS
  <2>1. Vacant = 1..nprocesses
    BY DEF Init, Vacant, Rooms
  <2>2. Cardinality(1..nprocesses) = nprocesses
    BY FS_Interval, DispatcherAssumption
  <2> QED
    BY <2>1, <2>2 DEF Init, NavailInv
<1>2. TypeOK /\ NavailInv => NavailCounts
  <2> SUFFICES ASSUME TypeOK, NavailInv, lock = Free
               PROVE  navail = Cardinality(Vacant)
    BY DEF NavailCounts
  <2>1. mainAt = 0 /\ \A t \in Threads : at[t] # "countCreate"
    BY DispatcherAssumption DEF TypeOK, LockType, Critical
  <2> QED
    BY <2>1 DEF NavailInv
<1> QED
  BY <1>1, <1>2, TypeCorrect, GrantsAreExclusive, NavailStep, PTL DEF Spec

----------------------------------------------------------------------------
\* The first command of a room is a 'C'

\* r has had no command yet, and somebody has to do with it.
Awaits(r) ==
  /\ roomstatus[r] = "ON" /\ ~on[r] /\ r \notin dropped
  /\ \/ child_status[r] = 1
     \/ down[r] # << >>
     \/ \E t \in Threads : room[t] = r /\ at[t] \in {"occupy", "testFull", "lockJoin"}

\* A user is passed to a room only after somebody was passed to it to create its
\* meeting: the room is marked in between (child_status).
FirstInv ==
  \A r \in Rooms : Awaits(r) => down[r] # << >> /\ Head(down[r]).cmd = "C"

\* A command behind others does not come first.
LEMMA HeadKept ==
  ASSUME NEW T, NEW s \in Seq(T), NEW x \in T
  PROVE  /\ Append(s, x) # << >>
         /\ Head(Append(s, x)) = IF s = << >> THEN x ELSE Head(s)
<1>1. Append(s, x) # << >> /\ Head(Append(s, x)) = Append(s, x)[1]
  OBVIOUS
<1>2. CASE s = << >>
  BY <1>1, <1>2
<1>3. CASE s # << >>
  BY <1>1, <1>3
<1> QED
  BY <1>1, <1>2, <1>3

\* A step that leaves the pipes alone and brings nobody to a room.
LEMMA FirstKept ==
  ASSUME FirstInv, UNCHANGED down, \A r \in Rooms : Awaits(r)' => Awaits(r)
  PROVE  FirstInv'
BY DEF FirstInv

\* The workers: LookUp finds a room marked, PassCreate calls one.
LEMMA WorkerFirst ==
  ASSUME TypeOK, FirstInv, NEW t \in Threads, Worker(t)
  PROVE  FirstInv'
<1>1. /\ at \in [Threads -> Places] /\ room \in [Threads -> Rooms \cup {0}]
      /\ child_status \in [Rooms -> {0, 1}] /\ down \in [Rooms -> Seq(Command)]
      /\ at[t] \in {"lockCreate", "lockJoin"} => user[t] \in Users
      /\ at[t] \in {"lockJoin", "testFull", "join", "occupy"} => room[t] \in Rooms
  BY DEF TypeOK, WorkersType, TableType, RoomsType, Critical
<1>2. UNCHANGED rooms
  BY DEF Worker, Accept, ReadCreate, ReadClosed, ReadJoin, TestAvail, FindNone, AnswerNoRoom,
     PassCreate, Occupy, CountCreate, LookUp, AnswerNone, TestFull, AnswerFull, PassJoin,
     AnswerJoin, CountJoin, PassFails
<1>3. ASSUME NEW place \in Places \ {"occupy", "testFull", "lockJoin"}, Goes(t, place),
             \A other \in Threads : other # t => room'[other] = room[other],
             UNCHANGED <<child_status, down>>
      PROVE  FirstInv'
  BY <1>1, <1>2, <1>3, FirstKept DEF Awaits, Goes, rooms
<1>4. \A other \in Threads : other # t => room'[other] = room[other]
  BY <1>1 DEF Worker, Accept, ReadCreate, ReadClosed, ReadJoin, TestAvail, FindNone,
     AnswerNoRoom, PassCreate, Occupy, CountCreate, LookUp, AnswerNone, TestFull, AnswerFull,
     PassJoin, AnswerJoin, CountJoin, PassFails
<1>5. ASSUME \E u \in Users : Accept(t, u) PROVE FirstInv'
  BY <1>3, <1>4, <1>5 DEF Accept, Places, pipes, table
<1>6. ASSUME \E r \in Rooms : ReadJoin(t, r) PROVE FirstInv'
  BY <1>3, <1>4, <1>6 DEF ReadJoin, Places, pipes, table
<1>7. ASSUME ReadCreate(t) \/ ReadClosed(t) \/ FindNone(t) \/ AnswerNoRoom(t) PROVE FirstInv'
  BY <1>3, <1>4, <1>7 DEF ReadCreate, ReadClosed, FindNone, AnswerNoRoom, Places, pipes, table
<1>8. ASSUME TestAvail(t) PROVE FirstInv'
  <2>1. PICK place \in {"answerNoRoom", "lockCreate"} : Goes(t, place)
    BY <1>8 DEF TestAvail
  <2> QED
    BY <1>3, <1>4, <1>8, <2>1 DEF TestAvail, Places, pipes, table
<1>9. ASSUME CountCreate(t) \/ AnswerNone(t) \/ AnswerFull(t) PROVE FirstInv'
  BY <1>3, <1>4, <1>9 DEF CountCreate, AnswerNone, AnswerFull, Places, pipes, table
<1>10. ASSUME AnswerJoin(t) \/ CountJoin(t) \/ PassFails(t) PROVE FirstInv'
  BY <1>3, <1>4, <1>10 DEF AnswerJoin, CountJoin, PassFails, Places, pipes, table
<1>11. ASSUME LookUp(t) PROVE FirstInv'
  <2>1. /\ at[t] = "join" /\ room[t] \in Rooms /\ UNCHANGED <<child_status, room, down>>
        /\ at' = [at EXCEPT ![t] = IF child_status[room[t]] = 1 THEN "testFull"
                                   ELSE "answerNone"]
    BY <1>1, <1>11 DEF LookUp, Goes, table, pipes
  <2>2. ASSUME NEW r \in Rooms, Awaits(r)' PROVE Awaits(r)
    BY <1>1, <1>2, <2>1, <2>2 DEF Awaits, rooms
  <2> QED
    BY <2>1, <2>2, FirstKept
<1>12. ASSUME TestFull(t) PROVE FirstInv'
  <2>1. /\ at[t] = "testFull" /\ UNCHANGED <<child_status, room, down>>
        /\ at' = [at EXCEPT ![t] = IF HasSeat(room[t]) THEN "lockJoin" ELSE "answerFull"]
    BY <1>12 DEF TestFull, Goes, table, pipes
  <2>2. ASSUME NEW r \in Rooms, Awaits(r)' PROVE Awaits(r)
    BY <1>1, <1>2, <2>1, <2>2 DEF Awaits, rooms
  <2> QED
    BY <2>1, <2>2, FirstKept
<1>13. ASSUME Occupy(t) PROVE FirstInv'
  <2>1. /\ at[t] = "occupy" /\ room[t] \in Rooms /\ UNCHANGED <<room, down>>
        /\ at' = [at EXCEPT ![t] = "countCreate"]
        /\ child_status' = [child_status EXCEPT ![room[t]] = 1]
    BY <1>1, <1>13 DEF Occupy, Goes, pipes
  <2>2. ASSUME NEW r \in Rooms, Awaits(r)' PROVE Awaits(r)
    BY <1>1, <1>2, <2>1, <2>2 DEF Awaits, rooms
  <2> QED
    BY <2>1, <2>2, FirstKept
<1>14. ASSUME PassCreate(t) PROVE FirstInv'
  <2>1. PICK r \in Rooms : room' = [room EXCEPT ![t] = r] /\ PassOn(t, r, "C")
    BY <1>14 DEF PassCreate
  <2>2. /\ at' = [at EXCEPT ![t] = "occupy"] /\ UNCHANGED child_status /\ user[t] \in Users
    BY <1>1, <1>14 DEF PassCreate, Goes, table
  <2>3. PICK x \in Command : x.cmd = "C" /\ down' = [down EXCEPT ![r] = Append(@, x)]
    BY <2>1, <2>2 DEF PassOn, Command
  <2>4. down'[r] = Append(down[r], x) /\ \A q \in Rooms \ {r} : down'[q] = down[q]
    BY <1>1, <2>3
  <2>5. ASSUME NEW q \in Rooms, Awaits(q)' PROVE (down[q] # << >> /\ Head(down[q]).cmd = "C")'
    <3>1. CASE q = r
      <4>1. down[r] # << >> => Awaits(r)
        BY <1>2, <2>5, <3>1 DEF Awaits, rooms
      <4>2. down[r] # << >> => Head(down[r]).cmd = "C"
        BY <4>1 DEF FirstInv
      <4>3. /\ Append(down[r], x) # << >>
            /\ Head(Append(down[r], x)) = IF down[r] = << >> THEN x ELSE Head(down[r])
        BY <1>1, HeadKept
      <4> QED
        BY <2>3, <2>4, <3>1, <4>2, <4>3
    <3>2. CASE q # r
      <4>1. Awaits(q)
        BY <1>1, <1>2, <2>1, <2>2, <2>4, <2>5, <3>2 DEF Awaits, rooms
      <4> QED
        BY <2>4, <3>2, <4>1 DEF FirstInv
    <3> QED
      BY <3>1, <3>2
  <2> QED
    BY <2>5 DEF FirstInv
<1>15. ASSUME PassJoin(t) PROVE FirstInv'
  <2>1. /\ at[t] = "lockJoin" /\ room[t] \in Rooms /\ PassOn(t, room[t], "J")
        /\ at' = [at EXCEPT ![t] = "answerJoin"] /\ UNCHANGED <<child_status, room>>
        /\ user[t] \in Users
    BY <1>1, <1>15 DEF PassJoin, Goes, table
  <2>2. PICK r \in Rooms : r = room[t]
    BY <2>1
  <2>3. PICK x \in Command : down' = [down EXCEPT ![r] = Append(@, x)]
    BY <2>1, <2>2 DEF PassOn, Command
  <2>4. down'[r] = Append(down[r], x) /\ \A q \in Rooms \ {r} : down'[q] = down[q]
    BY <1>1, <2>3
  <2>5. ASSUME NEW q \in Rooms, Awaits(q)' PROVE (down[q] # << >> /\ Head(down[q]).cmd = "C")'
    <3>1. Awaits(q)
      <4>1. CASE q = r
        BY <1>2, <2>1, <2>2, <2>5, <4>1 DEF Awaits, rooms
      <4>2. CASE q # r
        BY <1>1, <1>2, <2>1, <2>2, <2>4, <2>5, <4>2 DEF Awaits, rooms
      <4> QED
        BY <4>1, <4>2
    <3>2. down[q] # << >> /\ Head(down[q]).cmd = "C"
      BY <3>1 DEF FirstInv
    <3>3. CASE q = r
      <4>1. Head(Append(down[r], x)) = IF down[r] = << >> THEN x ELSE Head(down[r])
        BY <1>1, HeadKept
      <4>2. Append(down[r], x) # << >>
        BY <1>1, HeadKept
      <4> QED
        BY <2>4, <3>2, <3>3, <4>1, <4>2
    <3>4. CASE q # r
      BY <2>4, <3>2, <3>4
    <3> QED
      BY <3>3, <3>4
  <2> QED
    BY <2>5 DEF FirstInv
<1> QED
  BY <1>5, <1>6, <1>7, <1>8, <1>9, <1>10, <1>11, <1>12, <1>13, <1>14, <1>15 DEF Worker

\* The rooms: once its 'C' is taken a room is on, or closed, or lost.
LEMMA RoomFirst ==
  ASSUME TypeOK, FirstInv, NEW r \in Rooms, Room(r)
  PROVE  FirstInv'
<1>1. /\ roomstatus \in [Rooms -> {"ON", "CLOSE"}] /\ on \in [Rooms -> BOOLEAN]
      /\ down \in [Rooms -> Seq(Command)] /\ dropped \subseteq Rooms
  BY DEF TypeOK, RoomsType
<1>2. UNCHANGED <<at, room, child_status>>
  BY DEF Room, TakeCreate, MissOwner, TakeJoin, Refuse, Drop, End, EndLate, ClearRoom,
         QuitLate, Quit, table, workers
<1>3. ASSUME NEW q \in Rooms, q # r
      PROVE  /\ roomstatus'[q] = roomstatus[q] /\ on'[q] = on[q]
             /\ q \in dropped' <=> q \in dropped
             /\ down'[q] = down[q]
  BY <1>1, <1>3 DEF Room, TakeCreate, MissOwner, TakeJoin, Refuse, Drop, End, EndLate,
     ClearRoom, QuitLate, Quit, Take, rooms
<1>4. ASSUME Awaits(r)' PROVE Awaits(r) /\ down'[r] = down[r]
  <2>1. CASE TakeCreate(r) \/ MissOwner(r)
    BY <1>1, <1>4, <2>1 DEF TakeCreate, MissOwner, Awaits
  <2>2. CASE End(r) \/ EndLate(r)
    BY <1>1, <1>4, <2>2 DEF End, EndLate, ClearRoom, Awaits
  <2>3. CASE QuitLate(r) \/ \E u \in Users : Quit(r, u)
    BY <1>2, <1>4, <2>3 DEF QuitLate, Quit, Awaits
  <2>4. ASSUME Take(r, "J"), UNCHANGED <<roomstatus, on, dropped>> PROVE FALSE
    <3>1. Awaits(r)
      BY <1>4, <2>4 DEF Awaits, Take
    <3> QED
      BY <2>4, <3>1 DEF FirstInv, Take
  <2>5. CASE TakeJoin(r) \/ Refuse(r)
    BY <2>4, <2>5 DEF TakeJoin, Refuse, rooms
  <2>6. CASE Drop(r)
    BY <1>4, <2>4, <2>6 DEF Drop, Awaits
  <2> QED
    BY <2>1, <2>2, <2>3, <2>5, <2>6 DEF Room
<1>5. ASSUME NEW q \in Rooms, Awaits(q)' PROVE (down[q] # << >> /\ Head(down[q]).cmd = "C")'
  <2>1. Awaits(q) /\ down'[q] = down[q]
    <3>1. CASE q = r
      BY <1>4, <1>5, <3>1
    <3>2. CASE q # r
      BY <1>2, <1>3, <1>5, <3>2 DEF Awaits
    <3> QED
      BY <3>1, <3>2
  <2> QED
    BY <2>1 DEF FirstInv
<1> QED
  BY <1>5 DEF FirstInv

\* The inductive step of FirstInv.
LEMMA FirstStep == TypeOK /\ FirstInv /\ [Next]_vars => FirstInv'
<1> SUFFICES ASSUME TypeOK, FirstInv, [Next]_vars PROVE FirstInv'
  OBVIOUS
<1>1. ASSUME UNCHANGED <<at, room, child_status, down, rooms>> PROVE FirstInv'
  BY <1>1, FirstKept DEF Awaits, rooms
<1>2. CASE UNCHANGED vars
  BY <1>1, <1>2 DEF vars, table, workers, pipes
<1>3. CASE LoseRoom
  BY <1>1, <1>3 DEF LoseRoom, table, workers, pipes
<1>4. CASE MainThread
  <2>1. UNCHANGED <<at, room, down, roomstatus, on, dropped>>
    BY <1>4 DEF MainThread, CountRoom, FreeRoom, CountQuit, workers, pipes, rooms
  <2>2. \A r \in Rooms : child_status'[r] = 1 => child_status[r] = 1
    BY <1>4 DEF MainThread, CountRoom, FreeRoom, CountQuit, TypeOK, TableType
  <2> QED
    BY <2>1, <2>2, FirstKept DEF Awaits
<1>5. ASSUME NEW u \in Users, User(u) PROVE FirstInv'
  BY <1>1, <1>5 DEF User, Connect, HangUp, table, workers, pipes
<1>6. CASE Step
  BY <1>3, <1>4, <1>5, <1>6, WorkerFirst, RoomFirst DEF Step
<1> QED
  BY <1>2, <1>6 DEF Next, Rest

\* The first command in a room's pipe is the one that starts its meeting.
LEMMA FirstHolds == Spec => []FirstInv
<1>1. Init => FirstInv
  BY DEF Init, FirstInv, Awaits
<1> QED
  BY <1>1, TypeCorrect, FirstStep, PTL DEF Spec

----------------------------------------------------------------------------
\* A connection is in one place, and each room is a meeting

\* The worker has its user's connection and has not passed it on.
Asks(t) == at[t] \notin Critical \cup {"accept"}

AskInv ==
  /\ \A t \in Threads : Asks(t) => where[user[t]] = "served"
  /\ \A t, other \in Threads : Asks(t) /\ Asks(other) /\ user[t] = user[other] => t = other

PipeInv ==
  /\ \A r \in Rooms : \A i \in DOMAIN down[r] : where[down[r][i].user] = "passed"
  /\ \A r, q \in Rooms : \A i \in DOMAIN down[r], j \in DOMAIN down[q] :
       down[r][i].user = down[q][j].user => r = q /\ i = j

MemberInv ==
  /\ \A r \in Rooms : \A u \in members[r] : where[u] = "in"
  /\ \A r, q \in Rooms : r # q => members[r] \cap members[q] = {}
  /\ \A r \in Rooms : ~on[r] /\ r \notin dropped => members[r] = {}

\* A connection is in one place: with one worker, once in one pipe, or in one room.
PlaceInv == AskInv /\ PipeInv /\ MemberInv

\* A step that gives no worker a user.
LEMMA AsksKept ==
  ASSUME AskInv,
         \A t \in Threads : Asks(t)' => /\ Asks(t) /\ user'[t] = user[t]
                                        /\ where'[user[t]] = where[user[t]]
  PROVE  AskInv'
BY DEF AskInv, Asks

\* A step that leaves the pipes alone and moves nobody who is in one.
LEMMA PipesStay ==
  ASSUME RoomsType, PipeInv, UNCHANGED down,
         \A u \in Users : where[u] = "passed" => where'[u] = "passed"
  PROVE  PipeInv'
<1>1. ASSUME NEW r \in Rooms, NEW i \in DOMAIN down[r] PROVE down[r][i].user \in Users
  <2>1. down[r] \in Seq(Command)
    BY DEF RoomsType
  <2>2. down[r][i] \in Command
    BY <2>1
  <2> QED
    BY <2>2 DEF Command
<1>2. \A r \in Rooms : \A i \in DOMAIN down[r] : where'[down[r][i].user] = "passed"
  BY <1>1 DEF PipeInv
<1>3. \A r, q \in Rooms : \A i \in DOMAIN down[r], j \in DOMAIN down[q] :
        down[r][i].user = down[q][j].user => r = q /\ i = j
  BY DEF PipeInv
<1>4. down' = down
  OBVIOUS
<1>5. \A r \in Rooms : \A i \in DOMAIN down'[r] : where'[down'[r][i].user] = "passed"
  BY <1>2, <1>4
<1>6. \A r, q \in Rooms : \A i \in DOMAIN down'[r], j \in DOMAIN down'[q] :
        down'[r][i].user = down'[q][j].user => r = q /\ i = j
  BY <1>3, <1>4
<1> QED
  BY <1>5, <1>6 DEF PipeInv

\* A step that lets nobody into a room.
LEMMA MembersKept ==
  ASSUME MemberInv, \A r \in Rooms : members'[r] \subseteq members[r],
         \A r \in Rooms : \A u \in members'[r] : where'[u] = where[u],
         \A r \in Rooms : ~on'[r] /\ r \notin dropped' => ~on[r] /\ r \notin dropped
  PROVE  MemberInv'
<1>1. \A r \in Rooms : \A u \in members'[r] : where'[u] = "in"
  BY DEF MemberInv
<1>2. \A r, q \in Rooms : r # q => members'[r] \cap members'[q] = {}
  BY DEF MemberInv
<1>3. \A r \in Rooms : ~on'[r] /\ r \notin dropped' => members'[r] = {}
  BY DEF MemberInv
<1> QED
  BY <1>1, <1>2, <1>3 DEF MemberInv

\* A step that moves nobody.
LEMMA PlacesKept ==
  ASSUME TypeOK, PlaceInv, UNCHANGED <<where, down, on, members, dropped>>,
         \A t \in Threads : Asks(t)' => Asks(t) /\ user'[t] = user[t]
  PROVE  PlaceInv'
BY AsksKept, PipesStay, MembersKept DEF PlaceInv, TypeOK

\* A connection passed on.
LEMMA PassOnPlaces ==
  ASSUME TypeOK, PlaceInv, NEW t \in Threads, NEW r \in Rooms, NEW cmd \in {"C", "J"},
         at[t] \in {"lockCreate", "lockJoin"}, PassOn(t, r, cmd),
         NEW place \in Critical, Goes(t, place), UNCHANGED <<user, on, members, dropped>>
  PROVE  PlaceInv'
<1> DEFINE u == user[t]
<1>1. /\ u \in Users /\ Asks(t) /\ ~Asks(t)' /\ where[u] = "served"
      /\ at' = [at EXCEPT ![t] = place] /\ at \in [Threads -> Places]
  BY DEF TypeOK, WorkersType, Critical, Asks, Goes, PlaceInv, AskInv
<1>2. /\ where' = [where EXCEPT ![u] = "passed"]
      /\ \A v \in Users : where'[v] = IF v = u THEN "passed" ELSE where[v]
  BY <1>1 DEF PassOn, TypeOK, UsersType
<1>3. AskInv'
  <2>1. ASSUME NEW p \in Threads, Asks(p)'
        PROVE  Asks(p) /\ user'[p] = user[p] /\ where'[user[p]] = where[user[p]]
    <3>1. p # t /\ Asks(p)
      BY <1>1, <2>1 DEF Asks
    <3>2. user[p] # u /\ user[p] \in Users
      BY <1>1, <3>1 DEF PlaceInv, AskInv, TypeOK, WorkersType, Asks
    <3> QED
      BY <1>2, <3>1, <3>2
  <2> QED
    BY <2>1, AsksKept DEF PlaceInv
<1>4. MemberInv'
  <2>1. \A q \in Rooms : \A v \in members[q] : v # u /\ v \in Users
    BY <1>1 DEF PlaceInv, MemberInv, TypeOK, RoomsType
  <2> QED
    BY <1>2, <2>1, MembersKept DEF PlaceInv
<1>5. PipeInv'
  <2> DEFINE command == [cmd |-> cmd, user |-> u]
  <2>1. command \in Command /\ command.user = u
    BY <1>1 DEF Command
  <2>2. down[r] \in Seq(Command) /\ down' = [down EXCEPT ![r] = Append(down[r], command)]
          /\ down \in [Rooms -> Seq(Command)]
    BY DEF PassOn, TypeOK, RoomsType
  <2>3. down'[r] = Append(down[r], command) /\ \A q \in Rooms : q # r => down'[q] = down[q]
    BY <2>2
  <2> HIDE DEF command, u
  <2>4. /\ DOMAIN down[r] = 1..Len(down[r]) /\ Len(down[r]) \in Nat
        /\ DOMAIN down'[r] = 1..Len(down[r]) + 1
        /\ \A i \in 1..Len(down[r]) : down'[r][i] = down[r][i]
        /\ down'[r][Len(down[r]) + 1] = command
    BY <2>1, <2>2, <2>3
  <2>5. ASSUME NEW q \in Rooms, NEW i \in DOMAIN down'[q]
        PROVE  \/ i \in DOMAIN down[q] /\ down'[q][i] = down[q][i] /\ down[q][i].user # u
                  /\ down[q][i].user \in Users /\ where[down[q][i].user] = "passed"
               \/ q = r /\ i = Len(down[r]) + 1 /\ down'[q][i].user = u
    <3>1. CASE i \in DOMAIN down[q]
      <4>1. down'[q][i] = down[q][i]
        BY <2>3, <2>4, <3>1
      <4>2. down[q][i] \in Command
        BY <2>2, <3>1
      <4>3. where[down[q][i].user] = "passed"
        BY <3>1 DEF PlaceInv, PipeInv
      <4> QED
        BY <1>1, <3>1, <4>1, <4>2, <4>3 DEF Command
    <3>2. CASE i \notin DOMAIN down[q]
      <4>1. q = r /\ i = Len(down[r]) + 1
        BY <2>3, <2>4, <2>5, <3>2
      <4> QED
        BY <2>1, <2>4, <4>1
    <3> QED
      BY <3>1, <3>2
  <2>6. \A q \in Rooms : \A i \in DOMAIN down'[q] : where'[down'[q][i].user] = "passed"
    BY <1>1, <1>2, <2>5
  <2>7. ASSUME NEW q \in Rooms, NEW p \in Rooms, NEW i \in DOMAIN down'[q],
               NEW j \in DOMAIN down'[p], down'[q][i].user = down'[p][j].user
        PROVE  q = p /\ i = j
    <3>1. CASE i \in DOMAIN down[q] /\ j \in DOMAIN down[p] /\ down'[q][i] = down[q][i]
               /\ down'[p][j] = down[p][j]
      BY <2>7, <3>1 DEF PlaceInv, PipeInv
    <3> QED
      BY <2>5, <2>7, <3>1
  <2> QED
    BY <2>6, <2>7 DEF PipeInv
<1> QED
  BY <1>3, <1>4, <1>5 DEF PlaceInv

\* A command taken: its user is in no other command, with no worker and in no room.
LEMMA TakePlaces ==
  ASSUME TypeOK, PlaceInv, NEW r \in Rooms, NEW cmd, Take(r, cmd)
  PROVE  LET u == Head(down[r]).user IN
         /\ u \in Users /\ where[u] = "passed" /\ \A q \in Rooms : u \notin members[q]
         /\ \A t \in Threads : Asks(t) => user[t] # u /\ user[t] \in Users
         /\ (\A v \in Users \ {u} : where'[v] = where[v]) => PipeInv'
<1> DEFINE u == Head(down[r]).user
<1>1. /\ down \in [Rooms -> Seq(Command)] /\ down[r] # << >>
      /\ down' = [down EXCEPT ![r] = Tail(down[r])]
  BY DEF Take, TypeOK, RoomsType
<1>2. down'[r] = Tail(down[r]) /\ \A q \in Rooms : q # r => down'[q] = down[q]
  BY <1>1
<1>3. /\ Len(down[r]) \in Nat \ {0} /\ DOMAIN down[r] = 1..Len(down[r])
      /\ down[r][1] = Head(down[r])
      /\ DOMAIN down'[r] = 1..Len(down[r]) - 1
      /\ \A i \in 1..Len(down[r]) - 1 : i + 1 \in 1..Len(down[r]) /\ down'[r][i] = down[r][i + 1]
  <2>1. down[r] \in Seq(Command)
    BY <1>1
  <2> QED
    BY <1>1, <1>2, <2>1, HeadAndTail
<1>4. 1 \in DOMAIN down[r] /\ down[r][1] \in Command
  BY <1>1, <1>3
<1>5. u \in Users /\ u = down[r][1].user /\ where[u] = "passed"
  BY <1>3, <1>4 DEF Command, PlaceInv, PipeInv
<1> HIDE DEF u
<1>6. \A q \in Rooms : u \notin members[q]
  BY <1>5 DEF PlaceInv, MemberInv
<1>7. \A t \in Threads : Asks(t) => user[t] # u /\ user[t] \in Users
  BY <1>5 DEF PlaceInv, AskInv, Asks, TypeOK, WorkersType
<1>8. ASSUME \A v \in Users \ {u} : where'[v] = where[v] PROVE PipeInv'
  <2>1. ASSUME NEW q \in Rooms, NEW i \in DOMAIN down'[q]
        PROVE  \E k \in DOMAIN down[q] :
                 /\ down'[q][i] = down[q][k] /\ k = (IF q = r THEN i + 1 ELSE i)
                 /\ q = r => i \in Nat /\ k # 1
    <3>1. CASE q = r
      <4>1. i \in 1..Len(down[r]) - 1
        BY <1>3, <2>1, <3>1
      <4>2. i \in Nat /\ i + 1 # 1 /\ i + 1 \in DOMAIN down[r] /\ down'[r][i] = down[r][i + 1]
        BY <1>3, <4>1
      <4> QED
        BY <3>1, <4>2
    <3>2. CASE q # r
      BY <1>2, <2>1, <3>2
    <3> QED
      BY <3>1, <3>2
  <2>2. ASSUME NEW q \in Rooms, NEW i \in DOMAIN down'[q]
        PROVE  where'[down'[q][i].user] = "passed"
    <3>1. PICK k \in DOMAIN down[q] : down'[q][i] = down[q][k] /\ (q = r => k # 1)
      BY <2>1
    <3>2. down[q][k] \in Command
      BY <1>1
    <3>3. down[q][k].user # u
      BY <1>4, <1>5, <3>1 DEF PlaceInv, PipeInv
    <3>4. where[down[q][k].user] = "passed"
      BY DEF PlaceInv, PipeInv
    <3> QED
      BY <1>8, <3>1, <3>2, <3>3, <3>4 DEF Command
  <2>3. ASSUME NEW q \in Rooms, NEW p \in Rooms, NEW i \in DOMAIN down'[q],
               NEW j \in DOMAIN down'[p], down'[q][i].user = down'[p][j].user
        PROVE  q = p /\ i = j
    <3>1. PICK k \in DOMAIN down[q] :
            /\ down'[q][i] = down[q][k] /\ k = (IF q = r THEN i + 1 ELSE i)
            /\ q = r => i \in Nat
      BY <2>1
    <3>2. PICK l \in DOMAIN down[p] :
            /\ down'[p][j] = down[p][l] /\ l = (IF p = r THEN j + 1 ELSE j)
            /\ p = r => j \in Nat
      BY <2>1
    <3>3. q = p /\ k = l
      BY <2>3, <3>1, <3>2 DEF PlaceInv, PipeInv
    <3>4. CASE q = r
      <4>1. i + 1 = j + 1 /\ i \in Nat /\ j \in Nat
        BY <3>1, <3>2, <3>3, <3>4
      <4> QED
        BY <3>3, <4>1
    <3>5. CASE q # r
      BY <3>1, <3>2, <3>3, <3>5
    <3> QED
      BY <3>4, <3>5
  <2> QED
    BY <2>2, <2>3 DEF PipeInv
<1> QED
  BY <1>5, <1>6, <1>7, <1>8 DEF u

\* The workers.
LEMMA WorkerPlaces ==
  ASSUME TypeOK, PlaceInv, NEW t \in Threads, Worker(t)
  PROVE  PlaceInv'
<1>1. /\ at \in [Threads -> Places] /\ user \in [Threads -> Users \cup {NoUser}]
      /\ \A p \in Threads : at[p] # "accept" => user[p] \in Users
      /\ members \in [Rooms -> SUBSET Users] /\ where \in
           [Users -> {"home", "knocking", "served", "passed", "in", "lost"}]
  BY DEF TypeOK, WorkersType, RoomsType, UsersType
<1>2. ASSUME NEW u \in Users, Accept(t, u) PROVE PlaceInv'
  <2>1. /\ where[u] = "knocking" /\ at[t] = "accept" /\ at' = [at EXCEPT ![t] = "read"]
        /\ user' = [user EXCEPT ![t] = u] /\ where' = [where EXCEPT ![u] = "served"]
        /\ UNCHANGED <<down, on, members, dropped>>
    BY <1>2 DEF Accept, Goes, pipes, rooms
  <2>2. \A v \in Users : where'[v] = IF v = u THEN "served" ELSE where[v]
    BY <1>1, <2>1
  <2>3. ASSUME NEW p \in Threads, Asks(p)'
        PROVE  \/ p = t /\ user'[p] = u
               \/ p # t /\ Asks(p) /\ user'[p] = user[p] /\ user[p] # u /\ user[p] \in Users
    <3>1. CASE p = t
      BY <1>1, <2>1, <3>1
    <3>2. CASE p # t
      <4>1. Asks(p) /\ user'[p] = user[p] /\ user[p] \in Users
        BY <1>1, <2>1, <2>3, <3>2 DEF Asks
      <4> QED
        BY <2>1, <3>2, <4>1 DEF PlaceInv, AskInv
    <3> QED
      BY <3>1, <3>2
  <2>4. AskInv'
    BY <2>2, <2>3 DEF AskInv, PlaceInv
  <2>5. PipeInv'
    BY <2>1, <2>2, PipesStay DEF PlaceInv, TypeOK
  <2>6. \A q \in Rooms : \A v \in members[q] : v # u /\ v \in Users
    BY <1>1, <2>1 DEF PlaceInv, MemberInv
  <2>7. MemberInv'
    BY <2>1, <2>2, <2>6, MembersKept DEF PlaceInv
  <2> QED
    BY <2>4, <2>5, <2>7 DEF PlaceInv
<1>3. CASE ReadClosed(t)
  <2> DEFINE u == user[t]
  <2>1. /\ Asks(t) /\ u \in Users /\ where[u] = "served" /\ at' = [at EXCEPT ![t] = "accept"]
        /\ user' = [user EXCEPT ![t] = NoUser] /\ UNCHANGED <<down, on, members, dropped>>
        /\ \A v \in Users : where'[v] = IF v = u THEN "home" ELSE where[v]
    BY <1>1, <1>3 DEF ReadClosed, Goes, GoHome, Asks, Critical, PlaceInv, AskInv, pipes, rooms
  <2> HIDE DEF u
  <2>2. ASSUME NEW p \in Threads, Asks(p)'
        PROVE  Asks(p) /\ user'[p] = user[p] /\ where'[user[p]] = where[user[p]]
    <3>1. p # t /\ Asks(p) /\ user'[p] = user[p] /\ user[p] \in Users
      BY <1>1, <2>1, <2>2 DEF Asks
    <3>2. user[p] # u
      BY <2>1, <3>1 DEF PlaceInv, AskInv, u
    <3> QED
      BY <2>1, <3>1, <3>2
  <2>3. AskInv'
    BY <2>2, AsksKept DEF PlaceInv
  <2>4. PipeInv'
    BY <2>1, PipesStay DEF PlaceInv, TypeOK
  <2>5. \A q \in Rooms : \A v \in members[q] : v # u /\ v \in Users
    BY <1>1, <2>1 DEF PlaceInv, MemberInv
  <2>6. MemberInv'
    BY <2>1, <2>5, MembersKept DEF PlaceInv
  <2> QED
    BY <2>3, <2>4, <2>6 DEF PlaceInv
<1>4. CASE PassCreate(t)
  <2>1. PICK r \in Rooms : PassOn(t, r, "C")
    BY <1>4 DEF PassCreate
  <2>2. at[t] = "lockCreate" /\ Goes(t, "occupy") /\ UNCHANGED <<user, on, members, dropped>>
    BY <1>4 DEF PassCreate, rooms
  <2> QED
    BY <2>1, <2>2, PassOnPlaces DEF Critical
<1>5. CASE PassJoin(t)
  <2>1. /\ at[t] = "lockJoin" /\ Goes(t, "answerJoin") /\ UNCHANGED <<user, on, members, dropped>>
        /\ PassOn(t, room[t], "J") /\ room[t] \in Rooms
    BY <1>5 DEF PassJoin, rooms, TypeOK, WorkersType
  <2> QED
    BY <2>1, PassOnPlaces DEF Critical
<1>6. CASE \/ ReadCreate(t) \/ \E r \in Rooms : ReadJoin(t, r)
           \/ TestAvail(t) \/ FindNone(t) \/ AnswerNoRoom(t) \/ LookUp(t) \/ AnswerNone(t)
           \/ TestFull(t) \/ AnswerFull(t) \/ PassFails(t)
  <2>1. /\ UNCHANGED <<where, down, on, members, dropped, user>> /\ Asks(t)
        /\ \E place : Goes(t, place)
    BY <1>6 DEF ReadCreate, ReadJoin, TestAvail, FindNone, AnswerNoRoom, LookUp, AnswerNone,
       TestFull, AnswerFull, PassFails, pipes, rooms, users, Asks, Critical
  <2>2. \A p \in Threads : Asks(p)' => Asks(p)
    BY <1>1, <2>1 DEF Asks, Goes
  <2> QED
    BY <2>1, <2>2, PlacesKept
<1>7. CASE Occupy(t) \/ CountCreate(t) \/ AnswerJoin(t) \/ CountJoin(t)
  <2>1. /\ UNCHANGED <<where, down, on, members, dropped>>
        /\ \E place \in Critical \cup {"accept"} : Goes(t, place)
        /\ user' = user \/ user' = [user EXCEPT ![t] = NoUser]
    BY <1>7 DEF Occupy, CountCreate, AnswerJoin, CountJoin, pipes, rooms, users, Critical
  <2>2. \A p \in Threads : Asks(p)' => Asks(p) /\ user'[p] = user[p]
    BY <1>1, <2>1 DEF Asks, Goes
  <2> QED
    BY <2>1, <2>2, PlacesKept
<1> QED
  BY <1>2, <1>3, <1>4, <1>5, <1>6, <1>7 DEF Worker

\* A command that lets its user into the room.
LEMMA EnterPlaces ==
  ASSUME TypeOK, PlaceInv, NEW r \in Rooms, NEW cmd, Take(r, cmd),
         Enter(r, Head(down[r]).user), UNCHANGED <<at, user, dropped>>,
         on' = [on EXCEPT ![r] = TRUE] \/ (UNCHANGED on /\ (on[r] \/ r \in dropped))
  PROVE  /\ PlaceInv' /\ Head(down[r]).user \in Users \ members[r]
         /\ members'[r] = members[r] \cup {Head(down[r]).user}
         /\ \A q \in Rooms \ {r} : on'[q] = on[q] /\ members'[q] = members[q]
<1>1. PICK u : u = Head(down[r]).user
  OBVIOUS
<1>2. /\ u \in Users /\ where[u] = "passed" /\ \A q \in Rooms : u \notin members[q]
      /\ \A t \in Threads : Asks(t) => user[t] # u /\ user[t] \in Users
      /\ (\A v \in Users \ {u} : where'[v] = where[v]) => PipeInv'
  BY <1>1, TakePlaces
<1>3. /\ \A v \in Users : where'[v] = IF v = u THEN "in" ELSE where[v]
      /\ members'[r] = members[r] \cup {u}
      /\ \A q \in Rooms \ {r} : on'[q] = on[q] /\ members'[q] = members[q]
      /\ on'[r] \/ r \in dropped'
  BY <1>1 DEF Enter, TypeOK, UsersType, RoomsType
<1>4. PipeInv'
  BY <1>2, <1>3
<1>5. AskInv'
  <2>1. \A t \in Threads : Asks(t)' => /\ Asks(t) /\ user'[t] = user[t]
                                       /\ where'[user[t]] = where[user[t]]
    BY <1>2, <1>3 DEF Asks
  <2> QED
    BY <2>1, AsksKept DEF PlaceInv
<1>6. MemberInv'
  <2>1. \A q \in Rooms : members[q] \subseteq Users
    BY DEF TypeOK, RoomsType
  <2>2. \A q \in Rooms : \A v \in members[q] : where[v] = "in"
    BY DEF PlaceInv, MemberInv
  <2>3. \A q \in Rooms : \A v \in members'[q] : where'[v] = "in"
    BY <1>2, <1>3, <2>1, <2>2
  <2>4. \A q, p \in Rooms : q # p => members'[q] \cap members'[p] = {}
    BY <1>2, <1>3 DEF PlaceInv, MemberInv
  <2>5. \A q \in Rooms : ~on'[q] /\ q \notin dropped' => members'[q] = {}
    BY <1>3 DEF PlaceInv, MemberInv
  <2> QED
    BY <2>3, <2>4, <2>5 DEF MemberInv
<1> QED
  BY <1>1, <1>2, <1>3, <1>4, <1>5, <1>6 DEF PlaceInv

\* Members of one room who are put out.
LEMMA OutPlaces ==
  ASSUME TypeOK, PlaceInv, NEW r \in Rooms, NEW S, S \subseteq members[r], GoHome(S),
         members' = [members EXCEPT ![r] = @ \ S], UNCHANGED <<at, user, down, dropped>>,
         UNCHANGED on \/ (on' = [on EXCEPT ![r] = FALSE] /\ S = members[r])
  PROVE  /\ PlaceInv' /\ members'[r] = members[r] \ S
         /\ \A q \in Rooms \ {r} : on'[q] = on[q] /\ members'[q] = members[q]
<1>1. /\ members \in [Rooms -> SUBSET Users] /\ on \in [Rooms -> BOOLEAN]
      /\ \A u \in S : u \in Users /\ where[u] = "in"
  BY DEF TypeOK, RoomsType, PlaceInv, MemberInv
<1>2. /\ \A v \in Users : where'[v] = IF v \in S THEN "home" ELSE where[v]
      /\ members'[r] = members[r] \ S
      /\ \A q \in Rooms \ {r} : on'[q] = on[q] /\ members'[q] = members[q]
  BY <1>1 DEF GoHome
<1>3. AskInv'
  <2>1. \A t \in Threads : Asks(t)' => /\ Asks(t) /\ user'[t] = user[t] /\ user[t] \in Users
                                       /\ where[user[t]] = "served"
    BY DEF Asks, PlaceInv, AskInv, TypeOK, WorkersType
  <2> QED
    BY <1>1, <1>2, <2>1, AsksKept DEF PlaceInv
<1>4. PipeInv'
  <2>1. \A u \in Users : where[u] = "passed" => where'[u] = "passed"
    BY <1>1, <1>2
  <2> QED
    BY <2>1, PipesStay DEF PlaceInv, TypeOK
<1>5. MemberInv'
  <2>1. \A q \in Rooms : members[q] \subseteq Users
    BY <1>1
  <2>2. /\ \A q \in Rooms : \A v \in members[q] : where[v] = "in"
        /\ \A q, p \in Rooms : q # p => members[q] \cap members[p] = {}
        /\ \A q \in Rooms : ~on[q] /\ q \notin dropped => members[q] = {}
    BY DEF PlaceInv, MemberInv
  <2>3. \A q \in Rooms : \A v \in members'[q] : v \in members[q] /\ v \notin S
    BY <1>2, <2>2
  <2>4. \A q \in Rooms : \A v \in members'[q] : where'[v] = "in"
    BY <1>2, <2>1, <2>2, <2>3
  <2>5. \A q, p \in Rooms : q # p => members'[q] \cap members'[p] = {}
    BY <2>2, <2>3
  <2>6. \A q \in Rooms : ~on'[q] /\ q \notin dropped' => members'[q] = {}
    BY <1>1, <1>2, <2>2
  <2> QED
    BY <2>4, <2>5, <2>6 DEF MemberInv
<1> QED
  BY <1>2, <1>3, <1>4, <1>5 DEF PlaceInv

\* A connection that is taken out of the pipe and comes to no room.
LEMMA LosePlaces ==
  ASSUME TypeOK, PlaceInv, NEW r \in Rooms, NEW cmd, Take(r, cmd),
         \A v \in Users \ {Head(down[r]).user} : where'[v] = where[v],
         UNCHANGED <<at, user, members>>,
         \A q \in Rooms : ~on'[q] /\ q \notin dropped' => ~on[q] /\ q \notin dropped
  PROVE  PlaceInv'
<1>1. PICK u : u = Head(down[r]).user
  OBVIOUS
<1>2. /\ u \in Users /\ where[u] = "passed" /\ \A q \in Rooms : u \notin members[q]
      /\ \A t \in Threads : Asks(t) => user[t] # u /\ user[t] \in Users
      /\ (\A v \in Users \ {u} : where'[v] = where[v]) => PipeInv'
  BY <1>1, TakePlaces
<1>3. \A v \in Users \ {u} : where'[v] = where[v]
  BY <1>1
<1>4. AskInv'
  <2>1. \A t \in Threads : Asks(t)' => /\ Asks(t) /\ user'[t] = user[t]
                                       /\ where'[user[t]] = where[user[t]]
    BY <1>2, <1>3 DEF Asks
  <2> QED
    BY <2>1, AsksKept DEF PlaceInv
<1>5. MemberInv'
  <2>1. \A q \in Rooms : \A v \in members'[q] : where'[v] = where[v]
    BY <1>2, <1>3 DEF TypeOK, RoomsType
  <2> QED
    BY <2>1, MembersKept DEF PlaceInv
<1> QED
  BY <1>2, <1>3, <1>4, <1>5 DEF PlaceInv

\* The users: who connects was nowhere.
LEMMA UserPlaces ==
  ASSUME TypeOK, PlaceInv, NEW u \in Users, User(u)
  PROVE  PlaceInv' /\ UNCHANGED <<on, members>>
<1>1. UNCHANGED <<at, user, down, on, members, dropped>>
  BY DEF User, Connect, HangUp, workers, pipes, rooms
<1>2. \A v \in Users : where[v] # "home" => where'[v] = where[v]
  BY DEF User, Connect, HangUp, TypeOK, UsersType
<1>3. AskInv'
  <2>1. \A t \in Threads : Asks(t)' => /\ Asks(t) /\ user'[t] = user[t] /\ user[t] \in Users
                                       /\ where[user[t]] = "served"
    BY <1>1 DEF Asks, PlaceInv, AskInv, TypeOK, WorkersType
  <2> QED
    BY <1>2, <2>1, AsksKept DEF PlaceInv
<1>4. PipeInv'
  BY <1>1, <1>2, PipesStay DEF PlaceInv, TypeOK
<1>5. MemberInv'
  <2>1. \A q \in Rooms : \A v \in members[q] : v \in Users /\ where[v] = "in"
    BY DEF PlaceInv, MemberInv, TypeOK, RoomsType
  <2> QED
    BY <1>1, <1>2, <2>1, MembersKept DEF PlaceInv
<1> QED
  BY <1>1, <1>3, <1>4, <1>5 DEF PlaceInv

\* A worker changes no room.
LEMMA WorkerLeavesRooms ==
  ASSUME NEW t \in Threads, Worker(t)
  PROVE  UNCHANGED rooms
BY DEF Worker, Accept, ReadCreate, ReadClosed, ReadJoin, TestAvail, FindNone, AnswerNoRoom,
   PassCreate, Occupy, CountCreate, LookUp, AnswerNone, TestFull, AnswerFull, PassJoin,
   AnswerJoin, CountJoin, PassFails

\* What a step of room r means to whoever looks at room q.
Held(q) ==
  RoomMeeting(q)!Next \/ UNCHANGED <<on[q], IF on[q] THEN members[q] ELSE {}>>

\* A room whose meeting is on and whose members are the same, or that has none.
LEMMA HeldKept ==
  ASSUME NEW q \in Rooms, on'[q] = on[q], on[q] => members'[q] = members[q]
  PROVE  Held(q)
BY DEF Held

\* A meeting starts in an empty room.
LEMMA HeldStart ==
  ASSUME NEW q \in Rooms, ~on[q], on'[q] = TRUE,
         members'[q] = {} \/ \E u \in Users : members'[q] = {u}
  PROVE  Held(q)
BY DEF Held, RoomMeeting!Next, RoomMeeting!Start

\* One user leaves it.
LEMMA HeldLeave ==
  ASSUME NEW q \in Rooms, on'[q] = on[q], NEW u \in members[q], u \in Users,
         members'[q] = members[q] \ {u}
  PROVE  Held(q)
<1>1. CASE on[q]
  BY <1>1 DEF Held, RoomMeeting!Next, RoomMeeting!Leave
<1>2. CASE ~on[q]
  BY <1>2, HeldKept
<1> QED
  BY <1>1, <1>2

\* A meeting that is cleared is at its end to its room, and none of another's concern.
LEMMA ClearPlaces ==
  ASSUME TypeOK, PlaceInv, NEW r \in Rooms, on[r], NEW old, ClearRoom(r, old)
  PROVE  PlaceInv' /\ \A q \in Rooms : Held(q)
<1>1. on \in [Rooms -> BOOLEAN] /\ members \in [Rooms -> SUBSET Users]
  BY DEF TypeOK, RoomsType
<1>2. /\ GoHome(members[r]) /\ members' = [members EXCEPT ![r] = {}]
      /\ on' = [on EXCEPT ![r] = FALSE] /\ UNCHANGED <<at, user, down, dropped>>
  BY DEF ClearRoom, workers
<1>3. PICK S : S = members[r]
  OBVIOUS
<1>4. S \subseteq members[r] /\ members' = [members EXCEPT ![r] = @ \ S] /\ GoHome(S)
  BY <1>1, <1>2, <1>3
<1>5. PlaceInv' /\ members'[r] = members[r] \ S
        /\ \A q \in Rooms \ {r} : on'[q] = on[q] /\ members'[q] = members[q]
  BY <1>2, <1>3, <1>4, OutPlaces
<1>6. Held(r)
  <2>1. on'[r] = FALSE
    BY <1>1, <1>2
  <2> QED
    BY <2>1 DEF Held, RoomMeeting!Next, RoomMeeting!End
<1> QED
  BY <1>5, <1>6, HeldKept

\* The steps of a room are those of its meeting, and no other room's.
LEMMA RoomPlaces ==
  ASSUME TypeOK, OneGrant, FirstInv, PlaceInv, NEW r \in Rooms, Room(r)
  PROVE  PlaceInv' /\ \A q \in Rooms : Held(q)
<1>1. on \in [Rooms -> BOOLEAN] /\ members \in [Rooms -> SUBSET Users]
  BY DEF TypeOK, RoomsType
<1>2. ASSUME Take(r, "C") PROVE ~on[r] /\ r \notin dropped /\ members[r] = {}
  <2>1. Called(r)
    <3>1. down[r] # << >> /\ Head(down[r]).cmd = "C" /\ down[r] \in Seq(Command)
      BY <1>2 DEF Take, TypeOK, RoomsType
    <3> QED
      BY <3>1 DEF Called
  <2>2. ~on[r] /\ r \notin dropped
    BY <2>1 DEF OneGrant, Grant
  <2> QED
    BY <2>2 DEF PlaceInv, MemberInv
<1>3. ASSUME Take(r, "J"), roomstatus[r] # "CLOSE" PROVE on[r] \/ r \in dropped
  <2>1. roomstatus[r] = "ON" /\ down[r] # << >> /\ Head(down[r]).cmd = "J"
    BY <1>3 DEF TypeOK, RoomsType, Take
  <2> QED
    BY <2>1 DEF FirstInv, Awaits
<1>4. CASE TakeCreate(r)
  <2>1. PICK u : u = Head(down[r]).user
    OBVIOUS
  <2>2. /\ Take(r, "C") /\ Enter(r, Head(down[r]).user) /\ UNCHANGED <<at, user, dropped>>
        /\ on' = [on EXCEPT ![r] = TRUE]
    BY <1>4 DEF TakeCreate, workers
  <2>3. PlaceInv' /\ u \in Users /\ members'[r] = members[r] \cup {u}
          /\ \A q \in Rooms \ {r} : on'[q] = on[q] /\ members'[q] = members[q]
    BY <2>1, <2>2, EnterPlaces
  <2>4. ~on[r] /\ members'[r] = {u} /\ on'[r] = TRUE
    BY <1>1, <1>2, <2>2, <2>3
  <2>5. Held(r)
    BY <2>3, <2>4, HeldStart
  <2> QED
    BY <2>3, <2>5, HeldKept
<1>5. CASE MissOwner(r)
  <2>1. /\ Take(r, "C") /\ UNCHANGED <<at, user, members, dropped>>
        /\ GoHome({Head(down[r]).user}) /\ on' = [on EXCEPT ![r] = TRUE]
    BY <1>5 DEF MissOwner, workers
  <2>2. PlaceInv'
    <3>1. \A v \in Users \ {Head(down[r]).user} : where'[v] = where[v]
      BY <2>1 DEF GoHome
    <3>2. \A q \in Rooms : ~on'[q] /\ q \notin dropped' => ~on[q] /\ q \notin dropped
      BY <1>1, <2>1
    <3> QED
      BY <2>1, <3>1, <3>2, LosePlaces
  <2>3. Held(r)
    BY <1>1, <1>2, <2>1, HeldStart
  <2>4. \A q \in Rooms \ {r} : on'[q] = on[q] /\ members'[q] = members[q]
    BY <1>1, <2>1
  <2> QED
    BY <2>2, <2>3, <2>4, HeldKept
<1>6. CASE TakeJoin(r)
  <2>1. PICK u : u = Head(down[r]).user
    OBVIOUS
  <2>2. /\ Take(r, "J") /\ Enter(r, Head(down[r]).user) /\ UNCHANGED <<at, user, on, dropped>>
        /\ on[r] \/ r \in dropped
    BY <1>3, <1>6 DEF TakeJoin, workers
  <2>3. PlaceInv' /\ u \in Users \ members[r] /\ members'[r] = members[r] \cup {u}
          /\ \A q \in Rooms \ {r} : on'[q] = on[q] /\ members'[q] = members[q]
    BY <2>1, <2>2, EnterPlaces
  <2>4. Held(r)
    <3>1. CASE on[r]
      BY <2>2, <2>3, <3>1 DEF Held, RoomMeeting!Next, RoomMeeting!Join
    <3>2. CASE ~on[r]
      BY <2>2, <3>2, HeldKept
    <3> QED
      BY <3>1, <3>2
  <2> QED
    BY <2>3, <2>4, HeldKept
<1>7. CASE Refuse(r)
  <2>1. /\ Take(r, "J") /\ GoHome({Head(down[r]).user})
        /\ UNCHANGED <<at, user, on, members, dropped>>
    BY <1>7 DEF Refuse, workers, rooms
  <2>2. \A v \in Users \ {Head(down[r]).user} : where'[v] = where[v]
    BY <2>1 DEF GoHome
  <2> QED
    BY <2>1, <2>2, LosePlaces, HeldKept
<1>8. CASE Drop(r)
  <2>1. PICK cmd : Take(r, cmd)
    BY <1>8 DEF Drop
  <2>2. /\ UNCHANGED <<at, user, on, members>> /\ dropped \subseteq dropped'
        /\ where' = [where EXCEPT ![Head(down[r]).user] = "lost"]
    BY <1>8 DEF Drop, workers
  <2>3. \A v \in Users \ {Head(down[r]).user} : where'[v] = where[v]
    BY <2>2 DEF TypeOK, UsersType
  <2> QED
    BY <2>1, <2>2, <2>3, LosePlaces, HeldKept
<1>9. CASE End(r)
  BY <1>9, ClearPlaces DEF End
<1>10. CASE EndLate(r)
  BY <1>10, ClearPlaces DEF EndLate
<1>11. ASSUME NEW u \in members[r], u \in Users, GoHome({u}),
              members' = [members EXCEPT ![r] = @ \ {u}],
              UNCHANGED <<at, user, down, on, dropped>>
       PROVE  PlaceInv' /\ \A q \in Rooms : Held(q)
  <2>1. PlaceInv' /\ members'[r] = members[r] \ {u}
          /\ \A q \in Rooms \ {r} : on'[q] = on[q] /\ members'[q] = members[q]
    BY <1>11, OutPlaces
  <2>2. Held(r)
    BY <1>11, <2>1, HeldLeave
  <2> QED
    BY <2>1, <2>2, HeldKept
<1>12. ASSUME NEW u \in Users, Quit(r, u) PROVE PlaceInv' /\ \A q \in Rooms : Held(q)
  BY <1>11, <1>12 DEF Quit, workers
<1>13. CASE QuitLate(r)
  <2>1. PICK S \in {{}} \cup {{u} : u \in members[r] \ {owner[r]}} :
          members' = [members EXCEPT ![r] = @ \ S] /\ GoHome(S)
    BY <1>13 DEF QuitLate
  <2>2. UNCHANGED <<at, user, down, on, dropped>>
    BY <1>13 DEF QuitLate, workers
  <2>3. CASE S = {}
    <3>1. members' = members
      BY <1>1, <2>1, <2>3
    <3>2. \A v \in Users : where'[v] = where[v]
      BY <2>1, <2>3 DEF GoHome
    <3>3. where' = where
      BY <2>1, <2>3 DEF GoHome, TypeOK, UsersType
    <3>4. \A t \in Threads : Asks(t)' => Asks(t) /\ user'[t] = user[t]
      BY <2>2 DEF Asks
    <3> QED
      BY <2>2, <3>1, <3>3, <3>4, PlacesKept, HeldKept
  <2>4. CASE S # {}
    <3>1. PICK u \in members[r] : S = {u}
      BY <2>1, <2>4
    <3> QED
      BY <1>1, <1>11, <2>1, <2>2, <3>1
  <2> QED
    BY <2>3, <2>4
<1> QED
  BY <1>4, <1>5, <1>6, <1>7, <1>8, <1>9, <1>10, <1>12, <1>13 DEF Room

\* The inductive step, and what it is to each room.
LEMMA PlaceStep ==
  ASSUME TypeOK, OneGrant, FirstInv, PlaceInv, [Next]_vars
  PROVE  PlaceInv' /\ \A r \in Rooms : Held(r)
<1>1. ASSUME UNCHANGED <<at, user, where, down, on, members, dropped>>
      PROVE  PlaceInv' /\ \A r \in Rooms : Held(r)
  <2>1. \A t \in Threads : Asks(t)' => Asks(t) /\ user'[t] = user[t]
    BY <1>1 DEF Asks
  <2> QED
    BY <1>1, <2>1, PlacesKept, HeldKept
<1>2. CASE UNCHANGED vars
  BY <1>1, <1>2 DEF vars, workers, pipes, rooms, users
<1>3. CASE LoseRoom
  BY <1>1, <1>3 DEF LoseRoom, workers, pipes, rooms, users
<1>4. CASE MainThread
  <2>1. UNCHANGED <<workers, down, rooms, users>>
    BY <1>4 DEF MainThread, CountRoom, FreeRoom, CountQuit, pipes
  <2> QED
    BY <1>1, <2>1 DEF workers, rooms, users
<1>5. ASSUME NEW t \in Threads, Worker(t) PROVE PlaceInv' /\ \A r \in Rooms : Held(r)
  <2>1. UNCHANGED rooms
    BY <1>5, WorkerLeavesRooms
  <2> QED
    BY <1>5, <2>1, WorkerPlaces, HeldKept DEF rooms
<1>6. ASSUME NEW u \in Users, User(u) PROVE PlaceInv' /\ \A r \in Rooms : Held(r)
  BY <1>6, UserPlaces, HeldKept
<1>7. CASE Step
  BY <1>3, <1>4, <1>5, <1>6, <1>7, RoomPlaces DEF Step
<1> QED
  BY <1>2, <1>7 DEF Next, Rest

\* At the start nobody is anywhere.
LEMMA InitPlaces == Init => PlaceInv
BY DEF Init, PlaceInv, AskInv, PipeInv, MemberInv, Asks, Critical

\* The dispatcher never lets a connection be in two places.
LEMMA PlacesHold == Spec => []PlaceInv
BY InitPlaces, PlaceStep, TypeCorrect, GrantsAreExclusive, FirstHolds, PTL DEF Spec

\* Every room the dispatcher hands out is a meeting to the users.
THEOREM RoomsAreMeetings == ASSUME NEW r \in Rooms PROVE Spec => RoomMeeting(r)!Spec
<1>1. Init => RoomMeeting(r)!Init
  BY DEF Init, RoomMeeting!Init
<1>2. TypeOK /\ OneGrant /\ FirstInv /\ PlaceInv /\ [Next]_vars
        => [RoomMeeting(r)!Next]_<<on[r], IF on[r] THEN members[r] ELSE {}>>
  BY PlaceStep DEF Held
<1> QED
  BY <1>1, <1>2, TypeCorrect, GrantsAreExclusive, FirstHolds, PlacesHold, PTL
  DEF Spec, RoomMeeting!Spec
=============================================================================
