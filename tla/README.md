# CloudMeeting in TLA+

CloudMeeting is a video-conference service: a server for Linux written with
threads, processes and pipes (`src/Server_Linux/CloudMeeting_Server`) and a Qt
client for Windows (`src/Client_QtWindows/CloudMeeting`). This directory models
the concurrent core of both, checks it with TLC and proves theorems about it with
TLAPS.

Contents: [the system](#the-system) · [the modules](#the-modules) ·
[the runs](#the-runs) · [fairness](#fairness) · [the proofs](#the-proofs) ·
[what the code does otherwise than it says](#what-the-code-does-otherwise-than-it-says) ·
[not modelled](#not-modelled) · [plan](#plan)

To repeat the checks: `tlc -config RoomMeeting.cfg MCRoomProcess` and so on
(module and configuration of each run are in the table below), and
`tlapm Dispatcher_proofs.tla` for each of the eight `_proofs` modules.

## The system

The server is one **dispatcher** process (`main.cpp`, `userdeal.cpp`) and a fixed
number of **room** processes (`room.cpp`) forked at the start. The dispatcher's
worker threads accept connections and read requests. CREATE_MEETING takes a vacant
room, JOIN_MEETING a room by its number; the connection itself is then passed to
the room through a Unix socket (SCM_RIGHTS), preceded by a byte `'C'` or `'J'`. From
then on the room alone talks to the user. On the same pipe it reports `'E'` (the owner
left, the room is empty) and `'Q'` (a member left), which the dispatcher's main
thread reads.

| component | state | operations | talks to |
|---|---|---|---|
| send queue `SEND_QUEUE` (`msg.h`) | a bounded `std::queue`, one mutex, one condition variable | `push_msg`, `pop_msg`, `clear` | threads of one room |
| room process (`room.cpp`) | the pool: `fdset`, `status`, `owner`, `num`, `fdToIp`; `maxfd`, `roomstatus`; the process's descriptors | `process_main` (select, read, push), `fdclose`, `clear_room`, `accept_fd`, `send_func` (five threads) | dispatcher by a pipe, clients by TCP |
| dispatcher (`main.cpp`, `userdeal.cpp`) | `room->navail`, `child_status`, `total` for each room, `room->lock` | `thread_main`, `dowithuser`, `writetofd`, the report loop of `main` | rooms by pipes, users by TCP |
| socket wrappers (`net.cpp`, `unpthread.cpp`, ...) | none | `Select`, `Readn`, `writen`, `Close`, `write_fd`, `read_fd` | |
| client, receiving (`mytcpsocket.cpp`, `recvsolve.cpp`, `widget.cpp`) | the socket, `recvbuf`, `queue_recv`, `partner`, the buttons, `_createmeet`, `_joinmeet` | `connectServer`, `recvFromSocket`, `errorDetect`, `closeSocket`, `RecvSolve::run`, `datasolve`, `disconnectFromHost`, the buttons' slots | server, GUI, audio |
| client, sending (`sendtext.cpp`, `mytcpsocket.cpp`, `widget.cpp`) | `textqueue`, `queue_send`, posted `sendData` events, `m_isCanRun`, the list of texts | `push_Text`, `SendText::run`, `run`, `sendData`, `textSend`, `stopImmediately`, `disconnectFromHost`, `~Widget` | GUI, server |
| client, audio and video (`AudioInput`, `AudioOutput`, `sendimg`, `myvideosurface`) | `audio_recv`, an image queue, the devices | start, stop, collect, play | socket thread, GUI |
| client, queues (`netheader.h: QUEUE_DATA`) | queue, mutex, condition variable | `push_msg`, `pop_msg` (waits two seconds), `clear` | all threads of the client |
| client, log (`logqueue`) and views | a file; widgets | | |

What is hard, component by component, and what makes it correct. Every hazard is
listed with its line in `PROJECT.json`; this is the short form.

* **Send queue.** Producers that found it full and consumers that found it empty
  sleep on the *same* condition variable, `pthread_cond_signal` wakes one of them
  whatever it waits for, and `clear()` wakes nobody. Correct means: nobody sleeps
  while there is something for him to do and nobody awake will tell him.
* **Room.** Seven threads: the reader looks at the pool (`maxfd`, `owner`,
  `fdToIp`) without its lock, goes on through a result of `select()` after the
  descriptors in it were closed and perhaps opened again for somebody else, and the
  senders take a message off the queue before they take the pool's lock. Correct
  means: no member is beyond the bound of the loops, a broadcast sees one membership,
  the room is empty while it is reported so, the members of one meeting stay apart
  from those of the next, everybody knows everybody, who has gone is dropped and what
  was said is heard.
* **Dispatcher.** `navail`, `child_status` and `total` are tested without the lock
  and changed with it; reports come late. Correct means: a room is given to one
  meeting at a time, the counters tell the truth, a worker is never lost to a request and a
  room comes back.
* **Client, receiving.** Three threads and a stream that is cut anywhere. The GUI thread waits
  for the socket's thread, which may wait for room in a queue, which is emptied by a
  thread that waits for the GUI. Correct means: no packet is lost or overtaken, the
  list of partners is what the packets tell, the end of a session is noticed and leaves nothing
  behind, and the user can connect exactly when he is not connected.
* **Client, sending.** Ten threads and the log, four of them on one queue with one condition variable that
  is emptied at the end of a session without a signal; calls posted to a thread outlive its
  event loop; a stop is a flag that the thread it stops sets itself. Correct means: what the user
  wrote arrives in order, in the session it was written in, and is marked; a camera and a microphone
  that were switched off are off; and leaving, sending again and closing come to an end.

## The modules

| module | what it is |
|---|---|
| `SendQueue` | `SEND_QUEUE`, one critical section a step, for any threads |
| `RoomProcess` | one room process with its queue, its pipe and its clients |
| `Meeting` | what a room promises: the abstract specification that `RoomProcess` implements, and `Dispatcher` once for each room |
| `Dispatcher` | the parent process; each room is what `Meeting` says, and its reports |
| `ClientReceive` | the receiving half of a client and the server as it sees it |
| `ClientSend` | the sending half, the devices, the end of a session and of the window |
| `MCRoomProcess`, `MCDispatcher`, `MCClientSend` | symmetry, the address function and the scenarios for TLC |
| `SendQueue_proofs`, `RoomProcess_proofs`, `RoomMeeting_proofs`, `RoomNews_proofs`, `Dispatcher_proofs`, `DispatcherTotal_proofs`, `ClientReceive_proofs`, `ClientSend_proofs` | theorems |

The modules meet at their interfaces. `RoomProcess` replaces the queue by its contract
(a push waits for room, a pop for a message) that `SendQueue` establishes;
`Dispatcher` replaces a room by `Meeting` together with what a room does besides (a command
taken for nothing, an owner not recognised, late `'Q'`s and a late `'E'`), all of which `RoomProcess` shows; `RoomProcess` takes from `Dispatcher` that `'C'` comes only to a room held for
vacant (`OneGrant`) and that `'J'` may come at any time after a look at the table. The two
halves of a client share the GUI, the socket's thread and the end of a session: `ClientReceive`
has what arrives, the answers and the boxes, `ClientSend` what is sent, the devices and the writer
thread in full. Each keeps as much of the other's part as can block it: `ClientReceive` the start and the end of the
writer thread and a push to `audio_recv` that does not return, `ClientSend` a `queue_recv` that may be full.
To the client the server is the environment: what `ClientReceive` lets it send is more than `RoomProcess` does.
Definitions whose comment says *faulty* (`HasSpaceOneMore`, `AdmitsAll`, ...) are
mistakes one could make in that place. No specification uses them; each property of
a passing run is known to fail with one of them in place of the right definition
(`mutants` in `PROJECT.json`).

### SendQueue (`msg.h`)

`at[t]` says where a thread is with regard to the queue: outside, about to take the
mutex and test the loop's condition, asleep, or between the mutex's release and its
signal. `Push`/`PushWait`, `Pop`/`PopWait` and `Clear` are the critical sections,
`SignalOne`/`SignalNobody` the signal after it, `Spurious` a wake-up without one.
`cleared` is history.

### RoomProcess (`room.cpp`)

One action per step between two points at which another thread can interfere. Each
thread has a program counter (`pmAt`, `acAt`; a sender is where `held` and `todo` say).

* `process_main`: `Select` → `StartRead` → `ReadData` / `DropData` / `ReadClosed`
  → `PushRead` or `fdclose`. `rset` is the result of `select()` still to go through.
* `fdclose`: `TestOwner` (without the lock) → `ClearRoom`, `ReportEmpty`, or
  `RemoveFd`, `ReportQuit`, `CloseFd`, `PushRead` (the PARTNER_EXIT).
* `accept_fd`: `ReceiveFd` / `ReceiveFails` → `EnterPool` → `CreateMeeting` or
  `JoinMeeting` (the first store of the critical section is apart from the others,
  since `select()` reads `fdset` without the lock), or `RefuseJoin`; then `Announce`,
  `ListPartners` and `PushAccepted`.
* `send_func`: `PopMsg` → `LockPool` → `WriteTo` for one member after the other →
  `UnlockPool`.

`files` is the process's descriptor table: descriptors are numbers, the lowest free
one is given to the next connection. A descriptor closed under a thread that is inside
`read()` keeps the connection up until that read returns (`InRead`, `Dangling`).
`running = FALSE` after `err_quit`. With `Stray` the bytes of `int c` (accept_fd) and
`int tail` (process_main), of which `read()` sets one and the comparison uses four, may
be anything, so that a well-formed command or message may be dropped; and so may `addrlen`, which
`getpeerip` does not set. `PeerIps(fd)` is what `getpeerip` may answer: the address of the connection, or
`BadIp` (the -1 of the code) if the descriptor has been closed or the client has hung up, and with
`Stray` in any case. `BadIp` is taken to be no user's address.
`IpOf` gives the connections their addresses, the same for several if so wanted: a user who leaves and comes back
is two connections of one address. `partner` is what a client's
`datasolve` makes of the messages: the *others* in its list. `crossed` is history: the members
of whose *address* a PARTNER_EXIT was under way while they were in, for another member
recorded under it.

Granularity: `select()` and the copy of `fdset` before it are one step; a message of a
client arrives whole; a write to a client ends sooner or later.

### Meeting

One meeting at a time; people join while it is on, leave one by one, and its end puts all
of them out at once. `IsAMeeting` is `PublicMeeting!Spec` under the mapping
*on* ← a meeting was created and `roomstatus` is `ON`, *members* ← the connections behind
`status`. (With `Stray` a command may get lost, but a `'C'` that is taken for nothing
starts nothing. The run checks the mapping with `Stray = TRUE`; the theorem is about both values.)
`RoomMeeting(r)` is the same of room `r` of `Dispatcher`, which models a room by its actions on `on` and `members` and must hand
it out such that these are the steps of one meeting after the other.

### Dispatcher (`main.cpp`, `userdeal.cpp`)

`at[t]` is where worker `t` is in `dowithuser`. Tests without the lock (`TestAvail`,
`LookUp`, `TestFull`) are steps of their own; between the lock and the unlock the write
on the pipe, the stores into the table and the answer to the user are steps of their own
too, because `main` and the rooms may act between them (`PassCreate`, `Occupy`,
`CountCreate`; `PassJoin`, `AnswerJoin`, `CountJoin`). `main` is `FreeRoom`, `CountRoom`
(an `'E'`) and `CountQuit` (a `'Q'`). `PassFails` is `write_fd` failing, `Answer` may end the
process by SIGPIPE (which `main.cpp` does not ignore; `room.cpp` does), `LoseRoom` is the end
of a room process, upon which `main` ends the service.

A room is `TakeCreate`, `TakeJoin`, `Refuse`, `Quit` and `End`, and four things that
`RoomProcess` shows it to do. `Drop`: with `Stray` a command is taken for nothing, and the room keeps
the connection without ever reading it; if it was a `'C'`, the room is lost for good (`dropped`, history).
`MissOwner`: an owner who is gone before he is recorded is reported as a member, `'Q'`, and his meeting
goes on without him; who is given his descriptor may be taken for him (`TakeJoin`).
`QuitLate` and `EndLate`: after an `'E'` the room closes descriptors of those already put out once more
(`stale` counts them), which may be anybody's by then, the next owner's too.

### ClientReceive (`mytcpsocket.cpp`, `recvsolve.cpp`, `widget.cpp`, `netheader.h`)

A packet is two cells of the stream, so that a read may end in a packet; `ReadyRead` is one
notification, with `n` cells arrived. `sockAt` is where the socket's thread is: `"push"` inside
`queue_recv.push_msg`, `"refused"` the same within `connectServer`, for which the GUI waits, and `"sound"`
inside `audio_recv.push_msg` with nobody left to empty that queue (`SoundBlocks`). `held` is the message
`RecvSolve` has emitted and waits for. `ui` says what the GUI thread waits for: `"connect"` the
blocking call of `connectServer` (`Connected`, `ConnTimeout`, which tells nobody anything, or `ConnFails` and `PushRefused`),
`"quit"` the end of the socket's thread (`NetError`/`ExitMeet` … `Disconnected`), `"join"` the end of `run()`
(`Joined`), of which `writer` keeps whether it has begun and whether it has been told to stop. Otherwise a slot of the GUI
thread is one step with its message boxes, except for the box after a connect, during which other slots run *before* the slot
disables the button (`Connected` … `CloseBox`).

The server is the environment. The dispatcher refuses what was asked or hands the connection to a room
(`Refuse`, `Admit`); from then on the answer that is due and any news of anybody may come in any order (`SendDue`, `SendNews`), since
the dispatcher answers after it passed the connection on, `accept_fd` pushes its
announcements without the lock and five threads send. `session` and `no` number the packets and are history, as are `clean`
(nothing of an earlier session was left when this one began), `handledNo`, and `told`, which is what the packets sent so far
make of an empty list.

### ClientSend (`sendtext.cpp`, `sendimg.cpp`, `AudioInput.cpp`, `AudioOutput.cpp`, `mytcpsocket.cpp`, `widget.cpp`)

`queue_send` is `QUEUE_DATA` method by method: `Push`/`PushWait` for the producers `SendText`,
`SendImg` and `AudioInput` (`held[p]` is what each is about to push), `PopSend`/`PopWait`/`PopTimeout` for
`run()`, `asleep` for those who wait on its condition variable, `WakeOne` for the one whom `wakeOne` wakes,
whatever he waits for. `writer` is where `run()` is, from `start()` on: only its first
statement sets `m_isCanRun` (`RunStarts`), so a stop may come before. It posts what it took to the
socket's thread (`posted`), whose `SendData` writes it, or drops it when the connection is down, and tells the GUI
(`over`, `TextSend`). `sock = "quit"` is an event loop that was told to end, `CloseSocket` its end; what
is still posted to it stays for the next one. A connect waits in a blocking call that is
behind all of that (`ConnServer` → `Connected`, `ConnectTimeout`, or `ConnectFails` and `PushRefused`). What goes through
`queue_recv`, bounded like the others, are the errors and, in the scenarios that use them, `"news"`: messages that change nothing here but take up
room (`ReceiveNews`, `PushRecv`, `TakeRecv`, `News`). The camera delivers frames to an event queue
that moves on only while `_imgThread` runs; the microphone is started and stopped by calls that are
posted (`micCalls`), but stopped at once by the GUI itself (`StopCollect`); `AudioOutput` plays
`audio_recv` until its device fails. `Leave` is what a slot does before it waits in `disconnectFromHost`:
`ClearQueues` when the socket's thread is gone, `Joined` when `run()` is. `CloseWindow` →
`StopRecv` → `StopProducers` → `ProducersEnded` is `~Widget` in its order.

A meeting may be entered at any time of a session here, and `JOIN_MEETING` stands for both requests.
`written`, `shut`, `overtaken` and `late` are history. `ui = "crashed"` is `textSend` reading the last item of
an empty list.

## The runs

Twelve runs. "States" are distinct states. The longest take just under three minutes with two TLC workers.

| run | instance | states | properties |
|---|---|---|---|
| `SendQueueMethods` | 2 producers (one may clear), 2 consumers, MaxSize 8 | 2,091 | `TypeInv`, `NoSleepOverBacklog`, `ProducerSleepsOnBacklog`, `OneKindSleeps`, `BacklogIsServed`, `ProducerIsWoken` |
| `RoomMeeting` | 3 connections, two of one address, 3 descriptors, 2 senders, queue of 2 | 1,252,837 | `TypeOK`, `MaxfdCoversMembers`, `NobodyMissing`, `SendsToMembers` |
| `RoomReuse` | 4 users, two of them creators, one who speaks, 2 descriptors, stray bytes | 3,688,335 | `EmptyWhenReported`, `OneMeeting`, `WatchedAreOpen`, `SpeakerIsNamed`, `IsAMeeting` |
| `RoomLive` | 3 users, 2 descriptors, two who speak | 140,300 | `GoneAreDropped`, `TextReachesMembers`, `EndsWithOwner` |
| `DispatcherRooms` | 4 users, 2 workers, 2 rooms, stray bytes | 1,141,098 | `TypeOK`, `OneGrant`, `NavailCounts`, `TotalCovers`, `Overbooked` |
| `DispatcherLive` | 3 users, 2 workers, 1 room, stray bytes | 281,138 | `WorkersComeBack`, `RoomsComeBack` |
| `ClientReceive` | 2 attempts to connect, 3 packets, queue of one | 771,053 | `NothingLost`, `OfflineEmpty`, `ListAsTold`, `ConnectsOnce`, `WaitsEnd`, `CloseNoticed` |
| `ClientSend` | 12 scenarios, queues of one | 348,433 | `TypeOK`, `NoTextLost`, `OldPostsDropped`, `LastIsMarked`, `LastFrame`, `MicOff`, `StopEnds`, `SendEnabledAgain`, `CloseEnds` |
| `RoomGhosts`, `RoomLeak`, `DispatcherFull`, `ClientOnePacket` | see [below](#what-the-code-does-otherwise-than-it-says) | | one violated property each |

What the passing runs show:

* **SendQueueMethods.** The single condition variable is good enough, which is
  not obvious (a signal may be swallowed by a sleeper of the wrong kind): no consumer sleeps over a
  backlog while everybody else is out of the queue, and each backlog is served. Producers and consumers never
  sleep at the same time until somebody calls `clear()`; after that a producer may sleep on
  an empty queue, and a consumer's later signal is what wakes it.
  MaxSize 8 is the least that meets both hypotheses of the theorems for four threads. They are not
  idle: run by hand with a MaxSize of 3 or less `NoSleepOverBacklog` and
  `ProducerSleepsOnBacklog` fail, so that the properties do depend on
  MAXSIZE (10000) being large against the seven threads of a room.
* **RoomMeeting.** Everybody in the meeting who has not gone is told of everybody else in it, whatever order the
  threads take the lock in, also of a user who leaves and comes back from the same address, but for one case: the PARTNER_EXIT of
  who has left was under way while he was in again, and struck off his own name (`crossed`). That case happens: without
  the exception TLC finds a counterexample. `maxfd`, which is read without the lock and lowered by one at a time, covers
  every member at any time; a broadcast, which takes many writes, sees one membership.
* **RoomReuse.** Between the `'E'` and its reading no late join gets in; who was let into the first
  meeting is not in the pool in the second; while the first lasts no descriptor that `select()` watches is closed; and the room
  implements `Meeting`. (Whether a late join was *meant* for the first meeting no property asks: a `'J'` does not say, and the room takes it
  for the meeting that is on.) The address of a message is looked up by descriptor, without the lock, in a map whose entries
  are never erased one by one: of a member who has been let in it is his own or unknown. Between `FD_SET` and the store of the address, and
  through a descriptor that changed hands, it may be another's, but only of this meeting, since `clear_room` empties the map. Several of these
  speak of those who were let in (`Admitted`), and with reason. After a `clear_room` the reader goes on closing descriptors through its old
  result, and a connection of the second meeting may be put at a descriptor that is still
  named in `status` for somebody whose own is closed already, so that it is counted and sent to
  before it was let in. `NobodyMissing` speaks of those `Present` for the same reason: said of all of `status` it
  fails; and it leaves out a member who has hung up unnoticed while the reader hangs in a
  `read()` (with three descriptors and three who leave, that is a counterexample to the stronger form).
* **RoomLive.** A user who has gone is dropped, and an owner who has gone ends the meeting, unless the reader hangs in the
  `read()` of a silent member; a text that was taken in reaches every other member, the owner included, while descriptors change hands
  (three users, two descriptors). `EndsWithOwner` begins where the owner is recorded: of one who hangs up between `FD_SET` and that store the meeting
  goes on without. The run leaves out the stray bytes: a message dropped on account of them is nobody's to hear, and a lost command leaves its
  descriptor open.
* **DispatcherRooms.** `OneGrant`: of each room exactly one of these is true: it is marked
  vacant, its `'C'` is under way, its meeting is on, its `'E'` is under way, or its `'C'` was taken for nothing. `navail` is the number of vacant rooms
  outside the critical sections, `total` is never below what it stands for, and the test of `total` without the lock
  overbooks a room by no more than the number of other workers.
* **DispatcherLive.** Every worker that has read a request comes back for the next one. That is not to say that the request
  was answered: when `write_fd` fails it is not, and the worker waits for the same user's next one. A room whose recorded owner left becomes vacant.
* **ClientReceive.** Within a session that began clean no packet is lost, doubled or overtaken through four
  buffers and three threads; the list of partners is what the packets make of an empty list in the order in which they were sent, whatever that
  order is (that it need not be the order of the joins and exits is `RoomGhosts`); the queue is empty after the end of a session. A slot of the GUI
  that waits goes on, and a closed connection is noticed, but for three ends, which the model reaches: the three threads are `Stuck` (GUI → socket
  thread → full queue → RecvSolve → GUI), the stop came before `run()` had begun (`StopLost`), or the socket's thread is held by
  `audio_recv` (`sockAt = "sound"`; the second does not keep a closing from being noticed).
* **ClientSend.** Every text made in a session is written or on its way, once and in order, through five
  stations; nothing that `run()` took in one session is written in the next, although the posted calls outlive
  the event loop; while the last text is shown as loading, something is under way that will mark it (that it is *its* news is not said); behind
  CLOSE_CAMERA there is one picture at most. The
  microphone does not collect for nobody, except that `stopCollect`, which the GUI calls itself, may overtake a `startCollect`
  that it has posted (`overtaken`), and that a camera left on after the server closed puts an empty entry on the list
  (`NoIp`). Leaving, sending again and closing end but for these, all of which the model reaches: a stop lost on a `run()` that had not begun (`late`),
  a socket's thread waiting for room in an `audio_recv` that nobody empties (`SoundStuck`) or in a `queue_recv` that `RecvSolve`
  does not empty because it waits for the GUI (`RecvStuck`), producers asleep on a queue that was emptied without a signal
  (`AllAsleep`), `RecvSolve` in a blocking call to the GUI that waits for it (`recvSolve \in RecvMsg`), and `textSend` reading an
  empty list (`ui = "crashed"`).

The escapes of the liveness properties are hazards of the code that do occur. What the properties show is that there are no others.

### Bounds

| bound | value | why it is enough for what is asked |
|---|---|---|
| `MaxSize` (MAXSIZE 10000) | 2 in rooms, 8 for the queue | a room's queue must get full: two announcements of one join do that |
| `Senders` (SENDTHREADSIZE 5) | 1 or 2 | two are what it takes to overtake; one sender suffices for what happens between a pop and the lock |
| `FDs` | 2 or 3 | fewer than connections where reuse of a number matters (`RoomReuse`, `RoomLeak`), as many where each member keeps his |
| `Conns` | 2 to 4 | an owner, one who leaves, one who comes late or back; a second owner for the next meeting |
| `IpOf` | `OwnIp`, `SameIp` | addresses of their own, or one address for all but the owner's (`RoomMeeting`) |
| `Plans` (`Leavers`, `Talkers`) | who may leave, and who may say something, once | hazards of data concern one message; joins and exits fill the queue otherwise |
| `Stray` | `TRUE` in `RoomReuse`, `DispatcherRooms`, `DispatcherLive` | safety is asked with any outcome of the unset bytes where the state space allows it; the theorems are about both values. `RoomGhosts`, `RoomLeak` and `DispatcherFull` need none of it, so that the violations are not its doing |
| `Users`, `Threads`, `nprocesses` | 4/2/2 and 3/2/1 | two workers compete for the last vacant room while a third user is in it; `DispatcherRooms` has two rooms besides |
| `MaxTotal` (1024) | 1 or 2 | the limit must be met |
| `MaxVisits` | 1 or 2 | a user who comes back, where old counts matter (`DispatcherFull`) |
| `QueueMax` (QUEUE_MAXSIZE 1500) | 0, so that one message fits (3 in `ClientOnePacket`) | it must get full; the test is `>`, hence one more than the bound |
| `Scenarios` | twelve, each a set of uses with 1 or 2 sessions, at most 3 texts and 2 of frames, sounds and clicks | the state space is the sum of theirs, not the product; each hazard needs the uses of one: what a session leaves to the next (two sessions), a queue that is full (three texts), a camera, a microphone or a loudspeaker beside a text, a full `queue_recv`, the two errors |
| `Others`, `MaxAttempts`, `MaxPackets` | 1, 2, 3 over both sessions | what is left of a first session meets a second; response, join and exit of one partner |

Symmetry is used in `RoomMeeting` (senders), `DispatcherRooms` and `DispatcherFull`
(users, workers); the runs with liveness properties use none. `CHECK_DEADLOCK` is off in the three client
runs only: the user may stop, the window may be closed, and `Stuck` is a real end. Elsewhere `Rest` is the one way to stop: a room that has nothing left to do or
has ended, a service whose users are all at home for good or kept by a room that never reads them, or that has ended.

## Fairness

* `SendQueue`: each thread that is inside a method goes on, and a consumer always comes back
  (`send_func` is an endless loop). Nobody must push, clear, or wake without a signal.
* `RoomProcess`: weak fairness for the reader, the acceptor, each sender and for the dispatcher's part
  (reading a report, writing a command it has decided on). Clients need not speak, leave or stay.
* `Dispatcher`: strong fairness for a worker that serves a request and for the main thread, because
  both compete for a mutex that is released again and again; weak for the rooms. A worker need not be given a request
  (it waits in `accept` or `read` for its user), no user needs to do anything, and `write_fd` need not fail.
* `ClientReceive`: weak fairness for the socket's thread, for `run()`, for `RecvSolve`, and for the GUI's own steps (`datasolve`, whose
  boxes are closed, and what follows a wait). An attempt to connect is a step of the socket's thread and ends, by success or not. User, server and
  network are free, and so is a push to `audio_recv` that does not return.
* `ClientSend`: weak fairness for each thread, for the GUI's own steps, for `TextSend` and for an attempt to connect (it ends, by
  success or not); strong for `SendData` or `CloseSocket`, because an event loop gets on with the calls posted to it, or with its end when it was told to
  quit, although sound and news keep arriving (`ReceiveSound`, `ReceiveNews`). User, devices, server and network are free.

## The proofs

All hold for every value of the constants that meets the module's assumptions.

**SendQueue_proofs.** `TypeCorrect`: `Spec => []TypeInv`.
`BacklogSafe`, for `Roomy` (MaxSize > 2·producers + consumers), with or without `clear()`:
`NoSleepOverBacklog` is not inductive, since it does not say that enough threads are awake. The
strengthening is `BacklogBounded`: while a consumer sleeps, the messages and the
sleeping producers are no more than the signals under way, the consumers awake and one signal per producer. A full
queue would break that bound (`NoPushWait`), so no producer goes to sleep beside a sleeping
consumer, and each message is covered by somebody awake.
`WakeupsSafe`, for `Ample` (MaxSize ≥ 2·threads), until the first `clear()`:
`OneKindSleeps` and `ProducerSleepsOnBacklog` from `WakeupsCovered`: while a producer sleeps, messages and
signals under way outnumber the sleepers by the number of threads. A room has two producers, five consumers
and MAXSIZE = 10000, so both hypotheses hold of it. `ProducersSleepOnBacklog` is the part of it about producers.

**RoomProcess_proofs.** `TypeCorrect` (types, and that whoever holds the pool's lock is where it
may hold it); `MaxfdCovers`: `MaxfdCoversMembers` is inductive given the types, once the one
descriptor that is being entered is exempted; `BroadcastSafe`: whoever changes `status` or `maxfd`
has found the lock free, so what is left of a broadcast stays within the members.

**RoomMeeting_proofs.** The `'C'`, the meeting and the `'E'` are one token (`TokenInv`), and a closed room is empty
and stays so until it is created again, also while the reader goes on through an old result (`CloseInv`); the two are inductive
together. From them `ReportedIsEmpty` (`EmptyWhenReported`). A connection is passed once: it is in the pipe
or at one descriptor, and in no meeting before it got there (`PassedInv`); with it `OneMeetingOnly`
(`OneMeeting`). `SpeakersAreNamed` (`SpeakerIsNamed`), an action property: `NameInv` says that who has been let in is recorded under his own address or as unknown, and
that whatever is recorded, for whichever descriptor, is of this meeting; `UnusedInv` that a room is given away with no address on record. `RoomImplementsMeeting`: the refinement `IsAMeeting` for every
value of the constants, whatever the stray bytes are; initial states map to initial states and every action to a step of
`Meeting` or a stutter. `FirstMeetingWatches`: until the first meeting is over what the reader has in hand is what is watched, and is open
(`FirstInv`), hence `WatchedAreOpen`.

**RoomNews_proofs.** `NobodyIsMissing` (`NobodyMissing`), for any number of users, descriptors and senders, any bound of the queue, any
stray bytes, and wherever the users come from: several may have one address, as one who comes back has. `NewsInv` is
the sum over the way of the messages to one member: of any two who are present, the first has the other in his list,
or `accept_fd` has still to put the message together, or has it in its hand, or it is in the queue, or a sender has it and has not yet
written to him; or the other is `crossed`. It is inductive only with the reason why nothing else strikes the name off again: a PARTNER_EXIT carries the
address recorded for the one who left, and as long as one with a member's address is under way that member is crossed (`ExitInv`), either because it was under
way when he was let in or because it was put together while he was in. `OnlyNamesakesAreMissed` says how small that exception is: a member is crossed only if another connection has his
address too, or `getpeerip` could not learn it. `RecordInv`: whoever has an address to himself is recorded at his descriptor and at no other; `FreshInv`: only
who is past being let in is recorded or said to have left, so a newcomer has no double. TLC checked each of them on `RoomMeeting` and `RoomReuse` before it was proved.

**Dispatcher_proofs.** `TypeCorrect` with the discipline of `room->lock`; `GrantsAreExclusive`:
`OneGrant` is inductive given the types: `PassCreate` (with `Occupy`), `TakeCreate`, `End` and `FreeRoom`
move the one sign of a room from vacant to called, on, ended and vacant again, and `Drop` takes it out of the game; `NavailCorrect`: `NavailInv`
says by how much `navail` is off at each place of the holder of the lock; it
rests on `OneGrant`, since an `'E'` must come from a room that is not vacant already.
`RoomsAreMeetings`: for each room `r`, `Spec => RoomMeeting(r)!Spec`. A start needs an empty room without a
meeting, which `OneGrant` gives of a room with a `'C'` in its pipe; a join needs somebody who is not in it. A user comes and goes while
the worker that passed his last connection on still has it in its variables, so this is not evident: `PlaceInv` says that a connection is
with one worker that has not passed it on, once in one pipe, or in one room. `FirstInv`: the first command a room ever
gets is a `'C'`, so that no `'J'` enters a room whose status is still the `ON` it was given at the start. TLC cannot check a property with a parameter; it checked
these invariants and the step of each room by hand on the instance of `DispatcherRooms`.

**DispatcherTotal_proofs.** `TotalNeverBehind` (`TotalCovers`): what a room is owed changes by one at a time, and the
one worker inside its critical section is the only one who has passed a user on without
counting him (`TotalInv`). `SeatsAreFew` (`Overbooked`): the test of `total` is not under the lock, so many may have passed it when
the first of them goes on. `SeatInv` adds them up: members, those in the pipe (behind the `'C'`, if it
is still there) and workers who have seen a seat are at most MaxTotal and one for each other
worker. `TestFull` keeps it by `TotalInv`; the steps after it only move people from one summand to the
next. That a pipe with a `'C'` belongs to an empty room is `OneGrant`.

**ClientReceive_proofs.** `TypeCorrect`; `OfflineIsEmpty` (`OfflineEmpty`): the socket's thread ends between two slots of its own, with
nothing at hand, and the slot that told it to end waits before it clears the queue (`OfflineInv`);
`ConnectsAreOnce` (`ConnectsOnce`) from `WaitInv`, which says who waits for whom: a slot that connects has the socket's thread running and no connection yet, and a
socket's thread that was told to end has the slot waiting for it.
`NothingIsLost` (`NothingLost`): what is on its way is numbered without a gap, message by message and cell by cell
(`Flowing`), which each station passes on; a read that ends in a packet leaves its first cell in `recvbuf`, so that what begins
the stream is always the beginning of a packet. It holds of sessions that begin clean, and a connection that is down has
nothing of the server's left (`DownIsIdle`). `ListIsAsTold` (`ListAsTold`): `Stays` says of an address whether it will be
in the list when all that is under way has been dealt with: a packet that brings it has none behind it that
takes it away. `ListInv` equates that with what the packets sent so far make of an empty list (`OneKnown`): a packet sent decides both sides alike, a packet dealt with
moves from the flight to the list; with nothing under way it is the list.

**ClientSend_proofs.** `TypeCorrect`; `OldPostsAreDropped` (`OldPostsDropped`): the button to connect comes back only when `run()` has
ended and the connection is closed, so what is left is posted, and the connect waits behind it (`SessionInv`);
`MicIsOff` (`MicOff`): the button of the microphone goes with the company, and so does a start
that is posted, or it is overtaken (`MicInv`). `NoTextIsLost` (`NoTextLost`): `WholeInv` says of all that is under way, from the posted calls to `textqueue`, that the numbers
above `written` are all there and rise. It is kept because every step appends at the end, drops from the front what is written, moves a
message from one station to the next, or slips one without a number in between. That a message is not dropped
in a session takes `StopInv` (a connection outlives `run()` only in an event loop that was told to quit) and `SessionInv`; what each
producer holds is `Kinds`. `LastIsMarkedInTime` (`LastIsMarked`), from `MarkInv`, which says the same of the last text of the list while it is
shown as loading. `LastFrameIsLast` (`LastFrame`): `FrameInv` counts the pictures behind the CLOSE_CAMERA together with the one in `SendImg`'s
hand, and a camera that is off has no thread that would take another. All of these hold for every bound of the queue and every set
of scenarios.

Every invariant of a passing run is stated by a theorem, and so is the one refinement a run checks. Only model-checked are
the liveness properties, since fairness and ENABLED are out of this prover's reach: `BacklogIsServed`, `ProducerIsWoken`,
`GoneAreDropped`, `TextReachesMembers`, `EndsWithOwner`, `WorkersComeBack`, `RoomsComeBack`, `WaitsEnd`, `CloseNoticed`,
`StopEnds`, `SendEnabledAgain` and `CloseEnds`; and the violations, which are counterexamples. Properties of what is on its way are stated by positions
(`\A i \in DOMAIN ...`) and by what a queue contains, never by a subsequence that is computed, which would need induction over data. No module declares a RECURSIVE operator.

## What the code does otherwise than it says

Four runs end in a violation. Each checks one property that a comment or a document of the
repository states; the counterexample is a behaviour of the code.

| run | what happens |
|---|---|
| `RoomGhosts` | `accept_fd` puts PARTNER_JOIN and PARTNER_JOIN2 together from the pool and pushes them after it has released the lock. The PARTNER_EXIT of a user named in them can be queued before: the one who joins keeps a user who is gone on his list, for good. |
| `RoomLeak` | `send_func` takes a message off the queue, then the lock. If the room is emptied and given to another meeting in between, a text of the old meeting is sent to the new one. |
| `DispatcherFull` | `total` is raised for every connection and lowered for a `'Q'`; an `'E'` leaves it alone. The owner of the meeting before is still counted when all reports have been read, and a user is told the room is full while it has seats. There is a second cause: a `'J'` that comes to a closed room is refused there (room.cpp:268-272), but counted by the worker (userdeal.cpp:222), and no report tells. With `total` reset at an `'E'` the property still fails for the latter; with a `'Q'` for a refused `'J'` as well it holds (68,376 states; both tried by hand). |
| `ClientOnePacket` | `recvFromSocket` reads all that has arrived but takes at most one packet from it. The second of two packets that arrive together stays in `recvbuf` until the server sends something more. |

The models show more, of which no comment or document says the opposite so plainly that a run could quote it.

* Room: after `clear_room`, `process_main` goes on through the old result of `select()`; the read of a closed descriptor fails,
  and `fdclose` reports a `'Q'` and lowers `num` for a descriptor that is no member's, or ends the next meeting, if the descriptor is its owner's by then (`QuitLate`, `EndLate` in `Dispatcher`).
  An owner who hangs up between `FD_SET` and the store of `owner` leaves a meeting without owner
  on (`MissOwner`). A command taken for nothing, for the unset bytes of an `int`, loses the connection, and the room if it was a `'C'` (`Drop`).
  The PARTNER_EXIT of a user who is back from the same address strikes off his new name (`crossed`). A stale descriptor that names a new, silent member keeps the reader in `read()` (`MainBlocked`).
  A closed descriptor left in `fdset` ends the room by EBADF, and with it the service.
* Client, receiving: `_createmeet` stays true after the server closed, so that the next session cannot create a meeting; the
  button to connect stays disabled when the error comes during the box, and after `OtherNetError`;
  half a packet in `recvbuf` spoils the next session's stream.
* Client, sending: a message dropped because the connection was down is reported like a text that was written: it marks the last
  item of the list, whatever it is, or reads it from an empty list (`ui = "crashed"`). A stop that comes before `run()` has begun is
  lost, and whoever waits for the thread waits for good. Once `AudioOutput` has ended, the socket's thread fills `audio_recv` and
  stays there. `RecvSolve` in a blocking call and the window that waits for it wait for each other. `clear` wakes nobody: a
  producer that slept on a full queue sleeps on an empty one until somebody else pushes. At the end of a session the
  button of the microphone is given the text CLOSEAUDIO, so that the first click of the next one stops what was not started. A camera
  left on after the server closed adds an entry with no address to the list.

## Not modelled

* **Room:** messages in pieces and malformed ones; a write to a client that never ends (`writen` under the pool's
  lock; the liveness properties hold under that assumption); the queue's mutex step by step inside a room, hence
  a producer's lost wake-up after `clear()` (it is in `SendQueue`); the buffer of PARTNER_JOIN2, hence what is written past it;
  `getpeerip` answering anything but the address or -1.
* **Dispatcher:** the mutex around `accept()`, requests in a wrong format (skipped by the code), the start
  of threads and processes.
* **Client, receiving:** a second request after the first was granted (the room would read a dispatcher's message);
  the order in which the list shows its entries; AUDIO_RECV other than as a push that may not return; the display of pictures. The way of a request to the
  server: it arrives within the session or never. Once `recvbuf` holds the rest of an earlier session, framing is
  nondeterministic (`Broken`), and `NothingLost` and `ListAsTold` speak of `clean` sessions.
* **Client, sending:** how a message is put into bytes and a picture or a sound into a message; the bounds of `imgqueue` and
  `textqueue` (nobody else fills them) and their sleepers; the jitter buffer of `AudioOutput`; Qt's multimedia classes beyond
  start, stop, data and error. The box after a connect and the answers to requests are `ClientReceive`'s.
* **Client, log and views:** the log is one more queue with one consumer that appends to a file; the views are layout, painting
  and the completion of names, without state that another component reads.
* `writen`, `Sock_ntop`, `Tcp_listen`, the pthread wrappers and the error printers: one call or pure I/O each.

## Plan

What was planned, in the order of its importance, is done: `SendQueue`, then `RoomProcess` over its contract with `Meeting` as its
abstract specification; `Dispatcher` over `Meeting`; `ClientReceive`; `ClientSend` with `QUEUE_DATA` method by method, the stops of all
threads and the end of the window; attribution (`SpeakerIsNamed`); the theorems on all of them. What would come next:

1. One module of a client that composes its two halves, to see a box of `ClientReceive` beside a posted call of `ClientSend`.
2. Fragmented messages in the room: `Readn` in pieces, a client that is slow in the middle of one, and `writen` to a client that does not
   read, with the pool's lock held.
3. The safety part of the liveness properties as theorems: that in each state in which somebody waits, the one he waits for is named
   (`Stuck`, `StopLost`, `RecvStuck`, `AllAsleep`, `SoundStuck` as the only ends), which leaves to TLC only that the named one goes on.
4. `FullMeansFull` and `NoGhosts` in the form in which they are true: a seat that is missing belongs to the owner of an earlier
   meeting or to a refused `'J'`, and a ghost is somebody whose PARTNER_EXIT overtook his announcement.
