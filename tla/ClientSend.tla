------------------------------ MODULE ClientSend ------------------------------
(***************************************************************************)
(* The sending half of a client, its microphone, camera and loudspeaker:   *)
(* what a session and the window start, and must stop again.               *)
(*                                                                         *)
(* Three producers put messages on queue_send (netheader.h: QUEUE_DATA):   *)
(* the thread SendText what the GUI emits as PushText, the thread SendImg  *)
(* the frames of the camera, the slot AudioInput::onreadyRead sound.  The  *)
(* thread MyTcpSocket::run takes them off and posts each to the thread of  *)
(* the socket (_sockThread), which writes it (sendData) and tells the GUI  *)
(* (sendTextOver).  AudioOutput::run plays what that thread received.      *)
(*                                                                         *)
(* A method of QUEUE_DATA is one step, up to the sleep in it, its wakeOne  *)
(* included.  What SendText has yet to push is one sequence: the events of *)
(* _textThread, then textqueue.  The frames SendImg has yet to push are    *)
(* the events of _imgThread and imgqueue, which moves on only while        *)
(* _imgThread runs.  The box after a connect and the answers to requests   *)
(* are ClientReceive's; here a meeting may be entered at any time of a     *)
(* session, and JOIN_MEETING stands for CREATE_MEETING too.  What arrives  *)
(* and changes a list is one step; messages that change nothing here, the  *)
(* news, and errors go through queue_recv, which may be full.              *)
(***************************************************************************)
EXTENDS Integers, Sequences, FiniteSets, Functions

CONSTANTS Me,           \* the local address
          Other,        \* the address of another user
          NoIp,         \* what getlocalip() makes of a socket without one
          QueueMax,     \* QUEUE_MAXSIZE
          Scenarios,    \* what a user makes use of, and how often
          NoMsg

ASSUME ClientAssumption ==
  /\ Me # Other /\ NoIp \notin {Me, Other}
  /\ QueueMax \in Nat

\* sessions bounds how often the user connects, texts the messages for SendText,
\* made the frames, the sounds collected and the clicks on openAudio.
ASSUME ScenariosAssumption ==
  Scenarios \subseteq
    [uses : SUBSET {"texts", "microphone", "camera", "closing", "loudspeaker", "partners",
                    "news", "RemoteHostClosedError", "OtherNetError"},
     sessions : Nat, texts : Nat, made : Nat]

Producers == {"SendText", "SendImg", "AudioInput"}

\* no counts what SendText has to send, and is 0 for pictures and sound.
Msg == [type : {"JOIN_MEETING", "TEXT_SEND", "CLOSE_CAMERA", "IMG_SEND", "AUDIO_SEND"},
        no : Nat]

\* A message run() has taken, and in which session.
TakenMsg == [msg : Msg, in : Nat]

ASSUME NoMsgAssumption == NoMsg \notin Msg \cup TakenMsg

Buttons == {"connServer", "joinmeetBtn", "exitmeetBtn", "sendmsg", "openAudio", "openVedio"}

Errors == {"RemoteHostClosedError", "OtherNetError"}

\* What goes through queue_recv.
RecvMsg == Errors \cup {"news"}

VARIABLES
  scenario,        \* what this user makes use of; it does not change
  ui,              \* GUI: "free", or what it waits for, or how it ended
  why,             \* what the session ends for: "exit" or an error
  enabled, partner,
  shown, marked,   \* the last item of listWidget; its loading picture is hidden
  queue_recv,
  recvSolve,       \* RecvSolve: "on", "off" or the message datasolve() has to deal with
  session,         \* how often the user has connected
  conn,            \* the socket is connected
  sock,            \* _sockThread: "off", "on", "quit"
  posted,          \* the calls of sendData posted to it
  over,            \* how many sendTextOver are on their way to the GUI
  sockAt,          \* _sockThread: "idle", or what it is about to push, to audio_recv
                   \* ("sound") or to queue_recv ("refused" is an error of connectServer)
  writer, taken,   \* MyTcpSocket::run: where it is, and what it took
  m_isCanRun,
  queue_send, asleep,        \* asleep: who waits on its condition variable
  texts, frames, held,       \* held: what a producer is about to push
  camera, imgThread,         \* the camera is on; the thread runs
  mic, micCalls, micText,    \* AudioInput collects; calls posted to it; the button
  device, aoutput, audio_recv,             \* AudioOutput and its queue
  texted, made,    \* how many messages for SendText there were; how much else
  written,         \* history: the last of those written or of an earlier session
  shut,            \* history: the CLOSE_CAMERA of a camera not opened since, or 0
  overtaken,       \* history: a stop of the microphone overtook its start
  late             \* history: run() began after it had been told to stop

widget == <<ui, why, enabled, partner>>
list   == <<shown, marked>>
recv   == <<queue_recv, recvSolve>>
socket == <<session, conn, sock, posted, over, sockAt>>
thread == <<writer, taken, m_isCanRun, late>>
queue  == <<queue_send, asleep>>
input  == <<texts, frames, held>>
video  == <<camera, imgThread>>
voice  == <<mic, micCalls, micText, overtaken>>
play   == <<device, aoutput, audio_recv>>
count  == <<texted, made, written, shut>>

vars == <<scenario, widget, list, recv, socket, thread, queue, input, video, voice, play, count>>

----------------------------------------------------------------------------
Init ==
  /\ scenario \in Scenarios
  /\ ui = "free" /\ why = "exit" /\ enabled = {"connServer"} /\ partner = {}
  /\ shown = "none" /\ marked = FALSE
  /\ queue_recv = << >> /\ recvSolve = "on"
  /\ session = 0 /\ conn = FALSE /\ sock = "off"
  /\ posted = << >> /\ over = 0 /\ sockAt = "idle"
  /\ writer = "off" /\ taken = NoMsg /\ m_isCanRun = FALSE /\ late = FALSE
  /\ queue_send = << >> /\ asleep = {}
  /\ texts = << >> /\ frames = 0 /\ held = [p \in Producers |-> NoMsg]
  /\ camera = FALSE /\ imgThread = FALSE
  /\ mic = FALSE /\ micCalls = << >> /\ micText = "OPENAUDIO" /\ overtaken = FALSE
  /\ device = "none" /\ aoutput = "on" /\ audio_recv = 0
  /\ made = 0 /\ texted = 0 /\ written = 0 /\ shut = 0

----------------------------------------------------------------------------
\* queue_send.

HasRoomOneMore == Len(queue_send) <= QueueMax + 1     \* faulty: off by one

HasRoom == Len(queue_send) <= QueueMax

WakeNobody == UNCHANGED asleep                        \* faulty: no wakeOne

\* wakeOne wakes one of the sleepers, whatever it sleeps for.
WakeOne ==
  IF asleep = {} THEN UNCHANGED asleep ELSE \E t \in asleep : asleep' = asleep \ {t}

Awake(p) == held[p] # NoMsg /\ p \notin asleep

Push(p) ==
  /\ Awake(p) /\ HasRoom
  /\ queue_send' = Append(queue_send, held[p])
  /\ held' = [held EXCEPT ![p] = NoMsg]
  /\ WakeOne
  /\ UNCHANGED <<widget, list, recv, socket, thread, texts, frames, video, voice, play,
                 count>>

PushWait(p) ==
  /\ Awake(p) /\ ~HasRoom
  /\ asleep' = asleep \cup {p}
  /\ UNCHANGED <<widget, list, recv, socket, thread, queue_send, input, video, voice,
                 play, count>>

----------------------------------------------------------------------------
\* The producers.

Hold(p, msg) == held[p] = NoMsg /\ held' = [held EXCEPT ![p] = msg]

\* SendText::run takes from textqueue.
TakeText ==
  /\ texts # << >>
  /\ Hold("SendText", Head(texts)) /\ texts' = Tail(texts)
  /\ UNCHANGED <<widget, list, recv, socket, thread, queue, frames, video, voice, play,
                 count>>

FrameReadyAnyway == frames > 0          \* faulty: clearImgQueue is not connected

FrameReady == imgThread /\ frames > 0

\* SendImg::run takes from imgqueue.
TakeFrame ==
  /\ FrameReady
  /\ Hold("SendImg", [type |-> "IMG_SEND", no |-> 0]) /\ frames' = frames - 1
  /\ UNCHANGED <<widget, list, recv, socket, thread, queue, texts, video, voice, play,
                 count>>

\* AudioInput::onreadyRead has enough sound for a message.
Collect ==
  /\ mic /\ made < scenario.made
  /\ Hold("AudioInput", [type |-> "AUDIO_SEND", no |-> 0]) /\ made' = made + 1
  /\ UNCHANGED <<widget, list, recv, socket, thread, queue, texts, frames, video, voice,
                 play, texted, written, shut>>

\* handleStateChanged: the input stopped with an error.
MicFails ==
  /\ mic /\ mic' = FALSE
  /\ UNCHANGED <<widget, list, recv, socket, thread, queue, input, video, micCalls, micText,
                 overtaken, play, count>>

\* startCollect or stopCollect, as posted to the thread of AudioInput.
MicCall ==
  /\ micCalls # << >> /\ held["AudioInput"] = NoMsg
  /\ mic' = (Head(micCalls) = "start") /\ micCalls' = Tail(micCalls)
  /\ UNCHANGED <<widget, list, recv, socket, thread, queue, input, video, micText,
                 overtaken, play, count>>

SendText   == TakeText \/ Push("SendText") \/ PushWait("SendText")
SendImg    == TakeFrame \/ Push("SendImg") \/ PushWait("SendImg")
AudioInput == MicCall \/ Push("AudioInput") \/ PushWait("AudioInput")

----------------------------------------------------------------------------
\* MyTcpSocket::run.

\* Only the first statement of run() sets m_isCanRun.
RunStarts ==
  /\ writer = "start"
  /\ writer' = "test" /\ m_isCanRun' = TRUE
  /\ late' = (late \/ ui \in {"quit", "join", "close"})
  /\ UNCHANGED <<widget, list, recv, socket, taken, queue, input, video, voice, play,
                 count>>

TestStop ==
  /\ writer = "test"
  /\ writer' = IF m_isCanRun THEN "pop" ELSE "off"
  /\ UNCHANGED <<widget, list, recv, socket, taken, m_isCanRun, late, queue, input, video,
                 voice, play, count>>

PopSend ==
  /\ writer = "pop" /\ "run" \notin asleep /\ queue_send # << >>
  /\ taken' = [msg |-> Head(queue_send), in |-> session]
  /\ queue_send' = Tail(queue_send)
  /\ writer' = "post" /\ WakeOne
  /\ UNCHANGED <<widget, list, recv, socket, m_isCanRun, late, input, video, voice, play,
                 count>>

PopWait ==
  /\ writer = "pop" /\ "run" \notin asleep /\ queue_send = << >>
  /\ asleep' = asleep \cup {"run"}
  /\ UNCHANGED <<widget, list, recv, socket, thread, queue_send, input, video, voice,
                 play, count>>

\* After two seconds pop_msg returns nothing.
PopTimeout ==
  /\ writer = "pop" /\ "run" \in asleep
  /\ asleep' = asleep \ {"run"} /\ writer' = "test"
  /\ UNCHANGED <<widget, list, recv, socket, taken, m_isCanRun, late, queue_send, input, video,
                 voice, play, count>>

PostSendData ==
  /\ writer = "post"
  /\ posted' = Append(posted, taken)
  /\ taken' = NoMsg /\ writer' = "test"
  /\ UNCHANGED <<widget, list, recv, session, conn, sock, over, sockAt, m_isCanRun, late,
                 queue, input, video, voice, play, count>>

Writer == RunStarts \/ TestStop \/ PopSend \/ PopWait \/ PopTimeout \/ PostSendData

----------------------------------------------------------------------------
\* The socket's thread.

Listening == sock # "off" /\ sockAt = "idle"

TellsOfDrops(msg) == ~conn              \* faulty: nothing for a text written

\* sendTextOver tells that a text was written, or that anything was dropped.
Tells(msg) == ~conn \/ msg.type = "TEXT_SEND"

SendData ==
  /\ Listening /\ posted # << >>
  /\ posted' = Tail(posted)
  /\ LET msg == Head(posted).msg IN
       /\ over' = IF Tells(msg) THEN over + 1 ELSE over
       /\ written' = IF conn /\ msg.no > written THEN msg.no ELSE written
  /\ UNCHANGED <<widget, list, recv, session, conn, sock, sockAt, thread, queue, input,
                 video, voice, play, made, texted, shut>>

\* recvFromSocket with an AUDIO_RECV
ReceiveSound ==
  /\ Listening /\ conn /\ "loudspeaker" \in scenario.uses
  /\ sockAt' = "sound"
  /\ UNCHANGED <<widget, list, recv, session, conn, sock, posted, over, thread, queue,
                 input, video, voice, play, count>>

PushSound ==
  /\ sockAt = "sound" /\ audio_recv <= QueueMax
  /\ audio_recv' = audio_recv + 1 /\ sockAt' = "idle"
  /\ UNCHANGED <<widget, list, recv, session, conn, sock, posted, over, thread, queue,
                 input, video, voice, device, aoutput, count>>

\* recvFromSocket with a message for queue_recv
ReceiveNews ==
  /\ Listening /\ conn /\ "news" \in scenario.uses
  /\ sockAt' = "news"
  /\ UNCHANGED <<widget, list, recv, session, conn, sock, posted, over, thread, queue,
                 input, video, voice, play, count>>

\* errorDetect for a connection that has ended
ConnectionLost ==
  /\ Listening /\ conn
  /\ conn' = FALSE /\ sockAt' \in Errors \cap scenario.uses
  /\ UNCHANGED <<widget, list, recv, session, sock, posted, over, thread, queue, input,
                 video, voice, play, count>>

HasRoomRecv == Len(queue_recv) <= QueueMax

PushRecv ==
  /\ sockAt \in RecvMsg /\ HasRoomRecv
  /\ queue_recv' = Append(queue_recv, sockAt) /\ sockAt' = "idle"
  /\ UNCHANGED <<widget, list, recvSolve, session, conn, sock, posted, over, thread,
                 queue, input, video, voice, play, count>>

\* The event loop has ended; what is still posted to it stays.
CloseSocket ==
  /\ sock = "quit" /\ sockAt = "idle"
  /\ sock' = "off" /\ conn' = FALSE
  /\ UNCHANGED <<widget, list, recv, session, posted, over, sockAt, thread, queue,
                 input, video, voice, play, count>>

SockThread == SendData \/ PushSound \/ PushRecv \/ CloseSocket

----------------------------------------------------------------------------
\* RecvSolve::run.  It waits until datasolve() has dealt with the message.

TakeRecv ==
  /\ recvSolve = "on" /\ queue_recv # << >>
  /\ recvSolve' = Head(queue_recv) /\ queue_recv' = Tail(queue_recv)
  /\ UNCHANGED <<widget, list, socket, thread, queue, input, video, voice, play, count>>

\* It tests its flag, which only the end of the window sets.
RecvEnds ==
  /\ recvSolve = "on" /\ ui = "recv"
  /\ recvSolve' = "off"
  /\ UNCHANGED <<widget, list, queue_recv, socket, thread, queue, input, video, voice, play,
                 count>>

RecvSolve == TakeRecv \/ RecvEnds

----------------------------------------------------------------------------
\* AudioOutput::run.  A write to the device that fails ends the thread.  The
\* device of a QAudioOutput that stopped with an error must not be written to:
\* here such a write may fail or seem to succeed.
Play ==
  /\ aoutput = "on" /\ audio_recv > 0
  /\ audio_recv' = audio_recv - 1
  /\ \/ UNCHANGED aoutput
     \/ device # "none" /\ aoutput' = "ended"
  /\ UNCHANGED <<widget, list, recv, socket, thread, queue, input, video, voice, device,
                 count>>

----------------------------------------------------------------------------
\* The GUI: what the lists of partners and of texts have to do with the devices.

Own == IF conn THEN Me ELSE NoIp

\* faulty: the input is not stopped
StopCollectNot == UNCHANGED <<mic, overtaken, micCalls>>

\* stopCollect, called by the GUI itself
StopCollect ==
  /\ mic' = FALSE
  /\ overtaken' = (overtaken \/ (\E i \in DOMAIN micCalls : micCalls[i] = "start"))
  /\ UNCHANGED micCalls

StopPlay == device' = IF device = "open" THEN "none" ELSE device

\* The thread ends with its queue emptied; the events posted to it stay.
QuitImgThread ==
  /\ imgThread' = FALSE
  /\ frames' \in (IF imgThread THEN 0..frames ELSE {frames})

AddPartner(ip, on, off) ==
  LET heard == ip \notin partner /\ Cardinality(partner \cup {ip}) > 1
  IN  /\ partner' = partner \cup {ip}
      /\ enabled' = (enabled \cup on \cup (IF heard THEN {"sendmsg", "openAudio"} ELSE {}))
                      \ off
      /\ device' = IF heard THEN "open" ELSE device

\* JOIN_MEETING_RESPONSE, granted, with the PARTNER_JOIN2 that enables openVedio,
\* or CREATE_MEETING_RESPONSE
EnterMeeting ==
  /\ ui = "free" /\ conn /\ "joinmeetBtn" \in enabled
  /\ AddPartner(Me, {"exitmeetBtn", "openVedio"}, {"joinmeetBtn"})
  /\ UNCHANGED <<ui, why, list, recv, socket, thread, queue, input, video, voice, aoutput,
                 audio_recv, count>>

InMeeting == ui = "free" /\ conn /\ "exitmeetBtn" \in enabled /\ "partners" \in scenario.uses

PartnerComes ==
  /\ InMeeting /\ AddPartner(Other, {}, {})
  /\ UNCHANGED <<ui, why, list, recv, socket, thread, queue, input, video, voice, aoutput,
                 audio_recv, count>>

RemovePartner ==
  /\ InMeeting /\ Other \in partner
  /\ partner' = partner \ {Other}
  /\ IF Cardinality(partner') <= 1
     THEN /\ StopCollect /\ StopPlay
          /\ micText' = "OPENAUDIO" /\ enabled' = enabled \ {"openAudio"}
     ELSE UNCHANGED <<voice, device, enabled>>
  /\ UNCHANGED <<ui, why, list, recv, socket, thread, queue, input, video, aoutput,
                 audio_recv, count>>

ClearPartner ==
  IF partner = {}
  THEN UNCHANGED <<partner, enabled, voice, device, imgThread, frames>>
  ELSE /\ partner' = {} /\ enabled' = enabled \ {"openAudio", "openVedio"}
       /\ StopCollect /\ StopPlay /\ micText' = "CLOSEAUDIO"
       /\ QuitImgThread

TextRecv ==
  /\ InMeeting /\ "texts" \in scenario.uses
  /\ shown' = "other" /\ marked' = FALSE
  /\ UNCHANGED <<widget, recv, socket, thread, queue, input, video, voice, play, count>>

\* textSend; there is no last item to read in an empty list.
TextSend ==
  /\ ui = "free" /\ over > 0
  /\ over' = over - 1
  /\ IF shown = "none"
     THEN ui' = "crashed" /\ UNCHANGED <<marked, enabled>>
     ELSE marked' = TRUE /\ enabled' = enabled \cup {"sendmsg"} /\ UNCHANGED ui
  /\ UNCHANGED <<why, partner, shown, recv, session, conn, sock, posted, sockAt, thread,
                 queue, input, video, voice, play, count>>

\* cameraImageCapture: partner[...] adds an entry for oneself.
CameraFrame ==
  /\ ui = "free" /\ camera
  /\ partner' = partner \cup {Own}
  /\ IF Cardinality(partner) > 1
     THEN made < scenario.made /\ made' = made + 1 /\ frames' = frames + 1
     ELSE UNCHANGED <<made, frames>>
  /\ UNCHANGED <<ui, why, enabled, list, recv, socket, thread, queue, texts, held, video,
                 voice, play, texted, written, shut>>

\* handleStateChanged: the output stopped with an error, and is not forgotten.
DeviceFails ==
  /\ ui = "free" /\ device = "open" /\ "loudspeaker" \in scenario.uses
  /\ device' = "failed"
  /\ UNCHANGED <<widget, list, recv, socket, thread, queue, input, video, voice, aoutput,
                 audio_recv, count>>

----------------------------------------------------------------------------
\* The user.

UserMayClick(button) == ui = "free" /\ button \in enabled

\* faulty: the last one made is the first to go
PushTextFront(type) ==
  /\ texted < scenario.texts /\ texted' = texted + 1
  /\ texts' = <<[type |-> type, no |-> texted + 1]>> \o texts

PushText(type) ==
  /\ texted < scenario.texts /\ texted' = texted + 1
  /\ texts' = Append(texts, [type |-> type, no |-> texted + 1])

SendMsg ==
  /\ UserMayClick("sendmsg") /\ "texts" \in scenario.uses
  /\ PushText("TEXT_SEND")
  /\ shown' = "own" /\ marked' = FALSE
  /\ enabled' = enabled \ {"sendmsg"}
  /\ UNCHANGED <<ui, why, partner, recv, socket, thread, queue, frames, held, video,
                 voice, play, made, written, shut>>

JoinMeet ==
  /\ UserMayClick("joinmeetBtn") /\ "texts" \in scenario.uses
  /\ PushText("JOIN_MEETING")
  /\ UNCHANGED <<widget, list, recv, socket, thread, queue, frames, held, video, voice,
                 play, made, written, shut>>

OpenAudio ==
  /\ UserMayClick("openAudio") /\ "microphone" \in scenario.uses /\ "exitmeetBtn" \in enabled
  /\ made < scenario.made /\ made' = made + 1
  /\ micCalls' = Append(micCalls, IF micText = "OPENAUDIO" THEN "start" ELSE "stop")
  /\ micText' = IF micText = "OPENAUDIO" THEN "CLOSEAUDIO" ELSE "OPENAUDIO"
  /\ UNCHANGED <<widget, list, recv, socket, thread, queue, input, video, mic, overtaken,
                 play, texted, written, shut>>

OpenVedio ==
  /\ UserMayClick("openVedio") /\ "camera" \in scenario.uses /\ ~camera
  /\ camera' = TRUE /\ imgThread' = TRUE /\ shut' = 0
  /\ UNCHANGED <<widget, list, recv, socket, thread, queue, input, voice, play, made,
                 texted, written>>

CloseVedio ==
  /\ UserMayClick("openVedio") /\ camera /\ "closing" \in scenario.uses
  /\ camera' = FALSE /\ QuitImgThread
  /\ PushText("CLOSE_CAMERA") /\ shut' = texted'
  /\ UNCHANGED <<widget, list, recv, socket, thread, queue, held, voice, play, made,
                 written>>

----------------------------------------------------------------------------
\* Sessions.

\* connectToServer starts the socket's thread and waits for connectServer, which
\* is behind whatever is still posted to that thread.
ConnServer ==
  /\ UserMayClick("connServer")
  /\ session < scenario.sessions
  /\ session' = session + 1
  /\ sock' = "on" /\ ui' = "connect"
  /\ UNCHANGED <<why, enabled, partner, list, recv, conn, posted, over, sockAt, thread,
                 queue, input, video, voice, play, count>>

ConnectingAtOnce == ui = "connect" /\ Listening      \* faulty: overtakes what is posted

Connecting == ui = "connect" /\ Listening /\ posted = << >>

\* start() does nothing to a thread that still runs.
Connected ==
  /\ Connecting
  /\ ui' = "free" /\ conn' = TRUE
  /\ writer' = IF writer = "off" THEN "start" ELSE writer
  /\ enabled' = (enabled \cup {"joinmeetBtn", "sendmsg"})
                  \ {"connServer", "exitmeetBtn", "openAudio", "openVedio"}
  /\ shown' = IF shown = "own" THEN "other" ELSE shown   \* not one of this session's
  /\ written' = texted
  /\ UNCHANGED <<why, partner, marked, recv, session, sock, posted, over, sockAt, taken,
                 m_isCanRun, late, queue, input, video, voice, play, made, texted, shut>>

\* The five seconds are over, and nothing is told.
ConnectTimeout ==
  /\ Connecting
  /\ ui' = "free"
  /\ UNCHANGED <<why, enabled, partner, list, recv, socket, thread, queue, input, video,
                 voice, play, count>>

\* errorDetect is called within connectServer.
ConnectFails ==
  /\ Connecting
  /\ sockAt' = "refused"
  /\ UNCHANGED <<widget, list, recv, session, conn, sock, posted, over, thread, queue,
                 input, video, voice, play, count>>

PushRefused ==
  /\ sockAt = "refused" /\ HasRoomRecv
  /\ queue_recv' = Append(queue_recv, "OtherNetError") /\ sockAt' = "idle"
  /\ ui' = "free"
  /\ UNCHANGED <<why, enabled, partner, list, recvSolve, session, conn, sock, posted,
                 over, thread, queue, input, video, voice, play, count>>

StopRunNot == UNCHANGED m_isCanRun                   \* faulty: the wait alone

StopRun == m_isCanRun' = (m_isCanRun /\ writer = "off")

QuitForgotten == UNCHANGED sock                      \* faulty: the wait alone

QuitSock == sock' = IF sock = "off" THEN "off" ELSE "quit"

\* What a slot does before it waits in disconnectFromHost.
Leave(reason) ==
  /\ ui = "free" /\ ui' = "quit" /\ why' = reason
  /\ ClearPartner /\ StopRun /\ QuitSock
  /\ UNCHANGED <<list, recv, session, conn, posted, over, sockAt, writer, taken, late, queue,
                 texts, held, aoutput, audio_recv, count>>

ExitMeet ==
  /\ UserMayClick("exitmeetBtn") /\ Leave("exit")
  /\ camera' = FALSE

NetError ==
  /\ recvSolve \in Errors /\ Leave(recvSolve)
  /\ UNCHANGED camera

\* datasolve for a message that changes nothing here
News ==
  /\ ui = "free" /\ recvSolve = "news"
  /\ recvSolve' = "on"
  /\ UNCHANGED <<widget, list, queue_recv, socket, thread, queue, input, video, voice, play,
                 count>>

\* The queues are cleared, and nobody is woken.
ClearQueues ==
  /\ ui = "quit" /\ sock = "off"
  /\ ui' = "join"
  /\ queue_send' = << >> /\ queue_recv' = << >> /\ audio_recv' = 0
  /\ UNCHANGED <<why, enabled, partner, list, recvSolve, socket, thread, asleep, input,
                 video, voice, device, aoutput, count>>

\* The slot goes on when run() has ended.
Joined ==
  /\ ui = "join" /\ writer = "off"
  /\ ui' = "free" /\ why' = "exit"
  /\ recvSolve' = IF why = "exit" THEN recvSolve ELSE "on"
  /\ enabled' = CASE why = "exit" -> (enabled \cup {"connServer"}) \ {"exitmeetBtn"}
                  [] why = "RemoteHostClosedError" ->
                       (enabled \cup {"connServer"}) \ {"exitmeetBtn", "joinmeetBtn"}
                  [] why = "OtherNetError" -> enabled
  /\ IF why = "OtherNetError" THEN UNCHANGED list ELSE shown' = "none" /\ marked' = FALSE
  /\ UNCHANGED <<partner, queue_recv, socket, thread, queue, input, video, voice, play, count>>

----------------------------------------------------------------------------
\* ~Widget: the writing thread and the socket's first, if the former runs, then
\* RecvSolve, then the producers.
CloseWindow ==
  /\ ui = "free"
  /\ ui' = "close"
  /\ IF writer = "off" THEN UNCHANGED <<m_isCanRun, sock>> ELSE StopRun /\ QuitSock
  /\ UNCHANGED <<why, enabled, partner, list, recv, session, conn, posted, over, sockAt,
                 writer, taken, late, queue, input, video, voice, play, count>>

StopRecv ==
  /\ ui = "close" /\ writer = "off" /\ sock # "quit"
  /\ ui' = "recv"
  /\ UNCHANGED <<why, enabled, partner, list, recv, socket, thread, queue, input, video,
                 voice, play, count>>

\* The events of _textThread are lost with it.
StopProducers ==
  /\ ui = "recv" /\ recvSolve = "off"
  /\ ui' = "end" /\ QuitImgThread
  /\ \E n \in 0..Len(texts) : texts' = SubSeq(texts, 1, n)
  /\ UNCHANGED <<why, enabled, partner, list, recv, socket, thread, queue, held, camera,
                 voice, play, count>>

\* SendText and SendImg test their flags only after a wait of two seconds for
\* something to send; the thread of AudioInput ends between two slots.
ProducersEnded ==
  /\ ui = "end" /\ texts = << >> /\ held = [p \in Producers |-> NoMsg]
  /\ ui' = "ended"
  /\ UNCHANGED <<why, enabled, partner, list, recv, socket, thread, queue, input, video,
                 voice, play, count>>

----------------------------------------------------------------------------
Gui ==
  \/ NetError \/ News \/ TextSend \/ ClearQueues \/ Joined
  \/ StopRecv \/ StopProducers \/ ProducersEnded

Connect == Connected \/ ConnectTimeout \/ ConnectFails \/ PushRefused

User ==
  \/ SendMsg \/ JoinMeet \/ OpenAudio \/ OpenVedio \/ CloseVedio
  \/ ConnServer \/ ExitMeet \/ CloseWindow

Environment ==
  \/ EnterMeeting \/ PartnerComes \/ RemovePartner \/ TextRecv
  \/ CameraFrame \/ DeviceFails \/ MicFails \/ Collect \/ ReceiveSound
  \/ ReceiveNews \/ ConnectionLost

Alive == ui \notin {"crashed", "ended"}

Next ==
  /\ Alive /\ UNCHANGED scenario
  /\ \/ SendText \/ SendImg \/ AudioInput \/ Writer \/ SockThread \/ RecvSolve \/ Play
     \/ Gui \/ Connect \/ User \/ Environment

Spec == Init /\ [][Next]_vars

Run(thread_) == Alive /\ UNCHANGED scenario /\ thread_

\* Every thread of the client runs when it can, and an attempt to connect ends.  An
\* event loop gets on with the calls posted to it, or to its end when it was told to
\* quit, whatever arrives meanwhile.  The user, the devices, the server and the network need
\* not do anything.
Fairness ==
  /\ WF_vars(Run(SendText)) /\ WF_vars(Run(SendImg)) /\ WF_vars(Run(AudioInput))
  /\ WF_vars(Run(Writer)) /\ WF_vars(Run(SockThread))
  /\ SF_vars(Run(SendData \/ CloseSocket))
  /\ WF_vars(Run(RecvSolve)) /\ WF_vars(Run(Play))
  /\ WF_vars(Run(Gui)) /\ WF_vars(Run(TextSend)) /\ WF_vars(Run(Connect))

LiveSpec == Spec /\ Fairness

----------------------------------------------------------------------------
WidgetType ==
  /\ ui \in {"free", "connect", "quit", "join", "close", "recv", "end", "ended", "crashed"}
  /\ why \in {"exit"} \cup Errors
  /\ enabled \subseteq Buttons /\ partner \subseteq {Me, Other, NoIp}

ListType ==
  /\ shown \in {"none", "own", "other"} /\ marked \in BOOLEAN

RecvType ==
  /\ queue_recv \in Seq(RecvMsg) /\ Len(queue_recv) <= QueueMax + 1
  /\ recvSolve \in {"on", "off"} \cup RecvMsg

SocketType ==
  /\ session \in 0..scenario.sessions
  /\ conn \in BOOLEAN /\ sock \in {"off", "on", "quit"}
  /\ sockAt \in {"idle", "sound", "refused"} \cup RecvMsg
  /\ posted \in Seq(TakenMsg) /\ over \in Nat

ThreadType ==
  /\ writer \in {"off", "start", "test", "pop", "post"}
  /\ taken \in TakenMsg \cup {NoMsg} /\ (writer = "post" <=> taken # NoMsg)
  /\ m_isCanRun \in BOOLEAN /\ late \in BOOLEAN

QueueType ==
  /\ queue_send \in Seq(Msg) /\ Len(queue_send) <= QueueMax + 1
  /\ asleep \subseteq Producers \cup {"run"} /\ ("run" \in asleep => writer = "pop")

InputType ==
  /\ texts \in Seq(Msg) /\ frames \in Nat
  /\ held \in [Producers -> Msg \cup {NoMsg}]
  /\ \A p \in Producers \cap asleep : held[p] # NoMsg

VideoType == camera \in BOOLEAN /\ imgThread \in BOOLEAN

VoiceType ==
  /\ mic \in BOOLEAN /\ micCalls \in Seq({"start", "stop"})
  /\ micText \in {"OPENAUDIO", "CLOSEAUDIO"} /\ overtaken \in BOOLEAN

PlayType ==
  /\ device \in {"none", "open", "failed"} /\ aoutput \in {"on", "ended"}
  /\ audio_recv \in 0..(QueueMax + 1)

CountType ==
  /\ scenario \in Scenarios
  /\ texted \in 0..scenario.texts /\ made \in 0..scenario.made
  /\ written \in Nat /\ shut \in 0..texted

\* Every variable has its type, no queue outgrows its bound, and who waits is
\* where it can wait.
TypeOK ==
  /\ WidgetType /\ ListType /\ RecvType /\ SocketType /\ ThreadType /\ QueueType
  /\ InputType /\ VideoType /\ VoiceType /\ PlayType /\ CountType

----------------------------------------------------------------------------
Opt(m) == IF m = NoMsg THEN << >> ELSE <<m>>

\* What has left the producers, in order.
Line == [i \in DOMAIN posted |-> posted[i].msg]
          \o (IF taken = NoMsg THEN << >> ELSE <<taken.msg>>) \o queue_send

\* What is to be sent, from the next that sendData gets to the last that SendText has.
Whole == Line \o Opt(held["SendText"]) \o texts

\* While the connection lasts, every text and request made since it was made is
\* written or on its way, each once and in the order they were made: five
\* stations and two threads, whatever else uses queue_send.
NoTextLost ==
  conn =>
    /\ \A n \in (written + 1)..texted : \E msg \in Range(Whole) : msg.no = n
    /\ \A msg \in Range(Whole) : msg.no <= texted
    /\ \A i, j \in DOMAIN Whole :
         i < j /\ Whole[j].no > written => Whole[i].no < Whole[j].no

\* sendData never writes to a connection what run() took in an earlier session:
\* what is left of it is dropped before connectServer returns.
OldPostsDropped ==
  conn => /\ taken # NoMsg => taken.in = session
          /\ \A i \in DOMAIN posted : posted[i].in = session

\* The last item of the list, when it is a text sent in this session and still
\* shown as loading, has that text or the news of it on the way.
LastIsMarked ==
  conn /\ shown = "own" /\ ~marked =>
    over > 0 \/ \E msg \in Range(Whole) : msg.no > written /\ msg.type = "TEXT_SEND"

\* Behind the CLOSE_CAMERA that tells the others of a camera switched off there
\* is one picture of it at most, the one SendImg had already in its hands.
LastFrame ==
  \A i \in DOMAIN Line :
    shut > 0 /\ Line[i].no = shut =>
      LET behind == {j \in i..Len(Line) : Line[j].type = "IMG_SEND"}
      IN  /\ \A j, k \in behind : j = k
          /\ held["SendImg"] # NoMsg => behind = {}

\* The microphone does not collect when the list holds nobody else, unless its
\* stop was called before a start that was posted earlier, or the list holds the
\* empty entry of a camera that outlived its session.
MicOff == mic => Other \in partner \/ NoIp \in partner \/ overtaken

----------------------------------------------------------------------------
\* The socket's thread waits for room in audio_recv, which nobody empties.
SoundStuck == sockAt = "sound" /\ audio_recv > QueueMax /\ aoutput = "ended"

\* The GUI, whether it connects, leaves or closes, waits for the socket's thread, that
\* one for room in queue_recv, and RecvSolve for the GUI.
RecvStuck ==
  /\ ui \in {"connect", "quit", "close"}
  /\ sockAt \in RecvMsg \cup {"refused"} /\ ~HasRoomRecv
  /\ recvSolve \in RecvMsg

\* Whoever has something to push sleeps.
AllAsleep ==
  /\ \E p \in Producers : held[p] # NoMsg
  /\ \A p \in Producers : held[p] # NoMsg => p \in asleep

\* Leaving a meeting, or a session that broke, ends, unless the stop was lost on a
\* run() that had not begun, or the socket's thread is stuck on one of two full queues.
StopEnds == ui \in {"quit", "join"} ~> ui = "free" \/ late \/ SoundStuck \/ RecvStuck

\* The button to send a text comes back, or the session ends, the user's way or
\* because the connection is lost; unless the client crashes on an empty list of texts,
\* the socket's thread is stuck on a full audio_recv, or SendText sleeps since an
\* earlier session on a queue that was emptied without waking it.
SendEnabledAgain ==
  conn /\ "sendmsg" \notin enabled
  ~> \/ "sendmsg" \in enabled
     \/ ~conn \/ ui \in {"quit", "join", "close"}
     \/ ui = "crashed" \/ SoundStuck
     \/ session > 1 /\ AllAsleep /\ queue_send = << >>

\* Closing the window ends, unless the stop was lost, the socket's thread is stuck,
\* RecvSolve waits for the GUI that waits for it, or a producer sleeps on a queue
\* that nobody empties any more.
CloseEnds ==
  ui \in {"close", "recv", "end"}
  ~> \/ ui = "ended" \/ late \/ SoundStuck \/ recvSolve \in RecvMsg
     \/ writer = "off" /\ AllAsleep
=============================================================================
