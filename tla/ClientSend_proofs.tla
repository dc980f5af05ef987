-------------------------- MODULE ClientSend_proofs --------------------------
(***************************************************************************)
(* Theorems about the sending half of a client for any bound of its queues *)
(* and any use the user makes of it: its type invariant, that nothing of   *)
(* an earlier session is written in a later one, that the microphone does  *)
(* not outlive the company, that no text is lost, doubled or overtaken on  *)
(* its way to the socket or stays marked as loading for want of news, and  *)
(* that one picture at most follows the news that a camera is off.         *)
(***************************************************************************)
EXTENDS ClientSend, TLAPS, FiniteSetTheorems, SequenceTheorems

\* What a step leaves alone keeps its type.
LEMMA Frames ==
  /\ WidgetType /\ UNCHANGED widget => WidgetType'
  /\ ListType /\ UNCHANGED list => ListType'
  /\ RecvType /\ UNCHANGED recv => RecvType'
  /\ SocketType /\ UNCHANGED <<scenario, socket>> => SocketType'
  /\ ThreadType /\ UNCHANGED thread => ThreadType'
  /\ QueueType /\ UNCHANGED <<queue, writer>> => QueueType'
  /\ InputType /\ UNCHANGED <<input, asleep>> => InputType'
  /\ VideoType /\ UNCHANGED video => VideoType'
  /\ VoiceType /\ UNCHANGED voice => VoiceType'
  /\ PlayType /\ UNCHANGED play => PlayType'
  /\ CountType /\ UNCHANGED <<scenario, count>> => CountType'
BY DEF WidgetType, ListType, RecvType, SocketType, ThreadType, QueueType, InputType,
       VideoType, VoiceType, PlayType, CountType, widget, list, recv, socket, thread,
       queue, input, video, voice, play, count

\* The bounds of a scenario are numbers.
LEMMA ScenarioBounds ==
  ASSUME CountType
  PROVE  /\ scenario.sessions \in Nat /\ scenario.texts \in Nat /\ scenario.made \in Nat
         /\ texted \in Nat /\ made \in Nat /\ written \in Nat /\ shut \in Nat
BY ScenariosAssumption DEF CountType

\* A new message for SendText.
LEMMA PushTextType ==
  ASSUME NEW type \in {"JOIN_MEETING", "TEXT_SEND", "CLOSE_CAMERA"},
         CountType, texts \in Seq(Msg), PushText(type)
  PROVE  /\ texts' \in Seq(Msg)
         /\ texted' = texted + 1 /\ texted' \in 0..scenario.texts
<1>1. texted \in Nat /\ scenario.texts \in Nat
  BY ScenarioBounds
<1>2. [type |-> type, no |-> texted + 1] \in Msg
  BY <1>1 DEF Msg
<1> QED
  BY <1>1, <1>2 DEF PushText

\* wakeOne wakes one at most.
LEMMA WakeOneWakes == WakeOne => asleep' \subseteq asleep
BY DEF WakeOne

\* The client starts with every thread but the producers' off.
LEMMA InitTyped == Init => TypeOK
<1> SUFFICES ASSUME Init PROVE TypeOK
  OBVIOUS
<1> USE ClientAssumption, ScenariosAssumption
<1>1. WidgetType
  BY DEF Init, WidgetType, Buttons
<1>2. ListType
  BY DEF Init, ListType
<1>3. RecvType
  BY DEF Init, RecvType
<1>4. CountType
  BY DEF Init, CountType
<1>5. SocketType
  <2>1. conn \in BOOLEAN /\ sockAt = "idle"
    BY DEF Init
  <2>2. session \in 0..scenario.sessions /\ posted \in Seq(TakenMsg) /\ over \in Nat
    BY <1>4, ScenarioBounds DEF Init
  <2> QED
    BY <2>1, <2>2 DEF Init, SocketType
<1>6. ThreadType
  BY DEF Init, ThreadType
<1>7. QueueType
  BY DEF Init, QueueType
<1>8. InputType
  BY DEF Init, InputType
<1>9. VideoType
  BY DEF Init, VideoType
<1>11. PlayType
  BY DEF Init, PlayType
<1>10. VoiceType
  <2>1. mic \in BOOLEAN /\ overtaken \in BOOLEAN
    BY DEF Init
  <2>2. micCalls \in Seq({"start", "stop"})
    BY DEF Init
  <2> QED
    BY <2>1, <2>2 DEF Init, VoiceType
<1> QED
  BY <1>1, <1>2, <1>3, <1>4, <1>5, <1>6, <1>7, <1>8, <1>9, <1>10,
     <1>11 DEF TypeOK

----------------------------------------------------------------------------
\* The threads.

\* A producer, the microphone and the camera's thread.
LEMMA ProducersTyped ==
  ASSUME TypeOK, UNCHANGED scenario,
         SendText \/ SendImg \/ AudioInput \/ Collect \/ MicFails
  PROVE  TypeOK'
<1> USE ClientAssumption DEF TypeOK
<1>1. ASSUME NEW p \in Producers, Push(p) PROVE TypeOK'
  <2>1. asleep' \subseteq asleep
    BY <1>1, WakeOneWakes DEF Push
  <2>2. held[p] \in Msg /\ held' = [held EXCEPT ![p] = NoMsg] /\ p \notin asleep
    BY <1>1 DEF Push, Awake, InputType
  <2>3. QueueType'
    BY <1>1, <2>1, <2>2 DEF Push, HasRoom, QueueType, thread
  <2>4. InputType'
    BY <1>1, <2>1, <2>2 DEF Push, InputType
  <2> QED
    BY <1>1, <2>3, <2>4, Frames DEF Push
<1>2. ASSUME NEW p \in Producers, PushWait(p) PROVE TypeOK'
  <2>1. QueueType'
    BY <1>2 DEF PushWait, QueueType, thread, Producers
  <2>2. InputType'
    BY <1>2 DEF PushWait, Awake, InputType, input
  <2> QED
    BY <1>2, <2>1, <2>2, Frames DEF PushWait
<1>3. CASE TakeText
  <2>1. Head(texts) \in Msg /\ Tail(texts) \in Seq(Msg)
    BY <1>3 DEF TakeText, InputType
  <2>2. Head(texts) # NoMsg
    BY <2>1, NoMsgAssumption
  <2>3. InputType'
    BY <1>3, <2>1, <2>2 DEF TakeText, Hold, InputType, queue, Producers
  <2> QED
    BY <1>3, <2>3, Frames DEF TakeText, queue, thread
<1>4. CASE TakeFrame
  <2>1. [type |-> "IMG_SEND", no |-> 0] \in Msg
    BY DEF Msg
  <2>2. InputType'
    BY <1>4, <2>1, NoMsgAssumption
    DEF TakeFrame, FrameReady, Hold, InputType, queue, Producers
  <2> QED
    BY <1>4, <2>2, Frames DEF TakeFrame, queue, thread
<1>5. CASE Collect
  <2>1. [type |-> "AUDIO_SEND", no |-> 0] \in Msg
    BY DEF Msg
  <2>2. InputType'
    BY <1>5, <2>1, NoMsgAssumption DEF Collect, Hold, InputType, queue, Producers
  <2>3. CountType'
    BY <1>5, ScenarioBounds DEF Collect, CountType
  <2> QED
    BY <1>5, <2>2, <2>3, Frames DEF Collect, queue, thread
<1>6. CASE MicFails
  <2>1. VoiceType'
    BY <1>6 DEF MicFails, VoiceType
  <2> QED
    BY <1>6, <2>1, Frames DEF MicFails, queue, thread
<1>7. CASE MicCall
  <2>1. Tail(micCalls) \in Seq({"start", "stop"})
    BY <1>7 DEF MicCall, VoiceType
  <2>2. mic' \in BOOLEAN
    BY <1>7 DEF MicCall
  <2>3. VoiceType'
    BY <1>7, <2>1, <2>2 DEF MicCall, VoiceType
  <2> QED
    BY <1>7, <2>3, Frames DEF MicCall, queue, thread
<1> QED
  BY <1>1, <1>2, <1>3, <1>4, <1>5, <1>6, <1>7
  DEF SendText, SendImg, AudioInput, Producers

\* MyTcpSocket::run.
LEMMA WriterTyped ==
  ASSUME TypeOK, UNCHANGED scenario, Writer
  PROVE  TypeOK'
<1> USE ClientAssumption DEF TypeOK
<1>1. CASE RunStarts
  <2>1. ThreadType' /\ QueueType'
    BY <1>1 DEF RunStarts, ThreadType, QueueType, queue
  <2> QED
    BY <1>1, <2>1, Frames DEF RunStarts, queue
<1>2. CASE TestStop
  <2>1. ThreadType' /\ QueueType'
    BY <1>2 DEF TestStop, ThreadType, QueueType, queue
  <2> QED
    BY <1>2, <2>1, Frames DEF TestStop, queue
<1>3. CASE PopSend
  <2>1. Head(queue_send) \in Msg /\ Tail(queue_send) \in Seq(Msg)
    BY <1>3 DEF PopSend, QueueType
  <2>2. session \in Nat
    BY ScenarioBounds DEF SocketType
  <2>3. taken' \in TakenMsg
    BY <1>3, <2>1, <2>2 DEF PopSend, TakenMsg
  <2>4. ThreadType'
    BY <1>3, <2>3, NoMsgAssumption DEF PopSend, ThreadType
  <2>5. asleep' \subseteq asleep
    BY <1>3, WakeOneWakes DEF PopSend
  <2>6. QueueType'
    BY <1>3, <2>1, <2>5 DEF PopSend, QueueType
  <2>7. InputType'
    BY <1>3, <2>5 DEF PopSend, InputType, input
  <2> QED
    BY <1>3, <2>4, <2>6, <2>7, Frames DEF PopSend
<1>4. CASE PopWait
  <2>1. QueueType' /\ InputType'
    BY <1>4 DEF PopWait, QueueType, InputType, input, thread, Producers
  <2> QED
    BY <1>4, <2>1, Frames DEF PopWait
<1>5. CASE PopTimeout
  <2>1. ThreadType' /\ QueueType'
    BY <1>5 DEF PopTimeout, ThreadType, QueueType
  <2>2. InputType'
    BY <1>5 DEF PopTimeout, InputType, input
  <2> QED
    BY <1>5, <2>1, <2>2, Frames DEF PopTimeout
<1>6. CASE PostSendData
  <2>1. taken \in TakenMsg
    BY <1>6 DEF PostSendData, ThreadType
  <2>2. SocketType'
    BY <1>6, <2>1 DEF PostSendData, SocketType
  <2>3. ThreadType' /\ QueueType'
    BY <1>6 DEF PostSendData, ThreadType, QueueType, queue
  <2> QED
    BY <1>6, <2>2, <2>3, Frames DEF PostSendData, queue
<1> QED
  BY <1>1, <1>2, <1>3, <1>4, <1>5, <1>6 DEF Writer

\* A push to queue_recv.
LEMMA AppendRecv ==
  ASSUME RecvType, HasRoomRecv, NEW msg \in RecvMsg
  PROVE  /\ Append(queue_recv, msg) \in Seq(RecvMsg)
         /\ Len(Append(queue_recv, msg)) <= QueueMax + 1
<1>1. queue_recv \in Seq(RecvMsg) /\ Len(queue_recv) \in Nat /\ QueueMax \in Nat
  BY ClientAssumption DEF RecvType
<1>2. Len(queue_recv) <= QueueMax
  BY DEF HasRoomRecv
<1>3. Len(Append(queue_recv, msg)) = Len(queue_recv) + 1
  BY <1>1
<1> QED
  BY <1>1, <1>2, <1>3

\* The socket's thread, RecvSolve and AudioOutput.
LEMMA SockThreadTyped ==
  ASSUME TypeOK, UNCHANGED scenario,
         SockThread \/ ReceiveSound \/ ReceiveNews \/ ConnectionLost \/ RecvSolve \/ Play
  PROVE  TypeOK'
<1> USE ClientAssumption DEF TypeOK
<1>1. CASE SendData
  <2>1. Head(posted) \in TakenMsg /\ Tail(posted) \in Seq(TakenMsg)
    BY <1>1 DEF SendData, SocketType
  <2>2. over' \in Nat /\ posted' \in Seq(TakenMsg)
    BY <1>1, <2>1 DEF SendData, SocketType
  <2>3. UNCHANGED <<session, conn, sock, sockAt>>
    BY <1>1 DEF SendData
  <2>4. SocketType'
    BY <2>2, <2>3 DEF SocketType
  <2>5. CountType'
    <3>1. written' \in {Head(posted).msg.no, written}
      BY <1>1 DEF SendData
    <3>2. Head(posted).msg.no \in Nat /\ written \in Nat
      BY <2>1, ScenarioBounds DEF TakenMsg, Msg
    <3>3. written' \in Nat /\ UNCHANGED <<texted, made, shut>>
      BY <1>1, <3>1, <3>2 DEF SendData
    <3> QED
      BY <3>3 DEF CountType
  <2> QED
    BY <1>1, <2>4, <2>5, Frames DEF SendData, queue, thread
<1>2. CASE ReceiveSound \/ ReceiveNews
  <2>1. sockAt' \in {"sound", "news"} /\ UNCHANGED <<session, conn, sock, posted, over>>
    BY <1>2 DEF ReceiveSound, ReceiveNews
  <2>2. SocketType'
    BY <2>1 DEF SocketType, RecvMsg
  <2> QED
    BY <1>2, <2>2, Frames DEF ReceiveSound, ReceiveNews, queue, thread
<1>3. CASE PushSound
  <2>1. sockAt' = "idle" /\ UNCHANGED <<session, conn, sock, posted, over>>
    BY <1>3 DEF PushSound
  <2>2. SocketType'
    BY <2>1 DEF SocketType
  <2>3. PlayType'
    BY <1>3 DEF PushSound, PlayType
  <2> QED
    BY <1>3, <2>2, <2>3, Frames DEF PushSound, queue, thread
<1>4. CASE ConnectionLost
  <2>1. /\ conn' \in BOOLEAN /\ sockAt' \in RecvMsg
        /\ UNCHANGED <<session, sock, posted, over>>
    BY <1>4 DEF ConnectionLost, RecvMsg
  <2>2. SocketType'
    BY <2>1 DEF SocketType
  <2> QED
    BY <1>4, <2>2, Frames DEF ConnectionLost, queue, thread
<1>5. CASE CloseSocket
  <2>1. SocketType'
    BY <1>5 DEF CloseSocket, SocketType
  <2> QED
    BY <1>5, <2>1, Frames DEF CloseSocket, queue, thread
<1>6. CASE TakeRecv
  <2>1. Head(queue_recv) \in RecvMsg /\ Tail(queue_recv) \in Seq(RecvMsg)
    BY <1>6 DEF TakeRecv, RecvType
  <2>2. Len(Tail(queue_recv)) <= QueueMax + 1
    BY <1>6, <2>1 DEF TakeRecv, RecvType
  <2>3. RecvType'
    BY <1>6, <2>1, <2>2 DEF TakeRecv, RecvType
  <2> QED
    BY <1>6, <2>3, Frames DEF TakeRecv, queue, thread
<1>7. CASE RecvEnds
  <2>1. RecvType'
    BY <1>7 DEF RecvEnds, RecvType
  <2> QED
    BY <1>7, <2>1, Frames DEF RecvEnds, queue, thread
<1>8. CASE Play
  <2>1. PlayType'
    BY <1>8 DEF Play, PlayType
  <2> QED
    BY <1>8, <2>1, Frames DEF Play, queue, thread
<1>9. CASE PushRecv
  <2>1. sockAt' = "idle" /\ UNCHANGED <<session, conn, sock, posted, over>>
    BY <1>9 DEF PushRecv
  <2>2. SocketType'
    BY <2>1 DEF SocketType
  <2>3. RecvType'
    BY <1>9, AppendRecv DEF PushRecv, RecvType
  <2> QED
    BY <1>9, <2>2, <2>3, Frames DEF PushRecv, queue, thread
<1> QED
  BY <1>1, <1>2, <1>3, <1>4, <1>5, <1>6, <1>7, <1>8, <1>9 DEF SockThread, RecvSolve

----------------------------------------------------------------------------
\* The GUI and what happens to it.

\* What removePartner and clearPartner do to the devices.
LEMMA StopTyped ==
  /\ VoiceType /\ StopCollect => mic' \in BOOLEAN /\ overtaken' \in BOOLEAN
  /\ PlayType /\ StopPlay => device' \in {"none", "open", "failed"}
BY DEF VoiceType, StopCollect, PlayType, StopPlay

\* clearPartner, of a list that is empty or not.
LEMMA ClearPartnerTyped ==
  ASSUME WidgetType, VoiceType, PlayType, VideoType, frames \in Nat, ClearPartner
  PROVE  /\ partner' \subseteq {Me, Other, NoIp} /\ enabled' \subseteq Buttons
         /\ VoiceType' /\ device' \in {"none", "open", "failed"}
         /\ imgThread' \in BOOLEAN /\ frames' \in Nat
<1>1. CASE partner = {}
  <2>1. UNCHANGED <<partner, enabled, voice, device, imgThread, frames>>
    BY <1>1 DEF ClearPartner
  <2> QED
    BY <2>1 DEF WidgetType, VoiceType, PlayType, VideoType, voice
<1>2. CASE partner # {}
  <2>1. /\ partner' = {} /\ enabled' = enabled \ {"openAudio", "openVedio"}
        /\ StopCollect /\ StopPlay /\ micText' = "CLOSEAUDIO" /\ QuitImgThread
    BY <1>2 DEF ClearPartner
  <2>2. VoiceType'
    BY <2>1, StopTyped DEF VoiceType, StopCollect
  <2>3. imgThread' \in BOOLEAN
    BY <2>1 DEF QuitImgThread
  <2>4. frames' \in Nat
    BY <2>1 DEF QuitImgThread
  <2> QED
    BY <2>1, <2>2, <2>3, <2>4, StopTyped DEF WidgetType
<1> QED
  BY <1>1, <1>2

\* addPartner.
LEMMA AddPartnerTyped ==
  ASSUME WidgetType, PlayType, NEW ip \in {Me, Other, NoIp},
         NEW on \in SUBSET Buttons, NEW off, AddPartner(ip, on, off)
  PROVE  /\ partner' \subseteq {Me, Other, NoIp} /\ enabled' \subseteq Buttons
         /\ device' \in {"none", "open", "failed"}
BY DEF WidgetType, PlayType, AddPartner, Buttons

\* What the server, the network and the devices do to the GUI.
LEMMA EnvironmentTyped ==
  ASSUME TypeOK, UNCHANGED scenario,
         EnterMeeting \/ PartnerComes \/ RemovePartner \/ TextRecv \/ CameraFrame
           \/ DeviceFails
  PROVE  TypeOK'
<1> USE ClientAssumption DEF TypeOK
<1>1. CASE EnterMeeting
  <2>1. AddPartner(Me, {"exitmeetBtn", "openVedio"}, {"joinmeetBtn"})
    BY <1>1 DEF EnterMeeting
  <2>2. {"exitmeetBtn", "openVedio"} \in SUBSET Buttons
    BY DEF Buttons
  <2>3. /\ partner' \subseteq {Me, Other, NoIp} /\ enabled' \subseteq Buttons
        /\ device' \in {"none", "open", "failed"}
    BY <2>1, <2>2, AddPartnerTyped
  <2>4. WidgetType' /\ PlayType'
    BY <1>1, <2>3 DEF EnterMeeting, WidgetType, PlayType
  <2> QED
    BY <1>1, <2>4, Frames DEF EnterMeeting, queue, thread
<1>2. CASE PartnerComes
  <2>1. AddPartner(Other, {}, {})
    BY <1>2 DEF PartnerComes
  <2>2. /\ partner' \subseteq {Me, Other, NoIp} /\ enabled' \subseteq Buttons
        /\ device' \in {"none", "open", "failed"}
    BY <2>1, AddPartnerTyped
  <2>3. WidgetType' /\ PlayType'
    BY <1>2, <2>2 DEF PartnerComes, WidgetType, PlayType
  <2> QED
    BY <1>2, <2>3, Frames DEF PartnerComes, queue, thread
<1>3. CASE RemovePartner
  <2>1. partner' \subseteq {Me, Other, NoIp} /\ UNCHANGED <<ui, why, aoutput, audio_recv>>
    BY <1>3 DEF RemovePartner, WidgetType
  <2>2. CASE UNCHANGED <<voice, device, enabled>>
    <3>1. WidgetType' /\ PlayType'
      BY <2>1, <2>2 DEF WidgetType, PlayType
    <3> QED
      BY <1>3, <2>2, <3>1, Frames DEF RemovePartner, queue, thread
  <2>3. ASSUME StopCollect, StopPlay, micText' = "OPENAUDIO",
               enabled' = enabled \ {"openAudio"}
        PROVE  TypeOK'
    <3>1. WidgetType'
      BY <2>1, <2>3 DEF WidgetType
    <3>2. VoiceType'
      BY <2>3, StopTyped DEF VoiceType, StopCollect
    <3>3. PlayType'
      BY <2>1, <2>3, StopTyped DEF PlayType
    <3> QED
      BY <1>3, <3>1, <3>2, <3>3, Frames DEF RemovePartner, queue, thread
  <2> QED
    BY <1>3, <2>2, <2>3 DEF RemovePartner
<1>4. CASE TextRecv
  <2>1. ListType'
    BY <1>4 DEF TextRecv, ListType
  <2> QED
    BY <1>4, <2>1, Frames DEF TextRecv, queue, thread
<1>5. CASE CameraFrame
  <2>1. WidgetType'
    BY <1>5 DEF CameraFrame, Own, WidgetType
  <2>2. made' \in 0..scenario.made /\ frames' \in Nat
    BY <1>5, ScenarioBounds DEF CameraFrame, CountType, InputType
  <2>3. CountType' /\ InputType'
    BY <1>5, <2>2 DEF CameraFrame, CountType, InputType, queue
  <2> QED
    BY <1>5, <2>1, <2>3, Frames DEF CameraFrame, queue, thread
<1>6. CASE DeviceFails
  <2>1. PlayType'
    BY <1>6 DEF DeviceFails, PlayType
  <2> QED
    BY <1>6, <2>1, Frames DEF DeviceFails, queue, thread
<1> QED
  BY <1>1, <1>2, <1>3, <1>4, <1>5, <1>6

\* A click.
LEMMA UserTyped ==
  ASSUME TypeOK, UNCHANGED scenario,
         SendMsg \/ JoinMeet \/ OpenAudio \/ OpenVedio \/ CloseVedio
  PROVE  TypeOK'
<1> USE ClientAssumption DEF TypeOK
<1>0. texts \in Seq(Msg) /\ frames \in Nat
  BY DEF InputType
<1>1. CASE SendMsg
  <2>1. texts' \in Seq(Msg) /\ texted' = texted + 1 /\ texted' \in 0..scenario.texts
    BY <1>0, <1>1, PushTextType DEF SendMsg
  <2>2. InputType'
    BY <1>1, <2>1 DEF SendMsg, InputType, queue
  <2>3. CountType'
    BY <1>1, <2>1, ScenarioBounds DEF SendMsg, CountType
  <2>4. WidgetType' /\ ListType'
    BY <1>1 DEF SendMsg, WidgetType, ListType
  <2> QED
    BY <1>1, <2>2, <2>3, <2>4, Frames DEF SendMsg, queue, thread
<1>2. CASE JoinMeet
  <2>1. texts' \in Seq(Msg) /\ texted' = texted + 1 /\ texted' \in 0..scenario.texts
    BY <1>0, <1>2, PushTextType DEF JoinMeet
  <2>2. InputType'
    BY <1>2, <2>1 DEF JoinMeet, InputType, queue
  <2>3. CountType'
    BY <1>2, <2>1, ScenarioBounds DEF JoinMeet, CountType
  <2> QED
    BY <1>2, <2>2, <2>3, Frames DEF JoinMeet, queue, thread
<1>3. CASE OpenAudio
  <2>1. micCalls' \in Seq({"start", "stop"}) /\ micText' \in {"OPENAUDIO", "CLOSEAUDIO"}
    BY <1>3 DEF OpenAudio, VoiceType
  <2>2. VoiceType'
    BY <1>3, <2>1 DEF OpenAudio, VoiceType
  <2>3. CountType'
    BY <1>3, ScenarioBounds DEF OpenAudio, CountType
  <2> QED
    BY <1>3, <2>2, <2>3, Frames DEF OpenAudio, queue, thread
<1>4. CASE OpenVedio
  <2>1. VideoType'
    BY <1>4 DEF OpenVedio, VideoType
  <2>2. CountType'
    BY <1>4, ScenarioBounds DEF OpenVedio, CountType
  <2> QED
    BY <1>4, <2>1, <2>2, Frames DEF OpenVedio, queue, thread
<1>5. CASE CloseVedio
  <2>1. texts' \in Seq(Msg) /\ texted' = texted + 1 /\ texted' \in 0..scenario.texts
    BY <1>0, <1>5, PushTextType DEF CloseVedio
  <2>2. frames' \in Nat
    BY <1>0, <1>5 DEF CloseVedio, QuitImgThread
  <2>3. camera' \in BOOLEAN /\ imgThread' \in BOOLEAN
    BY <1>5 DEF CloseVedio, QuitImgThread
  <2>4. VideoType'
    BY <2>3 DEF VideoType
  <2>5. InputType'
    BY <1>5, <2>1, <2>2 DEF CloseVedio, InputType, queue
  <2>6. CountType'
    BY <1>5, <2>1, ScenarioBounds DEF CloseVedio, CountType
  <2> QED
    BY <1>5, <2>4, <2>5, <2>6, Frames DEF CloseVedio, queue, thread
<1> QED
  BY <1>1, <1>2, <1>3, <1>4, <1>5

\* A slot up to its wait for the threads.
LEMMA LeaveTyped ==
  ASSUME TypeOK, NEW reason \in {"exit"} \cup Errors, Leave(reason),
         camera' \in BOOLEAN, UNCHANGED <<scenario, recvSolve>>
  PROVE  TypeOK'
<1> USE ClientAssumption DEF TypeOK
<1>1. frames \in Nat
  BY DEF InputType
<1>2. /\ partner' \subseteq {Me, Other, NoIp} /\ enabled' \subseteq Buttons
      /\ VoiceType' /\ device' \in {"none", "open", "failed"}
      /\ imgThread' \in BOOLEAN /\ frames' \in Nat
  BY <1>1, ClearPartnerTyped DEF Leave
<1>3. WidgetType'
  BY <1>2 DEF Leave, WidgetType
<1>4. SocketType'
  <2>1. sock' \in {"off", "on", "quit"}
    BY DEF Leave, QuitSock, SocketType
  <2>2. UNCHANGED <<session, conn, posted, over, sockAt>>
    BY DEF Leave
  <2> QED
    BY <2>1, <2>2 DEF SocketType
<1>5. ThreadType'
  <2>1. m_isCanRun' \in BOOLEAN
    BY DEF Leave, StopRun
  <2>2. UNCHANGED <<writer, taken, late>>
    BY DEF Leave
  <2> QED
    BY <2>1, <2>2 DEF ThreadType
<1>6. InputType'
  BY <1>2 DEF Leave, InputType, queue
<1>7. VideoType'
  BY <1>2 DEF VideoType
<1>8. PlayType'
  BY <1>2 DEF Leave, PlayType
<1> QED
  BY <1>2, <1>3, <1>4, <1>5, <1>6, <1>7, <1>8, Frames DEF Leave

\* A session that begins or ends.
LEMMA SessionTyped ==
  ASSUME TypeOK, UNCHANGED scenario,
         ConnServer \/ Connect \/ ExitMeet \/ NetError \/ ClearQueues \/ Joined
  PROVE  TypeOK'
<1> USE ClientAssumption DEF TypeOK
<1>1. CASE ConnServer
  <2>1. WidgetType'
    BY <1>1 DEF ConnServer, WidgetType
  <2>2. session' \in 0..scenario.sessions /\ sock' = "on"
    BY <1>1, ScenarioBounds DEF ConnServer, SocketType
  <2>3. UNCHANGED <<conn, posted, over, sockAt>>
    BY <1>1 DEF ConnServer
  <2>4. SocketType'
    BY <2>2, <2>3 DEF SocketType
  <2> QED
    BY <1>1, <2>1, <2>4, Frames DEF ConnServer, queue, thread
<1>2. CASE Connected
  <2>1. WidgetType'
    BY <1>2 DEF Connected, WidgetType, Buttons
  <2>2. ListType'
    <3>1. shown' \in {"none", "own", "other"}
      BY <1>2 DEF Connected, ListType
    <3>2. marked' = marked
      BY <1>2 DEF Connected
    <3> QED
      BY <3>1, <3>2 DEF ListType
  <2>3. SocketType'
    <3>1. conn' \in BOOLEAN /\ UNCHANGED <<session, sock, posted, over, sockAt>>
      BY <1>2 DEF Connected
    <3> QED
      BY <3>1 DEF SocketType
  <2>4. ThreadType' /\ QueueType'
    <3>1. writer' = IF writer = "off" THEN "start" ELSE writer
      BY <1>2 DEF Connected
    <3>2. UNCHANGED <<taken, m_isCanRun, late, queue>>
      BY <1>2 DEF Connected
    <3>3. ThreadType'
      BY <3>1, <3>2 DEF ThreadType
    <3>4. QueueType'
      BY <3>1, <3>2 DEF QueueType, queue
    <3> QED
      BY <3>3, <3>4
  <2>5. CountType'
    BY <1>2, ScenarioBounds DEF Connected, CountType
  <2> QED
    BY <1>2, <2>1, <2>2, <2>3, <2>4, <2>5, Frames DEF Connected, queue
<1>3. CASE ConnectFails
  <2>1. SocketType'
    BY <1>3 DEF ConnectFails, SocketType
  <2> QED
    BY <1>3, <2>1, Frames DEF ConnectFails, queue, thread
<1>8. CASE ConnectTimeout
  <2>1. WidgetType'
    BY <1>8 DEF ConnectTimeout, WidgetType
  <2> QED
    BY <1>8, <2>1, Frames DEF ConnectTimeout, queue, thread
<1>9. CASE PushRefused
  <2>1. WidgetType'
    BY <1>9 DEF PushRefused, WidgetType
  <2>2. "OtherNetError" \in RecvMsg
    BY DEF RecvMsg, Errors
  <2>3. RecvType'
    BY <1>9, <2>2, AppendRecv DEF PushRefused, RecvType
  <2>4. sockAt' = "idle" /\ UNCHANGED <<session, conn, sock, posted, over>>
    BY <1>9 DEF PushRefused
  <2>5. SocketType'
    BY <2>4 DEF SocketType
  <2> QED
    BY <1>9, <2>1, <2>3, <2>5, Frames DEF PushRefused, queue, thread
<1>4. CASE ExitMeet
  <2>1. Leave("exit") /\ camera' \in BOOLEAN
    BY <1>4 DEF ExitMeet
  <2>2. recvSolve' = recvSolve
    BY <2>1 DEF Leave, recv
  <2> QED
    BY <2>1, <2>2, LeaveTyped
<1>5. CASE NetError
  <2>1. recvSolve \in Errors /\ Leave(recvSolve)
    BY <1>5 DEF NetError
  <2>2. camera' \in BOOLEAN
    BY <1>5 DEF NetError, VideoType
  <2>3. recvSolve' = recvSolve
    BY <2>1 DEF Leave, recv
  <2> QED
    BY <2>1, <2>2, <2>3, LeaveTyped
<1>6. CASE ClearQueues
  <2>1. WidgetType'
    BY <1>6 DEF ClearQueues, WidgetType
  <2>2. RecvType'
    BY <1>6 DEF ClearQueues, RecvType
  <2>3. QueueType'
    BY <1>6 DEF ClearQueues, QueueType, thread
  <2>4. PlayType'
    BY <1>6 DEF ClearQueues, PlayType
  <2> QED
    BY <1>6, <2>1, <2>2, <2>3, <2>4, Frames DEF ClearQueues
<1>7. CASE Joined
  <2>1. WidgetType'
    <3>1. ui' = "free" /\ why' = "exit" /\ partner' = partner
      BY <1>7 DEF Joined
    <3>2. enabled' \subseteq Buttons
      BY <1>7 DEF Joined, WidgetType, Buttons, Errors
    <3> QED
      BY <3>1, <3>2 DEF WidgetType
  <2>2. RecvType'
    BY <1>7 DEF Joined, RecvType
  <2>3. ListType'
    <3>1. CASE UNCHANGED list
      BY <3>1, Frames
    <3>2. CASE shown' = "none" /\ marked' = FALSE
      BY <3>2 DEF ListType
    <3> QED
      BY <1>7, <3>1, <3>2 DEF Joined
  <2> QED
    BY <1>7, <2>1, <2>2, <2>3, Frames DEF Joined, queue, thread
<1> QED
  BY <1>1, <1>2, <1>3, <1>4, <1>5, <1>6, <1>7, <1>8, <1>9 DEF Connect

\* The news of a text, and the end of the window.
LEMMA GuiTyped ==
  ASSUME TypeOK, UNCHANGED scenario,
         News \/ TextSend \/ CloseWindow \/ StopRecv \/ StopProducers \/ ProducersEnded
  PROVE  TypeOK'
<1> USE ClientAssumption DEF TypeOK
<1>1. CASE TextSend
  <2>1. over' \in Nat /\ UNCHANGED <<session, conn, sock, posted, sockAt>>
    BY <1>1 DEF TextSend, SocketType
  <2>2. SocketType'
    BY <2>1 DEF SocketType
  <2>3. WidgetType'
    BY <1>1 DEF TextSend, WidgetType, Buttons
  <2>4. ListType'
    BY <1>1 DEF TextSend, ListType
  <2> QED
    BY <1>1, <2>2, <2>3, <2>4, Frames DEF TextSend, queue, thread
<1>2. CASE CloseWindow
  <2>1. WidgetType'
    BY <1>2 DEF CloseWindow, WidgetType
  <2>2. sock' \in {"off", "on", "quit"}
    BY <1>2 DEF CloseWindow, QuitSock, SocketType
  <2>3. m_isCanRun' \in BOOLEAN
    BY <1>2 DEF CloseWindow, StopRun, ThreadType
  <2>4. UNCHANGED <<session, conn, posted, over, sockAt>>
    BY <1>2 DEF CloseWindow
  <2>5. UNCHANGED <<writer, taken, late>>
    BY <1>2 DEF CloseWindow
  <2>6. SocketType'
    BY <2>2, <2>4 DEF SocketType
  <2>7. ThreadType'
    BY <2>3, <2>5 DEF ThreadType
  <2> QED
    BY <1>2, <2>1, <2>6, <2>7, Frames DEF CloseWindow, queue
<1>3. CASE StopRecv
  <2>1. WidgetType'
    BY <1>3 DEF StopRecv, WidgetType
  <2> QED
    BY <1>3, <2>1, Frames DEF StopRecv, queue, thread
<1>4. CASE StopProducers
  <2>1. WidgetType'
    BY <1>4 DEF StopProducers, WidgetType
  <2>2. texts' \in Seq(Msg)
    <3>1. PICK n \in 0..Len(texts) : texts' = SubSeq(texts, 1, n)
      BY <1>4 DEF StopProducers
    <3> QED
      BY <3>1 DEF InputType
  <2>3. frames' \in Nat
    BY <1>4 DEF StopProducers, QuitImgThread, InputType
  <2>4. InputType'
    BY <1>4, <2>2, <2>3 DEF StopProducers, InputType, queue
  <2>5. imgThread' \in BOOLEAN /\ camera' = camera
    BY <1>4 DEF StopProducers, QuitImgThread
  <2>6. VideoType'
    BY <2>5 DEF VideoType
  <2> QED
    BY <1>4, <2>1, <2>4, <2>6, Frames DEF StopProducers, queue, thread
<1>5. CASE ProducersEnded
  <2>1. WidgetType'
    BY <1>5 DEF ProducersEnded, WidgetType
  <2> QED
    BY <1>5, <2>1, Frames DEF ProducersEnded, queue, thread
<1>6. CASE News
  <2>1. RecvType'
    BY <1>6 DEF News, RecvType
  <2> QED
    BY <1>6, <2>1, Frames DEF News, queue, thread
<1> QED
  BY <1>1, <1>2, <1>3, <1>4, <1>5, <1>6

\* The inductive step of the type invariant.
LEMMA NextTyped == TypeOK /\ [Next]_vars => TypeOK'
<1> SUFFICES ASSUME TypeOK, [Next]_vars PROVE TypeOK'
  OBVIOUS
<1>1. CASE UNCHANGED vars
  BY <1>1, Frames DEF vars, TypeOK, thread, queue
<1>2. CASE Next
  BY <1>2, ProducersTyped, WriterTyped, SockThreadTyped, EnvironmentTyped, UserTyped,
     SessionTyped, GuiTyped
  DEF Next, Gui, Connect, User, Environment
<1> QED
  BY <1>1, <1>2

\* In every reachable state each variable holds what its declaration allows, the
\* queues are within their bounds, and whoever sleeps on queue_send has something to
\* push or is run() inside pop_msg.
THEOREM TypeCorrect == Spec => []TypeOK
<1> QED
  BY InitTyped, NextTyped, PTL DEF Spec

----------------------------------------------------------------------------
\* What run() took in an earlier session.

\* The socket's thread has something to push.
Receives == ReceiveSound \/ ReceiveNews

\* The user can connect only when the last session has left nothing that would
\* still be taken or written in the next: run() has ended, so it holds nothing, and
\* what it has posted is behind a connection that is closed.
SessionInv ==
  /\ "connServer" \in enabled => ~conn /\ writer = "off"
  /\ ui = "connect" => "connServer" \in enabled
  /\ ui = "join" => sock = "off"
  /\ sock = "off" => ~conn
  /\ taken # NoMsg => taken.in = session
  /\ conn => \A i \in DOMAIN posted : posted[i].in = session

\* It says what is to be shown.
LEMMA SessionInvSuffices == SessionInv => OldPostsDropped
BY DEF SessionInv, OldPostsDropped

\* A step that touches neither the session nor its threads, and enables no
\* connecting.
LEMMA SessionFrame ==
  ASSUME SessionInv, UNCHANGED <<conn, writer, sock, taken, session, posted>>,
         "connServer" \in enabled' => "connServer" \in enabled,
         ui' \notin {"connect", "join"} \/ UNCHANGED <<ui, enabled>>
  PROVE  SessionInv'
BY DEF SessionInv

\* The inductive step.
LEMMA SessionStep == TypeOK /\ SessionInv /\ [Next]_vars => SessionInv'
<1> SUFFICES ASSUME TypeOK, SessionInv, [Next]_vars PROVE SessionInv'
  OBVIOUS
<1>1. CASE UNCHANGED <<ui, enabled, conn, writer, sock, taken, session, posted>>
  BY <1>1, SessionFrame
<1>2. CASE SendText \/ SendImg \/ AudioInput \/ Collect \/ MicFails
  BY <1>1, <1>2
  DEF SendText, SendImg, AudioInput, Push, PushWait, TakeText, TakeFrame, MicCall,
      Collect, MicFails, widget, socket, thread
<1>3. CASE Writer
  <2>1. CASE RunStarts \/ TestStop \/ PopTimeout
    <3>1. UNCHANGED <<ui, enabled, conn, sock, taken, session, posted>> /\ writer # "off"
      BY <2>1 DEF RunStarts, TestStop, PopTimeout, widget, socket
    <3> QED
      BY <3>1 DEF SessionInv
  <2>2. CASE PopSend
    <3>1. UNCHANGED <<ui, enabled, conn, sock, session, posted>> /\ writer # "off"
      BY <2>2 DEF PopSend, widget, socket
    <3>2. taken'.in = session
      BY <2>2 DEF PopSend
    <3> QED
      BY <3>1, <3>2 DEF SessionInv
  <2>3. CASE PopWait
    BY <1>1, <2>3 DEF PopWait, widget, socket, thread
  <2>4. CASE PostSendData
    <3>1. UNCHANGED <<ui, enabled, conn, sock, session>> /\ writer # "off" /\ taken' = NoMsg
      BY <2>4 DEF PostSendData, widget
    <3>2. taken \in TakenMsg /\ posted \in Seq(TakenMsg) /\ taken # NoMsg
      BY <2>4, NoMsgAssumption DEF PostSendData, TypeOK, ThreadType, SocketType
    <3>3. posted' = Append(posted, taken) /\ taken.in = session
      BY <2>4, <3>2 DEF PostSendData, SessionInv
    <3>4. (\A i \in DOMAIN posted : posted[i].in = session)
            => \A i \in DOMAIN posted' : posted'[i].in = session
      BY <3>2, <3>3
    <3> QED
      BY <3>1, <3>4 DEF SessionInv
  <2> QED
    BY <1>3, <2>1, <2>2, <2>3, <2>4 DEF Writer
<1>4. CASE SendData
  <2>1. UNCHANGED <<ui, enabled, conn, writer, sock, taken, session>>
    BY <1>4 DEF SendData, widget, thread
  <2>2. posted \in Seq(TakenMsg) /\ posted # << >> /\ posted' = Tail(posted)
    BY <1>4 DEF SendData, TypeOK, SocketType
  <2>3. (\A i \in DOMAIN posted : posted[i].in = session)
          => \A i \in DOMAIN posted' : posted'[i].in = session
    BY <2>2
  <2> QED
    BY <2>1, <2>3 DEF SessionInv
<1>5. CASE ConnectionLost
  <2>1. UNCHANGED <<ui, enabled, writer, sock, taken, session, posted>> /\ conn' = FALSE
    BY <1>5 DEF ConnectionLost, widget, thread
  <2> QED
    BY <2>1 DEF SessionInv
<1>6. CASE CloseSocket
  <2>1. UNCHANGED <<ui, enabled, writer, taken, session, posted>> /\ conn' = FALSE
    BY <1>6 DEF CloseSocket, widget, thread
  <2>2. sock' = "off"
    BY <1>6 DEF CloseSocket
  <2> QED
    BY <2>1, <2>2 DEF SessionInv
<1>7. CASE PushSound \/ PushRecv \/ Receives \/ RecvSolve \/ Play \/ News
  BY <1>1, <1>7
  DEF PushSound, PushRecv, Receives, ReceiveSound, ReceiveNews, RecvSolve, TakeRecv,
      RecvEnds, Play, News, widget, socket, thread
<1>8. CASE EnterMeeting \/ PartnerComes
  <2>1. UNCHANGED <<ui, conn, writer, sock, taken, session, posted>> /\ ui = "free"
    BY <1>8 DEF EnterMeeting, PartnerComes, InMeeting, socket, thread
  <2>2. "connServer" \in enabled' => "connServer" \in enabled
    BY <1>8 DEF EnterMeeting, PartnerComes, AddPartner
  <2> QED
    BY <2>1, <2>2, SessionFrame
<1>9. CASE RemovePartner
  <2>1. UNCHANGED <<ui, conn, writer, sock, taken, session, posted>> /\ ui = "free"
    BY <1>9 DEF RemovePartner, InMeeting, socket, thread
  <2>2. "connServer" \in enabled' => "connServer" \in enabled
    BY <1>9 DEF RemovePartner
  <2> QED
    BY <2>1, <2>2, SessionFrame
<1>10. CASE TextRecv \/ CameraFrame \/ DeviceFails
  BY <1>1, <1>10 DEF TextRecv, CameraFrame, DeviceFails, widget, socket, thread
<1>11. CASE TextSend
  <2>1. UNCHANGED <<conn, writer, sock, taken, session, posted>> /\ ui = "free"
    BY <1>11 DEF TextSend, thread
  <2>2. "connServer" \in enabled' => "connServer" \in enabled
    BY <1>11 DEF TextSend
  <2>3. ui' \notin {"connect", "join"}
    BY <1>11 DEF TextSend
  <2> QED
    BY <2>1, <2>2, <2>3, SessionFrame
<1>12. CASE SendMsg
  <2>1. UNCHANGED <<ui, conn, writer, sock, taken, session, posted>> /\ ui = "free"
    BY <1>12 DEF SendMsg, UserMayClick, socket, thread
  <2>2. "connServer" \in enabled' => "connServer" \in enabled
    BY <1>12 DEF SendMsg
  <2> QED
    BY <2>1, <2>2, SessionFrame
<1>13. CASE JoinMeet \/ OpenAudio \/ OpenVedio \/ CloseVedio
  BY <1>1, <1>13
  DEF JoinMeet, OpenAudio, OpenVedio, CloseVedio, widget, socket, thread
<1>14. CASE ConnServer
  <2>1. /\ "connServer" \in enabled /\ ui' = "connect" /\ sock' = "on"
        /\ UNCHANGED <<enabled, conn, writer, taken, posted>>
    BY <1>14 DEF ConnServer, UserMayClick, thread
  <2>2. ~conn /\ writer = "off"
    BY <2>1 DEF SessionInv
  <2>3. taken = NoMsg
    BY <2>2 DEF TypeOK, ThreadType
  <2> QED
    BY <2>1, <2>2, <2>3 DEF SessionInv
<1>15. CASE Connected
  <2>1. /\ ui' = "free" /\ posted = << >> /\ sock # "off"
        /\ UNCHANGED <<sock, taken, session, posted>>
    BY <1>15 DEF Connected, Connecting, Listening
  <2>2. "connServer" \notin enabled'
    BY <1>15 DEF Connected
  <2> QED
    BY <2>1, <2>2 DEF SessionInv
<1>16. CASE ConnectTimeout \/ PushRefused
  <2>1. ui' = "free" /\ UNCHANGED <<enabled, conn, writer, sock, taken, session, posted>>
    BY <1>16 DEF ConnectTimeout, PushRefused, socket, thread
  <2> QED
    BY <2>1, SessionFrame
<1>23. CASE ConnectFails
  BY <1>1, <1>23 DEF ConnectFails, widget, thread
<1>17. ASSUME NEW reason, Leave(reason) PROVE SessionInv'
  <2>1. ui' = "quit" /\ UNCHANGED <<conn, writer, taken, session, posted>>
    BY <1>17 DEF Leave
  <2>2. "connServer" \in enabled' => "connServer" \in enabled
    BY <1>17 DEF Leave, ClearPartner
  <2>3. sock' = "off" => sock = "off"
    BY <1>17 DEF Leave, QuitSock
  <2> QED
    BY <2>1, <2>2, <2>3 DEF SessionInv
<1>18. CASE ClearQueues
  <2>1. ui' = "join" /\ sock = "off"
        /\ UNCHANGED <<enabled, conn, writer, sock, taken, session, posted>>
    BY <1>18 DEF ClearQueues, socket, thread
  <2> QED
    BY <2>1 DEF SessionInv
<1>19. CASE Joined
  <2>1. /\ ui = "join" /\ ui' = "free" /\ writer = "off"
        /\ UNCHANGED <<conn, writer, sock, taken, session, posted>>
    BY <1>19 DEF Joined, socket, thread
  <2> QED
    BY <2>1 DEF SessionInv
<1>20. CASE CloseWindow
  <2>1. ui' = "close" /\ UNCHANGED <<enabled, conn, writer, taken, session, posted>>
    BY <1>20 DEF CloseWindow
  <2>2. sock' = "off" => sock = "off"
    BY <1>20 DEF CloseWindow, QuitSock
  <2> QED
    BY <2>1, <2>2 DEF SessionInv
<1>21. CASE StopRecv \/ StopProducers \/ ProducersEnded
  <2>1. UNCHANGED <<enabled, conn, writer, sock, taken, session, posted>>
    BY <1>21 DEF StopRecv, StopProducers, ProducersEnded, socket, thread
  <2>2. ui' \notin {"connect", "join"}
    BY <1>21 DEF StopRecv, StopProducers, ProducersEnded
  <2> QED
    BY <2>1, <2>2, SessionFrame
<1>22. CASE UNCHANGED vars
  BY <1>1, <1>22 DEF vars, widget, socket, thread
<1> QED
  BY <1>2, <1>3, <1>4, <1>5, <1>6, <1>7, <1>8, <1>9, <1>10, <1>11, <1>12, <1>13, <1>14,
     <1>15, <1>16, <1>17, <1>18, <1>19, <1>20, <1>21, <1>22, <1>23
  DEF Next, SockThread, Receives, Gui, Connect, User, Environment, NetError, ExitMeet

\* Whatever the socket's thread writes to a connection was taken from queue_send in
\* the session of that connection, although the calls are posted and outlive the
\* event loop they were posted to.
THEOREM OldPostsAreDropped == Spec => []OldPostsDropped
<1>1. Init => SessionInv
  BY DEF Init, SessionInv
<1> QED
  BY <1>1, TypeCorrect, SessionStep, SessionInvSuffices, PTL DEF Spec

----------------------------------------------------------------------------
\* The microphone.

Company == Other \in partner \/ NoIp \in partner

\* The button is there for company only, and so is a start that is posted.
MicInv ==
  /\ "openAudio" \in enabled => Company
  /\ (\E i \in DOMAIN micCalls : micCalls[i] = "start") => Company \/ overtaken
  /\ MicOff

\* Alone, the list has one entry at most.
LEMMA AloneIsOne ==
  ASSUME NEW S \in SUBSET {Me, Other, NoIp}, Other \notin S, NoIp \notin S
  PROVE  Cardinality(S) <= 1
<1>1. S = {} \/ S = {Me}
  OBVIOUS
<1>2. Cardinality({}) = 0 /\ Cardinality({Me}) = 1
  BY FS_EmptySet, FS_Singleton
<1> QED
  BY <1>1, <1>2

\* A step that starts nothing and takes nobody from the list.
LEMMA MicFrame ==
  ASSUME MicInv, UNCHANGED voice,
         "openAudio" \in enabled' => "openAudio" \in enabled,
         partner \subseteq partner'
  PROVE  MicInv'
BY DEF MicInv, MicOff, Company, voice

\* stopCollect, called at once: what was to start has been overtaken.
LEMMA MicStopped ==
  ASSUME MicInv, StopCollect, "openAudio" \notin enabled'
  PROVE  MicInv'
<1>1. mic' = FALSE /\ micCalls' = micCalls
  BY DEF StopCollect
<1>2. (\E i \in DOMAIN micCalls : micCalls[i] = "start") => overtaken'
  BY DEF StopCollect
<1> QED
  BY <1>1, <1>2 DEF MicInv, MicOff

\* addPartner enables the button for company only.
LEMMA MicAdded ==
  ASSUME TypeOK, MicInv, UNCHANGED voice, NEW ip \in {Me, Other, NoIp},
         NEW on, "openAudio" \notin on, NEW off, AddPartner(ip, on, off)
  PROVE  MicInv'
<1>1. partner' = partner \cup {ip} /\ partner' \in SUBSET {Me, Other, NoIp}
  BY DEF AddPartner, TypeOK, WidgetType
<1>2. CASE Company'
  BY <1>2 DEF MicInv, MicOff, Company
<1>3. CASE ~Company'
  <2>1. Cardinality(partner') <= 1
    BY <1>1, <1>3, AloneIsOne DEF Company
  <2>2. Cardinality(partner') \in Nat
    <3>1. IsFiniteSet({}) /\ IsFiniteSet({} \cup {Me})
      BY FS_EmptySet, FS_AddElement
    <3>2. IsFiniteSet(({} \cup {Me}) \cup {Other})
      BY <3>1, FS_AddElement
    <3>3. IsFiniteSet((({} \cup {Me}) \cup {Other}) \cup {NoIp})
      BY <3>2, FS_AddElement
    <3>4. (({} \cup {Me}) \cup {Other}) \cup {NoIp} = {Me, Other, NoIp}
      OBVIOUS
    <3> QED
      BY <1>1, <3>3, <3>4, FS_Subset, FS_CardinalityType
  <2>3. ~(Cardinality(partner \cup {ip}) > 1)
    BY <1>1, <2>1, <2>2
  <2>4. "openAudio" \in enabled' => "openAudio" \in enabled
    BY <2>3 DEF AddPartner
  <2> QED
    BY <1>1, <2>4, MicFrame
<1> QED
  BY <1>2, <1>3

\* The inductive step.
LEMMA MicStep == TypeOK /\ MicInv /\ [Next]_vars => MicInv'
<1> SUFFICES ASSUME TypeOK, MicInv, [Next]_vars PROVE MicInv'
  OBVIOUS
<1>1. CASE UNCHANGED <<enabled, partner, voice>>
  BY <1>1, MicFrame
<1>2. CASE Push("SendText") \/ Push("SendImg") \/ Push("AudioInput")
             \/ PushWait("SendText") \/ PushWait("SendImg") \/ PushWait("AudioInput")
             \/ TakeText \/ TakeFrame \/ Collect
  BY <1>1, <1>2 DEF Push, PushWait, TakeText, TakeFrame, Collect, widget
<1>3. CASE MicFails
  <2>1. mic' = FALSE /\ UNCHANGED <<enabled, partner, micCalls, overtaken>>
    BY <1>3 DEF MicFails, widget
  <2> QED
    BY <2>1 DEF MicInv, MicOff, Company
<1>4. CASE MicCall
  <2>1. UNCHANGED <<enabled, partner, overtaken>>
    BY <1>4 DEF MicCall, widget
  <2>2. /\ micCalls \in Seq({"start", "stop"}) /\ micCalls # << >>
        /\ micCalls' = Tail(micCalls) /\ (mic' => Head(micCalls) = "start")
    BY <1>4 DEF MicCall, TypeOK, VoiceType
  <2>3. mic' => \E i \in DOMAIN micCalls : micCalls[i] = "start"
    BY <2>2
  <2>4. (\E i \in DOMAIN micCalls' : micCalls'[i] = "start")
          => \E i \in DOMAIN micCalls : micCalls[i] = "start"
    BY <2>2
  <2> QED
    BY <2>1, <2>3, <2>4 DEF MicInv, MicOff, Company
<1>5. CASE Writer
  BY <1>1, <1>5
  DEF Writer, RunStarts, TestStop, PopSend, PopWait, PopTimeout, PostSendData, widget
<1>6. CASE SockThread \/ RecvSolve \/ Play \/ Receives \/ ConnectionLost \/ News
  BY <1>1, <1>6
  DEF SockThread, SendData, PushSound, PushRecv, CloseSocket, RecvSolve, TakeRecv, RecvEnds,
      Play, Receives, ReceiveSound, ReceiveNews, ConnectionLost, News, widget
<1>7. CASE EnterMeeting
  <2>1. AddPartner(Me, {"exitmeetBtn", "openVedio"}, {"joinmeetBtn"}) /\ UNCHANGED voice
    BY <1>7 DEF EnterMeeting
  <2>2. "openAudio" \notin {"exitmeetBtn", "openVedio"}
    OBVIOUS
  <2> QED
    BY <2>1, <2>2, MicAdded
<1>8. CASE PartnerComes
  <2>1. AddPartner(Other, {}, {}) /\ UNCHANGED voice
    BY <1>8 DEF PartnerComes
  <2> QED
    BY <2>1, MicAdded
<1>9. CASE RemovePartner
  <2>1. partner' = partner \ {Other} /\ partner' \in SUBSET {Me, Other, NoIp}
    BY <1>9 DEF RemovePartner, TypeOK, WidgetType
  <2>2. ASSUME StopCollect, enabled' = enabled \ {"openAudio"} PROVE MicInv'
    BY <2>2, MicStopped
  <2>3. ASSUME ~(Cardinality(partner') <= 1), UNCHANGED voice PROVE MicInv'
    <3>1. Company'
      BY <2>1, <2>3, AloneIsOne DEF Company
    <3> QED
      BY <3>1 DEF MicInv, MicOff, Company
  <2> QED
    BY <1>9, <2>2, <2>3 DEF RemovePartner
<1>10. CASE CameraFrame
  <2>1. UNCHANGED voice /\ UNCHANGED enabled /\ partner \subseteq partner'
    BY <1>10 DEF CameraFrame
  <2> QED
    BY <2>1, MicFrame
<1>11. CASE TextRecv \/ DeviceFails
  BY <1>1, <1>11 DEF TextRecv, DeviceFails, widget
<1>12. CASE TextSend \/ SendMsg \/ Joined \/ Connected
  <2>1. UNCHANGED voice /\ UNCHANGED partner
    BY <1>12 DEF TextSend, SendMsg, Joined, Connected
  <2>2. "openAudio" \in enabled' => "openAudio" \in enabled
    <3>1. CASE TextSend \/ SendMsg \/ Connected
      BY <3>1 DEF TextSend, SendMsg, Connected
    <3>2. CASE Joined
      <4>1. why \in {"exit", "RemoteHostClosedError", "OtherNetError"}
        BY DEF TypeOK, WidgetType, Errors
      <4> QED
        BY <3>2, <4>1 DEF Joined
    <3> QED
      BY <1>12, <3>1, <3>2
  <2> QED
    BY <2>1, <2>2, MicFrame
<1>13. CASE OpenAudio
  <2>1. "openAudio" \in enabled /\ UNCHANGED <<enabled, partner, mic, overtaken>>
    BY <1>13 DEF OpenAudio, UserMayClick, widget
  <2> QED
    BY <2>1 DEF MicInv, MicOff, Company
<1>14. CASE JoinMeet \/ OpenVedio \/ CloseVedio
  BY <1>1, <1>14 DEF JoinMeet, OpenVedio, CloseVedio, widget
<1>15. CASE ConnServer \/ ConnectTimeout \/ ConnectFails \/ PushRefused \/ ClearQueues
              \/ CloseWindow \/ StopRecv \/ StopProducers \/ ProducersEnded
  BY <1>1, <1>15
  DEF ConnServer, ConnectTimeout, ConnectFails, PushRefused, ClearQueues, CloseWindow,
      StopRecv, StopProducers, ProducersEnded, widget
<1>16. ASSUME NEW reason, Leave(reason) PROVE MicInv'
  <2>1. ClearPartner
    BY <1>16 DEF Leave
  <2>2. CASE partner = {}
    BY <1>1, <2>1, <2>2 DEF ClearPartner
  <2>3. CASE partner # {}
    <3>1. StopCollect /\ "openAudio" \notin enabled'
      BY <2>1, <2>3 DEF ClearPartner
    <3> QED
      BY <3>1, MicStopped
  <2> QED
    BY <2>2, <2>3
<1>17. CASE UNCHANGED vars
  BY <1>1, <1>17 DEF vars, widget
<1> QED
  BY <1>2, <1>3, <1>4, <1>5, <1>6, <1>7, <1>8, <1>9, <1>10, <1>11, <1>12, <1>13, <1>14,
     <1>15, <1>16, <1>17
  DEF Next, SendText, SendImg, AudioInput, Receives, Gui, Connect, User, Environment,
      NetError, ExitMeet

\* The microphone does not collect when the list holds nobody else: the button goes
\* with the company, and a start that is still posted is what stopCollect overtakes.
THEOREM MicIsOff == Spec => []MicOff
<1>1. Init => MicInv
  BY DEF Init, MicInv, MicOff
<1>2. MicInv => MicOff
  BY DEF MicInv
<1> QED
  BY <1>1, <1>2, TypeCorrect, MicStep, PTL DEF Spec

----------------------------------------------------------------------------
\* What is on its way to the server.

\* Behind w the numbers rise, and every number up to t is there.
Rising(s, w) == \A i, j \in DOMAIN s : i < j /\ s[j].no > w => s[i].no < s[j].no

Covers(s, w, t) == \A n \in (w + 1)..t : \E m \in Range(s) : m.no = n

Within(s, t) == \A m \in Range(s) : m.no <= t

\* Two rows, joined: what they hold.
LEMMA RangeJoined ==
  ASSUME NEW s \in Seq(Msg), NEW t \in Seq(Msg)
  PROVE  s \o t \in Seq(Msg) /\ Range(s \o t) = Range(s) \cup Range(t)
<1>1. s \o t \in Seq(Msg)
  OBVIOUS
<1>2. Range(s \o t) = Range(s) \cup Range(t)
  BY RangeConcatenation
<1> QED
  BY <1>1, <1>2

\* A row of one, and of nothing.
LEMMA RangeOfOne == Range(<< >>) = {} /\ \A m : Range(<<m>>) = {m}
BY DEF Range

\* What a row of messages holds are messages with numbers.
LEMMA RangeTyped ==
  ASSUME NEW s \in Seq(Msg)
  PROVE  \A m \in Range(s) : m \in Msg /\ m.no \in Nat
<1>1. \A i \in DOMAIN s : s[i] \in Msg
  OBVIOUS
<1>2. \A m \in Msg : m.no \in Nat
  BY DEF Msg
<1> QED
  BY <1>1, <1>2 DEF Range

\* Two rows, joined: their numbers rise when those of each do and those of the second
\* are beyond all of the first.
LEMMA RisingJoined ==
  ASSUME NEW s \in Seq(Msg), NEW t \in Seq(Msg), NEW w \in Nat
  PROVE  Rising(s \o t, w)
           <=> /\ Rising(s, w) /\ Rising(t, w)
               /\ \A a \in Range(s), b \in Range(t) : b.no > w => a.no < b.no
<1>1. /\ DOMAIN s = 1..Len(s) /\ DOMAIN t = 1..Len(t)
      /\ DOMAIN (s \o t) = 1..(Len(s) + Len(t)) /\ Len(s) \in Nat /\ Len(t) \in Nat
  OBVIOUS
<1>2. /\ \A i \in 1..Len(s) : (s \o t)[i] = s[i]
      /\ \A j \in 1..Len(t) : (s \o t)[Len(s) + j] = t[j]
  BY <1>1
<1>3. ASSUME Rising(s \o t, w)
      PROVE  /\ Rising(s, w) /\ Rising(t, w)
             /\ \A a \in Range(s), b \in Range(t) : b.no > w => a.no < b.no
  <2>1. Rising(s, w)
    <3> SUFFICES ASSUME NEW i \in 1..Len(s), NEW j \in 1..Len(s), i < j, s[j].no > w
                 PROVE  s[i].no < s[j].no
      BY <1>1 DEF Rising
    <3>1. i \in DOMAIN (s \o t) /\ j \in DOMAIN (s \o t)
      BY <1>1
    <3> QED
      BY <1>2, <1>3, <3>1 DEF Rising
  <2>2. Rising(t, w)
    <3> SUFFICES ASSUME NEW i \in 1..Len(t), NEW j \in 1..Len(t), i < j, t[j].no > w
                 PROVE  t[i].no < t[j].no
      BY <1>1 DEF Rising
    <3>1. /\ Len(s) + i \in DOMAIN (s \o t) /\ Len(s) + j \in DOMAIN (s \o t)
          /\ Len(s) + i < Len(s) + j
      BY <1>1
    <3>2. (s \o t)[Len(s) + i] = t[i] /\ (s \o t)[Len(s) + j] = t[j]
      BY <1>2
    <3>3. \A k, l \in DOMAIN (s \o t) :
            k < l /\ (s \o t)[l].no > w => (s \o t)[k].no < (s \o t)[l].no
      BY <1>3 DEF Rising
    <3>4. (s \o t)[Len(s) + j].no > w
      BY <3>2
    <3>5. (s \o t)[Len(s) + i].no < (s \o t)[Len(s) + j].no
      BY <3>1, <3>3, <3>4
    <3> QED
      BY <3>2, <3>5
  <2>3. ASSUME NEW a \in Range(s), NEW b \in Range(t), b.no > w PROVE a.no < b.no
    <3>1. PICK i \in 1..Len(s) : a = s[i]
      BY <1>1 DEF Range
    <3>2. PICK j \in 1..Len(t) : b = t[j]
      BY <1>1 DEF Range
    <3>3. i \in DOMAIN (s \o t) /\ Len(s) + j \in DOMAIN (s \o t) /\ i < Len(s) + j
      BY <1>1
    <3>4. (s \o t)[i] = a /\ (s \o t)[Len(s) + j] = b
      BY <1>2, <3>1, <3>2
    <3>5. \A k, l \in DOMAIN (s \o t) :
            k < l /\ (s \o t)[l].no > w => (s \o t)[k].no < (s \o t)[l].no
      BY <1>3 DEF Rising
    <3>6. (s \o t)[Len(s) + j].no > w
      BY <2>3, <3>4
    <3>7. (s \o t)[i].no < (s \o t)[Len(s) + j].no
      BY <3>3, <3>5, <3>6
    <3> QED
      BY <3>4, <3>7
  <2> QED
    BY <2>1, <2>2, <2>3
<1>4. ASSUME Rising(s, w), Rising(t, w),
             \A a \in Range(s), b \in Range(t) : b.no > w => a.no < b.no
      PROVE  Rising(s \o t, w)
  <2> SUFFICES ASSUME NEW i \in 1..(Len(s) + Len(t)), NEW j \in 1..(Len(s) + Len(t)),
                      i < j, (s \o t)[j].no > w
               PROVE  (s \o t)[i].no < (s \o t)[j].no
    BY <1>1 DEF Rising
  <2>1. CASE j <= Len(s)
    <3>1. i \in DOMAIN s /\ j \in DOMAIN s /\ (s \o t)[i] = s[i] /\ (s \o t)[j] = s[j]
      BY <1>1, <1>2, <2>1
    <3> QED
      BY <1>4, <3>1 DEF Rising
  <2>2. CASE i > Len(s)
    <3> DEFINE k == i - Len(s)  l == j - Len(s)
    <3>1. k \in DOMAIN t /\ l \in DOMAIN t /\ k < l /\ i = Len(s) + k /\ j = Len(s) + l
      BY <1>1, <2>2
    <3> HIDE DEF k, l
    <3>2. (s \o t)[i] = t[k] /\ (s \o t)[j] = t[l]
      BY <1>1, <1>2, <3>1
    <3>3. t[l].no > w
      BY <3>2
    <3>4. t[k].no < t[l].no
      BY <1>4, <3>1, <3>3 DEF Rising
    <3> QED
      BY <3>2, <3>4
  <2>3. CASE i <= Len(s) /\ j > Len(s)
    <3> DEFINE l == j - Len(s)
    <3>1. i \in DOMAIN s /\ l \in DOMAIN t /\ j = Len(s) + l
      BY <1>1, <2>3
    <3> HIDE DEF l
    <3>2. (s \o t)[i] = s[i] /\ (s \o t)[j] = t[l]
      BY <1>1, <1>2, <3>1
    <3>3. s[i] \in Range(s) /\ t[l] \in Range(t) /\ t[l].no > w
      BY <3>1, <3>2 DEF Range
    <3>4. s[i].no < t[l].no
      BY <1>4, <3>3
    <3> QED
      BY <3>2, <3>4
  <2> QED
    BY <1>1, <2>1, <2>2, <2>3
<1> QED
  BY <1>3, <1>4

\* A row of one rises.
LEMMA RisingOne == \A m, w : Rising(<<m>>, w)
BY DEF Rising

\* On its way, then: in order and complete.
Way(s, w, t) == Rising(s, w) /\ Covers(s, w, t)

\* Pictures and sound, which have number 0, may go in between.
LEMMA WayInsert ==
  ASSUME NEW s \in Seq(Msg), NEW t \in Seq(Msg), NEW m \in Msg, m.no = 0,
         NEW w \in Nat, NEW n \in Nat, Way(s \o t, w, n), Within(s \o t, n)
  PROVE  Way((s \o <<m>>) \o t, w, n) /\ Within((s \o <<m>>) \o t, n)
<1>1. <<m>> \in Seq(Msg) /\ Range(<<m>>) = {m}
  BY RangeOfOne
<1>2. s \o <<m>> \in Seq(Msg) /\ Range(s \o <<m>>) = Range(s) \cup {m}
  BY <1>1, RangeJoined
<1>3. /\ Range(s \o t) = Range(s) \cup Range(t)
      /\ Range((s \o <<m>>) \o t) = Range(s) \cup {m} \cup Range(t)
  <2>1. Range((s \o <<m>>) \o t) = Range(s \o <<m>>) \cup Range(t)
    BY <1>2, RangeJoined
  <2> QED
    BY <1>2, <2>1, RangeJoined
<1>4. /\ Rising(s, w) /\ Rising(t, w)
      /\ \A a \in Range(s), b \in Range(t) : b.no > w => a.no < b.no
  BY RisingJoined DEF Way
<1>5. Rising(s \o <<m>>, w)
  <2>1. \A a \in Range(s), b \in Range(<<m>>) : b.no > w => a.no < b.no
    BY <1>1
  <2> QED
    BY <1>1, <1>4, <2>1, RisingJoined, RisingOne
<1>6. Rising((s \o <<m>>) \o t, w)
  <2>1. \A b \in Range(t) : b.no \in Nat
    BY RangeTyped
  <2>2. \A a \in Range(s \o <<m>>), b \in Range(t) : b.no > w => a.no < b.no
    BY <1>2, <1>4, <2>1
  <2> QED
    BY <1>2, <1>4, <1>5, <2>2, RisingJoined
<1>7. Covers((s \o <<m>>) \o t, w, n)
  BY <1>3 DEF Way, Covers
<1>8. Within((s \o <<m>>) \o t, n)
  BY <1>3 DEF Within
<1> QED
  BY <1>6, <1>7, <1>8 DEF Way

\* The first one goes, and is written.
LEMMA WayHead ==
  ASSUME NEW s \in Seq(Msg), NEW m \in Msg, NEW w \in Nat, NEW n \in Nat,
         Way(<<m>> \o s, w, n)
  PROVE  /\ m.no <= w => Way(s, w, n)
         /\ m.no > w => Way(s, m.no, n) /\ \A b \in Range(s) : b.no > w => b.no > m.no
<1>1. /\ <<m>> \in Seq(Msg) /\ Range(<<m>>) = {m} /\ m.no \in Nat
      /\ \A b \in Range(s) : b.no \in Nat
  BY RangeOfOne, RangeTyped DEF Msg
<1>2. Rising(s, w) /\ \A b \in Range(s) : b.no > w => m.no < b.no
  BY <1>1, RisingJoined DEF Way
<1>3. \A k \in (w + 1)..n : k = m.no \/ \E b \in Range(s) : b.no = k
  BY <1>1, RangeJoined DEF Way, Covers
<1>4. ASSUME m.no <= w PROVE Way(s, w, n)
  <2>1. Covers(s, w, n)
    BY <1>1, <1>3, <1>4 DEF Covers
  <2> QED
    BY <1>2, <2>1 DEF Way
<1>5. ASSUME m.no > w PROVE Way(s, m.no, n)
  <2>1. Covers(s, m.no, n)
    BY <1>1, <1>3, <1>5 DEF Covers
  <2>2. Rising(s, m.no)
    <3> SUFFICES ASSUME NEW i \in DOMAIN s, NEW j \in DOMAIN s, i < j, s[j].no > m.no
                 PROVE  s[i].no < s[j].no
      BY DEF Rising
    <3>1. s[j].no \in Nat
      BY <1>1 DEF Range
    <3>2. s[j].no > w
      BY <1>1, <1>5, <3>1
    <3> QED
      BY <1>2, <3>2 DEF Rising
  <2> QED
    BY <2>1, <2>2 DEF Way
<1>6. ASSUME m.no > w, NEW b \in Range(s), b.no > w PROVE b.no > m.no
  BY <1>1, <1>2, <1>6
<1> QED
  BY <1>4, <1>5, <1>6

\* A new one comes last.
LEMMA WayAppend ==
  ASSUME NEW s \in Seq(Msg), NEW m \in Msg, NEW w \in Nat, NEW n \in Nat,
         m.no = n + 1, Within(s, n)
  PROVE  /\ Within(s \o <<m>>, n + 1)
         /\ Way(s, w, n) => Way(s \o <<m>>, w, n + 1)
<1>1. /\ <<m>> \in Seq(Msg) /\ Range(<<m>>) = {m}
      /\ \A b \in Range(s) : b.no \in Nat
  BY RangeOfOne, RangeTyped
<1>2. Range(s \o <<m>>) = Range(s) \cup {m}
  BY <1>1, RangeJoined
<1>3. Within(s \o <<m>>, n + 1)
  BY <1>1, <1>2 DEF Within
<1>4. ASSUME Way(s, w, n) PROVE Way(s \o <<m>>, w, n + 1)
  <2>1. \A a \in Range(s), b \in Range(<<m>>) : b.no > w => a.no < b.no
    BY <1>1 DEF Within
  <2>2. Rising(s \o <<m>>, w)
    BY <1>1, <1>4, <2>1, RisingJoined, RisingOne DEF Way
  <2>3. Covers(s \o <<m>>, w, n + 1)
    <3> SUFFICES ASSUME NEW k \in (w + 1)..(n + 1)
                 PROVE  \E b \in Range(s \o <<m>>) : b.no = k
      BY DEF Covers
    <3>1. CASE k = n + 1
      BY <1>2, <3>1
    <3>2. CASE k <= n
      <4>1. k \in (w + 1)..n
        BY <3>2
      <4> QED
        BY <1>2, <1>4, <4>1 DEF Way, Covers
    <3> QED
      BY <3>1, <3>2
  <2> QED
    BY <2>2, <2>3 DEF Way
<1> QED
  BY <1>3, <1>4

\* Nothing is due when all that there were has been written or given up.
LEMMA WayOfNone ==
  ASSUME NEW s \in Seq(Msg), NEW n \in Nat, Within(s, n)
  PROVE  Way(s, n, n)
<1>1. \A m \in Range(s) : m.no \in Nat /\ m.no <= n
  BY RangeTyped DEF Within
<1>2. Rising(s, n)
  <2>1. \A j \in DOMAIN s : s[j].no \in Nat /\ s[j].no <= n
    BY <1>1 DEF Range
  <2> QED
    BY <2>1 DEF Rising
<1>3. Covers(s, n, n)
  <2>1. \A k \in (n + 1)..n : FALSE
    OBVIOUS
  <2> QED
    BY <2>1 DEF Covers
<1> QED
  BY <1>2, <1>3 DEF Way

----------------------------------------------------------------------------
\* The stations of Line.

Bodies(s) == [i \in DOMAIN s |-> s[i].msg]

InHand(t) == IF t = NoMsg THEN << >> ELSE <<t.msg>>

LineOf(p, t, q) == Bodies(p) \o InHand(t) \o q

\* The messages of what run() has posted.
LEMMA BodiesTyped ==
  ASSUME NEW s \in Seq(TakenMsg)
  PROVE  Bodies(s) \in Seq(Msg) /\ Len(Bodies(s)) = Len(s)
<1>1. \A i \in 1..Len(s) : s[i].msg \in Msg
  <2>1. \A x \in TakenMsg : x.msg \in Msg
    BY DEF TakenMsg
  <2>2. \A i \in 1..Len(s) : s[i] \in TakenMsg
    OBVIOUS
  <2> QED
    BY <2>1, <2>2
<1>2. Bodies(s) = [i \in 1..Len(s) |-> s[i].msg] /\ Len(s) \in Nat
  BY DEF Bodies
<1> QED
  BY <1>1, <1>2

\* One more, and one less.
LEMMA BodiesEnds ==
  ASSUME NEW s \in Seq(TakenMsg), NEW x \in TakenMsg
  PROVE  /\ Bodies(Append(s, x)) = Bodies(s) \o <<x.msg>>
         /\ s # << >> => Bodies(s) = <<Head(s).msg>> \o Bodies(Tail(s))
<1>1. x.msg \in Msg
  BY DEF TakenMsg
<1>2. Bodies(Append(s, x)) = Bodies(s) \o <<x.msg>>
  <2>1. Append(s, x) \in Seq(TakenMsg) /\ Len(Append(s, x)) = Len(s) + 1 /\ Len(s) \in Nat
    OBVIOUS
  <2>2. /\ Bodies(Append(s, x)) \in Seq(Msg) /\ Len(Bodies(Append(s, x))) = Len(s) + 1
        /\ Bodies(s) \in Seq(Msg) /\ Len(Bodies(s)) = Len(s)
    BY <2>1, BodiesTyped
  <2>3. /\ Bodies(s) \o <<x.msg>> \in Seq(Msg)
        /\ Len(Bodies(s) \o <<x.msg>>) = Len(s) + 1
    BY <1>1, <2>2
  <2>4. ASSUME NEW i \in 1..(Len(s) + 1)
        PROVE  Bodies(Append(s, x))[i] = (Bodies(s) \o <<x.msg>>)[i]
    <3>1. Bodies(Append(s, x))[i] = Append(s, x)[i].msg
      BY <2>1 DEF Bodies
    <3>2. CASE i <= Len(s)
      <4>1. Append(s, x)[i] = s[i] /\ Bodies(s)[i] = s[i].msg
        BY <2>1, <3>2 DEF Bodies
      <4>2. (Bodies(s) \o <<x.msg>>)[i] = Bodies(s)[i]
        BY <1>1, <2>1, <2>2, <3>2
      <4> QED
        BY <3>1, <4>1, <4>2
    <3>3. CASE i = Len(s) + 1
      <4>1. Append(s, x)[i] = x
        BY <2>1, <3>3
      <4>2. (Bodies(s) \o <<x.msg>>)[i] = x.msg
        BY <1>1, <2>1, <2>2, <3>3
      <4> QED
        BY <3>1, <4>1, <4>2
    <3>4. i <= Len(s) \/ i = Len(s) + 1
      BY <2>1
    <3> QED
      BY <3>2, <3>3, <3>4
  <2> QED
    BY <2>2, <2>3, <2>4, SeqEqual
<1>3. ASSUME s # << >> PROVE Bodies(s) = <<Head(s).msg>> \o Bodies(Tail(s))
  <2>1. /\ Tail(s) \in Seq(TakenMsg) /\ Len(s) = 1 + Len(Tail(s)) /\ Len(Tail(s)) \in Nat
        /\ Head(s) = s[1] /\ Head(s) \in TakenMsg
    BY <1>3
  <2>2. \A i \in 1..Len(Tail(s)) : Tail(s)[i] = s[i + 1]
    BY <1>3
  <2>3. /\ Bodies(s) \in Seq(Msg) /\ Len(Bodies(s)) = 1 + Len(Tail(s))
        /\ Bodies(Tail(s)) \in Seq(Msg) /\ Len(Bodies(Tail(s))) = Len(Tail(s))
        /\ Head(s).msg \in Msg
    BY <2>1, BodiesTyped DEF TakenMsg
  <2>4. /\ <<Head(s).msg>> \o Bodies(Tail(s)) \in Seq(Msg)
        /\ Len(<<Head(s).msg>> \o Bodies(Tail(s))) = 1 + Len(Tail(s))
    BY <2>3
  <2>5. ASSUME NEW i \in 1..(1 + Len(Tail(s)))
        PROVE  Bodies(s)[i] = (<<Head(s).msg>> \o Bodies(Tail(s)))[i]
    <3>1. Bodies(s)[i] = s[i].msg
      BY <2>1 DEF Bodies
    <3>2. CASE i = 1
      <4>1. (<<Head(s).msg>> \o Bodies(Tail(s)))[1] = Head(s).msg
        BY <2>3
      <4> QED
        BY <2>1, <3>1, <3>2, <4>1
    <3>3. CASE i > 1
      <4> DEFINE k == i - 1
      <4>1. k \in 1..Len(Tail(s)) /\ i = 1 + k
        BY <2>1, <3>3
      <4> HIDE DEF k
      <4>2. (<<Head(s).msg>> \o Bodies(Tail(s)))[i] = Bodies(Tail(s))[k]
        BY <2>1, <2>3, <4>1
      <4>3. Bodies(Tail(s))[k] = Tail(s)[k].msg
        BY <2>1, <4>1 DEF Bodies
      <4>4. Tail(s)[k] = s[i]
        BY <2>1, <2>2, <4>1
      <4> QED
        BY <3>1, <4>2, <4>3, <4>4
    <3>4. i = 1 \/ i > 1
      BY <2>1
    <3> QED
      BY <3>2, <3>3, <3>4
  <2> QED
    BY <2>3, <2>4, <2>5, SeqEqual
<1> QED
  BY <1>2, <1>3

\* Rows are joined in any order.
LEMMA Associative ==
  \A r, s, t \in Seq(Msg) : (r \o s) \o t = r \o (s \o t)
BY ConcatAssociative

\* Nothing joined to a row.
LEMMA JoinedToNone == \A s \in Seq(Msg) : s \o << >> = s /\ << >> \o s = s
OBVIOUS

\* The message in the hands of run() and of a producer.
LEMMA HandTyped ==
  /\ InHand(NoMsg) = << >> /\ Opt(NoMsg) = << >>
  /\ \A t \in TakenMsg : t # NoMsg /\ t.msg \in Msg /\ InHand(t) = <<t.msg>>
  /\ \A m \in Msg : m # NoMsg /\ Opt(m) = <<m>> /\ <<m>> \in Seq(Msg)
  /\ \A t \in TakenMsg \cup {NoMsg} : InHand(t) \in Seq(Msg)
  /\ \A m \in Msg \cup {NoMsg} : Opt(m) \in Seq(Msg)
<1>1. \A t \in TakenMsg : t # NoMsg /\ t.msg \in Msg
  <2>1. \A t \in TakenMsg : t.msg \in Msg
    BY DEF TakenMsg
  <2> QED
    BY <2>1, NoMsgAssumption
<1>2. \A m \in Msg : m # NoMsg /\ <<m>> \in Seq(Msg)
  BY NoMsgAssumption
<1>3. << >> \in Seq(Msg)
  OBVIOUS
<1> QED
  BY <1>1, <1>2, <1>3 DEF InHand, Opt

\* What the line is made of.
LEMMA LineTyped ==
  ASSUME NEW p \in Seq(TakenMsg), NEW t \in TakenMsg \cup {NoMsg}, NEW q \in Seq(Msg)
  PROVE  /\ Bodies(p) \in Seq(Msg) /\ InHand(t) \in Seq(Msg)
         /\ LineOf(p, t, q) \in Seq(Msg)
<1>1. Bodies(p) \in Seq(Msg) /\ InHand(t) \in Seq(Msg)
  BY BodiesTyped, HandTyped
<1> QED
  BY <1>1 DEF LineOf

\* run() takes the head of the queue: it stays in line.
LEMMA LinePop ==
  ASSUME NEW p \in Seq(TakenMsg), NEW t \in TakenMsg, NEW q \in Seq(Msg),
         q # << >>, t.msg = Head(q)
  PROVE  LineOf(p, t, Tail(q)) = LineOf(p, NoMsg, q)
<1>1. /\ Bodies(p) \in Seq(Msg) /\ <<t.msg>> \in Seq(Msg) /\ Tail(q) \in Seq(Msg)
      /\ q = <<t.msg>> \o Tail(q)
  <2>1. q = <<Head(q)>> \o Tail(q) /\ Tail(q) \in Seq(Msg)
    OBVIOUS
  <2> QED
    BY <2>1, LineTyped, HandTyped
<1>2. (Bodies(p) \o <<t.msg>>) \o Tail(q) = Bodies(p) \o q
  BY <1>1, Associative
<1>3. Bodies(p) \o << >> = Bodies(p)
  BY <1>1
<1> QED
  BY <1>2, <1>3, HandTyped DEF LineOf

\* run() posts what it has taken: it stays in line.
LEMMA LinePost ==
  ASSUME NEW p \in Seq(TakenMsg), NEW t \in TakenMsg, NEW q \in Seq(Msg)
  PROVE  LineOf(Append(p, t), NoMsg, q) = LineOf(p, t, q)
<1>1. Bodies(Append(p, t)) = Bodies(p) \o <<t.msg>>
  BY BodiesEnds
<1>2. Bodies(p) \o <<t.msg>> \in Seq(Msg)
  BY LineTyped, HandTyped
<1> QED
  BY <1>1, <1>2, HandTyped, JoinedToNone DEF LineOf

\* sendData takes the first.
LEMMA LineHead ==
  ASSUME NEW p \in Seq(TakenMsg), NEW t \in TakenMsg \cup {NoMsg}, NEW q \in Seq(Msg),
         p # << >>
  PROVE  /\ Head(p).msg \in Msg /\ Tail(p) \in Seq(TakenMsg)
         /\ LineOf(p, t, q) = <<Head(p).msg>> \o LineOf(Tail(p), t, q)
<1>1. Head(p) \in TakenMsg /\ Tail(p) \in Seq(TakenMsg)
  OBVIOUS
<1> DEFINE m == <<Head(p).msg>>  b == Bodies(Tail(p))  h == InHand(t)
<1>2. m \in Seq(Msg) /\ b \in Seq(Msg) /\ h \in Seq(Msg) /\ Bodies(p) = m \o b
  BY <1>1, HandTyped, LineTyped, BodiesEnds
<1>3. LineOf(p, t, q) = (Bodies(p) \o h) \o q /\ LineOf(Tail(p), t, q) = (b \o h) \o q
  BY DEF LineOf
<1> HIDE DEF m, b, h
<1>4. (m \o b) \o h = m \o (b \o h) /\ b \o h \in Seq(Msg)
  BY <1>2, Associative
<1>5. (m \o (b \o h)) \o q = m \o ((b \o h) \o q)
  BY <1>2, <1>4, Associative
<1>6. LineOf(p, t, q) = m \o LineOf(Tail(p), t, q)
  BY <1>2, <1>3, <1>4, <1>5
<1> QED
  BY <1>1, <1>6, HandTyped DEF m

\* A producer pushes one.
LEMMA LinePush ==
  ASSUME NEW p \in Seq(TakenMsg), NEW t \in TakenMsg \cup {NoMsg}, NEW q \in Seq(Msg),
         NEW m \in Msg
  PROVE  LineOf(p, t, Append(q, m)) = LineOf(p, t, q) \o <<m>>
<1> DEFINE r == Bodies(p) \o InHand(t)
<1>1. r \in Seq(Msg) /\ <<m>> \in Seq(Msg) /\ Append(q, m) = q \o <<m>>
  <2>1. Bodies(p) \in Seq(Msg) /\ InHand(t) \in Seq(Msg)
    BY LineTyped
  <2> QED
    BY <2>1
<1>2. \A z : LineOf(p, t, z) = r \o z
  BY DEF LineOf
<1> HIDE DEF r
<1>3. (r \o q) \o <<m>> = r \o (q \o <<m>>)
  BY <1>1, Associative
<1> QED
  BY <1>1, <1>2, <1>3

\* Without its last part, the queue.
LEMMA LineCleared ==
  ASSUME NEW p \in Seq(TakenMsg), NEW t \in TakenMsg \cup {NoMsg}, NEW q \in Seq(Msg)
  PROVE  LineOf(p, t, q) = LineOf(p, t, << >>) \o q
<1> DEFINE r == Bodies(p) \o InHand(t)
<1>1. r \in Seq(Msg)
  <2>1. Bodies(p) \in Seq(Msg) /\ InHand(t) \in Seq(Msg)
    BY LineTyped
  <2> QED
    BY <2>1
<1>2. \A z : LineOf(p, t, z) = r \o z
  BY DEF LineOf
<1> HIDE DEF r
<1> QED
  BY <1>1, <1>2, JoinedToNone

----------------------------------------------------------------------------
\* A connection outlives run() only in an event loop that was told to quit.
StopInv ==
  /\ conn /\ writer = "off" => sock = "quit"
  /\ conn /\ ~m_isCanRun /\ writer \in {"test", "pop", "post"} => sock = "quit"
  /\ ui \in {"recv", "end", "ended"} => ~conn

\* A step that touches none of it.
LEMMA StopFrame ==
  ASSUME StopInv, UNCHANGED <<conn, writer, sock, m_isCanRun>>,
         ui' \in {"recv", "end", "ended"} => ui \in {"recv", "end", "ended"}
  PROVE  StopInv'
BY DEF StopInv

\* The inductive step.
LEMMA StopStep == TypeOK /\ SessionInv /\ StopInv /\ [Next]_vars => StopInv'
<1> SUFFICES ASSUME TypeOK, SessionInv, StopInv, [Next]_vars PROVE StopInv'
  OBVIOUS
<1>1. CASE UNCHANGED <<ui, conn, writer, sock, m_isCanRun>>
  BY <1>1, StopFrame
<1>2. CASE SendText \/ SendImg \/ AudioInput \/ Collect \/ MicFails
  BY <1>1, <1>2
  DEF SendText, SendImg, AudioInput, Push, PushWait, TakeText, TakeFrame, MicCall,
      Collect, MicFails, widget, socket, thread
<1>3. CASE Writer
  <2>1. UNCHANGED <<ui, conn, sock>>
    BY <1>3
    DEF Writer, RunStarts, TestStop, PopSend, PopWait, PopTimeout, PostSendData, widget,
        socket
  <2>2. CASE RunStarts
    BY <2>1, <2>2 DEF RunStarts, StopInv
  <2>3. CASE TestStop
    BY <2>1, <2>3 DEF TestStop, StopInv
  <2>4. CASE PopSend \/ PopTimeout \/ PostSendData
    <3>1. writer \in {"pop", "post"} /\ writer' \in {"post", "test"} /\ UNCHANGED m_isCanRun
      BY <2>4 DEF PopSend, PopTimeout, PostSendData
    <3> QED
      BY <2>1, <3>1 DEF StopInv
  <2>5. CASE PopWait
    BY <1>1, <2>1, <2>5 DEF PopWait, thread
  <2> QED
    BY <1>3, <2>2, <2>3, <2>4, <2>5 DEF Writer
<1>4. CASE SendData \/ PushSound \/ PushRecv \/ Receives \/ RecvSolve \/ Play \/ News
             \/ ConnectFails
  BY <1>1, <1>4
  DEF SendData, PushSound, PushRecv, Receives, ReceiveSound, ReceiveNews, RecvSolve,
      TakeRecv, RecvEnds, Play, News, ConnectFails, widget, socket, thread
<1>5. CASE ConnectionLost \/ CloseSocket
  <2>1. conn' = FALSE
    BY <1>5 DEF ConnectionLost, CloseSocket
  <2> QED
    BY <2>1 DEF StopInv
<1>6. CASE EnterMeeting \/ PartnerComes \/ RemovePartner \/ TextRecv \/ CameraFrame
             \/ DeviceFails
  BY <1>1, <1>6
  DEF EnterMeeting, PartnerComes, RemovePartner, TextRecv, CameraFrame, DeviceFails,
      widget, socket, thread
<1>7. CASE TextSend
  <2>1. UNCHANGED <<conn, sock, writer, m_isCanRun>>
    BY <1>7 DEF TextSend, thread
  <2>2. ui' \in {"free", "crashed"}
    BY <1>7 DEF TextSend
  <2> QED
    BY <2>1, <2>2, StopFrame
<1>8. CASE SendMsg \/ JoinMeet \/ OpenAudio \/ OpenVedio \/ CloseVedio
  BY <1>1, <1>8
  DEF SendMsg, JoinMeet, OpenAudio, OpenVedio, CloseVedio, widget, socket, thread
<1>9. CASE ConnServer
  <2>1. "connServer" \in enabled /\ conn' = conn
    BY <1>9 DEF ConnServer, UserMayClick
  <2> QED
    BY <2>1 DEF SessionInv, StopInv
<1>10. CASE Connected
  <2>1. ui' = "free" /\ writer' = "start"
    <3>1. ui = "connect" /\ writer' = IF writer = "off" THEN "start" ELSE writer
      BY <1>10 DEF Connected, Connecting
    <3> QED
      BY <1>10, <3>1 DEF Connected, SessionInv
  <2> QED
    BY <2>1 DEF StopInv
<1>11. CASE ConnectTimeout \/ PushRefused
  <2>1. ui' = "free" /\ UNCHANGED <<conn, writer, sock, m_isCanRun>>
    BY <1>11 DEF ConnectTimeout, PushRefused, socket, thread
  <2> QED
    BY <2>1, StopFrame
<1>12. ASSUME StopRun, QuitSock, conn' = conn, writer' = writer, ui' \in {"quit", "close"}
       PROVE  StopInv'
  <2>1. sock # "off" => sock' = "quit"
    BY <1>12 DEF QuitSock
  <2>2. conn' => sock' = "quit"
    BY <1>12, <2>1 DEF SessionInv
  <2> QED
    BY <1>12, <2>2 DEF StopInv
<1>13. CASE ExitMeet \/ NetError
  <2>1. StopRun /\ QuitSock /\ conn' = conn /\ writer' = writer /\ ui' = "quit"
    BY <1>13 DEF ExitMeet, NetError, Leave
  <2> QED
    BY <1>12, <2>1
<1>14. CASE CloseWindow
  <2>1. ui' = "close" /\ conn' = conn /\ writer' = writer
    BY <1>14 DEF CloseWindow
  <2>2. (StopRun /\ QuitSock) \/ UNCHANGED <<m_isCanRun, sock>>
    BY <1>14 DEF CloseWindow
  <2> QED
    BY <1>12, <2>1, <2>2, StopFrame
<1>15. CASE ClearQueues \/ Joined
  <2>1. ui' \in {"join", "free"} /\ UNCHANGED <<conn, writer, sock, m_isCanRun>>
    BY <1>15 DEF ClearQueues, Joined, socket, thread
  <2> QED
    BY <2>1, StopFrame
<1>16. CASE StopRecv
  <2>1. ~conn /\ UNCHANGED <<conn, writer, sock, m_isCanRun>>
    BY <1>16 DEF StopRecv, StopInv, socket, thread
  <2> QED
    BY <2>1 DEF StopInv
<1>17. CASE StopProducers \/ ProducersEnded
  <2>1. ui \in {"recv", "end"} /\ UNCHANGED <<conn, writer, sock, m_isCanRun>>
    BY <1>17 DEF StopProducers, ProducersEnded, socket, thread
  <2> QED
    BY <2>1, StopFrame
<1>18. CASE UNCHANGED vars
  BY <1>1, <1>18 DEF vars, widget, socket, thread
<1> QED
  BY <1>2, <1>3, <1>4, <1>5, <1>6, <1>7, <1>8, <1>9, <1>10, <1>11, <1>13, <1>14, <1>15,
     <1>16, <1>17, <1>18
  DEF Next, SockThread, Gui, Connect, User, Environment, Receives

----------------------------------------------------------------------------
\* What each producer holds.
Kinds ==
  /\ held["SendImg"] # NoMsg => held["SendImg"].no = 0
  /\ held["AudioInput"] # NoMsg =>
       held["AudioInput"].no = 0 /\ held["AudioInput"].type = "AUDIO_SEND"
  /\ held["SendText"] # NoMsg => held["SendText"].type # "IMG_SEND"
  /\ \A i \in DOMAIN texts : texts[i].type # "IMG_SEND"

\* A new text or request is no picture.
LEMMA KindsPushed ==
  ASSUME TypeOK, Kinds, UNCHANGED held,
         NEW type \in {"JOIN_MEETING", "TEXT_SEND", "CLOSE_CAMERA"}, PushText(type)
  PROVE  Kinds'
<1>1. texts \in Seq(Msg) /\ [type |-> type, no |-> texted + 1] \in Msg
  <2>1. texted + 1 \in Nat
    BY ScenarioBounds DEF TypeOK
  <2> QED
    BY <2>1 DEF TypeOK, InputType, Msg
<1>2. texts' = Append(texts, [type |-> type, no |-> texted + 1])
  BY DEF PushText
<1>3. [type |-> type, no |-> texted + 1].type # "IMG_SEND"
  OBVIOUS
<1> HIDE DEF Msg
<1>4. \A i \in DOMAIN texts' : texts'[i].type # "IMG_SEND"
  BY <1>1, <1>2, <1>3 DEF Kinds
<1> QED
  BY <1>4 DEF Kinds

\* The inductive step.
LEMMA KindsStep == TypeOK /\ Kinds /\ [Next]_vars => Kinds'
<1> SUFFICES ASSUME TypeOK, Kinds, [Next]_vars PROVE Kinds'
  OBVIOUS
<1>0. texts \in Seq(Msg) /\ held \in [Producers -> Msg \cup {NoMsg}]
      /\ Producers = {"SendText", "SendImg", "AudioInput"}
  BY DEF TypeOK, InputType, Producers
<1>1. CASE UNCHANGED <<held, texts>>
  BY <1>1 DEF Kinds
<1>2. CASE \E p \in Producers : Push(p)
  <2>1. PICK p \in Producers : held' = [held EXCEPT ![p] = NoMsg] /\ UNCHANGED texts
    BY <1>2 DEF Push
  <2> QED
    BY <1>0, <2>1 DEF Kinds
<1>3. CASE TakeText
  <2>1. /\ held' = [held EXCEPT !["SendText"] = Head(texts)] /\ texts' = Tail(texts)
        /\ texts # << >>
    BY <1>3 DEF TakeText, Hold
  <2>2. Head(texts) = texts[1] /\ 1 \in DOMAIN texts
    BY <1>0, <2>1
  <2>3. \A i \in DOMAIN texts' : i + 1 \in DOMAIN texts /\ texts'[i] = texts[i + 1]
    BY <1>0, <2>1
  <2>4. \A i \in DOMAIN texts' : texts'[i].type # "IMG_SEND"
    BY <2>3 DEF Kinds
  <2>5. held'["SendText"].type # "IMG_SEND"
    BY <1>0, <2>1, <2>2 DEF Kinds
  <2> QED
    BY <1>0, <2>1, <2>4, <2>5 DEF Kinds
<1>4. CASE TakeFrame
  <2>1. held' = [held EXCEPT !["SendImg"] = [type |-> "IMG_SEND", no |-> 0]]
        /\ UNCHANGED texts
    BY <1>4 DEF TakeFrame, Hold
  <2> QED
    BY <1>0, <2>1 DEF Kinds
<1>5. CASE Collect
  <2>1. held' = [held EXCEPT !["AudioInput"] = [type |-> "AUDIO_SEND", no |-> 0]]
        /\ UNCHANGED texts
    BY <1>5 DEF Collect, Hold
  <2> QED
    BY <1>0, <2>1 DEF Kinds
<1>6. CASE PushWait("SendText") \/ PushWait("SendImg") \/ PushWait("AudioInput")
             \/ MicCall \/ MicFails
  BY <1>1, <1>6 DEF PushWait, MicCall, MicFails, input
<1>7. CASE Writer \/ SockThread \/ RecvSolve \/ Play \/ Receives \/ ConnectionLost \/ News
  BY <1>1, <1>7
  DEF Writer, RunStarts, TestStop, PopSend, PopWait, PopTimeout, PostSendData, SockThread,
      SendData, PushSound, PushRecv, CloseSocket, RecvSolve, TakeRecv, RecvEnds, Play,
      Receives, ReceiveSound, ReceiveNews, ConnectionLost, News, input
<1>8. CASE EnterMeeting \/ PartnerComes \/ RemovePartner \/ TextRecv \/ CameraFrame
             \/ DeviceFails
  BY <1>1, <1>8
  DEF EnterMeeting, PartnerComes, RemovePartner, TextRecv, CameraFrame, DeviceFails, input
<1>9. CASE SendMsg
  BY <1>9, KindsPushed DEF SendMsg
<1>10. CASE JoinMeet
  BY <1>10, KindsPushed DEF JoinMeet
<1>11. CASE CloseVedio
  BY <1>11, KindsPushed DEF CloseVedio
<1>12. CASE OpenAudio \/ OpenVedio \/ ConnServer \/ Connect \/ ExitMeet \/ NetError
              \/ CloseWindow
  BY <1>1, <1>12
  DEF OpenAudio, OpenVedio, ConnServer, Connect, Connected, ConnectTimeout, ConnectFails,
      PushRefused, ExitMeet, NetError, Leave, CloseWindow, input
<1>13. CASE TextSend \/ ClearQueues \/ Joined \/ StopRecv \/ ProducersEnded
  BY <1>1, <1>13 DEF TextSend, ClearQueues, Joined, StopRecv, ProducersEnded, input
<1>14. CASE StopProducers
  <2>1. PICK n \in 0..Len(texts) : texts' = SubSeq(texts, 1, n)
    BY <1>14 DEF StopProducers
  <2>2. held' = held
    BY <1>14 DEF StopProducers
  <2>3. \A i \in DOMAIN texts' : i \in DOMAIN texts /\ texts'[i] = texts[i]
    BY <1>0, <2>1
  <2> QED
    BY <2>2, <2>3 DEF Kinds
<1>15. CASE UNCHANGED vars
  BY <1>1, <1>15 DEF vars, input
<1>16. \A p \in Producers : Push(p) => Kinds'
  BY <1>2
<1> QED
  BY <1>0, <1>3, <1>4, <1>5, <1>6, <1>7, <1>8, <1>9, <1>10, <1>11, <1>12, <1>13, <1>14,
     <1>15, <1>16
  DEF Next, SendText, SendImg, AudioInput, Gui, User, Environment, Receives

----------------------------------------------------------------------------
\* What a step does to the messages on their way.

\* What SendText still has.
Rest == Opt(held["SendText"]) \o texts

\* The five stations, as one row.
LEMMA Stations ==
  ASSUME NEW p \in Seq(TakenMsg), NEW t \in TakenMsg \cup {NoMsg}, NEW q \in Seq(Msg),
         NEW h \in Msg \cup {NoMsg}, NEW x \in Seq(Msg)
  PROVE  /\ LineOf(p, t, q) \in Seq(Msg) /\ Opt(h) \o x \in Seq(Msg)
         /\ LineOf(p, t, q) \o Opt(h) \o x = LineOf(p, t, q) \o (Opt(h) \o x)
         /\ LineOf(p, t, q) \o (Opt(h) \o x) \in Seq(Msg)
<1> DEFINE l == LineOf(p, t, q)  o == Opt(h)
<1>1. l \in Seq(Msg) /\ o \in Seq(Msg)
  BY LineTyped, HandTyped
<1> HIDE DEF l, o
<1>2. l \o o \o x = l \o (o \o x) /\ o \o x \in Seq(Msg)
  BY <1>1, Associative
<1>3. l \o (o \o x) \in Seq(Msg)
  BY <1>1, <1>2
<1> QED
  BY <1>1, <1>2, <1>3 DEF l, o

\* Line is a row of its stations.
LEMMA LineIs ==
  /\ Line = LineOf(posted, taken, queue_send)
  /\ Line' = LineOf(posted', taken', queue_send')
<1>1. Line = LineOf(posted, taken, queue_send)
  BY DEF Line, LineOf, Bodies, InHand
<1>2. Line' = LineOf(posted', taken', queue_send')
  BY DEF Line, LineOf, Bodies, InHand
<1> QED
  BY <1>1, <1>2

\* The types of the stations.
LEMMA StationsTyped ==
  ASSUME TypeOK
  PROVE  /\ posted \in Seq(TakenMsg) /\ taken \in TakenMsg \cup {NoMsg}
         /\ queue_send \in Seq(Msg) /\ texts \in Seq(Msg)
         /\ held \in [Producers -> Msg \cup {NoMsg}]
         /\ Producers = {"SendText", "SendImg", "AudioInput"}
         /\ Line \in Seq(Msg) /\ Rest \in Seq(Msg)
         /\ Whole = Line \o Rest /\ Whole \in Seq(Msg)
<1>1. /\ posted \in Seq(TakenMsg) /\ taken \in TakenMsg \cup {NoMsg}
      /\ queue_send \in Seq(Msg) /\ texts \in Seq(Msg)
      /\ held \in [Producers -> Msg \cup {NoMsg}]
      /\ Producers = {"SendText", "SendImg", "AudioInput"}
  BY DEF TypeOK, SocketType, ThreadType, QueueType, InputType, Producers
<1>2. held["SendText"] \in Msg \cup {NoMsg}
  BY <1>1
<1> DEFINE l == LineOf(posted, taken, queue_send)  o == Opt(held["SendText"])
<1>3. /\ l \in Seq(Msg) /\ o \o texts \in Seq(Msg)
      /\ l \o o \o texts = l \o (o \o texts) /\ l \o (o \o texts) \in Seq(Msg)
  BY <1>1, <1>2, Stations
<1>4. Line = l /\ Rest = o \o texts /\ Whole = l \o o \o texts
  BY LineIs DEF Rest, Whole
<1> HIDE DEF l, o
<1> QED
  BY <1>1, <1>3, <1>4

\* And after a step.
LEMMA StationsNext ==
  ASSUME TypeOK'
  PROVE  /\ Line' \in Seq(Msg) /\ Rest' \in Seq(Msg)
         /\ Whole' = Line' \o Rest' /\ Whole' \in Seq(Msg)
<1>1. /\ posted' \in Seq(TakenMsg) /\ taken' \in TakenMsg \cup {NoMsg}
      /\ queue_send' \in Seq(Msg) /\ texts' \in Seq(Msg)
      /\ held' \in [Producers -> Msg \cup {NoMsg}]
      /\ Producers = {"SendText", "SendImg", "AudioInput"}
  BY DEF TypeOK, SocketType, ThreadType, QueueType, InputType, Producers
<1>2. held'["SendText"] \in Msg \cup {NoMsg}
  BY <1>1
<1> DEFINE l == LineOf(posted', taken', queue_send')  o == Opt(held'["SendText"])
<1>3. /\ l \in Seq(Msg) /\ o \o texts' \in Seq(Msg)
      /\ l \o o \o texts' = l \o (o \o texts') /\ l \o (o \o texts') \in Seq(Msg)
  BY <1>1, <1>2, Stations
<1>4. Line' = l /\ Rest' = o \o texts' /\ Whole' = l \o o \o texts'
  BY LineIs DEF Rest, Whole
<1> HIDE DEF l, o
<1> QED
  BY <1>1, <1>3, <1>4

\* The last item of the list is one's own, and is shown as loading.
Waiting == shown = "own" /\ ~marked

\* It stays what it is, whatever station each message is at.
Stands ==
  /\ Whole' = Whole /\ UNCHANGED <<texted, written>> /\ (conn' => conn)
  /\ Waiting' => Waiting /\ over' = over

\* A picture or sound gets in between.
Slips ==
  /\ \E s, t \in Seq(Msg), m \in Msg :
       m.no = 0 /\ Whole = s \o t /\ Whole' = (s \o <<m>>) \o t
  /\ UNCHANGED <<texted, written, conn, list, over>>

\* The first leaves; written, if there is a connection.
Sends ==
  /\ \E m \in Msg :
       /\ Whole = <<m>> \o Whole'
       /\ written' = IF conn /\ m.no > written THEN m.no ELSE written
       /\ over' = IF Tells(m) THEN over + 1 ELSE over
  /\ UNCHANGED <<texted, conn, list>>

\* There is a new one; the list shows it if it is a text.
Grows ==
  /\ \E m \in Msg :
       /\ m.no = texted + 1 /\ Whole' = Whole \o <<m>>
       /\ UNCHANGED list \/ m.type = "TEXT_SEND"
  /\ texted' = texted + 1 /\ UNCHANGED <<written, conn, over>>

\* A connection is made, and what there is counts as given up.
Connects ==
  /\ Whole' = Whole /\ texted' = texted /\ written' = texted /\ shown' # "own"

\* Without a connection some of it goes.
Drops ==
  /\ ~conn' /\ Range(Whole') \subseteq Range(Whole) /\ UNCHANGED <<texted, written>>

\* A producer pushes what it holds.
LEMMA PushMoves ==
  ASSUME TypeOK, TypeOK', Kinds, NEW p \in Producers, Push(p)
  PROVE  Stands \/ Slips
<1> DEFINE m == held[p]
<1>1. /\ m \in Msg /\ queue_send' = Append(queue_send, m)
      /\ held' = [held EXCEPT ![p] = NoMsg]
      /\ UNCHANGED <<posted, taken, texts, texted, written, conn, list, over>>
  BY StationsTyped DEF Push, Awake, socket, thread, count
<1>2. Line' = Line \o <<m>>
  BY <1>1, StationsTyped, LinePush, LineIs
<1>3. <<m>> \in Seq(Msg)
  BY <1>1, HandTyped
<1>4. CASE p = "SendText"
  <2>1. Rest = <<m>> \o texts /\ Rest' = texts
    BY <1>1, <1>4, StationsTyped, HandTyped, JoinedToNone DEF Rest
  <2>2. (Line \o <<m>>) \o texts = Line \o (<<m>> \o texts)
    <3>1. Line \in Seq(Msg) /\ texts \in Seq(Msg)
      BY StationsTyped
    <3> HIDE DEF m
    <3> QED
      BY <1>3, <3>1, Associative
  <2>3. Whole = Line \o Rest /\ Whole' = Line' \o Rest'
    BY StationsTyped, StationsNext
  <2>4. Whole' = Whole
    BY <1>2, <2>1, <2>2, <2>3
  <2> QED
    BY <1>1, <2>4 DEF Stands, Waiting, list
<1>5. CASE p # "SendText"
  <2>1. Rest' = Rest
    BY <1>1, <1>5, StationsTyped DEF Rest
  <2>2. m.no = 0
    BY <1>1, <1>5, StationsTyped, NoMsgAssumption DEF Kinds
  <2>3. Whole = Line \o Rest /\ Whole' = (Line \o <<m>>) \o Rest
    BY <1>2, <2>1, StationsTyped, StationsNext
  <2> QED
    BY <1>1, <2>2, <2>3, StationsTyped DEF Slips
<1> QED
  BY <1>4, <1>5

\* What moves no message.
LEMMA StandsStill ==
  ASSUME UNCHANGED <<posted, taken, queue_send, held, texts, texted, written>>,
         conn' => conn, Waiting' => Waiting /\ over' = over
  PROVE  Stands
<1>1. Whole' = Whole
  BY DEF Whole, Line
<1> QED
  BY <1>1 DEF Stands

\* What run() does.
LEMMA WriterLine ==
  ASSUME TypeOK, TypeOK', Writer
  PROVE  Line' = Line
<1>1. CASE RunStarts \/ TestStop \/ PopWait \/ PopTimeout
  <2>1. UNCHANGED <<posted, taken, queue_send>>
    BY <1>1 DEF RunStarts, TestStop, PopWait, PopTimeout, socket, queue, thread
  <2> QED
    BY <2>1 DEF Line
<1>2. CASE PopSend
  <2>1. /\ taken' = [msg |-> Head(queue_send), in |-> session] /\ queue_send # << >>
        /\ queue_send' = Tail(queue_send) /\ posted' = posted /\ writer = "pop"
    BY <1>2 DEF PopSend, socket
  <2>2. taken = NoMsg /\ taken' \in TakenMsg
    <3>1. taken = NoMsg
      BY <2>1 DEF TypeOK, ThreadType
    <3>2. taken' # NoMsg /\ taken' \in TakenMsg \cup {NoMsg}
      BY <1>2 DEF TypeOK, ThreadType, PopSend
    <3> QED
      BY <3>1, <3>2
  <2>3. taken'.msg = Head(queue_send)
    BY <2>1
  <2> QED
    BY <2>1, <2>2, <2>3, StationsTyped, LinePop, LineIs
<1>3. CASE PostSendData
  <2>1. posted' = Append(posted, taken) /\ taken' = NoMsg /\ queue_send' = queue_send
    BY <1>3 DEF PostSendData, queue
  <2>2. taken \in TakenMsg
    BY <1>3 DEF PostSendData, TypeOK, ThreadType
  <2> QED
    BY <2>1, <2>2, StationsTyped, LinePost, LineIs
<1> QED
  BY <1>1, <1>2, <1>3 DEF Writer

\* It moves a message from station to station.
LEMMA WriterMoves ==
  ASSUME TypeOK, TypeOK', Writer
  PROVE  Stands
<1>1. UNCHANGED <<held, texts, texted, written, conn, list, over>>
  BY DEF Writer, RunStarts, TestStop, PopSend, PopWait, PopTimeout, PostSendData, input,
         count, socket
<1>2. Whole' = Whole
  BY <1>1, WriterLine DEF Whole
<1> QED
  BY <1>1, <1>2 DEF Stands, Waiting, list

\* sendData.
LEMMA SendDataMoves ==
  ASSUME TypeOK, TypeOK', SendData
  PROVE  Sends
<1> DEFINE m == Head(posted).msg
<1>1. /\ posted # << >> /\ posted' = Tail(posted)
      /\ over' = IF Tells(m) THEN over + 1 ELSE over
      /\ written' = IF conn /\ m.no > written THEN m.no ELSE written
      /\ UNCHANGED <<taken, queue_send, held, texts, texted, conn, list>>
  BY DEF SendData, thread, queue, input
<1>2. m \in Msg /\ Line = <<m>> \o Line'
  BY <1>1, StationsTyped, LineHead, LineIs
<1>3. Rest' = Rest /\ <<m>> \in Seq(Msg)
  BY <1>1, <1>2, HandTyped DEF Rest
<1> HIDE DEF m
<1>4. Whole = <<m>> \o Whole'
  <2>1. Line' \in Seq(Msg) /\ Rest \in Seq(Msg)
    BY StationsTyped, StationsNext
  <2>2. (<<m>> \o Line') \o Rest = <<m>> \o (Line' \o Rest)
    BY <1>3, <2>1, Associative
  <2>3. Whole = Line \o Rest /\ Whole' = Line' \o Rest'
    BY StationsTyped, StationsNext
  <2> QED
    BY <1>2, <1>3, <2>2, <2>3
<1> QED
  BY <1>1, <1>2, <1>4 DEF Sends

\* A new text or request.
LEMMA PushTextMoves ==
  ASSUME TypeOK, TypeOK', NEW type \in {"JOIN_MEETING", "TEXT_SEND", "CLOSE_CAMERA"},
         PushText(type), UNCHANGED <<posted, taken, queue_send, held, written, conn, over>>,
         UNCHANGED list \/ type = "TEXT_SEND"
  PROVE  Grows
<1> DEFINE m == [type |-> type, no |-> texted + 1]
<1>1. m \in Msg /\ m.no = texted + 1 /\ m.type = type
  <2>1. texted + 1 \in Nat
    BY ScenarioBounds DEF TypeOK
  <2> QED
    BY <2>1 DEF Msg
<1>2. texts' = Append(texts, m) /\ texted' = texted + 1
  BY DEF PushText
<1> HIDE DEF m
<1>3. <<m>> \in Seq(Msg) /\ texts' = texts \o <<m>>
  BY <1>1, <1>2, StationsTyped, HandTyped
<1>4. Opt(held["SendText"]) \in Seq(Msg)
  BY StationsTyped, HandTyped
<1>5. Rest' = Rest \o <<m>>
  BY <1>3, <1>4, StationsTyped, Associative DEF Rest
<1>6. Line' = Line
  BY DEF Line
<1>7. Whole' = Whole \o <<m>>
  <2>1. Line \in Seq(Msg) /\ Rest \in Seq(Msg)
    BY StationsTyped
  <2>2. (Line \o Rest) \o <<m>> = Line \o (Rest \o <<m>>)
    BY <1>3, <2>1, Associative
  <2>3. Whole = Line \o Rest /\ Whole' = Line' \o Rest'
    BY StationsTyped, StationsNext
  <2> QED
    BY <1>5, <1>6, <2>2, <2>3
<1> QED
  BY <1>1, <1>2, <1>7 DEF Grows

\* Every step is one of these.
LEMMA Moves ==
  ASSUME TypeOK, TypeOK', SessionInv, StopInv, Kinds, [Next]_vars
  PROVE  Stands \/ Slips \/ Sends \/ Grows \/ Connects \/ Drops
<1>1. CASE UNCHANGED <<posted, taken, queue_send, held, texts, texted, written, conn, list,
                       over>>
  BY <1>1, StandsStill DEF Waiting, list
<1>2. ASSUME NEW p \in Producers, Push(p) PROVE Stands \/ Slips
  BY <1>2, PushMoves
<1>3. CASE PushWait("SendText") \/ PushWait("SendImg") \/ PushWait("AudioInput")
             \/ MicCall \/ MicFails
  BY <1>1, <1>3 DEF PushWait, MicCall, MicFails, socket, thread, queue, input, count
<1>4. CASE TakeText
  <2>1. /\ texts # << >> /\ texts' = Tail(texts) /\ held["SendText"] = NoMsg
        /\ held' = [held EXCEPT !["SendText"] = Head(texts)]
        /\ UNCHANGED <<posted, taken, queue_send, texted, written, conn, list, over>>
    BY <1>4 DEF TakeText, Hold, socket, thread, queue, count
  <2>2. texts = <<Head(texts)>> \o Tail(texts) /\ Head(texts) \in Msg
    <3>1. texts \in Seq(Msg)
      BY StationsTyped
    <3> QED
      BY <2>1, <3>1
  <2>3. held'["SendText"] = Head(texts)
    BY <2>1, StationsTyped
  <2>4. Rest = texts
    BY <2>1, StationsTyped, HandTyped, JoinedToNone DEF Rest
  <2>5. Rest' = <<Head(texts)>> \o Tail(texts)
    BY <2>1, <2>2, <2>3, HandTyped DEF Rest
  <2>6. Line' = Line
    BY <2>1 DEF Line
  <2>7. Whole' = Whole
    BY <2>2, <2>4, <2>5, <2>6, StationsTyped, StationsNext
  <2> QED
    BY <2>1, <2>7 DEF Stands, Waiting, list
<1>5. CASE TakeFrame \/ Collect
  <2>1. PICK p \in {"SendImg", "AudioInput"} : \E m : held' = [held EXCEPT ![p] = m]
    BY <1>5 DEF TakeFrame, Collect, Hold
  <2>2. UNCHANGED <<posted, taken, queue_send, texts, texted, written, conn, list, over>>
    BY <1>5 DEF TakeFrame, Collect, socket, thread, queue, count
  <2>3. held'["SendText"] = held["SendText"]
    BY <2>1, StationsTyped
  <2>4. Whole' = Whole
    BY <2>2, <2>3 DEF Whole, Line
  <2> QED
    BY <2>2, <2>4 DEF Stands, Waiting, list
<1>6. CASE Writer
  BY <1>6, WriterMoves
<1>7. CASE SendData
  BY <1>7, SendDataMoves
<1>8. CASE PushSound \/ PushRecv \/ RecvSolve \/ Play \/ Receives \/ News
  BY <1>1, <1>8
  DEF PushSound, PushRecv, RecvSolve, TakeRecv, RecvEnds, Play, Receives, ReceiveSound,
      ReceiveNews, News, socket, thread, queue, input, count
<1>9. CASE CloseSocket \/ ConnectionLost
  <2>1. /\ conn' = FALSE
        /\ UNCHANGED <<posted, taken, queue_send, held, texts, texted, written, list, over>>
    BY <1>9 DEF CloseSocket, ConnectionLost, thread, queue, input, count
  <2> QED
    BY <2>1, StandsStill DEF Waiting, list
<1>10. CASE EnterMeeting \/ PartnerComes \/ RemovePartner \/ DeviceFails
  BY <1>1, <1>10
  DEF EnterMeeting, PartnerComes, RemovePartner, DeviceFails, socket, thread, queue, input,
      count
<1>11. CASE CameraFrame
  BY <1>1, <1>11 DEF CameraFrame, socket, thread, queue
<1>12. CASE TextRecv
  <2>1. /\ shown' = "other"
        /\ UNCHANGED <<posted, taken, queue_send, held, texts, texted, written, conn, over>>
    BY <1>12 DEF TextRecv, socket, thread, queue, input, count
  <2> QED
    BY <2>1, StandsStill DEF Waiting
<1>13. CASE TextSend
  <2>1. UNCHANGED <<posted, taken, queue_send, held, texts, texted, written, conn>>
    BY <1>13 DEF TextSend, thread, queue, input, count
  <2>2. shown' = shown /\ (shown = "none" \/ marked' = TRUE)
    BY <1>13 DEF TextSend
  <2>3. ~Waiting'
    BY <2>2 DEF Waiting
  <2> QED
    BY <2>1, <2>3, StandsStill
<1>14. CASE SendMsg
  <2>1. PushText("TEXT_SEND")
        /\ UNCHANGED <<posted, taken, queue_send, held, written, conn, over>>
    BY <1>14 DEF SendMsg, socket, thread, queue
  <2> QED
    BY <2>1, PushTextMoves
<1>15. CASE JoinMeet
  <2>1. PushText("JOIN_MEETING")
        /\ UNCHANGED <<posted, taken, queue_send, held, written, conn, over, list>>
    BY <1>15 DEF JoinMeet, socket, thread, queue
  <2> QED
    BY <2>1, PushTextMoves
<1>16. CASE CloseVedio
  <2>1. PushText("CLOSE_CAMERA")
        /\ UNCHANGED <<posted, taken, queue_send, held, written, conn, over, list>>
    BY <1>16 DEF CloseVedio, socket, thread, queue
  <2> QED
    BY <2>1, PushTextMoves
<1>17. CASE OpenAudio \/ OpenVedio \/ ConnServer \/ ConnectTimeout \/ ConnectFails
              \/ PushRefused
  BY <1>1, <1>17
  DEF OpenAudio, OpenVedio, ConnServer, ConnectTimeout, ConnectFails, PushRefused, socket,
      thread, queue, input, count
<1>18. CASE Connected
  <2>1. UNCHANGED <<posted, taken, queue_send, held, texts, texted>> /\ written' = texted
    BY <1>18 DEF Connected, queue, input
  <2>2. shown' # "own"
    BY <1>18 DEF Connected
  <2>3. Whole' = Whole
    BY <2>1 DEF Whole, Line
  <2> QED
    BY <2>1, <2>2, <2>3 DEF Connects
<1>19. CASE ExitMeet \/ NetError
  <2>1. UNCHANGED <<posted, taken, queue_send, held, texts, texted, written, conn, list,
                    over>>
    BY <1>19 DEF ExitMeet, NetError, Leave, queue, count
  <2> QED
    BY <1>1, <2>1
<1>20. CASE ClearQueues
  <2>1. /\ sock = "off" /\ queue_send' = << >>
        /\ UNCHANGED <<posted, taken, held, texts, texted, written, conn>>
    BY <1>20 DEF ClearQueues, socket, thread, input, count
  <2>2. ~conn'
    BY <2>1 DEF SessionInv
  <2>3. Line = Line' \o queue_send /\ Rest' = Rest
    <3>1. Line = Line' \o queue_send
      BY <2>1, StationsTyped, LineCleared, LineIs
    <3>2. Rest' = Rest
      BY <2>1 DEF Rest
    <3> QED
      BY <3>1, <3>2
  <2>4. /\ Range(Line) = Range(Line') \cup Range(queue_send)
        /\ Range(Whole) = Range(Line) \cup Range(Rest)
        /\ Range(Whole') = Range(Line') \cup Range(Rest)
    BY <2>3, StationsTyped, StationsNext, RangeJoined
  <2> QED
    BY <2>1, <2>2, <2>4 DEF Drops
<1>21. CASE Joined
  <2>1. UNCHANGED <<posted, taken, queue_send, held, texts, texted, written, conn, over>>
    BY <1>21 DEF Joined, socket, thread, queue, input, count
  <2>2. UNCHANGED list \/ shown' = "none"
    BY <1>21 DEF Joined
  <2> QED
    BY <2>1, <2>2, StandsStill DEF Waiting, list
<1>22. CASE CloseWindow
  BY <1>1, <1>22 DEF CloseWindow, queue, input, count
<1>23. CASE StopRecv \/ ProducersEnded
  BY <1>1, <1>23 DEF StopRecv, ProducersEnded, socket, thread, queue, input, count
<1>24. CASE StopProducers
  <2>1. PICK n \in 0..Len(texts) : texts' = SubSeq(texts, 1, n)
    BY <1>24 DEF StopProducers
  <2>2. ui = "recv" /\ UNCHANGED <<posted, taken, queue_send, held, texted, written, conn>>
    BY <1>24 DEF StopProducers, socket, thread, queue, count
  <2>3. ~conn'
    BY <2>2 DEF StopInv
  <2>4. texts \in Seq(Msg) /\ texts' \in Seq(Msg) /\ Opt(held["SendText"]) \in Seq(Msg)
    <3>1. texts \in Seq(Msg) /\ Opt(held["SendText"]) \in Seq(Msg)
      BY StationsTyped, HandTyped
    <3> QED
      BY <2>1, <3>1
  <2>5. Range(texts') \subseteq Range(texts)
    <3>1. \A i \in DOMAIN texts' : i \in DOMAIN texts /\ texts'[i] = texts[i]
      BY <2>1, <2>4
    <3> QED
      BY <3>1 DEF Range
  <2>6. Range(Rest') \subseteq Range(Rest)
    <3> DEFINE o == Opt(held["SendText"])
    <3>1. Rest = o \o texts /\ Rest' = o \o texts' /\ o \in Seq(Msg)
      BY <2>2, <2>4 DEF Rest
    <3> HIDE DEF o
    <3> QED
      BY <2>4, <2>5, <3>1, RangeJoined
  <2>7. Line' = Line
    BY <2>2 DEF Line
  <2>8. /\ Range(Whole) = Range(Line) \cup Range(Rest)
        /\ Range(Whole') = Range(Line) \cup Range(Rest')
    BY <2>7, StationsTyped, StationsNext, RangeJoined
  <2> QED
    BY <2>2, <2>3, <2>6, <2>8 DEF Drops
<1>25. CASE UNCHANGED vars
  BY <1>1, <1>25 DEF vars, socket, thread, queue, input, count
<1>26. Producers = {"SendText", "SendImg", "AudioInput"}
  BY DEF Producers
<1>27. Push("SendText") \/ Push("SendImg") \/ Push("AudioInput") => Stands \/ Slips
  BY <1>2, <1>26
<1> QED
  BY <1>3, <1>4, <1>5, <1>6, <1>7, <1>8, <1>9, <1>10, <1>11, <1>12, <1>13, <1>14, <1>15,
     <1>16, <1>17, <1>18, <1>19, <1>20, <1>21, <1>22, <1>23, <1>24, <1>25, <1>27
  DEF Next, SendText, SendImg, AudioInput, SockThread, Gui, Connect, User, Environment,
      Receives

----------------------------------------------------------------------------
\* Texts and requests.

\* What is on its way has numbers up to texted, and in a connection all of those that
\* are not written, in order.
WholeInv ==
  /\ written <= texted /\ Within(Whole, texted)
  /\ conn => Way(Whole, written, texted)

\* It says what is to be shown.
LEMMA WholeInvSuffices == WholeInv => NoTextLost
BY DEF WholeInv, NoTextLost, Within, Way, Covers, Rising

\* The inductive step.
LEMMA WholeStep ==
  ASSUME TypeOK, TypeOK', SessionInv, StopInv, Kinds, WholeInv, [Next]_vars
  PROVE  WholeInv'
<1>1. /\ written \in Nat /\ texted \in Nat /\ Whole \in Seq(Msg) /\ Whole' \in Seq(Msg)
      /\ conn \in BOOLEAN
  BY ScenarioBounds, StationsTyped, StationsNext DEF TypeOK, SocketType
<1>2. CASE Stands
  BY <1>2 DEF Stands, WholeInv
<1>3. CASE Slips
  <2>1. PICK s \in Seq(Msg), t \in Seq(Msg), m \in Msg :
               m.no = 0 /\ Whole = s \o t /\ Whole' = (s \o <<m>>) \o t
    BY <1>3 DEF Slips
  <2>2. UNCHANGED <<texted, written, conn>>
    BY <1>3 DEF Slips
  <2>3. Within(Whole', texted)
    <3>1. <<m>> \in Seq(Msg) /\ Range(<<m>>) = {m} /\ s \o <<m>> \in Seq(Msg)
      BY RangeOfOne
    <3>2. /\ Range(Whole') = Range(s) \cup {m} \cup Range(t)
          /\ Range(Whole) = Range(s) \cup Range(t)
      BY <2>1, <3>1, RangeJoined
    <3>3. m.no <= texted /\ \A x \in Range(s) \cup Range(t) : x.no <= texted
      BY <1>1, <2>1, <3>2 DEF WholeInv, Within
    <3> QED
      BY <3>2, <3>3 DEF Within
  <2>4. conn => Way(Whole', written, texted)
    <3>1. ASSUME conn PROVE Way(s \o t, written, texted) /\ Within(s \o t, texted)
      BY <2>1, <3>1 DEF WholeInv
    <3>2. ASSUME conn PROVE Way((s \o <<m>>) \o t, written, texted)
      BY <1>1, <2>1, <3>1, <3>2, WayInsert
    <3> QED
      BY <2>1, <3>2
  <2> QED
    BY <2>2, <2>3, <2>4 DEF WholeInv
<1>4. CASE Sends
  <2>1. PICK m \in Msg :
          /\ Whole = <<m>> \o Whole'
          /\ written' = IF conn /\ m.no > written THEN m.no ELSE written
    BY <1>4 DEF Sends
  <2>2. UNCHANGED <<texted, conn>>
    BY <1>4 DEF Sends
  <2>3. <<m>> \in Seq(Msg) /\ Range(Whole) = {m} \cup Range(Whole') /\ m.no \in Nat
    <3>1. <<m>> \in Seq(Msg) /\ Range(<<m>>) = {m} /\ m.no \in Nat
      BY RangeOfOne DEF Msg
    <3> QED
      BY <1>1, <2>1, <3>1, RangeJoined
  <2>4. Within(Whole', texted) /\ m.no <= texted
    BY <2>3 DEF WholeInv, Within
  <2>5. written' <= texted
    BY <2>1, <2>4 DEF WholeInv
  <2>6. ASSUME conn PROVE Way(Whole', written', texted)
    <3>1. Way(<<m>> \o Whole', written, texted)
      BY <2>1, <2>6 DEF WholeInv
    <3>2. /\ m.no <= written => Way(Whole', written, texted)
          /\ m.no > written => Way(Whole', m.no, texted)
      BY <1>1, <3>1, WayHead
    <3> QED
      BY <1>1, <2>1, <2>3, <2>6, <3>2
  <2> QED
    BY <2>2, <2>4, <2>5, <2>6 DEF WholeInv
<1>5. CASE Grows
  <2>1. PICK m \in Msg : m.no = texted + 1 /\ Whole' = Whole \o <<m>>
    BY <1>5 DEF Grows
  <2>2. texted' = texted + 1 /\ UNCHANGED <<written, conn>>
    BY <1>5 DEF Grows
  <2>3. /\ Within(Whole', texted + 1)
        /\ Way(Whole, written, texted) => Way(Whole', written, texted + 1)
    BY <1>1, <2>1, WayAppend DEF WholeInv
  <2>4. written <= texted + 1
    BY <1>1 DEF WholeInv
  <2> QED
    BY <2>2, <2>3, <2>4 DEF WholeInv
<1>6. CASE Connects
  <2>1. Whole' = Whole /\ texted' = texted /\ written' = texted
    BY <1>6 DEF Connects
  <2>2. Within(Whole, texted) /\ Way(Whole, texted, texted)
    BY <1>1, WayOfNone DEF WholeInv
  <2> QED
    BY <1>1, <2>1, <2>2 DEF WholeInv
<1>7. CASE Drops
  <2>1. Within(Whole', texted)
    BY <1>7 DEF Drops, WholeInv, Within
  <2> QED
    BY <1>7, <2>1 DEF Drops, WholeInv
<1> QED
  BY <1>2, <1>3, <1>4, <1>5, <1>6, <1>7, Moves

\* At first there is nothing, and no connection.
LEMMA InitWhole == Init => SessionInv /\ StopInv /\ Kinds /\ WholeInv
<1> SUFFICES ASSUME Init PROVE SessionInv /\ StopInv /\ Kinds /\ WholeInv
  OBVIOUS
<1>1. SessionInv /\ StopInv
  BY DEF Init, SessionInv, StopInv
<1>2. Kinds
  BY DEF Init, Kinds, Producers
<1>3. Whole = << >>
  <2>1. Line = LineOf(<< >>, NoMsg, << >>) /\ Opt(held["SendText"]) = << >>
    BY LineIs, HandTyped DEF Init, Producers
  <2>2. Bodies(<< >>) = << >>
    <3>1. << >> \in Seq(TakenMsg)
      OBVIOUS
    <3>2. Bodies(<< >>) \in Seq(Msg) /\ Len(Bodies(<< >>)) = 0
      BY <3>1, BodiesTyped
    <3> QED
      BY <3>2
  <2>3. Line = << >>
    BY <2>1, <2>2, HandTyped DEF LineOf
  <2>4. texts = << >>
    BY DEF Init
  <2> QED
    BY <2>1, <2>3, <2>4 DEF Whole
<1>4. ~conn /\ written = 0 /\ texted = 0
  BY DEF Init
<1>5. WholeInv
  BY <1>3, <1>4, RangeOfOne DEF WholeInv, Within
<1> QED
  BY <1>1, <1>2, <1>5

\* As long as a connection lasts, what the user texts and requests reaches it: nothing
\* is lost, doubled or overtaken between the click and the socket, by way of SendText,
\* queue_send, run() and the calls posted to the socket's thread, whatever the camera
\* and the microphone send meanwhile.
THEOREM NoTextIsLost == Spec => []NoTextLost
<1> DEFINE I == SessionInv /\ StopInv /\ Kinds /\ WholeInv
<1>1. Init => I
  BY InitWhole
<1>2. TypeOK /\ TypeOK' /\ I /\ [Next]_vars => I'
  BY SessionStep, StopStep, KindsStep, WholeStep
<1>3. I => NoTextLost
  BY WholeInvSuffices
<1> QED
  BY <1>1, <1>2, <1>3, TypeCorrect, PTL DEF Spec

----------------------------------------------------------------------------
\* The loading picture.

\* A text shown as loading in a connection is on its way, or the news of one is.
MarkInv ==
  conn /\ Waiting =>
    over > 0 \/ \E msg \in Range(Whole) : msg.no > written /\ msg.type = "TEXT_SEND"

\* The inductive step.
LEMMA MarkStep ==
  ASSUME TypeOK, TypeOK', SessionInv, StopInv, Kinds, WholeInv, MarkInv, [Next]_vars
  PROVE  MarkInv'
<1>1. /\ written \in Nat /\ texted \in Nat /\ Whole \in Seq(Msg) /\ Whole' \in Seq(Msg)
      /\ over \in Nat
  BY ScenarioBounds, StationsTyped, StationsNext DEF TypeOK, SocketType
<1>2. CASE Stands
  BY <1>2 DEF Stands, MarkInv
<1>3. CASE Slips
  <2>1. PICK s \in Seq(Msg), t \in Seq(Msg), m \in Msg :
               Whole = s \o t /\ Whole' = (s \o <<m>>) \o t
    BY <1>3 DEF Slips
  <2>2. UNCHANGED <<written, conn, list, over>>
    BY <1>3 DEF Slips
  <2>3. Range(Whole) \subseteq Range(Whole')
    <3>1. <<m>> \in Seq(Msg) /\ s \o <<m>> \in Seq(Msg)
      OBVIOUS
    <3> QED
      BY <2>1, <3>1, RangeJoined
  <2> QED
    BY <2>2, <2>3 DEF MarkInv, Waiting, list
<1>4. CASE Sends
  <2>1. PICK m \in Msg :
          /\ Whole = <<m>> \o Whole'
          /\ written' = IF conn /\ m.no > written THEN m.no ELSE written
          /\ over' = IF Tells(m) THEN over + 1 ELSE over
    BY <1>4 DEF Sends
  <2>2. UNCHANGED <<texted, conn, list>>
    BY <1>4 DEF Sends
  <2>3. Range(Whole) = {m} \cup Range(Whole') /\ m.no \in Nat
    <3>1. <<m>> \in Seq(Msg) /\ Range(<<m>>) = {m} /\ m.no \in Nat
      BY RangeOfOne DEF Msg
    <3> QED
      BY <1>1, <2>1, <3>1, RangeJoined
  <2> SUFFICES ASSUME conn, Waiting, over' = 0
               PROVE  \E msg \in Range(Whole') : msg.no > written' /\ msg.type = "TEXT_SEND"
    <3>1. over' \in Nat
      BY <1>1, <2>1
    <3> QED
      BY <2>2, <3>1 DEF MarkInv, Waiting, list
  <2>4. over = 0 /\ ~Tells(m)
    BY <1>1, <2>1
  <2>5. PICK b \in Range(Whole) : b.no > written /\ b.type = "TEXT_SEND"
    BY <2>4 DEF MarkInv
  <2>6. b \in Range(Whole')
    BY <2>3, <2>4, <2>5 DEF Tells
  <2>7. Way(<<m>> \o Whole', written, texted)
    BY <2>1 DEF WholeInv
  <2>8. m.no > written => b.no > m.no
    BY <1>1, <2>5, <2>6, <2>7, WayHead
  <2> QED
    BY <2>1, <2>5, <2>6, <2>8
<1>5. CASE Grows
  <2>1. PICK m \in Msg :
          /\ m.no = texted + 1 /\ Whole' = Whole \o <<m>>
          /\ UNCHANGED list \/ m.type = "TEXT_SEND"
    BY <1>5 DEF Grows
  <2>2. UNCHANGED <<written, conn, over>>
    BY <1>5 DEF Grows
  <2>3. Range(Whole') = Range(Whole) \cup {m}
    <3>1. <<m>> \in Seq(Msg) /\ Range(<<m>>) = {m}
      BY RangeOfOne
    <3>2. Range(Whole \o <<m>>) = Range(Whole) \cup Range(<<m>>)
      BY <1>1, <3>1, RangeJoined
    <3> QED
      BY <2>1, <3>1, <3>2
  <2>4. m.no > written
    BY <1>1, <2>1 DEF WholeInv
  <2> QED
    BY <2>1, <2>2, <2>3, <2>4 DEF MarkInv, Waiting, list
<1>6. CASE Connects \/ Drops
  BY <1>6 DEF Connects, Drops, MarkInv, Waiting
<1> QED
  BY <1>2, <1>3, <1>4, <1>5, <1>6, Moves

\* A text does not stay marked as loading for want of news: as long as its connection
\* lasts, it or a text behind it is on its way to sendData, or sendTextOver is to the
\* GUI.
THEOREM LastIsMarkedInTime == Spec => []LastIsMarked
<1> DEFINE I == SessionInv /\ StopInv /\ Kinds /\ WholeInv /\ MarkInv
<1>1. Init => MarkInv
  BY DEF Init, MarkInv, Waiting
<1>2. Init => SessionInv /\ StopInv /\ Kinds /\ WholeInv
  BY InitWhole
<1>3. TypeOK /\ TypeOK' /\ I /\ [Next]_vars => I'
  BY SessionStep, StopStep, KindsStep, WholeStep, MarkStep
<1>4. I => LastIsMarked
  BY DEF MarkInv, LastIsMarked, Waiting
<1> QED
  BY <1>1, <1>2, <1>3, <1>4, TypeCorrect, PTL DEF Spec

----------------------------------------------------------------------------
\* The last picture of a camera.

\* From the message with number k on there is one picture at most, and none when
\* there is one to come.
OneBehind(s, k, more) ==
  \A i \in DOMAIN s : s[i].no = k =>
    /\ \A j, l \in i..Len(s) : s[j].type = "IMG_SEND" /\ s[l].type = "IMG_SEND" => j = l
    /\ more => \A j \in i..Len(s) : s[j].type # "IMG_SEND"

\* The picture that was to come, or none.
LEMMA OneBehindLess ==
  \A s, k : OneBehind(s, k, TRUE) => OneBehind(s, k, FALSE)
BY DEF OneBehind

\* The first leaves.
LEMMA OneBehindHead ==
  ASSUME NEW s \in Seq(Msg), NEW m \in Msg, NEW k \in Nat, NEW more \in BOOLEAN,
         OneBehind(<<m>> \o s, k, more)
  PROVE  OneBehind(s, k, more)
<1> DEFINE w == <<m>> \o s
<1>1. /\ Len(w) = 1 + Len(s) /\ Len(s) \in Nat /\ DOMAIN s = 1..Len(s)
      /\ DOMAIN w = 1..(1 + Len(s)) /\ \A i \in 1..Len(s) : w[i + 1] = s[i]
  OBVIOUS
<1>2. OneBehind(w, k, more)
  OBVIOUS
<1> HIDE DEF w
<1> SUFFICES ASSUME NEW i \in 1..Len(s), s[i].no = k
             PROVE  /\ \A j, l \in i..Len(s) :
                         s[j].type = "IMG_SEND" /\ s[l].type = "IMG_SEND" => j = l
                    /\ more => \A j \in i..Len(s) : s[j].type # "IMG_SEND"
  BY <1>1 DEF OneBehind
<1>3. i + 1 \in DOMAIN w /\ w[i + 1].no = k
  BY <1>1
<1>4. /\ \A j, l \in (i + 1)..Len(w) :
           w[j].type = "IMG_SEND" /\ w[l].type = "IMG_SEND" => j = l
      /\ more => \A j \in (i + 1)..Len(w) : w[j].type # "IMG_SEND"
  BY <1>2, <1>3 DEF OneBehind
<1>5. \A j \in i..Len(s) : j \in 1..Len(s) /\ j + 1 \in (i + 1)..Len(w) /\ w[j + 1] = s[j]
  BY <1>1
<1>6. ASSUME NEW j \in i..Len(s), NEW l \in i..Len(s),
             s[j].type = "IMG_SEND", s[l].type = "IMG_SEND"
      PROVE  j = l
  <2>1. j + 1 = l + 1
    BY <1>4, <1>5, <1>6
  <2> QED
    BY <2>1
<1>7. ASSUME more, NEW j \in i..Len(s) PROVE s[j].type # "IMG_SEND"
  BY <1>4, <1>5, <1>7
<1> QED
  BY <1>6, <1>7

\* The last ones go.
LEMMA OneBehindCut ==
  ASSUME NEW s \in Seq(Msg), NEW t \in Seq(Msg), NEW k \in Nat, NEW more \in BOOLEAN,
         OneBehind(s \o t, k, more)
  PROVE  OneBehind(s, k, more)
<1> DEFINE w == s \o t
<1>1. /\ Len(w) = Len(s) + Len(t) /\ Len(s) \in Nat /\ Len(t) \in Nat
      /\ DOMAIN s = 1..Len(s) /\ DOMAIN w = 1..(Len(s) + Len(t))
      /\ \A i \in 1..Len(s) : w[i] = s[i]
  OBVIOUS
<1>2. OneBehind(w, k, more)
  OBVIOUS
<1> HIDE DEF w
<1> SUFFICES ASSUME NEW i \in 1..Len(s), s[i].no = k
             PROVE  /\ \A j, l \in i..Len(s) :
                         s[j].type = "IMG_SEND" /\ s[l].type = "IMG_SEND" => j = l
                    /\ more => \A j \in i..Len(s) : s[j].type # "IMG_SEND"
  BY <1>1 DEF OneBehind
<1>3. i \in DOMAIN w /\ w[i].no = k
  BY <1>1
<1>4. /\ \A j, l \in i..Len(w) :
           w[j].type = "IMG_SEND" /\ w[l].type = "IMG_SEND" => j = l
      /\ more => \A j \in i..Len(w) : w[j].type # "IMG_SEND"
  BY <1>2, <1>3 DEF OneBehind
<1>5. \A j \in i..Len(s) : j \in 1..Len(s) /\ j \in i..Len(w) /\ w[j] = s[j]
  BY <1>1
<1> QED
  BY <1>4, <1>5

\* One more: no picture, or the one that was to come.
LEMMA OneBehindPush ==
  ASSUME NEW s \in Seq(Msg), NEW m \in Msg, NEW k \in Nat, NEW more \in BOOLEAN,
         OneBehind(s, k, more)
  PROVE  /\ m.type # "IMG_SEND" => OneBehind(s \o <<m>>, k, more)
         /\ more /\ m.no # k => OneBehind(s \o <<m>>, k, FALSE)
<1> DEFINE w == s \o <<m>>
<1>1. /\ Len(w) = Len(s) + 1 /\ Len(s) \in Nat /\ DOMAIN s = 1..Len(s)
      /\ DOMAIN w = 1..(Len(s) + 1) /\ w[Len(s) + 1] = m
      /\ \A i \in 1..Len(s) : w[i] = s[i]
  OBVIOUS
<1> HIDE DEF w
<1>2. \A i \in 1..Len(s) : \A j \in i..Len(w) :
        j = Len(s) + 1 \/ (j \in i..Len(s) /\ w[j] = s[j])
  BY <1>1
<1>3. ASSUME NEW i \in 1..Len(s), w[i].no = k
      PROVE  /\ \A j, l \in i..Len(s) :
                  s[j].type = "IMG_SEND" /\ s[l].type = "IMG_SEND" => j = l
             /\ more => \A j \in i..Len(s) : s[j].type # "IMG_SEND"
  BY <1>1, <1>3 DEF OneBehind
<1>4. ASSUME m.type # "IMG_SEND" PROVE OneBehind(w, k, more)
  <2> SUFFICES ASSUME NEW i \in 1..(Len(s) + 1), w[i].no = k
               PROVE  /\ \A j, l \in i..Len(w) :
                           w[j].type = "IMG_SEND" /\ w[l].type = "IMG_SEND" => j = l
                      /\ more => \A j \in i..Len(w) : w[j].type # "IMG_SEND"
    BY <1>1 DEF OneBehind
  <2>1. CASE i \in 1..Len(s)
    BY <1>1, <1>2, <1>3, <1>4, <2>1
  <2>2. CASE i = Len(s) + 1
    <3>1. \A j \in i..Len(w) : j = Len(s) + 1
      BY <1>1, <2>2
    <3> QED
      BY <1>1, <1>4, <3>1
  <2>3. i \in 1..Len(s) \/ i = Len(s) + 1
    BY <1>1
  <2> QED
    BY <2>1, <2>2, <2>3
<1>5. ASSUME more, m.no # k PROVE OneBehind(w, k, FALSE)
  <2> SUFFICES ASSUME NEW i \in 1..(Len(s) + 1), w[i].no = k
               PROVE  \A j, l \in i..Len(w) :
                        w[j].type = "IMG_SEND" /\ w[l].type = "IMG_SEND" => j = l
    BY <1>1 DEF OneBehind
  <2>1. i \in 1..Len(s)
    BY <1>1, <1>5
  <2>2. \A j \in i..Len(w) : w[j].type = "IMG_SEND" => j = Len(s) + 1
    BY <1>2, <1>3, <1>5, <2>1
  <2> QED
    BY <2>2
<1> QED
  BY <1>4, <1>5 DEF w

\* A camera that was switched off has no thread to send its pictures.
FrameInv ==
  /\ shut > 0 => ~imgThread
  /\ shut > 0 => OneBehind(Line, shut, held["SendImg"] # NoMsg)

\* It says what is to be shown.
LEMMA FrameInvSuffices == TypeOK /\ FrameInv => LastFrame
<1> SUFFICES ASSUME TypeOK, FrameInv PROVE LastFrame
  OBVIOUS
<1>1. Line \in Seq(Msg)
  BY StationsTyped
<1> HIDE DEF Line
<1> SUFFICES ASSUME NEW i \in DOMAIN Line, shut > 0, Line[i].no = shut
             PROVE  LET behind == {j \in i..Len(Line) : Line[j].type = "IMG_SEND"}
                    IN  /\ \A j, k \in behind : j = k
                        /\ held["SendImg"] # NoMsg => behind = {}
  BY DEF LastFrame
<1> DEFINE behind == {j \in i..Len(Line) : Line[j].type = "IMG_SEND"}
<1>2. OneBehind(Line, shut, held["SendImg"] # NoMsg)
  BY DEF FrameInv
<1>3. \A j, k \in behind : j = k
  BY <1>2 DEF OneBehind
<1>4. held["SendImg"] # NoMsg => behind = {}
  BY <1>2 DEF OneBehind
<1> QED
  BY <1>3, <1>4

\* A step that leaves the line and the camera alone.
LEMMA FrameFrame ==
  ASSUME FrameInv, UNCHANGED <<posted, taken, queue_send, shut>>,
         held'["SendImg"] = held["SendImg"], imgThread' => imgThread
  PROVE  FrameInv'
<1>1. Line' = Line
  BY DEF Line
<1> QED
  BY <1>1 DEF FrameInv

\* The inductive step.
LEMMA FrameStep ==
  ASSUME TypeOK, TypeOK', Kinds, WholeInv, FrameInv, [Next]_vars
  PROVE  FrameInv'
<1> DEFINE h == held["SendImg"] # NoMsg
<1>0. /\ shut \in Nat /\ texted \in Nat /\ Line \in Seq(Msg) /\ Line' \in Seq(Msg)
      /\ h \in BOOLEAN
  BY ScenarioBounds, StationsTyped, StationsNext DEF TypeOK
<1>1. CASE UNCHANGED <<posted, taken, queue_send, shut, held, imgThread>>
  BY <1>1, FrameFrame
<1>2. ASSUME Line' = Line, UNCHANGED <<shut, held, imgThread>> PROVE FrameInv'
  BY <1>2 DEF FrameInv
<1>3. ASSUME NEW p \in Producers, Push(p) PROVE FrameInv'
  <2> DEFINE m == held[p]
  <2>1. /\ m \in Msg /\ queue_send' = Append(queue_send, m)
        /\ held' = [held EXCEPT ![p] = NoMsg]
        /\ UNCHANGED <<posted, taken, shut, imgThread>>
    BY <1>3, StationsTyped DEF Push, Awake, socket, thread, count, video
  <2>2. Line' = Line \o <<m>>
    BY <2>1, StationsTyped, LinePush, LineIs
  <2>3. ASSUME shut > 0, p = "SendImg"
        PROVE  OneBehind(Line', shut', held'["SendImg"] # NoMsg)
    <3>1. OneBehind(Line, shut, TRUE) /\ m.no = 0 /\ held'["SendImg"] = NoMsg
      BY <2>1, <2>3, StationsTyped, HandTyped DEF FrameInv, Kinds
    <3>2. m.no # shut
      BY <1>0, <2>3, <3>1
    <3> HIDE DEF m
    <3>3. OneBehind(Line \o <<m>>, shut, FALSE)
      BY <1>0, <2>1, <3>1, <3>2, OneBehindPush
    <3> QED
      BY <2>1, <2>2, <3>1, <3>3
  <2>4. ASSUME shut > 0, p # "SendImg"
        PROVE  OneBehind(Line', shut', held'["SendImg"] # NoMsg)
    <3>1. OneBehind(Line, shut, h) /\ held'["SendImg"] = held["SendImg"]
      BY <2>1, <2>4, StationsTyped DEF FrameInv
    <3>2. m.type # "IMG_SEND"
      BY <2>1, <2>4, StationsTyped, HandTyped DEF Kinds
    <3> HIDE DEF m, h
    <3>3. OneBehind(Line \o <<m>>, shut, h)
      BY <1>0, <2>1, <3>1, <3>2, OneBehindPush
    <3> QED
      BY <2>1, <2>2, <3>1, <3>3 DEF h
  <2> QED
    BY <2>1, <2>3, <2>4 DEF FrameInv
<1>4. CASE TakeText \/ Collect
  <2>1. PICK p \in {"SendText", "AudioInput"} : \E m : held' = [held EXCEPT ![p] = m]
    BY <1>4 DEF TakeText, Collect, Hold
  <2>2. UNCHANGED <<posted, taken, queue_send, shut, imgThread>>
    BY <1>4 DEF TakeText, Collect, socket, thread, queue, count, video
  <2>3. held'["SendImg"] = held["SendImg"]
    BY <2>1, StationsTyped
  <2> QED
    BY <2>2, <2>3, FrameFrame
<1>5. CASE TakeFrame
  <2>1. imgThread /\ UNCHANGED <<shut, imgThread>>
    BY <1>5 DEF TakeFrame, FrameReady, count, video
  <2> QED
    BY <2>1 DEF FrameInv
<1>6. CASE PushWait("SendText") \/ PushWait("SendImg") \/ PushWait("AudioInput")
             \/ MicCall \/ MicFails
  BY <1>1, <1>6 DEF PushWait, MicCall, MicFails, socket, thread, input, count, video, queue
<1>7. CASE Writer
  <2>1. UNCHANGED <<shut, held, imgThread>>
    BY <1>7
    DEF Writer, RunStarts, TestStop, PopSend, PopWait, PopTimeout, PostSendData, input,
        count, video
  <2>2. Line' = Line
    BY <1>7, WriterLine
  <2> QED
    BY <1>2, <2>1, <2>2
<1>8. CASE SendData
  <2> DEFINE m == Head(posted).msg
  <2>1. /\ posted # << >> /\ posted' = Tail(posted)
        /\ UNCHANGED <<taken, queue_send, held, shut, imgThread>>
    BY <1>8 DEF SendData, thread, queue, input, video
  <2>2. m \in Msg /\ Line = <<m>> \o Line'
    BY <2>1, StationsTyped, LineHead, LineIs
  <2> HIDE DEF m
  <2>3. ASSUME shut > 0 PROVE OneBehind(Line', shut, h)
    <3>1. OneBehind(<<m>> \o Line', shut, h)
      BY <2>2, <2>3 DEF FrameInv
    <3> HIDE DEF h
    <3> QED
      BY <1>0, <2>2, <3>1, OneBehindHead
  <2> QED
    BY <2>1, <2>3 DEF FrameInv
<1>9. CASE PushSound \/ PushRecv \/ CloseSocket \/ RecvSolve \/ Play \/ Receives
             \/ ConnectionLost \/ News
  BY <1>1, <1>9
  DEF PushSound, PushRecv, CloseSocket, RecvSolve, TakeRecv, RecvEnds, Play, Receives,
      ReceiveSound, ReceiveNews, ConnectionLost, News, socket, thread, queue, input, count,
      video
<1>10. CASE EnterMeeting \/ PartnerComes \/ RemovePartner \/ DeviceFails \/ CameraFrame
              \/ TextRecv \/ TextSend
  BY <1>1, <1>10
  DEF EnterMeeting, PartnerComes, RemovePartner, DeviceFails, CameraFrame, TextRecv,
      TextSend, socket, thread, queue, input, count, video
<1>11. CASE SendMsg \/ JoinMeet \/ OpenAudio \/ ConnServer \/ Connect
  BY <1>1, <1>11
  DEF SendMsg, JoinMeet, OpenAudio, ConnServer, Connect, Connected, ConnectTimeout,
      ConnectFails, PushRefused, PushText, socket, thread, queue, input, count, video
<1>12. CASE OpenVedio
  BY <1>0, <1>12 DEF OpenVedio, FrameInv
<1>13. CASE CloseVedio
  <2>1. /\ imgThread' = FALSE /\ shut' = texted + 1
        /\ UNCHANGED <<posted, taken, queue_send, held>>
    BY <1>13 DEF CloseVedio, QuitImgThread, PushText, socket, thread, queue
  <2>2. Line' = Line
    BY <2>1 DEF Line
  <2>3. \A i \in DOMAIN Line : Line[i].no # texted + 1
    <3>1. Range(Whole) = Range(Line) \cup Range(Rest)
      BY StationsTyped, RangeJoined
    <3>2. \A m \in Range(Line) : m.no <= texted /\ m.no \in Nat
      BY <1>0, <3>1, RangeTyped DEF WholeInv, Within
    <3>3. \A i \in DOMAIN Line : Line[i] \in Range(Line)
      BY DEF Range
    <3> QED
      BY <1>0, <3>2, <3>3
  <2> QED
    BY <2>1, <2>2, <2>3 DEF FrameInv, OneBehind
<1>14. CASE ExitMeet \/ NetError
  <2>1. UNCHANGED <<posted, taken, queue_send, shut, held>>
    BY <1>14 DEF ExitMeet, NetError, Leave, queue, count
  <2>2. imgThread' => imgThread
    BY <1>14 DEF ExitMeet, NetError, Leave, ClearPartner, QuitImgThread
  <2> QED
    BY <2>1, <2>2, FrameFrame
<1>15. CASE ClearQueues
  <2>1. queue_send' = << >> /\ UNCHANGED <<posted, taken, held, shut, imgThread>>
    BY <1>15 DEF ClearQueues, socket, thread, input, count, video
  <2>2. Line = Line' \o queue_send /\ queue_send \in Seq(Msg)
    BY <2>1, StationsTyped, LineCleared, LineIs
  <2>3. ASSUME shut > 0 PROVE OneBehind(Line', shut, h)
    <3>1. OneBehind(Line' \o queue_send, shut, h)
      BY <2>2, <2>3 DEF FrameInv
    <3> HIDE DEF h
    <3> QED
      BY <1>0, <2>2, <3>1, OneBehindCut
  <2> QED
    BY <2>1, <2>3 DEF FrameInv
<1>16. CASE Joined \/ CloseWindow \/ StopRecv \/ ProducersEnded
  BY <1>1, <1>16
  DEF Joined, CloseWindow, StopRecv, ProducersEnded, socket, thread, queue, input, count,
      video
<1>17. CASE StopProducers
  <2>1. imgThread' = FALSE /\ UNCHANGED <<posted, taken, queue_send, shut, held>>
    BY <1>17 DEF StopProducers, QuitImgThread, socket, thread, queue, count
  <2> QED
    BY <2>1, FrameFrame
<1>18. CASE UNCHANGED vars
  BY <1>1, <1>18 DEF vars, socket, thread, queue, input, count, video
<1>19. Push("SendText") \/ Push("SendImg") \/ Push("AudioInput") => FrameInv'
  <2>1. Producers = {"SendText", "SendImg", "AudioInput"}
    BY DEF Producers
  <2> QED
    BY <1>3, <2>1
<1> QED
  BY <1>4, <1>5, <1>6, <1>7, <1>8, <1>9, <1>10, <1>11, <1>12, <1>13, <1>14, <1>15, <1>16,
     <1>17, <1>18, <1>19
  DEF Next, SendText, SendImg, AudioInput, SockThread, Gui, User, Environment, Receives

\* The picture SendImg had in its hands when the camera was switched off may follow the
\* CLOSE_CAMERA to the server, but no other one does: clearImgQueue and the end of the
\* thread keep back whatever else there was.
THEOREM LastFrameIsLast == Spec => []LastFrame
<1> DEFINE I == SessionInv /\ StopInv /\ Kinds /\ WholeInv /\ FrameInv
<1>1. Init => FrameInv
  BY DEF Init, FrameInv
<1>2. Init => SessionInv /\ StopInv /\ Kinds /\ WholeInv
  BY InitWhole
<1>3. TypeOK /\ TypeOK' /\ I /\ [Next]_vars => I'
  BY SessionStep, StopStep, KindsStep, WholeStep, FrameStep
<1>4. TypeOK /\ I => LastFrame
  BY FrameInvSuffices
<1> QED
  BY <1>1, <1>2, <1>3, <1>4, TypeCorrect, PTL DEF Spec
=============================================================================
