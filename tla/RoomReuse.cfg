SPECIFICATION Spec
CONSTANTS
  Conns = {ann, bob, cy, dee}
  Creators = {ann, cy}
  Leavers = {ann, bob}
  Talkers = {dee}
  FDs = {1, 2}
  Senders = {s1}
  Ips = {ann, bob, cy, dee}
  DataTypes = {"TEXT_RECV"}
  Plans <- LeaveAndSpeak
  MaxSize = 2
  Stray = TRUE
  IpOf <- OwnIp
  NoConn = NoConn
  BadIp = BadIp
  NoIp = NoIp
  NoMsg = NoMsg
  Free = Free
INVARIANTS EmptyWhenReported OneMeeting WatchedAreOpen
PROPERTIES IsAMeeting SpeakerIsNamed
