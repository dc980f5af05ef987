SPECIFICATION Spec
CONSTANTS
  Conns = {ann, bob, cy}
  Creators = {ann, cy}
  Leavers = {ann, bob}
  Talkers = {ann, bob, cy}
  FDs = {1, 2}
  Senders = {s1}
  Ips = {ann, bob, cy}
  IpOf <- OwnIp
  DataTypes = {"TEXT_RECV"}
  Plans <- LeaveAndSpeak
  MaxSize = 2
  Stray = FALSE
  NoConn = NoConn
  BadIp = BadIp
  NoIp = NoIp
  NoMsg = NoMsg
  Free = Free
INVARIANTS TextStaysInMeeting
