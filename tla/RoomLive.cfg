SPECIFICATION LiveSpec
CONSTANTS
  Conns = {ann, bob, cy}
  Creators = {ann}
  Leavers = {ann, bob}
  Talkers = {ann, bob}
  FDs = {1, 2}
  Senders = {s1}
  Ips = {ann, bob, cy}
  IpOf <- OwnIp
  DataTypes = {"TEXT_RECV"}
  Plans <- LeaveOrSpeak
  MaxSize = 1
  Stray = FALSE
  NoConn = NoConn
  BadIp = BadIp
  NoIp = NoIp
  NoMsg = NoMsg
  Free = Free
PROPERTIES GoneAreDropped TextReachesMembers EndsWithOwner
