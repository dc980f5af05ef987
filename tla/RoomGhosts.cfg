SPECIFICATION Spec
CONSTANTS
  Conns = {ann, bob}
  Creators = {ann}
  Leavers = {bob}
  Talkers = {}
  FDs = {1, 2}
  Senders = {s1}
  Ips = {ann, bob}
  IpOf <- OwnIp
  DataTypes = {"TEXT_RECV"}
  Plans <- LeaveAndSpeak
  MaxSize = 2
  Stray = FALSE
  NoConn = NoConn
  BadIp = BadIp
  NoIp = NoIp
  NoMsg = NoMsg
  Free = Free
INVARIANTS NoGhosts
