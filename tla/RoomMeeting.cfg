SPECIFICATION Spec
CONSTANTS
  Conns = {ann, bob, again}
  Creators = {ann}
  Leavers = {bob, again}
  Talkers = {}
  FDs = {1, 2, 3}
  Senders = {s1, s2}
  Ips = {"owner", "guest"}
  IpOf <- SameIp
  DataTypes = {"TEXT_RECV"}
  Plans <- LeaveAndSpeak
  MaxSize = 2
  Stray = FALSE
  NoConn = NoConn
  BadIp = BadIp
  NoIp = NoIp
  NoMsg = NoMsg
  Free = Free
SYMMETRY Symmetry
INVARIANTS TypeOK MaxfdCoversMembers NobodyMissing SendsToMembers
