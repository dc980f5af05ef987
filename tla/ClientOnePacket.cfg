SPECIFICATION LiveSpec
CONSTANTS
  Me = me
  Others = {ann}
  NoIp = noip
  QueueMax = 3
  MaxAttempts = 1
  MaxPackets = 2
  NoMsg = NoMsg
PROPERTIES AllTakenIn
CHECK_DEADLOCK FALSE
