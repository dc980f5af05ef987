SPECIFICATION LiveSpec
CONSTANTS
  Me = me
  Others = {ann}
  NoIp = noip
  QueueMax = 0
  MaxAttempts = 2
  MaxPackets = 3
  NoMsg = NoMsg
INVARIANTS NothingLost OfflineEmpty ListAsTold ConnectsOnce
PROPERTIES WaitsEnd CloseNoticed
\* The user may stop, and the threads may be Stuck.
CHECK_DEADLOCK FALSE
