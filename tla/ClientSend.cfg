SPECIFICATION LiveSpec
CONSTANTS
  Me = me
  Other = other
  NoIp = noip
  QueueMax = 0
  Scenarios <- SendScenarios
  NoMsg = NoMsg
INVARIANTS TypeOK NoTextLost OldPostsDropped LastIsMarked LastFrame MicOff
PROPERTIES StopEnds SendEnabledAgain CloseEnds
CHECK_DEADLOCK FALSE
