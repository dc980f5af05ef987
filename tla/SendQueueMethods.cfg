SPECIFICATION LiveSpec
CONSTANTS
  Producers = {reader, acceptor}
  Consumers = {s1, s2}
  Clearers = {reader}
  Msgs = {text}
  MaxSize = 8
INVARIANTS TypeInv NoSleepOverBacklog ProducerSleepsOnBacklog OneKindSleeps
PROPERTIES BacklogIsServed ProducerIsWoken
