SPECIFICATION Spec
CONSTANTS
  buffer_chunk_size = 1
  MINIMUM_IOVECS = 1
  NUMBER_OF_IOVECS = 2
  Handles = {1, 2}
  write_block_threshold = 0
  SocketRoom = 1
  MaxBacklog = 1
  NULL_WORD = NULL_WORD
  NUMBER_OF_CONTEXT_PRIORITIES = 2
  DaemonPriority = 0
  ResponderPriority = 1
  jiffies_between_yields = 1
  Lengths = {1, 2}
  MaxConnects = 2
  MaxSent = 3
  MaxCrashes = 1
INVARIANTS
  NoThreadLost
  StreamsIntact
PROPERTY EchoReturns
CHECK_DEADLOCK FALSE
