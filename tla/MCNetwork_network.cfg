CONSTANTS
  NUM_RX = 3
  NUM_TX = 3
  NoFrame = NoFrame
  Frame <- frames
  Hosts = {9}
  Tries = 1
  Echoes = 1
  PumpMax = 1
  MaxPings = 2
  MaxNets = 1
  MaxArrivals = 2
SPECIFICATION NetworkSpec
INVARIANTS NetworkTypeOK DatagramsDelivered CacheFollowsArp
PROPERTIES NeverStale  TasksEnd
CHECK_DEADLOCK FALSE
