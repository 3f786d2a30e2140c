\* One connection with a data package in each of two states, every interleaving.
CONSTANTS
  MaxConnects = 1
  MaxData = 2
  None = None
CHECK_DEADLOCK FALSE
SPECIFICATION FairSpec
INVARIANTS TypeOK NothingFollowsGivenUp DataGoesToPeer BlocksOnlyAtEnd
PROPERTIES DisconnectFlushes EndStopsSender EndEndsConnecting
