\* Two messages of up to three chunks, and one fire-and-forget package among them.
CONSTANTS
  MaxChunks = 3
  MaxMessages = 2
  MaxFaf = 1
  MaxWaiting = 1
  None = None
CHECK_DEADLOCK FALSE
SPECIFICATION FairSpec
INVARIANTS TypeOK EarlierDataFirst OneAtATime NothingLost
PROPERTIES ImplementsMessageQueue NoGapWhileUp DisconnectDelivers 
