\* A header of one chunk and a file of one or two.
CONSTANTS
  MaxChunks = 2
  MaxMessages = 2
  MaxFaf = 0
  MaxWaiting = 0
  None = None
CHECK_DEADLOCK FALSE
SPECIFICATION TransferSpec
INVARIANT ArrivedFileIsSaved
