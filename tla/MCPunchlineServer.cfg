\* Two sockets and two punchlines: enough to link two clients, to cancel or time out
\* one while the other waits, and, as resends come late, to reuse an index label.
CONSTANTS
  Client = {a, b}
  Punchline = {p, q}
  RollingId = {0}
  TimeoutDelay = 1
  None = None
  OtherVersion = OtherVersion
  MaxInFlight = 2
SPECIFICATION FairSpec
INVARIANTS TypeOK ServerInv
PROPERTIES ImplementsRendezvous NobodyWaitsForever TimedOutGetsEnd
