CONSTANTS
  Client = {a, b}
  Punchline = {p, q}
  RollingId = {0, 1}
  TimeoutDelay = 0
  None = None
  OtherVersion = OtherVersion
  MaxInFlight = 2
SPECIFICATION Spec
INVARIANT LinkedClientsDoNotWait
