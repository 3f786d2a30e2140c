\* A third client lets the server, which repeats links, introduce one that has a
\* partner to another.
CONSTANTS
  Client = {a, b, c}
  Punchline = {p}
  None = None
  MaxLinks = 2
CHECK_DEADLOCK FALSE
SPECIFICATION FairSpec
INVARIANTS TypeOK UpIsAMatching
PROPERTY IntroducedComesUp
