SPECIFICATION FairSpec
CONSTANTS
  Sessions = {s1}
  Listeners = {l1}
  Stoppers = {p1}
  MaxRequests = 2
  Tls = TRUE
  MaxCalls = 2
  NoSession = NoSession
  NoThread = NoThread
INVARIANT IdleSwept
PROPERTY StopEnds
