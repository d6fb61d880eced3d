SPECIFICATION FairSpec
CONSTANTS
  Sessions = {s1}
  Listeners = {l1}
  Stoppers = {p1}
  MaxRequests = 1
  Tls = FALSE
  MaxCalls = 1
  NoSession = NoSession
  NoThread = NoThread
PROPERTY ListenReturns
