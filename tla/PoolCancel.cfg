SPECIFICATION LoopSpec
CONSTANTS
  r1 = r1
  r2 = r2
  r3 = r3
  o1 = o1
  o2 = o2
  NoReq = NoReq
  NoConn = NoConn
  NoOrigin = NoOrigin
  All = All
  MaxConnections = 1
  PoolSize = 1
  MaxRedirects = 0
  Challenged = {}
  Redirected = {}
  Requests = {r1, r2}
  Origins = {o1}
  SecureOrigins = {o1}
  Conns = {c1, c2}
  Idempotent = {r2}
  WithStopToken = {r1}
  WithFlag = {}
  WithDeadline = {r2}
  MaxCancelAll = 1
INVARIANTS ExactCancellation CancelReachesConnection
PROPERTIES CancelledEnds EveryRequestEnds
