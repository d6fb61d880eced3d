SPECIFICATION Spec
CONSTANTS
  r1 = r1
  r2 = r2
  r3 = r3
  o1 = o1
  o2 = o2
  NoReq = NoReq
  NoConn = NoConn
  NoOrigin = NoOrigin
  All = All
  MaxConnections = 1
  PoolSize = 1
  MaxRedirects = 1
  Challenged = {r1, r2, r3}
  Redirected = {r1, r2, r3}
  Requests = {r1, r2, r3}
  Origins = {o1}
  SecureOrigins = {}
  Conns = {c1, c2}
  Idempotent = {r3}
  WithStopToken = {r1}
  WithFlag = {r3}
  WithDeadline = {r2}
  MaxCancelAll = 0
INVARIANTS TypeOK NoLostWakeup ExclusiveLease SlotAccounting WithinLimits
PROPERTY ImplementsAllocator
SYMMETRY ConnSymmetry
CHECK_DEADLOCK FALSE
