SPECIFICATION Spec
CONSTANTS
  Sessions = {s1, s2}
  Listeners = {l1}
  Stoppers = {p1, p2}
  MaxRequests = 1
  Tls = FALSE
  MaxCalls = 1
  NoSession = NoSession
  NoThread = NoThread
SYMMETRY SessionSymmetry
INVARIANTS GracefulDrain DrainWakesStop NotStranded DrainedAtEnd
