SPECIFICATION Spec
CONSTANTS
  Depth = 3
  User = User
  Loop = Loop
  Workers = {w1, w2, w3}
  Jobs = {j1, j2, j3}
  NoJob = NoJob
  NoWorker = NoWorker
  PoolThreads = {t1, t2}
  LoopUsers = {l1}
  PlainUsers = {p1}
  MaxActions = 2
  MaxIoFaults = 1
INVARIANTS FrameLifetime ResumedOnce NoIdleWorker FileInOrder
PROPERTIES ChainEnds EveryJobRuns ActionsEnd
