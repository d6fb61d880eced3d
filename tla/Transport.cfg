SPECIFICATION FairSpec
CONSTANTS
  c1 = c1
  c2 = c2
  NoCoro = NoCoro
  Coros = {c1, c2}
  Main = c1
  Addresses = 2
  MaxOps = 2
  MaxImmediate = 1
  MaxPieces = 2
INVARIANTS OperationResumedOnce TimerPerOperation KeptWhileInUse
PROPERTY OperationEnds
