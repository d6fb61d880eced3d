SPECIFICATION FairSpec
CONSTANTS
  MaxOps = 2
  MaxFrames = 3
  MaxFaults = 1
INVARIANTS DeliveredInOrder CloseFrameLast SessionReleases
PROPERTY ReaderReleased
CHECK_DEADLOCK FALSE
