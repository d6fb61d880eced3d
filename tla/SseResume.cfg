SPECIFICATION Spec
CONSTANTS
  MaxSizeLine = 3
  MaxHeader = 7
  MaxBody = 11
  MaxLine = 3
  MaxEvent = 4
  Throwing <- MCThrowing
  Messages <- MCMessages
  Ids <- MCIds
  Tokens <- MCTokens
INVARIANT ResumesAfterComplete
