SPECIFICATION FairSpec
CONSTANTS
  NumRequests = 2
  MaxConns = 2
  Requests <- MCRequests
  Answers <- MCAnswers
  MaxUnits = 2
  MaxBody = 1
  MaxServed = 2
  MaxFaults = 1
INVARIANTS AnswersItsRequest HandledOnce BoundariesAgree FailureHasCause
PROPERTY RequestEnds
CHECK_DEADLOCK FALSE
