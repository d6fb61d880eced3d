SPECIFICATION Spec
CONSTANTS
  NumRequests = 2
  MaxConns = 2
  Requests <- MCRequests
  Answers <- MCAnswers
  MaxUnits = 2
  MaxBody = 1
  MaxServed = 2
  MaxFaults = 1
INVARIANT ConnectionDelimited
CHECK_DEADLOCK FALSE
