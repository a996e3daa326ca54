CONSTANTS
  MaxTurns = 3
  MaxCalls = 2
  MaxAttempts = 3
SPECIFICATION FairSpec
INVARIANTS
  TypeOK
  ResultsAnswerCalls
  DefinedCallsRun
PROPERTIES
  StreamIsOrdered
  Terminates
CHECK_DEADLOCK FALSE
