SPECIFICATION FairSpec
CHECK_DEADLOCK FALSE
CONSTANTS
  Calls = {k1}
  MaxRestarts = 1
  MaxRelaunches = 1
INVARIANTS
  AnswersMatchCalls
  OneWantedEngine
PROPERTIES
  CallsSettle
  EnginesEnd
