SPECIFICATION FairSpec
CHECK_DEADLOCK FALSE
CONSTANTS
  Runs = {r1, r2}
  Documents = {d1, d2}
  MaxTurns = 2
  MaxRunning = 2
  History = 0
  NoRun = NoRun
  Pruned = Pruned
INVARIANTS
  ReplyPerRequest
  CancelStopsTools
PROPERTIES
  RunsEnd
