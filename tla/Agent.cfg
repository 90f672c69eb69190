SPECIFICATION FairSpec
CHECK_DEADLOCK FALSE
CONSTANTS
  d1 = d1  d2 = d2  s1 = s1  s2 = s2  s3 = s3
  src1 = src1  src2 = src2  h1 = h1  h2 = h2  t1 = t1  t2 = t2
  Sources = {src1}
  Targets = {t1, t2}
  Hashes = {h1}
  HashOf <- MCHashOf
  Blank = Blank
  NoOrigin = NoOrigin
  MaxRevision = 4
  Segments = {s1, s2}
  Documents = {d1}
  DocOf <- MCDocOf
  Runs = {r1, r2}
  Modes = {"manual", "turbo"}
  Edited = {s1}
  Typed = {t1}
  Answers = {t1, t2}
  Broken = {t2}
  Clean = {t1}
  MaxRunning = 2
  PoolSize = 2
  History = 0
  NoRun = NoRun
  Pruned = Pruned
INVARIANTS
  ExclusiveWork
  NothingLeftBehind
PROPERTIES
  OutcomesAreFinal
  PeopleWin
  RunsEnd
