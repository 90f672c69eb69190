SPECIFICATION Spec
CONSTANTS
  d1 = d1  d2 = d2  s1 = s1  s2 = s2  s3 = s3
  src1 = src1  src2 = src2  h1 = h1  h2 = h2
  t1 = t1  t2 = t2  m1 = m1  k1 = k1  e1 = e1
  Sources = {src1, src2}
  Targets = {t1, t2}
  Hashes = {h1, h2}
  HashOf <- MCHashOf
  Blank = Blank
  NoOrigin = NoOrigin
  MaxRevision = 3
  Segments = {s1, s3}
  Settings = {k1}
  TextRules = {"numbers"}
  Evidence <- MCEvidence
  NoFinding = NoFinding
  Clients = {c1}
  Documents = {d1, d2}
  DocOf <- MCDocOf
  Imported = {Blank}
  Edits = {t2}
  Stamps <- MCStamps
  SourceEdits = {src2}
  Rewrites <- MCRewrites
  Exchanged <- MCExchanged
  EntryEdits <- MCEntryEdits
  Memories = {m1}
  Rank <- MCRank
  Score <- MCScore
  MinScore = 75
  NoMemory = NoMemory
  NoEntry = NoEntry
  Unseen = Unseen
INVARIANTS
  RevisionNamesContent
  LearnedPairOnScreen
  ExactStampIsHonest
PROPERTIES
  AutomationNeverOverwrites
