SPECIFICATION AiSpec
CONSTANTS
  d1 = d1  s1 = s1  s2 = s2  src1 = src1  h1 = h1  t1 = t1  t2 = t2  m1 = m1  k1 = k1  k2 = k2  e1 = e1
  Sources = {src1}
  Targets = {t1, t2}
  Hashes = {h1}
  HashOf <- MCHashOf
  Blank = Blank
  NoOrigin = NoOrigin
  MaxRevision = 3
  Segments = {s1, s2}
  Settings = {k1, k2}
  TextRules = {"numbers"}
  Evidence <- MCEvidence
  NoFinding = NoFinding
  ErrorRules = {"numbers"}
  Correct <- MCCorrect
  Clients = {c1}
  Documents = {d1}
  DocOf <- MCDocOf
  Imported = {Blank}
  Edits = {t2}
  Stamps <- MCStamps
  SourceEdits = {}
  Rewrites = {}
  Exchanged = {}
  EntryEdits = {}
  Memories = {m1}
  Rank <- MCRank
  Score <- MCScore
  MinScore = 75
  NoMemory = NoMemory
  NoEntry = NoEntry
  Unseen = Unseen
  Answers = {t1, t2}
  Intact <- MCTagged
SYMMETRY MCAlike
VIEW MCView
CONSTRAINT MCMountsRead
INVARIANTS
  ConfirmedFindingsOnRecord
PROPERTIES
  WaiverHolds
  TurboConfirmsClean
  LockedIssuesUntouched
  GateLetsNothingSlip
