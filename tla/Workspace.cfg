CONSTANTS
  p1 = p1 p2 = p2 d1 = d1 e1 = e1 e2 = e2 t1 = t1 t2 = t2
  en_de = en_de en_fr = en_fr hello = hello Hello = Hello bye = bye
  hallo = hallo term = term Term = Term word = word wort = wort Wort = Wort
  Projects = {p1, p2}
  Documents = {d1}
  Entries = {e1, e2}
  Terms = {t1, t2}
  Pairs = {en_de, en_fr}
  Sources = {hello, Hello, bye}
  Targets = {hallo}
  TermSources = {term, Term, word}
  TermTargets = {wort, Wort}
  None = None
  Migrations = 2
  MaxFailures = 1
  MaxCrashes = 1
  MaxWrites = 3
  HashOf <- MCHashOf
  KeyOf <- MCKeyOf
  Legacy <- MCLegacy
  TmFiles <- MCTmFiles
  TermFiles <- MCTermFiles
SPECIFICATION Spec
CHECK_DEADLOCK FALSE
INVARIANTS RamIsStored NothingComesBack EveryDocumentHasItsCopy PairsFit OneEntryPerTerm
PROPERTY StoreOpens
