CONSTANTS

  Segments = {s1, s2}
  Default = configured
  AddedIds = {id1}
  Assists = {r1, r2}
  Pieces = {text}
  None = None
  MaxProfiles = 2
  History = 0
  MaxPieces = 1
  MaxProfileCalls = 4
SPECIFICATION AssistSpec
CHECK_DEADLOCK FALSE
INVARIANTS CancelWins DefaultIsUsable
PROPERTY EveryRequestEnds
