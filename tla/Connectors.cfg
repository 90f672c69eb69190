CONSTANTS
  Ids = {id1, id2}
  Builtin = builtin
  Plugins = {v1, v2}
  Calls = {c1}
  Pieces = {a}
  Usages = {u1, u2}
  None = None
  MaxEvents = 4
  MaxText = 2
  MaxLeases = 3
SPECIFICATION ConnectorSpec
CHECK_DEADLOCK FALSE
INVARIANTS ActiveIsAttached StreamIsHonest
PROPERTY AnswersComeFromAttached
