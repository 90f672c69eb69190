SPECIFICATION Spec
CHECK_DEADLOCK FALSE
SYMMETRY MCAlike
CONSTANTS
  p1 = p1  m1 = m1  m2 = m2  m3 = m3
  Projects = {p1}
  Memories = {m1, m2, m3}
  OwnMemory <- MCOwnMemory
  MaxFailures = 1
INVARIANT SoundUnlessTorn
PROPERTIES
  OnlyRestartsSpoil
  ImplementsWorkingMemory
