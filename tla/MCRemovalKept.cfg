SPECIFICATION Spec
CONSTANTS
  h = h
  b = b
  j = j
  None = None
  Host = h
  Members = {b}
  Joiner = j
  Writers = {b}
  MaxIds = 2
  MaxDrops = 1
  MaxResumes = 1
CHECK_DEADLOCK FALSE
INVARIANT RemovalKept
