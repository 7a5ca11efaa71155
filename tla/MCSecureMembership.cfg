SPECIFICATION Spec
CONSTANTS
  h = h
  b = b
  j = j
  None = None
  Host = h
  Members = {b}
  Joiner = j
  Writers = {b}
  MaxIds = 3
  MaxDrops = 1
  MaxResumes = 1
CHECK_DEADLOCK FALSE
INVARIANTS ViewsAgree MarkersAgree BarrierLifted
PROPERTIES ReadersAreMembers
