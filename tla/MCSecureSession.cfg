SPECIFICATION Spec
CONSTANTS
  h = h
  m = m
  None = None
  Devices = {h, m}
  Host = h
  Kinds = {"event", "update"}
  MaxIds = 2
  MaxDrops = 1
  MaxResumes = 2
INVARIANTS NoKeyReuse NothingSkipped AcceptedStays CausallyNext
CHECK_DEADLOCK FALSE
