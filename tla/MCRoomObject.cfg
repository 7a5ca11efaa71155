SPECIFICATION Spec
CONSTANTS
  a = a
  b = b
  None = None
  Devices = {a, b}
  MaxConns = 2
  MaxRev = 3
  MaxChunks = 2
  MaxFaults = 2
SYMMETRY Symmetry
INVARIANTS StoredIsWhole MemoryIsStored AlarmIsAwaited
CHECK_DEADLOCK FALSE
