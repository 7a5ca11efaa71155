\* Three or four members that play every game.
CONSTANTS
  h = h
  a = a
  b = b
  c = c
  NoDevice = NoDevice
  Device = {h, a, b, c}
  Founder = h
  MaxGameQueue = 2
  MaxGameIds = 2
  Kinds = {"vote", "rps", "ttt", "koth", "saboteur"}
SPECIFICATION Spec
INVARIANTS QueueWaitsForCause RefusedForCause
PROPERTIES RemovedByMajority PaidOnce
CONSTRAINT FewGames
SYMMETRY Others
CHECK_DEADLOCK FALSE
