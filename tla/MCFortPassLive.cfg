\* One payment, and requests that die again and again.
CONSTANTS
  MaxSessions = 1
  Disputed = {1}
  Job = {j1, j2}
SPECIFICATION FairSpec
PROPERTIES PaidIsServed
CHECK_DEADLOCK FALSE
