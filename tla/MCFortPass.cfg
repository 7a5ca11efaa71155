\* Two payments of one code, the first of which may be refunded, and two
\* requests at a time.
CONSTANTS
  MaxSessions = 2
  Disputed = {1}
  Job = {j1, j2}
SPECIFICATION Spec
INVARIANTS HeldWhilePayable RefundIsFinal FulfilledWasGranted
PROPERTIES GrantedOnce
SYMMETRY Jobs
CHECK_DEADLOCK FALSE
