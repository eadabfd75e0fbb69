CONSTANTS
  Procs = {p1}
  MaxReservations = 2
  MaxCallbacks = 3
SPECIFICATION Spec
CHECK_DEADLOCK FALSE
INVARIANT RetryAvailable
