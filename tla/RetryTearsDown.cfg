CONSTANTS
  Procs = {p1, p2}
  MaxReservations = 3
  MaxCallbacks = 5
SPECIFICATION QuietSpec
CHECK_DEADLOCK FALSE
SYMMETRY Symmetry
INVARIANT RetryTearsDownNothingHeld
