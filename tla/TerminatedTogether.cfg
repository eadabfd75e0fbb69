SPECIFICATION DriftSpec
CONSTANTS
  Procs = {p1}
  MaxReservations = 2
  MaxCallbacks = 3
  Ignorable = {}
INVARIANTS
  TerminatedTogether
CHECK_DEADLOCK FALSE
