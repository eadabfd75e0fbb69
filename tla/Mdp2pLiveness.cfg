CONSTANTS
  Procs = {p1, p2}
  MaxReservations = 2
  MaxCallbacks = 2
SPECIFICATION FairSpec
CHECK_DEADLOCK FALSE
PROPERTY ProcessSettles
