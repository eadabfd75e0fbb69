SPECIFICATION FromServices
CONSTANTS
  t1 = t1
  s1 = s1
  a1 = a1
  z1 = z1
  d1 = d1
  EndsOf <- MCEndsOf
  Topologies = {t1}
  Services = {s1}
  Stps = {a1}
  Sdps = {}
  Ranges <- MCRanges
  Circuits = {}
  Procs = {p1, p2}
  MaxSubs = 3
  MaxStarts = 3
  MaxChanges = 2
  InUseGuard = TRUE
SYMMETRY Symmetry
INVARIANTS
  LinkResolves
CHECK_DEADLOCK FALSE
