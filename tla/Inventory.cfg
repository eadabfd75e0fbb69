SPECIFICATION AnyLevel
CONSTANTS
  t1 = t1
  s1 = s1
  a1 = a1
  z1 = z1
  d1 = d1
  EndsOf <- MCEndsOf
  Topologies = {t1}
  Services = {s1}
  Stps = {a1, z1}
  Sdps = {d1}
  Ranges <- MCRanges
  Circuits = {c1}
  Procs = {p1, p2}
  MaxSubs = 6
  MaxStarts = 3
  MaxChanges = 2
  InUseGuard = TRUE
SYMMETRY Symmetry
INVARIANTS
  TypeOK
  Bookkeeping
  DuplicatesOnlyFromRaces
  LinksLostOnlyInRaces
  
PROPERTIES
  KeepsTheLock
CHECK_DEADLOCK FALSE
