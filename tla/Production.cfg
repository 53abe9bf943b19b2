SPECIFICATION Spec
CONSTANTS
  Deployments = {d1, d2}
  Callers = {c1}
  Lease = 1
  MaxTime = 1
  MaxAcquisitions = 3
  NoRow = NoRow
  Procs = {p1, p2}
  Services = {s1, s2}
  Nobody = Nobody
  MaxCalls = 4
  MaxDeaths = 2
SYMMETRY ProductionSymmetry
CHECK_DEADLOCK FALSE
PROPERTIES
  ImplementsExecutions
  FencedOrder
