SPECIFICATION Spec
CONSTANTS
  Deployments = {d1, d2}
  Callers = {c1}
  Lease = 1
  MaxTime = 1
  MaxAcquisitions = 2
  NoRow = NoRow
  Procs = {p1, p2}
  Services = {s1, s2}
  Nobody = Nobody
  MaxCalls = 2
  MaxDeaths = 1
SYMMETRY ProductionSymmetry
CHECK_DEADLOCK FALSE
INVARIANT
  OneExecutor
