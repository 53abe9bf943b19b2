SPECIFICATION FairSpec
CONSTANTS
  Deployments = {d1, d2}
  Callers = {c1, c2}
  LeaseTicks = 1
  MaxTime = 2
  MaxAcquisitions = 2
  NoRow = NoRow
CHECK_DEADLOCK FALSE
INVARIANTS
  StartedUnderOwnLease
  LeaseIsBounded
PROPERTIES
  ImplementsLease
  EveryTransactionEnds
