SPECIFICATION Spec
CONSTANTS
  Deployments = {d1}
  Callers = {c1, c2}
  Users = {u1, u2}
  Kinds = {"deploy", "rollback"}
  Lease = 1
  Validity = 4
  Ttl = 1
  BackupMaxAge = 1
  MaxTime = 3
  MaxAcquisitions = 1
  NoRow = NoRow
SYMMETRY CallerSymmetry
CHECK_DEADLOCK FALSE
INVARIANTS
  AttemptIsAuthorised
  StartIsAtomic
PROPERTIES
  ImplementsLifecycle
  BackupIsRecent
