SPECIFICATION Spec
CONSTANTS
  Deployments = {d1}
  Callers = {c1}
  Users = {u1, u2}
  Kinds = {"deploy"}
  Lease = 1
  Validity = 2
  Ttl = 1
  BackupMaxAge = 1
  MaxTime = 1
  MaxAcquisitions = 1
  NoRow = NoRow
CHECK_DEADLOCK FALSE
PROPERTY
  AcceptanceStillValid
