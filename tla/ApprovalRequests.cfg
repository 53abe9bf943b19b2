SPECIFICATION FairSpec
CONSTANTS
  Workers = {w1, w2}
  Clients = {c1, c2}
  Keys = {"k1"}
  Users = {"A", "B"}
  Subjects = {"s"}
  OpenIds <- MCOpenIds
  Approvers <- MCApprovers
  UserOf <- MCUserOf
  DefaultUser = "A"
  Events <- MCOneEvent
  Ttl = 1
  MaxTime = 1
  NoRow = NoRow
  Free = Free
CHECK_DEADLOCK FALSE
INVARIANT
  KeyMeansContent
PROPERTY
  EveryDeliveryEnds
