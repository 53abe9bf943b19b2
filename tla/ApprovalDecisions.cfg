SPECIFICATION Spec
CONSTANTS
  Workers = {w1, w2}
  Clients = {}
  Keys = {"k1", "k2"}
  Users = {"A", "B"}
  Subjects = {"s"}
  OpenIds <- MCOpenIds
  Approvers <- MCApprovers
  UserOf <- MCUserOf
  DefaultUser = "A"
  Events <- MCEvents
  Ttl = 1
  MaxTime = 2
  NoRow = NoRow
  Free = Free
CHECK_DEADLOCK FALSE
SYMMETRY WorkerSymmetry
INVARIANTS
  TypeOK
  OneDecision
  SeparationOfDuties
  NoLateDecision
  AnswersTruthful
PROPERTY
  ImplementsAuthority
