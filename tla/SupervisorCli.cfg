SPECIFICATION Spec
CONSTANTS
  Procs = {p1, p2}
  Services = {"api"}
  HealthWindow = 1
  EntryPoints = {"execute"}
  JournalLoss = TRUE
  InspectLoss = TRUE
  MaxCalls = 3
  MaxFaults = 2
  MaxTime = 1
  Free = Free
SYMMETRY ProcSymmetry
CHECK_DEADLOCK FALSE
INVARIANTS
  AtMostOneMutation
  SubmissionIsDurable
  SingleVerdict
