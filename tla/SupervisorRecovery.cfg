SPECIFICATION Spec
CONSTANTS
  Procs = {p1, p2}
  Services = {"api"}
  HealthWindow = 1
  EntryPoints = {"execute", "reconcile"}
  JournalLoss = FALSE
  InspectLoss = TRUE
  MaxCalls = 3
  MaxFaults = 1
  MaxTime = 1
  Free = Free
SYMMETRY ProcSymmetry
CHECK_DEADLOCK FALSE
INVARIANTS
  TypeOK
  OneHealthWindow
  PassedInsideWindow
  ResultsBackedByJournal
  HealthyIsEarned
PROPERTY
  ImplementsExecution
