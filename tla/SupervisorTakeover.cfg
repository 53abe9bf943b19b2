SPECIFICATION FairSpec
CONSTANTS
  Procs = {p1, p2}
  Services = {"api", "feishu-worker"}
  HealthWindow = 1
  EntryPoints = {"execute", "takeover"}
  JournalLoss = FALSE
  InspectLoss = FALSE
  MaxCalls = 2
  MaxFaults = 1
  MaxTime = 1
  Free = Free
CHECK_DEADLOCK FALSE
PROPERTIES
  TakeoverOnlyWhenQuiescent
  CallsReturn
