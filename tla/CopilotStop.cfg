SPECIFICATION AskSpec
CONSTANTS
  Decisions <- MCDecisions
  Viewers = {TRUE, FALSE}
  SimAvailable = TRUE
  Failures = FALSE
  MaxWaves = 1
  MaxTasksPerWave = 2
  MaxTasksPerRequest = 2
  MaxSimulateTasks = 1
  MaxConcurrency = 2
  MaxPlannerRepairs = 1
  MaxModelCalls = 5
  MaxSpecialistTurns = 1
  MaxEvidence = 2
  MaxDrafts = 2
  DeadlineS = 2
  PlanTtlS = 2
  GrantTtlS = 2
  Commands = 2
  MaxRequests = 1
  MaxClock = 5
  Threads = {1, 2}
  Specialists = {"diagnose", "analyse"}
  MaxPanelRequests = 2
  MaxUnread = 1
  MaxGets = 1
  MaxFaults = 1
  GetMayFail = FALSE
INVARIANT StopIsHeard
CHECK_DEADLOCK FALSE
