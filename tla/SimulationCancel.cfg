SPECIFICATION MCSpec
CONSTANTS
  Tools = {a, b}
  Calling = {a}
  People = {"panel"}
  Specs = 1
  Intervals = 1
  MaxConcurrentRuns = 2
  RequestTimeout = 1
  RunDeadline = 1
  SlotLease = 3
  MaxPolls = 1
  MaxRuns = 2
  MaxFaults = 1
  MaxCommands = 2
  PollSlots = {1, 2}
  SeedTotal = 1
  MaxTotal = 3
  Sizes <- FaultSizes
  MaxFeedFaults = 1
  MaxRestarts = 1

PROPERTIES CancelledStays
CHECK_DEADLOCK FALSE
