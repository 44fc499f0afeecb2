SPECIFICATION McSpec
CONSTANTS
  Width = 2
  PerHour = 2
  PerDay = 3
  DayOffset = 1
  HistorySpan = 4
  Quiet = 2
  Ahead = 1
  Tolerance = 2
  BandTop = 1
  MaxBuckets = 4
  SlotsPerHour = 2
  HoursPerDay = 2
  Jump = 100
  SuspectMultiple = 5
  MaxSlots = 6
  MaxOddities = 1
  Lengths = {1, 2}
  MaxStoryTime = 3
  MaxOverrides = 2
  MaxAlerts = 1
  Items = {"a", "b", "c", "d"}
  AtZones = {"z"}
  MaxDepth = 2
  Tasks = {"T1", "T2"}
  PerTurn = 2
  PerTask = 3
  MaxEvidence = 3
  MaxTurns = 2
  CallLists <- SmallTurns
  Evidence <- Ledger
  Palettes <- DraftsToTry
INVARIANTS
    ReadingsAgree
    PastIsToldWhole
    RecordsAreKept
    AnswerIsChecked
CHECK_DEADLOCK FALSE
