SPECIFICATION SvSpec
CONSTANTS
  Orgs = {"o1", "o2"}
  Attempts = {"p1", "p2"}
  MaxInFlight = 1
  EmailBurst = 1
  SessionTTL = 2
  TicketTTL = 1
  Rotators = {1, 2}
  MaxMoment = 2
  MaxAdmin = 1
  Files <- ChainOfFiles
  MaxAttempts = 4
  MaxMigrations = 3
  PoolConns = {1, 2}
  Jobs = {"j1", "j2", "j3"}
  JobTenant <- ThreeCallers
  JobReadOnly <- OneReader
  LineMax = 2
  MaxText = 6
  Second = 2
  SkewFloor = 4
  Offsets <- ClockOffsets
  MaxTransit = 1
  PlanTTL = 8
  MaxServerTime = 24
  People = {"a", "b"}
  ThreadIds = {"t1", "t2"}
  MaxGraphs = 1
  MaxThreads = 1
  RunDeadline = 1
  ProbeTime = 1
  PlanLife = 2
  MaxBuilt = 2
  MaxClock = 4
  LiveSensors = {"s1"}
  FloorOf <- OnOneFloor
  Floors = {1, 2}
  MaxNow = 3
  STALE_INTERVALS = 1
  MaxLate = 1
  MaxBatch = 2
  MaxRefocus = 1
  MaxFrames = 1
  GraphNodes = {1, 2, 3, 4}
  MaxEdges = 4
  PanelWidth = 600
  NodeW = 128
  NodeH = 40
  RankGap = 68
  MinGapX = 16
  LaneOffset = 12
  LanePitch = 12
  PortPitch = 12
  Pad = 2
INVARIANTS
    PanelReadsTrue
    AdmittedWasEntitled
    MigrationsAreTrue
    ScopesHold
    RouteIsSound
    LayoutIsClear
PROPERTIES
    CredentialsAreSound
    ReadingsAreCurrent
CHECK_DEADLOCK FALSE
