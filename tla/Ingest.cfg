SPECIFICATION McSpec
CONSTANTS
  Tenants = {s1, s2}
  Sensors = {s1, s2}
  TenantOf <- OwnTenant
  Times = {now}
  BufferMax = 3
  FlushMax = 3
  MaxPush = 2
  MaxReadings = 4
  MaxWriteFaults = 2
  GateTenants <- TwoTenants
  ExternalIds = {"x"}
  MaxSensors = 1
  UnknownMax = 1
  UnknownRetry = 1
  MaxSkew = 1
  MaxGateTime = 1
  MaxProvision = 1
  MaxAsks = 2
  MaxLoadFails = 1
  Callers = {"k1", "k2"}
  Burst = 2
  MaxKeys = 1
  MaxCost = 2
  MaxClock = 3
  MaxLookups = 2
  LiveAlerts = {"a1"}
  Socks = {1, 2}
  Backlog = 1
  MaxConnections = 1
  MaxAlertEvents = 1
  AlertListLimit = 1
  MaxLiveFaults = 1
INVARIANTS
    WriterIsSound
    GateIsSound
    LimiterIsSound
    LiveIsSound
PROPERTIES
    WriterCatchesUp
    PointsGetRules
    PageSettles
CHECK_DEADLOCK FALSE
