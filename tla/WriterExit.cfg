SPECIFICATION WriterSpec
CONSTANTS
    Tenants = {s1}
    Sensors = {s1}
    TenantOf <- OwnTenant
    Times = {now, later}
    BufferMax = 3
    FlushMax = 3
    MaxPush = 1
    MaxReadings = 2
    MaxWriteFaults = 0
INVARIANT NothingLostOnExit
CHECK_DEADLOCK FALSE
