SPECIFICATION MCSpec
CONSTANTS
    Null = Null
    StaleAfter = 0
    Zones = {z1}
    Users = {u1, u2}
    Gateways = {g1, g2}
    Commands = {c1, c2}
    Temps <- Walk
    Durations <- DefaultDuration
    SettingsSpace <- NarrowOrLimited
    RoleSpace <- OperatorOnly
    BaselineSpace <- Designed
    EquipmentSpace <- Faulty
    QualitySpace <- Good
    ClaimLimit = 2
    MaxTime = 1
    MaxFaults = 1
    Now = 5
    Requests <- EnvelopeRequests
    EnvelopeSettings <- SaneLimits
    Worlds <- EnvelopeWorlds
INVARIANTS
    VerdictsAreRight
    OneActiveOverride
    CommandsAreSound
    KeepsToItsLimits
PROPERTIES
    ImplementsLifecycle
SYMMETRY Symmetry
CHECK_DEADLOCK FALSE
