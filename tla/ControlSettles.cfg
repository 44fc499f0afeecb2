SPECIFICATION FairSpec
CONSTANTS
    Null = Null
    StaleAfter = 0
    Zones = {z1}
    Users = {u1}
    Gateways = {g1}
    Commands = {c1}
    Temps <- OneStep
    Durations <- DefaultDuration
    SettingsSpace <- Switchable
    RoleSpace <- Revocable
    BaselineSpace <- MaybeDesigned
    EquipmentSpace <- Healthy
    QualitySpace <- AnyQuality
    ClaimLimit = 2
    MaxTime = 2
    MaxFaults = 1
INVARIANTS
    TypeOK
PROPERTIES
    EveryCommandSettles
    KillSwitchHolds
