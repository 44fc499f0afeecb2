SPECIFICATION MCSpec
CONSTANTS
  Engines = {e1, e2}
  Targets = {t1}
  Alerts = {a1, a2}
  NoAlert = NoAlert
  ConsecutiveBreaches = 2
  Cooldown = 3
  Configurations <- Changing
  MaxLatency = 1
  MaxReads = 2
  Faults = {"crash", "rollback", "lostAnswer"}
  MaxFaults = 2
  NumAlerts = 1
  Destinations = {hook, log}
  LogChannel = {log}
  Passes = {p1, p2}
  NoRow = NoRow
  Batch = 2
  Lease = 3
  MaxAttempts = 2
  MaxSend = 1
  MaxOutboxFaults = 1
INVARIANTS
    OneLiveAlert
    NoGhosts
    AlertsAreSound
PROPERTIES
    CooldownOfOneEngine
    DeliveredIsFinal
    AlertsSettle
