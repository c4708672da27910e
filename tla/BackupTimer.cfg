SPECIFICATION Spec
CONSTANTS
  Waypoint <- MCWaypoint
  NoWaypoint = NoWaypoint
  Plan <- MCPlan
  Timeout <- MCTimeout
  MaxAttempts = 1
  BackupDuration = 2
  MissionInputs <- MCInputs
PROPERTY BackupStartsItsTimer
