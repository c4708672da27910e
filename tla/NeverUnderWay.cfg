SPECIFICATION NodeSpec
CONSTANTS
  Waypoint <- MCWaypoint
  NoWaypoint = NoWaypoint
  Plan <- MCPlan
  Timeout <- MCTimeout
  MaxAttempts = 0
  BackupDuration = 1
  MissionInputs <- NodeInputs
  MinimumSensorHealth = 3
  SafetySignals <- MCSafetySignals
  PoseSignals <- MCPoseSignals
  Gaps <- MCGaps
  Depth = 1
PROPERTY TrustsSafetyState
