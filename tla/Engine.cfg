SPECIFICATION EngineSpec
CONSTANTS
  RequiredStreams <- MCStreams
  Weight <- MCWeight
  LinearMax <- MCLinearMax
  AngularMax <- MCLinearMax
  Deadline <- MCDeadline
  WarmUp = 20
  Frames <- EngineFrames
  PulseSets <- MCPulseSets
  Requests <- EngineRequests
  TickGaps <- MCTickGaps
  NoInputs = NoInputs
  Period <- MCPeriod
  WarnAfter <- MCWarnAfter
  StaleAfter <- MCStaleAfter
  Confidence <- MCConfidence
  CommandTimeout = 15
  Waypoint <- MCWaypoints
  NoWaypoint = NoWaypoint
  Plan <- MCPlan
  Timeout <- MCTimeout
  MaxAttempts = 1
  BackupDuration = 10
  Position <- MCPosition
  Tolerance <- MCTolerance
  Approach = 800
  SpeedLimit = 40
  MinScore <- MCMinScore
  MinHealthy = 3
  Scenarios <- MCScenarios
CHECK_DEADLOCK FALSE
INVARIANTS
  FaultsFollowTheirWindows
  RunsComeToTheirEnd
PROPERTIES
  SilenceStopsTheRover
  TwoStepsAgree
  KeepoutHolds
  GatewayObeys
