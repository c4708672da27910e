SPECIFICATION BridgeSpec
CONSTANTS
  RequiredStreams <- MCStreams
  Weight <- MCWeight
  LinearMax <- MCLinearMax
  AngularMax <- MCAngularMax
  Deadline <- MCDeadline
  WarmUp = 1
  Frames <- BridgeFrames
  PulseSets <- MCPulseSets
  Requests <- BridgeRequests
  TickGaps <- MCTickGaps
  NoInputs = NoInputs
  WarnAfter <- MCWarnAfter
  StaleAfter <- MCStaleAfter
  Trusted <- MCTrusted
  RequestLife = 1
  Velocities <- MCVelocities
  BootGap = 2
  MaxStall = 2
INVARIANT MovingMeansHeard
PROPERTY LatchIsForGood
PROPERTY EStopIsTaken
