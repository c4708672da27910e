SPECIFICATION Spec
CONSTANTS
  RequiredStreams <- MCStreams
  Weight <- MCWeight
  LinearMax <- MCLinearMax
  AngularMax <- MCAngularMax
  Deadline <- MCDeadline
  WarmUp = 3
  Frames <- MCFrames
  PulseSets <- MCPulseSets
  Requests <- MCRequests
  TickGaps <- MCTickGaps
  NoInputs = NoInputs
PROPERTY PromotionFollowsFullRecovery
