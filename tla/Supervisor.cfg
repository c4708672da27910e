SPECIFICATION Spec
CONSTANTS
  RequiredStreams <- MCStreams
  Weight <- MCWeight
  LinearMax <- MCLinearMax
  AngularMax <- MCAngularMax
  Deadline <- MCDeadline
  WarmUp = 2
  Frames <- MCFrames
  PulseSets <- MCPulseSets
  Requests <- MCRequests
  TickGaps <- MCTickGaps
  NoInputs = NoInputs
INVARIANTS
  TypeOK
  LatchInv
  ValidationInv
  MotionInv
PROPERTIES
  MotionNeedsSoundInputs
  WatchdogStopsMotion
  LatchRelease
  ImplementsAuthority
  CalmSettles
