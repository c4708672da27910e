CONSTANTS
  Event <- MCEvent
  Mirrored <- MCMirrored
  NoStream = "-"
  StreamFiles <- MCStreamFiles
  Digest <- MCDigest
  Genesis = "0000"
  MaxRuns = 2
SPECIFICATION RecordingSpec
CHECK_DEADLOCK FALSE
INVARIANTS
  AcceptedIsDurable
  CopiesFollowEvents
  EligibleRunIsWhole
  ClosedRunIsEligible
