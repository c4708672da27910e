SPECIFICATION RehearsalSpec
CONSTANTS
  Missions <- MCMissions
  MaxRehearsals = 3
CHECK_DEADLOCK FALSE
INVARIANTS
  SupervisedMotion
  TransitionsAreEvents
  FilesFollowAudit
  OutcomeIsTold
