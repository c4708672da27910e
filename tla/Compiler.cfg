SPECIFICATION CompilerSpec
CONSTANTS
  Clauses <- MCClauses
  Asides <- MCAsides
  MaxClauses = 3
CHECK_DEADLOCK FALSE
INVARIANTS
  CompilerTypeOK
  AcceptedStaysWithinOdd
  NothingIsDropped
  NoUnreviewedPass
