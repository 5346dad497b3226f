SPECIFICATION Spec
CONSTANTS
  None = None
  Timestamp = {0, 1, 2, 3, 4}
  start_timestamp = 1
  window_duration = 2
  percent_of_duration = 50
  MaxArrivals = 6
INVARIANTS
  TypeOK
  VerdictMatchesHistory
  CleanWindowDecides
  TextNeverOverclaims
PROPERTIES
  PreexistingIsIgnored
  ImplementsVerdict
CHECK_DEADLOCK FALSE
