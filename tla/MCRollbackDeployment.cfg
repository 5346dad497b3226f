SPECIFICATION Spec
CONSTANTS
  MaxTimers = 2
  Rollback = auto_rollback
  NoTrigger = NoTrigger
  Unset = Unset
INVARIANTS
  TypeOK
  CountdownFollowsSources
PROPERTIES
  RollbackIsJustified
  FailureRollsBack
CHECK_DEADLOCK FALSE
