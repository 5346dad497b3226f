SPECIFICATION Spec
CONSTANTS
  MaxTimers = 2
  Rollback = auto_rollback
  NoTrigger = NoTrigger
  Unset = Unset
PROPERTIES
  EarlyFailureRollsBack
CHECK_DEADLOCK FALSE
