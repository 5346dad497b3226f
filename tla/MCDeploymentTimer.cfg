SPECIFICATION Spec
CONSTANTS
  MaxTimers = 2
  Trigger = {rollback, certify}
  NoTrigger = NoTrigger
  Unset = Unset
INVARIANTS
  TypeOK
  UndisturbedTimers
PROPERTIES
  TimersEnd
