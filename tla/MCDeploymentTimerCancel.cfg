SPECIFICATION Spec
CONSTANTS
  MaxTimers = 2
  Trigger = {rollback, certify}
  NoTrigger = NoTrigger
  Unset = Unset
INVARIANTS
  CancelHolds
