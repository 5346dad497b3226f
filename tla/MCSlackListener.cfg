SPECIFICATION Spec
CONSTANTS
  own1 = own1
  own2 = own2
  foreign = foreign
  malformed = malformed
  ours = ours
  theirs = theirs
  None = None
  Other = Other
  Overlong = Overlong
  Partial = Partial
  NoLine = NoLine
  Press = {own1, own2, foreign, malformed}
  Malformed = {malformed}
  thread_ts <- MCthread_ts
  slack_ts = ours
  MaxInbox = 2
INVARIANTS
  TypeOK
  OnlyFaultsStopIt
PROPERTIES
  DecidesOwnOnce
  PressIsDecided
CHECK_DEADLOCK FALSE
