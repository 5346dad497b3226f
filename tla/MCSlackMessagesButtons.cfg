SPECIFICATION Spec
CONSTANTS
  State = {start, deploying, done}
  StartState = start
  Terminal = {done}
  Loop = loop
  Worker = {watcher}
  NoThread = NoThread
  NoButtons = NoButtons
  Empty = Empty
INVARIANTS
  LeavesNoButtons
