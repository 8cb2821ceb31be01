SPECIFICATION Spec
CONSTANTS
  Tasks = {t1, t2, t3}
  Blocking = {t1, t2}
  NoTask = NoTask
  MaxCalls = 2
  MaxSwitches = 2
INVARIANTS
  TypeOK
  OnePlace
  RemovesFront
  CallbackAfterEnd
PROPERTIES
  NoCallAfterEnd
  WaitLeavesInHand
CHECK_DEADLOCK FALSE
