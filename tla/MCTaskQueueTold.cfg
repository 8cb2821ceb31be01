SPECIFICATION Spec
CONSTANTS
  Tasks = {t1, t2}
  Blocking = {}
  NoTask = NoTask
  MaxCalls = 2
  MaxSwitches = 2
INVARIANTS
  ToldIsSeen
CHECK_DEADLOCK FALSE
