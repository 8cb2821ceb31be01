SPECIFICATION FairSpec
CONSTANTS
  Tasks = {t1, t2}
  Blocking = {}
  NoTask = NoTask
  MaxCalls = 2
  MaxSwitches = 2
PROPERTIES
  EveryTaskCalledBack
  CallsReturn
CHECK_DEADLOCK FALSE
