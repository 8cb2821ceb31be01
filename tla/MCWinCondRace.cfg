SPECIFICATION Spec
CONSTANTS
  Threads = {t1, t2, t3, t4}
  NoThread = NoThread
  Racy = TRUE
  MaxWakens = 3
INVARIANTS
  OwedAreCovered
CHECK_DEADLOCK FALSE
