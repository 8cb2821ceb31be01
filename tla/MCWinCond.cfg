SPECIFICATION FairSpec
CONSTANTS
  Threads = {t1, t2, t3}
  NoThread = NoThread
  Racy = FALSE
  MaxWakens = 2
INVARIANTS
  TypeOK
  QueueHoldsWaiters
  OneAtEvent
  EventStandsForWakens
  PotatoInPlay
  OwedAreCovered
PROPERTIES
  ImplementsCondVar
  OwedGetOut
CHECK_DEADLOCK FALSE
