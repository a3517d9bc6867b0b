SPECIFICATION FairSpec
CONSTANTS
  Requests = {r1, r2, r3, r4, r5}
  Limits = {2}
INVARIANTS
  TypeOK
  SlotsConserved
  CountersTellTheTruth
  NoLostWakeup
  DequeIsTheWaiters
PROPERTIES
  ShedOnlyWhenFull
  WaitersAreServed
  ImplementsSlotPool
