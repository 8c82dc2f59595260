SPECIFICATION FairSpec
CONSTANTS
  Task = {a, b, c}
  Idle = Idle
  AnyChild = AnyChild
  Signalled = {a, b}
  DevReader = {a}
  Careless = {b}
INVARIANTS
  FamilySound
  NoSleepOnZombie
  NoTaskLeaks
PROPERTIES
  ExitWakesWaiters
  WaitReturns
CHECK_DEADLOCK FALSE
