SPECIFICATION FairSpec
CONSTANTS
  Task = {a, b, c}
  Interruptible = {}
  NoTask = NoTask
INVARIANTS
  CountAccounts
PROPERTIES
  ImplementsMutex
