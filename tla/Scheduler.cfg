SPECIFICATION Spec
CONSTANTS
  Task = {a, b, c}
  Idle = Idle
  NoTask = NoTask
  UserTask = {a, b, c}
  Mortal = {a, b, c}
  Sleeps = {"Interruptible", "Uninterruptible", "Stopping"}
SYMMETRY TaskSymmetry
INVARIANTS
  NoTaskLost
  NoTickLost
PROPERTIES
  KeepsItsTurn
  
  ImplementsRunQueue
CHECK_DEADLOCK FALSE
