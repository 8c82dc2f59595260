SPECIFICATION Spec
CONSTANTS
  Task = {a, b, c, d}
  Interruptible = {a, b}
  NoTask = NoTask
INVARIANTS
  NoLostWakeUp
