SPECIFICATION SignalsFairSpec
CONSTANTS
  TaskPage = {t}
  k = k
  l = l
  Sender = {k, l}
  Sends <- MCSends
  Sig = {9, 18, 19, 31, 40}
  Catch = {18, 31}
  Mask <- MCMask
INVARIANTS
  NoSignalSleptOn
  HandlersNest
PROPERTIES
  FatalSignalEnds
CHECK_DEADLOCK FALSE
