SPECIFICATION FairTerminalSpec
CONSTANTS
  Reader = {a, b}
  Signalled = {b}
  Data = {x, nl, bs, eof}
  Nothing = Nothing
  Garbage = Garbage
  Slots = 2
  Overruns = FALSE
  Newline = nl
  Backspace = bs
  Eof = eof
  Tab = tab
  Ctrl = ctrl
  CapsLock = caps
  KeyCapacity = 1
  Sizes = {4}
INVARIANTS
  QueueSound
  NoSleepOnData
  ReadFits
PROPERTIES
  
  KeyboardServes
